---------------------------- MODULE CallListTrim ----------------------------
(***************************************************************************)
(* The arithmetic and the selection rule of call list trimming: the pure   *)
(* part of CallListStoreProcessor::Pool::is_call_trim_needed.              *)
(*                                                                         *)
(* A stored fragment is identified by the call it belongs to and by its    *)
(* type.  A call stands for the pair (timestamp, id) of a CallFragment,    *)
(* numbered in the order in which the store sorts those pairs, so a list   *)
(* returned by get_call_fragments_sync is the set of its fragments: the    *)
(* index of a fragment in the returned vector is the number of fragments   *)
(* before it.                                                              *)
(***************************************************************************)
EXTENDS Integers, FiniteSets

CONSTANTS
  Calls,              (* The calls, numbered in the store's sort order.     *)
  MaxCallListLength   (* max_call_list_length: calls to keep, 0 = no limit. *)

ASSUME CallsAssumption == Calls \subseteq Nat
ASSUME MaxLengthAssumption == MaxCallListLength \in Nat

-----------------------------------------------------------------------------
FragmentType == {"BEGIN", "END", "REJECTED"}

Fragment == [call : Calls, type : FragmentType]

(* Within a call the store sorts the fragments by the name of their type.   *)
TypeRank(type) ==
  IF type = "BEGIN" THEN 0 ELSE IF type = "END" THEN 1 ELSE 2

SortKey(f) == 3 * f.call + TypeRank(f.type)

Before(f, g) == SortKey(f) < SortKey(g)

(* The index of f in the vector that holds the fragments of S.              *)
IndexOf(S, f) == Cardinality({g \in S : Before(g, f)})

-----------------------------------------------------------------------------
(* A call contributes one BEGIN or one REJECTED; counting its END as well   *)
(* would count an answered call twice.                                      *)
IsCall(f) == f.type \in {"BEGIN", "REJECTED"}

(* Mutant: an answered call is counted by its BEGIN and again by its END.   *)
CallCount_WithEnds(S) == Cardinality(S)

CallCount(S) == Cardinality({f \in S : IsCall(f)})

(* The list is read for one write in every CheckInterval, rounded up.       *)
CheckInterval ==
  MaxCallListLength \div 10 + (IF MaxCallListLength % 10 # 0 THEN 1 ELSE 0)

(* More than 110% of the configured length, without the fraction.           *)
TrimNeeded(S) == 10 * CallCount(S) > 11 * MaxCallListLength

NumToDelete(S) == CallCount(S) - MaxCallListLength

(* Mutant: one record too many is taken.                                    *)
RecordsToDelete_OneTooMany(S) == {f \in S : IndexOf(S, f) <= NumToDelete(S)}

(* Mutant: the vector is read from its newest end.                          *)
RecordsToDelete_FromNewest(S) ==
  {f \in S : Cardinality({g \in S : Before(f, g)}) < NumToDelete(S)}

(* Mutant: the loop stops at the first END, so an answered call blocks it.  *)
RecordsToDelete_StopAtEnd(S) ==
  {f \in S : /\ IndexOf(S, f) < NumToDelete(S)
             /\ \A g \in S : (Before(g, f) \/ g = f) => IsCall(g)}

(* The first NumToDelete records of the vector, whatever their type.        *)
RecordsToDelete(S) == {f \in S : IndexOf(S, f) < NumToDelete(S)}

(* The calls of S that sort after f.                                        *)
NewerCalls(S, f) == {g \in S : IsCall(g) /\ Before(f, g)}
=============================================================================
