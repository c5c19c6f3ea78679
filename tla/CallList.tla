------------------------------ MODULE CallList ------------------------------
(***************************************************************************)
(* What CallListStoreProcessor promises of the call lists, without queue,  *)
(* threads, timestamps or failures: a list changes only by a record that   *)
(* was asked for, or by giving up records while enough newer calls are     *)
(* in it.                                                                  *)
(***************************************************************************)
EXTENDS CallListTrim

CONSTANTS
  Impus,         (* The subscribers.                                        *)
  Entries,       (* What may be asked to be recorded.                       *)
  StoredBefore   (* The lists at the start.                                 *)

VARIABLES
  list,     (* The records in each subscriber's list.                       *)
  pending   (* The entries asked for and not dealt with.                    *)

-----------------------------------------------------------------------------
Init == list = StoredBefore /\ pending = {}

(* Someone asks for an entry; the answer may never come.                    *)
Ask(e) == pending' = pending \cup {e} /\ UNCHANGED list

(* An entry that is asked for is recorded, once or again.                   *)
Record(e) ==
  /\ e \in pending
  /\ list' = [list EXCEPT ![e.impu] = @ \cup {e.fragment}]
  /\ UNCHANGED pending

(* Entries are dealt with, recorded or not.                                 *)
Settle(D) == pending' = pending \ D /\ UNCHANGED list

(* The records that may go: the list is limited, and as many newer calls as *)
(* the limit allows are in it at that moment.                               *)
Expendable(S) ==
  {f \in S : /\ MaxCallListLength > 0
             /\ Cardinality(NewerCalls(S, f)) >= MaxCallListLength}

GiveUp(i, D) == list' = [list EXCEPT ![i] = @ \ D] /\ UNCHANGED pending

Next ==
  \/ \E e \in Entries : Ask(e) \/ Record(e)
  \/ \E D \in SUBSET pending : Settle(D)
  \/ \E i \in Impus : \E D \in SUBSET Expendable(list[i]) : GiveUp(i, D)

Spec == Init /\ [][Next]_<<list, pending>>
=============================================================================
