--------------------------- MODULE MCCallListTrim ---------------------------
(***************************************************************************)
(* The selection rule of CallListTrim at work on the list of one           *)
(* subscriber, written by one worker: every list of a small set of calls,   *)
(* and what reading it now and then does for a list that keeps being        *)
(* written.                                                                *)
(***************************************************************************)
EXTENDS CallListTrim, Sequences

ASSUME ListAssumption == IsFiniteSet(Calls)

VARIABLE stored  (* The stored fragments of one subscriber.                 *)

Init == stored \in SUBSET Fragment

(* process_work writes f and does not read the list, the write fails after  *)
(* it has been applied, or the deletion of the surplus fails.               *)
Record(f) == stored' = stored \cup {f}

(* process_work writes f, reads the list and deletes what is too much.      *)
RecordAndTrim(f) ==
  LET written == stored \cup {f} IN
  /\ MaxCallListLength > 0 /\ TrimNeeded(written)
  /\ stored' = written \ RecordsToDelete(written)

Next == \E f \in Fragment : Record(f) \/ RecordAndTrim(f)

Spec == Init /\ [][Next]_stored

-----------------------------------------------------------------------------
Earliest(S) == CHOOSE f \in S : \A g \in S \ {f} : Before(f, g)

(* What is left of S when its k earliest fragments have been taken.         *)
Remaining(S) ==
  LET rest[k \in 0..Cardinality(S)] ==
        IF k = 0 THEN S ELSE rest[k - 1] \ {Earliest(rest[k - 1])}
  IN rest

(* The vector get_call_fragments_sync returns: S, sorted by selection.      *)
Records(S) == [k \in 1..Cardinality(S) |-> Earliest(Remaining(S)[k - 1])]

(* The loop that pushes records[0] to records[num_to_delete - 1] stays      *)
(* within the vector of the list and selects exactly RecordsToDelete.       *)
TrimTakesVectorPrefix ==
  LET records == Records(stored) IN
  TrimNeeded(stored) =>
    /\ NumToDelete(stored) \in 1..Len(records)
    /\ RecordsToDelete(stored) = {records[k] : k \in 1..NumToDelete(stored)}

(* Every END that is selected leaves one call more than the limit, so a     *)
(* trim that meets an answered call does not reach the limit at once.       *)
TrimLeavesMaxPlusEnds ==
  LET doomed == RecordsToDelete(stored) IN
  TrimNeeded(stored) =>
    CallCount(stored \ doomed) = MaxCallListLength + Cardinality({f \in doomed : f.type = "END"})

(* The newest MaxCallListLength calls survive a trim.                       *)
TrimKeepsNewestCalls ==
  \A f \in stored :
    IsCall(f) /\ Cardinality(NewerCalls(stored, f)) < MaxCallListLength
      => f \notin RecordsToDelete(stored)

(* A list under load does not outgrow its trims, though only one write in   *)
(* CheckInterval reads it and a trim takes END records for calls: each trim *)
(* deletes at least as many records as are written, on average, between two *)
(* readings, the one it comes with included.                                *)
TrimsKeepPace ==
  [][\A f \in Fragment :
       RecordAndTrim(f) =>
         Cardinality(stored') + CheckInterval <= Cardinality(stored \cup {f})]_stored
=============================================================================
