------------------------------ MODULE Memento ------------------------------
(***************************************************************************)
(* The whole of Memento: the handlers, as CallEntries describes them       *)
(* (MementoAppServer is proved to implement it), and the detailed          *)
(* CallListStoreProcessor.  They meet in write_call_list_entry, which a    *)
(* handler calls with its last step, and in the restart of Sprout, which   *)
(* takes the transactions and the queue but neither the dialogs nor        *)
(* Cassandra.                                                              *)
(***************************************************************************)
EXTENDS CallListStoreProcessor

CONSTANT NewCalls   (* The calls made while Sprout runs.                    *)

VARIABLES
  joined, inProgress, asked,   (* As in CallEntries.                        *)
  lost   (* History: entries whose write failed or was never attempted.     *)

Handlers == INSTANCE CallEntries WITH Calls <- NewCalls, Unnamed <- {}

ASSUME NewCallsAssumption ==
  /\ NewCalls \subseteq Calls
  /\ \A i \in Impus : \A f \in StoredBefore[i] : f.call \notin NewCalls
  /\ \A k \in Handlers!Key, type \in FragmentType : Handlers!EntryOf(k, type) \in Entries

handlerVars == <<joined, inProgress, asked>>
mementoVars == <<vars, handlerVars, lost>>

-----------------------------------------------------------------------------
MementoInit == Init /\ Handlers!Init /\ lost = {}

HandlerJoins(k) == Handlers!Join(k) /\ UNCHANGED <<vars, lost>>

(* What the processor does for a handler that calls write_call_list_entry.  *)
WriteEntry(e) ==
  /\ \E r \in Requests : WriteCallListEntry(r, e)
  /\ UNCHANGED lost

HandlerOpens(k, type) == Handlers!Open(k, type) /\ WriteEntry(Handlers!EntryOf(k, type))

HandlerEnds(k) == Handlers!End(k) /\ WriteEntry(Handlers!EntryOf(k, "END"))

(* A worker has its request but has not written it.                         *)
Unwritten(w) == pc[w] \in {"stamp", "write"}

Work(w) ==
  /\ Pop(w) \/ ProcessWork(w) \/ Exception(w)
  /\ lost' = IF Unwritten(w) /\ pc'[w] \in {"report", "idle"}
               THEN lost \cup {entry[clr[w]]}
               ELSE lost

WorkerStep(w) == Work(w) /\ UNCHANGED handlerVars

LoseWork ==
  /\ Restart
  /\ lost' = lost \cup {entry[r] : r \in Queued}
                  \cup {entry[clr[w]] : w \in {v \in Workers : Unwritten(v)}}

SproutRestarts == LoseWork /\ Handlers!LoseTransactions

MementoNext ==
  \/ \E k \in Handlers!Key :
       \/ HandlerJoins(k)
       \/ \E type \in Handlers!Outcomes : HandlerOpens(k, type)
       \/ HandlerEnds(k)
  \/ \E w \in Workers : WorkerStep(w)
  \/ SproutRestarts

MementoSpec == MementoInit /\ [][MementoNext]_mementoVars

-----------------------------------------------------------------------------
(* Properties.                                                              *)

(* The handlers' variables range over calls and entries; what is in the     *)
(* pool or lost was asked for, and every call still in progress has joined. *)
MementoTypeOK ==
  /\ joined \subseteq Handlers!Key
  /\ inProgress \subseteq joined
  /\ asked \subseteq Entries
  /\ Pending \cup lost \subseteq asked

(* Nothing a handler asks for vanishes unnoticed, in whatever order the     *)
(* workers take a call's entries and though Sprout is restarted: an entry   *)
(* is in its list, on its way there, lost with its write, or it has made    *)
(* room for MaxCallListLength newer calls.                                  *)
EntriesAccountedFor ==
  \A e \in asked :
    \/ e.fragment \in live[e.impu]
    \/ e \in Pending
    \/ e \in lost
    \/ /\ MaxCallListLength > 0
       /\ Cardinality(NewerCalls(live[e.impu], e.fragment)) >= MaxCallListLength

(* No call is ever recorded both as answered and as rejected, whatever      *)
(* final responses and BYEs it sees and however late they are written.      *)
CallHasOneOutcome ==
  \A i \in Impus, c \in NewCalls :
    ~ /\ EverStored(i, [call |-> c, type |-> "BEGIN"])
      /\ EverStored(i, [call |-> c, type |-> "REJECTED"])

(* The statistic of failed calls counts calls: none twice, and none that    *)
(* did not reach Cassandra.                                                 *)
FailedCallsCountedOnce ==
  stats.failed <= Cardinality({k \in Handlers!Key :
                     EverStored(k.impu, [call |-> k.call, type |-> "REJECTED"])})
=============================================================================
