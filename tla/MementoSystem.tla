--------------------------- MODULE MementoSystem ---------------------------
(***************************************************************************)
(* Memento in full detail: the transaction handlers of MementoAppServer    *)
(* calling write_call_list_entry of the CallListStoreProcessor.  Both live *)
(* and die with the Sprout process; the dialog ids in the Route headers    *)
(* and the lists in Cassandra survive it.                                  *)
(*                                                                         *)
(* The processor's variables have the names they have in Memento, but for  *)
(* workerPc and cassClock, its pc and clock.                               *)
(***************************************************************************)
EXTENDS MementoAppServer

CONSTANTS
  Calls, MaxCallListLength, Workers, Requests, StoredBefore, NotifierAttached,
  MaxRestarts, NoEntry,  (* As in CallListStoreProcessor.                   *)
  NoCallListRequest,     (* Its NoRequest.                                  *)
  CallNumber             (* The place of a (timestamp, id) pair among Calls.*)

VARIABLES
  queue, pool, entry, fate, workerPc, clr, cassTimestamp, recordsToDelete,
  live, stamp, cassClock, stats, owed, excused, restarts, lost

-----------------------------------------------------------------------------
(* The timestamps and ids of calls; those without a key have no id.         *)
CallPairs == (0..MaxTime + Radix) \X (0..Cardinality(Txns))

CallFragment == [call : Calls, type : Opening \cup {"END"}]

NewCalls == {CallNumber[c] : c \in CallNames}

(* What write_call_list_entry is called with.                               *)
CallListEntry(e) ==
  [impu |-> e.impu, fragment |-> [call |-> CallNumber[<<e.timestamp, e.id>>], type |-> e.type]]

Numbered(k) == [impu |-> k.impu, call |-> CallNumber[k.call]]

P == INSTANCE Memento
  WITH Impus <- MaybeUser, Entries <- [impu : MaybeUser, fragment : CallFragment],
       NoRequest <- NoCallListRequest, pc <- workerPc, clock <- cassClock,
       joined <- {Numbered(k) : k \in Joined},
       inProgress <- {Numbered(k) : k \in InProgress},
       asked <- {CallListEntry(e) : e \in Written}

(* The store sorts by timestamp first; ids only tell calls apart.           *)
ASSUME CallNumberAssumption ==
  /\ CallNumber \in [CallPairs -> Calls]
  /\ \A c, d \in CallPairs : CallNumber[c] = CallNumber[d] => c = d
  /\ \A c, d \in CallPairs : c[1] < d[1] => CallNumber[c] < CallNumber[d]
ASSUME ProcessorAssumption ==
  /\ Calls \subseteq Nat /\ MaxCallListLength \in Nat /\ MaxRestarts \in Nat
  /\ NotifierAttached \in BOOLEAN
  /\ NoCallListRequest \notin Requests
  /\ NoEntry \notin [impu : MaybeUser, fragment : CallFragment]
(* Lists are finite; what they hold is older than the calls to come.        *)
ASSUME StoredBeforeAssumption ==
  /\ StoredBefore \in [MaybeUser -> SUBSET CallFragment]
  /\ \A i \in MaybeUser : /\ IsFiniteSet(StoredBefore[i])
                          /\ \A f \in StoredBefore[i] : f.call \notin NewCalls

processorVars == <<queue, pool, entry, fate, workerPc, clr, cassTimestamp, recordsToDelete,
                   live, stamp, cassClock, stats, owed, excused, restarts, lost>>
systemVars == <<vars, processorVars>>

-----------------------------------------------------------------------------
SystemInit == Init /\ P!Init /\ lost = {}

(* A step of a handler, and the request it allocates if it is the step that *)
(* calls write_call_list_entry.                                             *)
ServerStep(t) ==
  /\ Receipt(t) \/ Handler(t)
  /\ IF written' = written
       THEN UNCHANGED processorVars
       ELSE P!WriteEntry(CallListEntry(written'[t][Len(written'[t])]))

TimePasses == Tick /\ UNCHANGED processorVars

SystemWork(w) == P!Work(w) /\ UNCHANGED vars

SystemRestart == Restart /\ P!LoseWork

SystemNext ==
  \/ TimePasses
  \/ \E t \in Txns : ServerStep(t)
  \/ \E w \in Workers : SystemWork(w)
  \/ SystemRestart

SystemSpec == SystemInit /\ [][SystemNext]_systemVars

-----------------------------------------------------------------------------
(* Properties.                                                              *)

(* Every call is that of an initial INVITE or BYE whose owner is known.     *)
IdentitiesAsserted == \A r \in Initial : Originating(r) => r.pai # NoUser

(* What the lists gain is true: a fragment that was not there before is one *)
(* that a transaction wrote into the list of the subscriber its INVITE      *)
(* names - by P-Asserted-Identity if it is originating, which a diverted    *)
(* one is as well, and by the request URI if not - though handlers race for *)
(* the struct tm, BYEs find their call only by the dialog id, and the write *)
(* may come long after the transaction or the process that asked for it.    *)
ListsHoldOwnCalls ==
  \A i \in Users : \A f \in live[i] \ StoredBefore[i] :
    \E t \in Txns, c \in CallNames :
      /\ f.call = CallNumber[c]
      /\ c = <<tsx[t].start_cassandra, tsx[t].unique_id>> /\ tsx[t].includes_initial
      /\ i = IF Originating(req[t]) THEN req[t].pai ELSE req[t].ruri
      /\ f.type # "END" => \E k \in 1..Len(written[t]) : written[t][k].type = f.type

(* Where originating requests carry an identity, the handlers in detail do  *)
(* to the processor what Memento allows CallEntries to do to it.            *)
ImplementsMemento == P!MementoSpec
=============================================================================
