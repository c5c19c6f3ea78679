----------------------- MODULE CallListStoreProcessor -----------------------
(***************************************************************************)
(* CallListStoreProcessor: the queue of call list requests and the pool of *)
(* worker threads that write them to Cassandra, trim the call list they    *)
(* wrote to, notify the listener of the change and report to the load      *)
(* monitor.  Every shared effect of process_work is a step of its own, so  *)
(* the workers interleave as the threads do.                               *)
(*                                                                         *)
(* External, and modelled from how process_work uses them: the thread pool *)
(* (a FIFO queue; stopping it ends each worker after its current request), *)
(* the Cassandra row of a subscriber (the column with the later timestamp  *)
(* wins and a deletion wins a tie; a failed operation may or may not have  *)
(* been applied) and the restart of the Sprout process.                    *)
(***************************************************************************)
EXTENDS CallListTrim, Sequences

CONSTANTS
  Workers,       (* The worker threads of the pool.                         *)
  Requests,      (* The CallListRequest objects that may be allocated.      *)
  Impus,         (* The subscribers (call list owners).                     *)
  Entries,       (* What write_call_list_entry may be asked to write.       *)
  StoredBefore,  (* The fragments each list holds before Sprout starts.     *)
  NotifierAttached, (* HttpNotifier was given a URL it could parse.         *)
  MaxRestarts,   (* Bound: how often Sprout may be restarted.               *)
  NoRequest,     (* The NULL CallListRequest.                               *)
  NoEntry        (* The contents of an object that is not allocated.        *)

ASSUME EntriesAssumption ==
  /\ Entries \subseteq [impu : Impus, fragment : Fragment]
  /\ NoEntry \notin Entries
ASSUME RequestsAssumption == NoRequest \notin Requests
ASSUME StoredAssumption ==
  /\ StoredBefore \in [Impus -> SUBSET Fragment]
  /\ \A i \in Impus : IsFiniteSet(StoredBefore[i])
ASSUME RestartsAssumption == MaxRestarts \in Nat
ASSUME NotifierAssumption == NotifierAttached \in BOOLEAN

VARIABLES
  queue,            (* The pool's queue of requests.                        *)
  pool,             (* Lifecycle of the pool.                               *)
  entry,            (* The entry each allocated request asks to write.      *)
  fate,             (* History: what became of each request; it is settled *)
                    (* when it was reported and deleted, or died with the   *)
                    (* process, and leaked when an exception gave it up.    *)
  pc,               (* Where each worker is in process_work.                *)
  clr,              (* The request each worker processes.                   *)
  cassTimestamp,    (* cass_timestamp of each worker.                       *)
  recordsToDelete,  (* records_to_delete of each worker.                    *)
  live,             (* Cassandra: the fragments a read of a list returns.   *)
  stamp,            (* Cassandra: timestamp of the last write or deletion.  *)
  clock,            (* What generate_timestamp last returned; 0 before.     *)
  stats,            (* _stat_completed_ and _stat_failed_calls_recorded.    *)
  owed,             (* History: lists changed since their last notification.*)
  excused,          (* History: ... where the notifying thread was lost.    *)
  restarts          (* Number of restarts so far.                           *)

poolVars  == <<queue, pool, entry, fate>>
workVars  == <<pc, clr, cassTimestamp, recordsToDelete>>
storeVars == <<live, stamp>>
noteVars  == <<owed, excused>>
vars == <<poolVars, workVars, storeVars, clock, stats, noteVars, restarts>>

-----------------------------------------------------------------------------
Busy == {"stamp", "write", "check", "trim", "notify", "report"}
PC == Busy \cup {"idle", "exited"}
Fates == {"new", "queued", "working", "settled", "leaked"}

Queued == {queue[k] : k \in 1..Len(queue)}
Impu(w) == entry[clr[w]].impu

(* The worker still owes its request's list a notification.                 *)
Owes(w, i) == pc[w] \in {"check", "trim", "notify"} /\ Impu(w) = i

Goto(w, label) == pc' = [pc EXCEPT ![w] = label]

Init ==
  /\ queue = <<>>
  /\ pool = "running"
  /\ entry = [r \in Requests |-> NoEntry]
  /\ fate = [r \in Requests |-> "new"]
  /\ pc = [w \in Workers |-> "idle"]
  /\ clr = [w \in Workers |-> NoRequest]
  /\ cassTimestamp = [w \in Workers |-> 0]
  /\ recordsToDelete = [w \in Workers |-> {}]
  /\ live = StoredBefore
  /\ stamp = [i \in Impus |-> [f \in Fragment |-> 0]]
  /\ clock = 0
  /\ stats = [completed |-> 0, failed |-> 0]
  /\ owed = {}
  /\ excused = {}
  /\ restarts = 0

-----------------------------------------------------------------------------
(* Cassandra.                                                               *)

WriteWins(i, f, t) == IF f \in live[i] THEN t >= stamp[i][f] ELSE t > stamp[i][f]

WriteFragment(i, f, t) ==
  IF WriteWins(i, f, t)
    THEN /\ live' = [live EXCEPT ![i] = @ \cup {f}]
         /\ stamp' = [stamp EXCEPT ![i][f] = t]
    ELSE UNCHANGED storeVars

(* The fragments of D that a deletion at time t removes: those that no      *)
(* later write has refreshed.                                               *)
Deletable(i, D, t) == {f \in D : stamp[i][f] <= t}

DeleteFragments(i, D, t) ==
  LET gone == Deletable(i, D, t) IN
  /\ live' = [live EXCEPT ![i] = @ \ gone]
  /\ stamp' = [stamp EXCEPT ![i] = [f \in Fragment |-> IF f \in gone THEN t ELSE @[f]]]

-----------------------------------------------------------------------------
(* Mutant: the request is queued without the address of its object.         *)
WriteCallListEntry_NullQueued(r, e) ==
  /\ pool = "running"
  /\ fate[r] = "new"
  /\ entry' = [entry EXCEPT ![r] = e]
  /\ fate' = [fate EXCEPT ![r] = "queued"]
  /\ queue' = Append(queue, NoRequest)
  /\ UNCHANGED <<pool, workVars, storeVars, clock, stats, noteVars, restarts>>

(* write_call_list_entry: allocate a request and add it to the queue.       *)
WriteCallListEntry(r, e) ==
  /\ pool = "running"
  /\ fate[r] = "new"
  /\ entry' = [entry EXCEPT ![r] = e]
  /\ fate' = [fate EXCEPT ![r] = "queued"]
  /\ queue' = Append(queue, r)
  /\ UNCHANGED <<pool, workVars, storeVars, clock, stats, noteVars, restarts>>

(* A worker thread takes the head of the queue and enters process_work.     *)
Pop(w) ==
  /\ pool = "running"
  /\ pc[w] = "idle"
  /\ queue # <<>>
  /\ clr' = [clr EXCEPT ![w] = Head(queue)]
  /\ queue' = Tail(queue)
  /\ fate' = [fate EXCEPT ![Head(queue)] = "working"]
  /\ Goto(w, "stamp")
  /\ UNCHANGED <<pool, entry, cassTimestamp, recordsToDelete,
                 storeVars, clock, stats, noteVars, restarts>>

(* generate_timestamp: two workers may read the same microsecond, which is  *)
(* later than what was written before Sprout started.                       *)
GenerateTimestamp(w) ==
  /\ pc[w] = "stamp"
  /\ clock' \in {clock, clock + 1} \ {0}
  /\ cassTimestamp' = [cassTimestamp EXCEPT ![w] = clock']
  /\ Goto(w, "write")
  /\ UNCHANGED <<poolVars, clr, recordsToDelete, storeVars, stats, noteVars, restarts>>

(* Mutant: every opening fragment is counted as a failed call.              *)
CountRecorded_AnyOpening(type) ==
  IF type = "END" THEN [stats EXCEPT !.completed = @ + 1]
                  ELSE [stats EXCEPT !.failed = @ + 1]

CountRecorded(type) ==
  CASE type = "END"      -> [stats EXCEPT !.completed = @ + 1]
    [] type = "REJECTED" -> [stats EXCEPT !.failed = @ + 1]
    [] type = "BEGIN"    -> stats

(* write_call_fragment_sync succeeds.                                       *)
WriteOK(w) ==
  LET e == entry[clr[w]] IN
  /\ pc[w] = "write"
  /\ WriteFragment(e.impu, e.fragment, cassTimestamp[w])
  /\ stats' = CountRecorded(e.fragment.type)
  /\ owed' = owed \cup {e.impu}
  /\ Goto(w, "check")
  /\ UNCHANGED <<poolVars, clr, cassTimestamp, recordsToDelete, clock, excused, restarts>>

(* Mutant: process_work returns where the write fails, before it reports    *)
(* and deletes the request.                                                 *)
WriteError_Returns(w) ==
  LET e == entry[clr[w]] IN
  /\ pc[w] = "write"
  /\ \/ UNCHANGED storeVars
     \/ WriteFragment(e.impu, e.fragment, cassTimestamp[w])
  /\ clr' = [clr EXCEPT ![w] = NoRequest]
  /\ cassTimestamp' = [cassTimestamp EXCEPT ![w] = 0]
  /\ Goto(w, "idle")
  /\ UNCHANGED <<poolVars, recordsToDelete, clock, stats, noteVars, restarts>>

(* It fails, applied or not: no retry, no trim and no notification.         *)
WriteError(w) ==
  LET e == entry[clr[w]] IN
  /\ pc[w] = "write"
  /\ \/ UNCHANGED storeVars
     \/ WriteFragment(e.impu, e.fragment, cassTimestamp[w])
  /\ Goto(w, "report")
  /\ UNCHANGED <<poolVars, clr, cassTimestamp, recordsToDelete, clock, stats, noteVars, restarts>>

(* is_call_trim_needed returns false without counting: the list has no      *)
(* limit, this call is not the one sampled, or the read fails.              *)
NoTrim(w) ==
  /\ pc[w] = "check"
  /\ Goto(w, "notify")
  /\ UNCHANGED <<poolVars, clr, cassTimestamp, recordsToDelete, storeVars,
                 clock, stats, noteVars, restarts>>

(* get_call_fragments_sync succeeds and the list is counted.                *)
ReadForTrim(w) ==
  LET list == live[Impu(w)] IN
  /\ pc[w] = "check"
  /\ MaxCallListLength > 0
  /\ IF TrimNeeded(list)
       THEN /\ recordsToDelete' = [recordsToDelete EXCEPT ![w] = RecordsToDelete(list)]
            /\ Goto(w, "trim")
       ELSE /\ Goto(w, "notify")
            /\ UNCHANGED recordsToDelete
  /\ UNCHANGED <<poolVars, clr, cassTimestamp, storeVars, clock, stats, noteVars, restarts>>

(* Mutant: process_work returns after a trim and skips the notification.    *)
Trim_SkipsNotify(w, part) ==
  LET i == Impu(w) IN
  /\ pc[w] = "trim"
  /\ DeleteFragments(i, part, cassTimestamp[w])
  /\ owed' = IF live' # live THEN owed \cup {i} ELSE owed
  /\ recordsToDelete' = [recordsToDelete EXCEPT ![w] = {}]
  /\ Goto(w, "report")
  /\ UNCHANGED <<poolVars, clr, cassTimestamp, clock, stats, excused, restarts>>

(* delete_old_call_fragments_sync, with the timestamp of the write: the     *)
(* deletion of part of the selected records is applied.                     *)
Trim(w, part) ==
  LET i == Impu(w) IN
  /\ pc[w] = "trim"
  /\ DeleteFragments(i, part, cassTimestamp[w])
  /\ owed' = IF live' # live THEN owed \cup {i} ELSE owed
  /\ recordsToDelete' = [recordsToDelete EXCEPT ![w] = {}]
  /\ Goto(w, "notify")
  /\ UNCHANGED <<poolVars, clr, cassTimestamp, clock, stats, excused, restarts>>

TrimOK(w) == Trim(w, recordsToDelete[w])

(* A failed deletion is only logged.                                        *)
TrimError(w) == \E part \in SUBSET recordsToDelete[w] : Trim(w, part)

(* send_notify: one POST, whose result is not looked at, if the notifier    *)
(* has somewhere to send it.                                                *)
Notify(w) ==
  /\ pc[w] = "notify"
  /\ IF NotifierAttached
       THEN /\ owed' = owed \ {Impu(w)}
            /\ excused' = excused \ {Impu(w)}
       ELSE UNCHANGED noteVars
  /\ Goto(w, "report")
  /\ UNCHANGED <<poolVars, clr, cassTimestamp, recordsToDelete, storeVars,
                 clock, stats, restarts>>

(* Mutant: the request is deleted but the worker keeps its address.         *)
LeaveProcessWork_Dangling(w, outcome) ==
  /\ fate' = [fate EXCEPT ![clr[w]] = outcome]
  /\ cassTimestamp' = [cassTimestamp EXCEPT ![w] = 0]
  /\ recordsToDelete' = [recordsToDelete EXCEPT ![w] = {}]
  /\ Goto(w, "idle")
  /\ UNCHANGED clr

(* The worker's locals go out of scope, the address of the request with     *)
(* them.                                                                    *)
LeaveProcessWork(w, outcome) ==
  /\ fate' = [fate EXCEPT ![clr[w]] = outcome]
  /\ clr' = [clr EXCEPT ![w] = NoRequest]
  /\ cassTimestamp' = [cassTimestamp EXCEPT ![w] = 0]
  /\ recordsToDelete' = [recordsToDelete EXCEPT ![w] = {}]
  /\ Goto(w, "idle")

(* request_complete, whether or not the write succeeded, and delete clr.    *)
RequestComplete(w) ==
  /\ pc[w] = "report"
  /\ LeaveProcessWork(w, "settled")
  /\ entry' = [entry EXCEPT ![clr[w]] = NoEntry]
  /\ UNCHANGED <<queue, pool, storeVars, clock, stats, noteVars, restarts>>

(* process_work throws: exception_callback does nothing, the request is     *)
(* neither reported nor retried, its object is left allocated and the       *)
(* thread takes the next one.                                               *)
Exception(w) ==
  /\ pc[w] \in Busy
  /\ excused' = IF Owes(w, Impu(w)) THEN excused \cup {Impu(w)} ELSE excused
  /\ LeaveProcessWork(w, "leaked")
  /\ UNCHANGED <<queue, pool, entry, storeVars, clock, stats, owed, restarts>>

-----------------------------------------------------------------------------
(* ~CallListStoreProcessor: stop the pool, join its threads, delete it.     *)
Stop ==
  /\ pool = "running"
  /\ pool' = "stopped"
  /\ UNCHANGED <<queue, entry, fate, workVars, storeVars, clock,
                 stats, noteVars, restarts>>

WorkerExit(w) ==
  /\ pool = "stopped"
  /\ pc[w] = "idle"
  /\ Goto(w, "exited")
  /\ UNCHANGED <<poolVars, clr, cassTimestamp, recordsToDelete, storeVars,
                 clock, stats, noteVars, restarts>>

(* Mutant: join waits until the queue has been worked off.                  *)
Join_WaitsForQueue ==
  /\ pool = "stopped"
  /\ queue = <<>>
  /\ \A w \in Workers : pc[w] = "exited"
  /\ pool' = "joined"
  /\ UNCHANGED <<queue, entry, fate, workVars, storeVars, clock,
                 stats, noteVars, restarts>>

Join ==
  /\ pool = "stopped"
  /\ \A w \in Workers : pc[w] = "exited"
  /\ pool' = "joined"
  /\ UNCHANGED <<queue, entry, fate, workVars, storeVars, clock,
                 stats, noteVars, restarts>>

(* Sprout dies and is started again: only Cassandra keeps its contents.     *)
Restart ==
  /\ restarts < MaxRestarts
  /\ restarts' = restarts + 1
  /\ queue' = <<>>
  /\ pool' = "running"
  /\ entry' = [r \in Requests |-> NoEntry]
  /\ fate' = [r \in Requests |-> IF fate[r] = "new" THEN "new" ELSE "settled"]
  /\ pc' = [w \in Workers |-> "idle"]
  /\ clr' = [w \in Workers |-> NoRequest]
  /\ cassTimestamp' = [w \in Workers |-> 0]
  /\ recordsToDelete' = [w \in Workers |-> {}]
  /\ stats' = [completed |-> 0, failed |-> 0]
  /\ excused' = excused \cup owed
  /\ UNCHANGED <<storeVars, clock, owed>>

-----------------------------------------------------------------------------
(* What a worker thread does with a request it has taken.                   *)
ProcessWork(w) ==
  \/ GenerateTimestamp(w)
  \/ WriteOK(w)
  \/ WriteError(w)
  \/ NoTrim(w)
  \/ ReadForTrim(w)
  \/ TrimOK(w)
  \/ TrimError(w)
  \/ Notify(w)
  \/ RequestComplete(w)

Next ==
  \/ \E r \in Requests, e \in Entries : WriteCallListEntry(r, e)
  \/ \E w \in Workers : Pop(w) \/ ProcessWork(w) \/ Exception(w) \/ WorkerExit(w)
  \/ Stop
  \/ Join
  \/ Restart

Spec == Init /\ [][Next]_vars

-----------------------------------------------------------------------------
(* Properties.                                                              *)

TypeOK ==
  /\ queue \in Seq(Requests)
  /\ pool \in {"running", "stopped", "joined"}
  /\ entry \in [Requests -> Entries \cup {NoEntry}]
  /\ fate \in [Requests -> Fates]
  /\ pc \in [Workers -> PC]
  /\ clr \in [Workers -> Requests \cup {NoRequest}]
  /\ cassTimestamp \in [Workers -> Nat]
  /\ recordsToDelete \in [Workers -> SUBSET Fragment]
  /\ live \in [Impus -> SUBSET Fragment]
  /\ stamp \in [Impus -> [Fragment -> Nat]]
  /\ clock \in Nat
  /\ stats \in [completed : Nat, failed : Nat]
  /\ owed \in SUBSET Impus
  /\ excused \in SUBSET Impus
  /\ restarts \in Nat

(* Every request that is queued or being processed is held in exactly one   *)
(* place, and a request that is in neither state is held nowhere: none is   *)
(* processed or deleted twice.  Its object exists from write_call_list_entry*)
(* until request_complete, and the objects that exist and that nobody holds *)
(* are just those of the requests an exception gave up.                     *)
RequestOwnership ==
  /\ \A j, k \in 1..Len(queue) : queue[j] = queue[k] => j = k
  /\ \A v, w \in Workers : clr[v] = clr[w] /\ clr[w] # NoRequest => v = w
  /\ \A r \in Requests : /\ fate[r] = "queued" <=> r \in Queued
                         /\ fate[r] = "working" <=> \E w \in Workers : clr[w] = r
                         /\ fate[r] \in {"queued", "working", "leaked"} <=> entry[r] # NoEntry

(* A fragment was in the list at some time: before the start of Sprout, or  *)
(* by a write, which leaves its timestamp even where a deletion follows.    *)
EverStored(i, f) == f \in StoredBefore[i] \/ stamp[i][f] > 0

(* However the workers' reads, writes and deletions of a list interleave,   *)
(* fail or are cut off, a fragment that was stored is still in the list     *)
(* unless the list is limited and holds MaxCallListLength newer calls.      *)
RecordsKept ==
  \A i \in Impus : \A f \in Fragment :
    EverStored(i, f) /\ f \notin live[i] =>
      /\ MaxCallListLength > 0
      /\ Cardinality(NewerCalls(live[i], f)) >= MaxCallListLength

(* What a worker selected stays safe to delete until it does: whatever the  *)
(* other workers delete meanwhile, the list still holds MaxCallListLength   *)
(* newer calls than each selected record.                                   *)
PendingTrimsSafe ==
  \A w \in Workers : \A f \in recordsToDelete[w] :
    /\ pc[w] = "trim" /\ MaxCallListLength > 0
    /\ Cardinality(NewerCalls(live[Impu(w)], f)) >= MaxCallListLength

(* Every acknowledged change of a list, by a write or by a trim, is still   *)
(* going to be notified by a worker, unless the thread that owed the        *)
(* notification was lost in an exception or a restart.                      *)
ChangesNotified ==
  NotifierAttached => \A i \in owed : i \in excused \/ \E w \in Workers : Owes(w, i)

-----------------------------------------------------------------------------
(* Refinement.                                                              *)

(* The requests that are queued or being processed, and their entries.      *)
InPool == {r \in Requests : fate[r] \in {"queued", "working"}}
Pending == {entry[r] : r \in InPool}

Abstract == INSTANCE CallList WITH list <- live, pending <- Pending

(* Whatever the workers read, when they delete and what fails: at each step *)
(* a list gains a record somebody asked for and that is not yet dealt with, *)
(* or loses records that are, at that moment, older than MaxCallListLength  *)
(* calls in the list.                                                       *)
ImplementsCallList == Abstract!Spec

-----------------------------------------------------------------------------
(* What comments in the code say and the code does not do.                  *)

(* call_list_store_processor.cpp:152: a deletion brings the stored number   *)
(* of calls below the threshold again.                                      *)
TrimBringsBelowThreshold ==
  \A w \in Workers :
    pc[w] = "trim" => ~ TrimNeeded(live[Impu(w)] \ recordsToDelete[w])
=============================================================================
