-------------------- MODULE CallListStoreProcessorProofs --------------------
(***************************************************************************)
(* Proofs about CallListStoreProcessor, for any number of workers,         *)
(* requests, subscribers and calls and any limit.                          *)
(***************************************************************************)
EXTENDS CallListStoreProcessor, CallListTrimProofs, SequenceTheorems

-----------------------------------------------------------------------------
(* The queue.                                                               *)

Elements(q) == {q[k] : k \in 1..Len(q)}
Distinct(q) == \A j, k \in 1..Len(q) : q[j] = q[k] => j = k

(* A request that is not in the queue can be added to it.                   *)
LEMMA AppendDistinct ==
  ASSUME NEW R, NEW q \in Seq(R), NEW r \in R, r \notin Elements(q), Distinct(q)
  PROVE  /\ Append(q, r) \in Seq(R)
         /\ Elements(Append(q, r)) = Elements(q) \cup {r}
         /\ Distinct(Append(q, r))
<1>1. /\ Append(q, r) \in Seq(R)
      /\ Len(Append(q, r)) = Len(q) + 1
      /\ \A k \in 1..Len(q) : Append(q, r)[k] = q[k]
      /\ Append(q, r)[Len(q) + 1] = r
      /\ Len(q) \in Nat
  OBVIOUS
<1>2. Elements(Append(q, r)) = Elements(q) \cup {r}
  BY <1>1 DEF Elements
<1>3. Distinct(Append(q, r))
  BY <1>1 DEF Elements, Distinct
<1> QED
  BY <1>1, <1>2, <1>3

(* Taking the head leaves the other requests.                               *)
LEMMA TailDistinct ==
  ASSUME NEW R, NEW q \in Seq(R), q # <<>>, Distinct(q)
  PROVE  /\ Tail(q) \in Seq(R)
         /\ Head(q) \in R
         /\ Head(q) \in Elements(q)
         /\ Elements(Tail(q)) = Elements(q) \ {Head(q)}
         /\ Distinct(Tail(q))
<1>1. /\ Tail(q) \in Seq(R) /\ Head(q) = q[1] /\ Head(q) \in R
      /\ Len(q) \in Nat \ {0} /\ Len(Tail(q)) = Len(q) - 1
      /\ \A k \in 1..Len(q) - 1 : Tail(q)[k] = q[k + 1]
  OBVIOUS
<1>2. Head(q) \in Elements(q)
  BY <1>1 DEF Elements
<1>3. Distinct(Tail(q))
  BY <1>1 DEF Distinct
<1>4. Elements(Tail(q)) = Elements(q) \ {Head(q)}
  <2>1. Elements(Tail(q)) \subseteq Elements(q) \ {Head(q)}
    BY <1>1 DEF Elements, Distinct
  <2>2. ASSUME NEW k \in 1..Len(q), q[k] # Head(q)
        PROVE  q[k] \in Elements(Tail(q))
    <3>1. k - 1 \in 1..Len(q) - 1
      BY <1>1, <2>2
    <3>2. Tail(q)[k - 1] = q[k]
      BY <1>1, <3>1
    <3> QED
      BY <1>1, <3>1, <3>2 DEF Elements
  <2> QED
    BY <2>1, <2>2 DEF Elements
<1> QED
  BY <1>1, <1>2, <1>3, <1>4

-----------------------------------------------------------------------------
(* Types and ownership.                                                     *)

HeldRequests == \A w \in Workers : pc[w] \in Busy <=> clr[w] # NoRequest

OwnInv == TypeOK /\ RequestOwnership /\ HeldRequests

(* A busy worker has a request, and the request an entry, that no other     *)
(* worker deletes.                                                          *)
LEMMA BusyEntry ==
  ASSUME OwnInv, NEW w \in Workers, pc[w] \in Busy
  PROVE  /\ clr[w] \in Requests
         /\ fate[clr[w]] = "working"
         /\ entry[clr[w]] \in Entries
         /\ Impu(w) \in Impus
         /\ entry[clr[w]].fragment \in Fragment
<1>1. clr[w] \in Requests
  BY DEF OwnInv, TypeOK, HeldRequests
<1>2. fate[clr[w]] = "working"
  BY <1>1 DEF OwnInv, RequestOwnership
<1>3. entry[clr[w]] \in Entries
  BY <1>1, <1>2 DEF OwnInv, TypeOK, RequestOwnership
<1>4. Impu(w) \in Impus /\ entry[clr[w]].fragment \in Fragment
  BY <1>3, EntriesAssumption DEF Impu
<1> QED
  BY <1>1, <1>2, <1>3, <1>4

(* The store's operations keep the types of its rows.                       *)
LEMMA StoreTypes ==
  ASSUME TypeOK, NEW i \in Impus, NEW t \in Nat
  PROVE  /\ \A f \in Fragment : WriteFragment(i, f, t) =>
              /\ live' \in [Impus -> SUBSET Fragment]
              /\ stamp' \in [Impus -> [Fragment -> Nat]]
         /\ \A D \in SUBSET Fragment : DeleteFragments(i, D, t) =>
              /\ live' \in [Impus -> SUBSET Fragment]
              /\ stamp' \in [Impus -> [Fragment -> Nat]]
<1>1. live \in [Impus -> SUBSET Fragment] /\ stamp \in [Impus -> [Fragment -> Nat]]
  BY DEF TypeOK
<1>2. ASSUME NEW f \in Fragment, WriteFragment(i, f, t)
      PROVE  /\ live' \in [Impus -> SUBSET Fragment]
             /\ stamp' \in [Impus -> [Fragment -> Nat]]
  BY <1>1, <1>2 DEF WriteFragment, storeVars
<1>3. ASSUME NEW D \in SUBSET Fragment, DeleteFragments(i, D, t)
      PROVE  /\ live' \in [Impus -> SUBSET Fragment]
             /\ stamp' \in [Impus -> [Fragment -> Nat]]
  <2>1. live' = [live EXCEPT ![i] = @ \ Deletable(i, D, t)]
    BY <1>3 DEF DeleteFragments
  <2>2. stamp' = [stamp EXCEPT ![i] =
                    [f \in Fragment |-> IF f \in Deletable(i, D, t) THEN t ELSE stamp[i][f]]]
    BY <1>1, <1>3 DEF DeleteFragments
  <2>3. stamp' \in [Impus -> [Fragment -> Nat]]
    BY <1>1, <2>2
  <2> QED
    BY <1>1, <2>1, <2>3
<1> QED
  BY <1>2, <1>3

(* A step that neither takes nor releases a request keeps the ownership.    *)
LEMMA OwnershipUnchanged ==
  ASSUME OwnInv, UNCHANGED <<queue, entry, fate, clr>>,
         \A w \in Workers : pc'[w] \in Busy <=> pc[w] \in Busy
  PROVE  RequestOwnership' /\ HeldRequests'
<1>1. RequestOwnership'
  BY DEF OwnInv, RequestOwnership, Queued
<1>2. HeldRequests'
  BY DEF OwnInv, HeldRequests
<1> QED
  BY <1>1, <1>2

(* What becomes of the object of a request that a worker is done with:      *)
(* request_complete has it deleted, an exception leaves it allocated.       *)
GivesUp(w, outcome) ==
  /\ LeaveProcessWork(w, outcome)
  /\ \/ outcome = "settled" /\ entry' = [entry EXCEPT ![clr[w]] = NoEntry]
     \/ outcome = "leaked" /\ entry' = entry
  /\ UNCHANGED queue

(* A worker's request gets its last owner taken away when it is given up.   *)
LEMMA GiveUpOwnership ==
  ASSUME OwnInv, NEW w \in Workers, pc[w] \in Busy,
         NEW outcome \in {"settled", "leaked"}, GivesUp(w, outcome)
  PROVE  RequestOwnership' /\ HeldRequests'
<1>1. clr[w] \in Requests /\ fate[clr[w]] = "working" /\ entry[clr[w]] # NoEntry
  BY BusyEntry, EntriesAssumption
<1>2. /\ fate' = [fate EXCEPT ![clr[w]] = outcome]
      /\ entry' \in {entry, [entry EXCEPT ![clr[w]] = NoEntry]}
      /\ clr' = [clr EXCEPT ![w] = NoRequest]
      /\ pc' = [pc EXCEPT ![w] = "idle"]
      /\ Queued' = Queued /\ queue' = queue
  BY DEF GivesUp, LeaveProcessWork, Goto, Queued
<1>3. HeldRequests'
  BY <1>2 DEF OwnInv, TypeOK, HeldRequests, Busy
<1>4. \A j, k \in 1..Len(queue') : queue'[j] = queue'[k] => j = k
  BY <1>2 DEF OwnInv, RequestOwnership
<1>5. \A u, v \in Workers : clr'[u] = clr'[v] /\ clr'[u] # NoRequest => u = v
  BY <1>2 DEF OwnInv, TypeOK, RequestOwnership
<1>6. ASSUME NEW r \in Requests
      PROVE  /\ fate'[r] = "queued" <=> r \in Queued'
             /\ fate'[r] = "working" <=> \E v \in Workers : clr'[v] = r
             /\ fate'[r] \in {"queued", "working", "leaked"} <=> entry'[r] # NoEntry
  <2>1. CASE r = clr[w]
    <3>1. fate'[r] = outcome
      BY <1>1, <1>2, <2>1 DEF OwnInv, TypeOK
    <3>2. outcome = "leaked" <=> entry'[r] # NoEntry
      BY <1>1, <2>1 DEF GivesUp, OwnInv, TypeOK
    <3>3. r \notin Queued'
      BY <1>1, <1>2, <2>1 DEF OwnInv, RequestOwnership
    <3>4. \A v \in Workers : clr'[v] # r
      BY <1>1, <1>2, <2>1, RequestsAssumption DEF OwnInv, TypeOK, RequestOwnership
    <3> QED
      BY <3>1, <3>2, <3>3, <3>4
  <2>2. CASE r # clr[w]
    <3>1. fate'[r] = fate[r] /\ entry'[r] = entry[r]
      BY <1>2, <2>2 DEF OwnInv, TypeOK
    <3>2. (\E v \in Workers : clr'[v] = r) <=> (\E v \in Workers : clr[v] = r)
      BY <1>2, <2>2, RequestsAssumption DEF OwnInv, TypeOK
    <3> QED
      BY <1>2, <3>1, <3>2 DEF OwnInv, RequestOwnership
  <2> QED
    BY <2>1, <2>2
<1>7. RequestOwnership'
  BY <1>4, <1>5, <1>6 DEF RequestOwnership
<1> QED
  BY <1>3, <1>7

(* Giving up a request keeps the types of what it resets.                   *)
LEMMA GiveUpTypes ==
  ASSUME TypeOK, NEW w \in Workers, NEW outcome \in {"settled", "leaked"}, GivesUp(w, outcome)
  PROVE  /\ queue' \in Seq(Requests)
         /\ fate' \in [Requests -> Fates]
         /\ entry' \in [Requests -> Entries \cup {NoEntry}]
         /\ pc' \in [Workers -> PC]
         /\ clr' \in [Workers -> Requests \cup {NoRequest}]
         /\ cassTimestamp' \in [Workers -> Nat]
         /\ recordsToDelete' \in [Workers -> SUBSET Fragment]
<1>1. entry' \in [Requests -> Entries \cup {NoEntry}]
  BY DEF TypeOK, GivesUp
<1> QED
  BY <1>1 DEF TypeOK, GivesUp, LeaveProcessWork, Goto, Fates, PC

-----------------------------------------------------------------------------
(* Initially no request is allocated and every worker is idle.              *)
LEMMA OwnInvInit == Init => OwnInv
<1> SUFFICES ASSUME Init
             PROVE  OwnInv
  OBVIOUS
<1>1. TypeOK
  BY StoredAssumption DEF Init, TypeOK, PC, Fates
<1>2. RequestOwnership
  BY RequestsAssumption DEF Init, RequestOwnership, Queued
<1>3. HeldRequests
  BY DEF Init, HeldRequests, Busy
<1> QED
  BY <1>1, <1>2, <1>3 DEF OwnInv

(* Every step keeps the types and the ownership of the requests.            *)
LEMMA OwnInvStep == OwnInv /\ [Next]_vars => OwnInv'
<1> SUFFICES ASSUME OwnInv, [Next]_vars
             PROVE  OwnInv'
  OBVIOUS
<1> USE DEF OwnInv
<1>1. ASSUME NEW r \in Requests, NEW e \in Entries, WriteCallListEntry(r, e)
      PROVE  OwnInv'
  <2>1. r \notin Queued /\ r \notin {clr[w] : w \in Workers}
    BY <1>1 DEF WriteCallListEntry, RequestOwnership
  <2>2. /\ queue' = Append(queue, r) /\ queue' \in Seq(Requests)
        /\ Queued' = Queued \cup {r} /\ Distinct(queue')
    <3>1. queue \in Seq(Requests) /\ Distinct(queue) /\ Queued = Elements(queue)
      BY DEF TypeOK, RequestOwnership, Distinct, Elements, Queued
    <3>2. queue' = Append(queue, r) /\ Queued' = Elements(queue')
      BY <1>1 DEF WriteCallListEntry, Elements, Queued
    <3> QED
      BY <2>1, <3>1, <3>2, AppendDistinct
  <2>3. TypeOK'
    BY <1>1, <2>2 DEF WriteCallListEntry, TypeOK, Fates, workVars, storeVars, noteVars
  <2>4. RequestOwnership'
    <3>1. /\ fate' = [fate EXCEPT ![r] = "queued"]
          /\ entry' = [entry EXCEPT ![r] = e]
          /\ clr' = clr /\ e # NoEntry
      BY <1>1, EntriesAssumption DEF WriteCallListEntry, workVars
    <3> QED
      BY <2>1, <2>2, <3>1 DEF RequestOwnership, TypeOK, Distinct
  <2>5. HeldRequests'
    BY <1>1 DEF WriteCallListEntry, HeldRequests, workVars
  <2> QED
    BY <2>3, <2>4, <2>5
<1>2. ASSUME NEW w \in Workers, Pop(w)
      PROVE  OwnInv'
  <2>1. /\ queue' = Tail(queue) /\ queue' \in Seq(Requests) /\ Distinct(queue')
        /\ Head(queue) \in Requests /\ Head(queue) \in Queued
        /\ Queued' = Queued \ {Head(queue)}
    <3>1. queue \in Seq(Requests) /\ Distinct(queue) /\ Queued = Elements(queue)
      BY DEF TypeOK, RequestOwnership, Distinct, Elements, Queued
    <3>2. queue # <<>> /\ queue' = Tail(queue) /\ Queued' = Elements(queue')
      BY <1>2 DEF Pop, Elements, Queued
    <3> QED
      BY <3>1, <3>2, TailDistinct
  <2>2. fate[Head(queue)] = "queued" /\ \A v \in Workers : clr[v] # Head(queue)
    BY <2>1 DEF RequestOwnership
  <2>3. clr[w] = NoRequest
    BY <1>2 DEF Pop, HeldRequests, Busy, TypeOK
  <2>4. /\ clr' = [clr EXCEPT ![w] = Head(queue)]
        /\ fate' = [fate EXCEPT ![Head(queue)] = "working"]
        /\ pc' = [pc EXCEPT ![w] = "stamp"] /\ entry' = entry
    BY <1>2 DEF Pop, Goto
  <2>5. TypeOK'
    BY <1>2, <2>1, <2>4 DEF Pop, TypeOK, Fates, PC, Busy, storeVars, noteVars
  <2>6. RequestOwnership'
    <3>1. \A u, v \in Workers : clr'[u] = clr'[v] /\ clr'[u] # NoRequest => u = v
      BY <2>2, <2>4 DEF TypeOK, RequestOwnership
    <3>2. ASSUME NEW r \in Requests
          PROVE  /\ fate'[r] = "queued" <=> r \in Queued'
                 /\ fate'[r] = "working" <=> \E v \in Workers : clr'[v] = r
                 /\ fate'[r] \in {"queued", "working", "leaked"} <=> entry'[r] # NoEntry
      <4>1. CASE r = Head(queue)
        BY <2>1, <2>2, <2>4, <4>1 DEF TypeOK, RequestOwnership
      <4>2. CASE r # Head(queue)
        <5>1. fate'[r] = fate[r] /\ (r \in Queued' <=> r \in Queued)
          BY <2>1, <2>4, <4>2 DEF TypeOK
        <5>2. (\E v \in Workers : clr'[v] = r) <=> (\E v \in Workers : clr[v] = r)
          BY <2>3, <2>4, <4>2, RequestsAssumption DEF TypeOK
        <5> QED
          BY <2>4, <5>1, <5>2 DEF RequestOwnership
      <4> QED
        BY <4>1, <4>2
    <3> QED
      BY <2>1, <3>1, <3>2 DEF RequestOwnership, Distinct
  <2>7. HeldRequests'
    BY <2>1, <2>4, RequestsAssumption DEF TypeOK, HeldRequests, Busy
  <2> QED
    BY <2>5, <2>6, <2>7
<1>3. ASSUME NEW w \in Workers, GenerateTimestamp(w)
      PROVE  OwnInv'
  <2>1. TypeOK'
    BY <1>3 DEF GenerateTimestamp, Goto, TypeOK, PC, Busy, poolVars, storeVars, noteVars
  <2>2. /\ UNCHANGED <<queue, entry, fate, clr>>
        /\ \A v \in Workers : pc'[v] \in Busy <=> pc[v] \in Busy
    BY <1>3 DEF GenerateTimestamp, Goto, TypeOK, Busy, poolVars
  <2> QED
    BY <2>1, <2>2, OwnershipUnchanged
<1>4. ASSUME NEW w \in Workers, WriteOK(w)
      PROVE  OwnInv'
  <2>1. /\ entry[clr[w]] \in Entries /\ Impu(w) \in Impus
        /\ entry[clr[w]].fragment \in Fragment /\ cassTimestamp[w] \in Nat
    BY <1>4, BusyEntry DEF WriteOK, Busy, TypeOK
  <2>2. live' \in [Impus -> SUBSET Fragment] /\ stamp' \in [Impus -> [Fragment -> Nat]]
    BY <1>4, <2>1, StoreTypes DEF WriteOK, Impu
  <2>3. stats' \in [completed : Nat, failed : Nat]
    <3>1. entry[clr[w]].fragment.type \in FragmentType
      BY <2>1 DEF Fragment
    <3>2. stats' = CountRecorded(entry[clr[w]].fragment.type)
      BY <1>4 DEF WriteOK
    <3> QED
      BY <3>1, <3>2 DEF CountRecorded, FragmentType, TypeOK
  <2>4. owed' \in SUBSET Impus
    BY <1>4, <2>1 DEF WriteOK, Impu, TypeOK
  <2>5. TypeOK'
    BY <1>4, <2>2, <2>3, <2>4 DEF WriteOK, Goto, TypeOK, PC, Busy, poolVars
  <2>6. /\ UNCHANGED <<queue, entry, fate, clr>>
        /\ \A v \in Workers : pc'[v] \in Busy <=> pc[v] \in Busy
    BY <1>4 DEF WriteOK, Goto, TypeOK, Busy, poolVars
  <2> QED
    BY <2>5, <2>6, OwnershipUnchanged
<1>5. ASSUME NEW w \in Workers, WriteError(w)
      PROVE  OwnInv'
  <2>1. /\ Impu(w) \in Impus
        /\ entry[clr[w]].fragment \in Fragment /\ cassTimestamp[w] \in Nat
    BY <1>5, BusyEntry DEF WriteError, Busy, TypeOK
  <2>2. live' \in [Impus -> SUBSET Fragment] /\ stamp' \in [Impus -> [Fragment -> Nat]]
    <3>1. CASE UNCHANGED storeVars
      BY <3>1 DEF storeVars, TypeOK
    <3>2. CASE WriteFragment(Impu(w), entry[clr[w]].fragment, cassTimestamp[w])
      BY <2>1, <3>2, StoreTypes
    <3> QED
      BY <1>5, <3>1, <3>2 DEF WriteError, Impu
  <2>3. TypeOK'
    BY <1>5, <2>2 DEF WriteError, Goto, TypeOK, PC, Busy, poolVars, noteVars
  <2>4. /\ UNCHANGED <<queue, entry, fate, clr>>
        /\ \A v \in Workers : pc'[v] \in Busy <=> pc[v] \in Busy
    BY <1>5 DEF WriteError, Goto, TypeOK, Busy, poolVars
  <2> QED
    BY <2>3, <2>4, OwnershipUnchanged
<1>6. ASSUME NEW w \in Workers, NoTrim(w)
      PROVE  OwnInv'
  <2>1. TypeOK'
    BY <1>6 DEF NoTrim, Goto, TypeOK, PC, Busy, poolVars, storeVars, noteVars
  <2>2. /\ UNCHANGED <<queue, entry, fate, clr>>
        /\ \A v \in Workers : pc'[v] \in Busy <=> pc[v] \in Busy
    BY <1>6 DEF NoTrim, Goto, TypeOK, Busy, poolVars
  <2> QED
    BY <2>1, <2>2, OwnershipUnchanged
<1>7. ASSUME NEW w \in Workers, ReadForTrim(w)
      PROVE  OwnInv'
  <2>1. recordsToDelete' \in [Workers -> SUBSET Fragment]
    <3>1. live[Impu(w)] \in SUBSET Fragment
      BY <1>7, BusyEntry DEF ReadForTrim, Busy, TypeOK
    <3>2. RecordsToDelete(live[Impu(w)]) \in SUBSET Fragment
      BY <3>1 DEF RecordsToDelete
    <3> QED
      BY <1>7, <3>2 DEF ReadForTrim, TypeOK
  <2>2. TypeOK'
    BY <1>7, <2>1 DEF ReadForTrim, Goto, TypeOK, PC, Busy, poolVars, storeVars, noteVars
  <2>3. /\ UNCHANGED <<queue, entry, fate, clr>>
        /\ \A v \in Workers : pc'[v] \in Busy <=> pc[v] \in Busy
    BY <1>7 DEF ReadForTrim, Goto, TypeOK, Busy, poolVars
  <2> QED
    BY <2>2, <2>3, OwnershipUnchanged
<1>9. ASSUME NEW w \in Workers, NEW part \in SUBSET recordsToDelete[w], Trim(w, part)
      PROVE  OwnInv'
  <2>1. Impu(w) \in Impus /\ cassTimestamp[w] \in Nat /\ part \in SUBSET Fragment
    BY <1>9, BusyEntry DEF Trim, Busy, TypeOK
  <2>2. live' \in [Impus -> SUBSET Fragment] /\ stamp' \in [Impus -> [Fragment -> Nat]]
    BY <1>9, <2>1, StoreTypes DEF Trim
  <2>3. owed' \in SUBSET Impus
    BY <1>9, <2>1 DEF Trim, TypeOK
  <2>4. TypeOK'
    BY <1>9, <2>2, <2>3 DEF Trim, Goto, TypeOK, PC, Busy, poolVars
  <2>5. /\ UNCHANGED <<queue, entry, fate, clr>>
        /\ \A v \in Workers : pc'[v] \in Busy <=> pc[v] \in Busy
    BY <1>9 DEF Trim, Goto, TypeOK, Busy, poolVars
  <2> QED
    BY <2>4, <2>5, OwnershipUnchanged
<1>10. ASSUME NEW w \in Workers, Notify(w)
      PROVE  OwnInv'
  <2>1. TypeOK'
    BY <1>10 DEF Notify, Goto, TypeOK, PC, Busy, poolVars, storeVars, noteVars
  <2>2. /\ UNCHANGED <<queue, entry, fate, clr>>
        /\ \A v \in Workers : pc'[v] \in Busy <=> pc[v] \in Busy
    BY <1>10 DEF Notify, Goto, TypeOK, Busy, poolVars
  <2> QED
    BY <2>1, <2>2, OwnershipUnchanged
<1>11. ASSUME NEW w \in Workers, RequestComplete(w)
       PROVE  OwnInv'
  <2>1. /\ pc[w] \in Busy /\ GivesUp(w, "settled")
        /\ UNCHANGED <<pool, live, stamp, clock, stats, owed, excused, restarts>>
    BY <1>11 DEF RequestComplete, Busy, GivesUp, storeVars, noteVars
  <2>2. TypeOK'
    BY <2>1, GiveUpTypes DEF TypeOK
  <2> QED
    BY <2>1, <2>2, GiveUpOwnership
<1>12. ASSUME NEW w \in Workers, Exception(w)
       PROVE  OwnInv'
  <2>1. /\ pc[w] \in Busy /\ GivesUp(w, "leaked")
        /\ UNCHANGED <<pool, live, stamp, clock, stats, owed, restarts>>
    BY <1>12 DEF Exception, GivesUp, storeVars
  <2>2. excused' \in SUBSET Impus
    <3>1. Impu(w) \in Impus
      BY <2>1, BusyEntry
    <3> QED
      BY <1>12, <3>1 DEF Exception, TypeOK
  <2>3. TypeOK'
    BY <2>1, <2>2, GiveUpTypes DEF TypeOK
  <2> QED
    BY <2>1, <2>3, GiveUpOwnership
<1>13. ASSUME NEW w \in Workers, WorkerExit(w)
      PROVE  OwnInv'
  <2>1. TypeOK'
    BY <1>13 DEF WorkerExit, Goto, TypeOK, PC, Busy, poolVars, storeVars, noteVars
  <2>2. /\ UNCHANGED <<queue, entry, fate, clr>>
        /\ \A v \in Workers : pc'[v] \in Busy <=> pc[v] \in Busy
    BY <1>13 DEF WorkerExit, Goto, TypeOK, Busy, poolVars
  <2> QED
    BY <2>1, <2>2, OwnershipUnchanged
<1>14. ASSUME Stop \/ Join
       PROVE  OwnInv'
  <2>1. TypeOK'
    BY <1>14 DEF Stop, Join, TypeOK, workVars, storeVars, noteVars
  <2>2. UNCHANGED <<queue, entry, fate, clr, pc>>
    BY <1>14 DEF Stop, Join, workVars
  <2> QED
    BY <2>1, <2>2, OwnershipUnchanged
<1>15. ASSUME Restart
       PROVE  OwnInv'
  <2>1. TypeOK'
    BY <1>15 DEF Restart, TypeOK, Fates, PC, storeVars
  <2>2. RequestOwnership'
    <3>1. Queued' = {}
      BY <1>15 DEF Restart, Queued
    <3>2. \A r \in Requests : fate'[r] \notin {"queued", "working", "leaked"}
      BY <1>15 DEF Restart, TypeOK, Fates
    <3> QED
      BY <1>15, <3>1, <3>2, RequestsAssumption DEF Restart, RequestOwnership
  <2>3. HeldRequests'
    BY <1>15 DEF Restart, HeldRequests, Busy
  <2> QED
    BY <2>1, <2>2, <2>3
<1>16. CASE UNCHANGED vars
  <2>1. TypeOK'
    BY <1>16 DEF vars, poolVars, workVars, storeVars, noteVars, TypeOK
  <2>2. UNCHANGED <<queue, entry, fate, clr, pc>>
    BY <1>16 DEF vars, poolVars, workVars
  <2> QED
    BY <2>1, <2>2, OwnershipUnchanged
<1> QED
  <2>1. ASSUME NEW w \in Workers, ProcessWork(w)
        PROVE  OwnInv'
    BY <2>1, <1>3, <1>4, <1>5, <1>6, <1>7, <1>9, <1>10, <1>11
       DEF ProcessWork, TrimOK, TrimError
  <2> HIDE DEF OwnInv
  <2> QED
    BY <2>1, <1>1, <1>2, <1>12, <1>13, <1>14, <1>15, <1>16 DEF Next

(* The variables of the pool, its workers and Cassandra have their types in *)
(* every reachable state: a worker's locals are those of its request, and   *)
(* the clock and the statistics stay natural numbers.                       *)
THEOREM ProcessorTypeCorrect == Spec => []TypeOK
<1>1. OwnInv => TypeOK
  BY DEF OwnInv
<1> QED
  BY <1>1, OwnInvInit, OwnInvStep, PTL DEF Spec

(* However the workers pop, complete, throw and restart, every request that *)
(* is queued or processed is in exactly one place, and its object exists    *)
(* until request_complete, or for ever if an exception gave it up.          *)
THEOREM RequestsOwned == Spec => []RequestOwnership
<1>1. OwnInv => RequestOwnership
  BY DEF OwnInv
<1> QED
  BY <1>1, OwnInvInit, OwnInvStep, PTL DEF Spec

-----------------------------------------------------------------------------
(* Trimming never takes what it should keep.                                *)

FiniteLists == \A i \in Impus : IsFiniteSet(live[i])

KeptInv == OwnInv /\ FiniteLists /\ PendingTrimsSafe /\ RecordsKept

(* Every fragment with MaxCallListLength newer calls still has them.        *)
NewerCallsKept ==
  \A i \in Impus : \A f \in Fragment :
    Cardinality(NewerCalls(live[i], f)) >= MaxCallListLength
      => Cardinality(NewerCalls(live'[i], f)) >= MaxCallListLength

(* A write only adds to the list it goes to.                                *)
LEMMA WriteKeeps ==
  ASSUME KeptInv, NEW i \in Impus, NEW g \in Fragment, NEW t \in Nat,
         WriteFragment(i, g, t)
  PROVE  FiniteLists' /\ NewerCallsKept /\ RecordsKept'
<1>1. /\ live \in [Impus -> SUBSET Fragment] /\ stamp \in [Impus -> [Fragment -> Nat]]
      /\ FiniteLists /\ RecordsKept
  BY DEF KeptInv, OwnInv, TypeOK
<1>2. CASE UNCHANGED storeVars
  <2>1. live' = live /\ stamp' = stamp
    BY <1>2 DEF storeVars
  <2> QED
    BY <1>1, <2>1 DEF FiniteLists, NewerCallsKept, RecordsKept, EverStored
<1>3. CASE /\ live' = [live EXCEPT ![i] = @ \cup {g}]
           /\ stamp' = [stamp EXCEPT ![i][g] = t]
  <2>1. \A j \in Impus : live[j] \in SUBSET live'[j]
    BY <1>1, <1>3
  <2>2. FiniteLists'
    <3>1. ASSUME NEW j \in Impus
          PROVE  IsFiniteSet(live'[j])
      <4>1. IsFiniteSet(live[j]) /\ IsFiniteSet(live[j] \cup {g})
        BY <1>1, FS_AddElement DEF FiniteLists
      <4> QED
        BY <1>1, <1>3, <4>1
    <3> QED
      BY <3>1 DEF FiniteLists
  <2>3. NewerCallsKept
    <3>1. ASSUME NEW j \in Impus, NEW f \in Fragment,
                 Cardinality(NewerCalls(live[j], f)) >= MaxCallListLength
          PROVE  Cardinality(NewerCalls(live'[j], f)) >= MaxCallListLength
      <4>1. /\ Cardinality(NewerCalls(live[j], f)) \in Nat
            /\ Cardinality(NewerCalls(live'[j], f)) \in Nat
            /\ Cardinality(NewerCalls(live[j], f)) <= Cardinality(NewerCalls(live'[j], f))
        BY <2>1, <2>2, NewerCallsMonotone DEF FiniteLists
      <4> QED
        BY <3>1, <4>1, MaxLengthAssumption
    <3> QED
      BY <3>1 DEF NewerCallsKept
  <2>4. ASSUME NEW j \in Impus, NEW f \in Fragment, EverStored(j, f)', f \notin live'[j]
        PROVE  EverStored(j, f) /\ f \notin live[j]
    <3>1. j # i \/ f # g
      BY <1>1, <1>3, <2>4
    <3>2. stamp'[j][f] = stamp[j][f]
      BY <1>1, <1>3, <3>1
    <3> QED
      BY <2>1, <2>4, <3>2 DEF EverStored
  <2>5. RecordsKept'
    BY <1>1, <2>3, <2>4 DEF RecordsKept, NewerCallsKept
  <2> QED
    BY <2>2, <2>3, <2>5
<1> QED
  BY <1>2, <1>3 DEF WriteFragment

(* Deleting records that each have MaxCallListLength newer calls.           *)
LEMMA DeleteKeeps ==
  ASSUME KeptInv, NEW i \in Impus, NEW D \in SUBSET Fragment, NEW t \in Nat,
         DeleteFragments(i, D, t), D # {} => MaxCallListLength > 0,
         \A d \in D : Cardinality(NewerCalls(live[i], d)) >= MaxCallListLength
  PROVE  FiniteLists' /\ NewerCallsKept /\ RecordsKept'
<1> DEFINE gone == Deletable(i, D, t)
<1>1. /\ live \in [Impus -> SUBSET Fragment] /\ stamp \in [Impus -> [Fragment -> Nat]]
      /\ FiniteLists /\ RecordsKept
  BY DEF KeptInv, OwnInv, TypeOK
<1>2. /\ gone \in SUBSET D
      /\ live' = [live EXCEPT ![i] = @ \ gone]
      /\ stamp' = [stamp EXCEPT ![i] =
                     [f \in Fragment |-> IF f \in gone THEN t ELSE stamp[i][f]]]
  BY <1>1 DEF DeleteFragments, Deletable
<1> HIDE DEF gone
<1>3. FiniteLists'
  <2>1. ASSUME NEW j \in Impus
        PROVE  IsFiniteSet(live'[j])
    <3>1. live'[j] \in SUBSET live[j]
      BY <1>1, <1>2
    <3> QED
      BY <1>1, <3>1, FS_Subset DEF FiniteLists
  <2> QED
    BY <2>1 DEF FiniteLists
<1>4. NewerCallsKept
  <2>1. ASSUME NEW j \in Impus, NEW f \in Fragment,
               Cardinality(NewerCalls(live[j], f)) >= MaxCallListLength
        PROVE  Cardinality(NewerCalls(live'[j], f)) >= MaxCallListLength
    <3>1. CASE j = i
      <4>1. live'[i] = live[i] \ gone /\ live[i] \in SUBSET Fragment /\ IsFiniteSet(live[i])
        BY <1>1, <1>2 DEF FiniteLists
      <4>2. \A d \in gone : Cardinality(NewerCalls(live[i], d)) >= MaxCallListLength
        BY <1>2
      <4> QED
        BY <2>1, <3>1, <4>1, <4>2, DeletionKeepsNewerCalls
    <3>2. CASE j # i
      BY <1>1, <1>2, <2>1, <3>2
    <3> QED
      BY <3>1, <3>2
  <2> QED
    BY <2>1 DEF NewerCallsKept
<1>5. ASSUME NEW j \in Impus, NEW f \in Fragment, EverStored(j, f)', f \notin live'[j]
      PROVE  /\ MaxCallListLength > 0
             /\ Cardinality(NewerCalls(live[j], f)) >= MaxCallListLength
  <2>1. CASE j = i /\ f \in gone
    BY <1>2, <2>1
  <2>2. CASE ~(j = i /\ f \in gone)
    <3>1. stamp'[j][f] = stamp[j][f] /\ f \notin live[j]
      BY <1>1, <1>2, <1>5, <2>2
    <3> QED
      BY <1>1, <1>5, <3>1 DEF RecordsKept, EverStored
  <2> QED
    BY <2>1, <2>2
<1>6. RecordsKept'
  BY <1>4, <1>5 DEF RecordsKept, NewerCallsKept
<1> QED
  BY <1>3, <1>4, <1>6

(* A step that selects nothing new keeps what is selected safe, if it keeps *)
(* the newer calls.                                                         *)
LEMMA PendingKept ==
  ASSUME KeptInv, NewerCallsKept,
         \A w \in Workers : recordsToDelete'[w] # {} =>
           /\ recordsToDelete'[w] = recordsToDelete[w]
           /\ pc'[w] = pc[w] /\ Impu(w)' = Impu(w)
  PROVE  PendingTrimsSafe'
<1> SUFFICES ASSUME NEW w \in Workers, NEW f \in recordsToDelete'[w]
             PROVE  /\ pc'[w] = "trim" /\ MaxCallListLength > 0
                    /\ Cardinality(NewerCalls(live'[Impu(w)'], f)) >= MaxCallListLength
  BY DEF PendingTrimsSafe
<1>1. /\ f \in recordsToDelete[w] /\ pc'[w] = pc[w] /\ Impu(w)' = Impu(w)
  OBVIOUS
<1>2. /\ pc[w] = "trim" /\ MaxCallListLength > 0
      /\ Cardinality(NewerCalls(live[Impu(w)], f)) >= MaxCallListLength
  BY <1>1 DEF KeptInv, PendingTrimsSafe
<1>3. Impu(w) \in Impus /\ f \in Fragment
  <2>1. Impu(w) \in Impus
    BY <1>2, BusyEntry DEF KeptInv, Busy
  <2>2. f \in Fragment
    BY <1>1 DEF KeptInv, OwnInv, TypeOK
  <2> QED
    BY <2>1, <2>2
<1> QED
  BY <1>1, <1>2, <1>3 DEF NewerCallsKept

(* Only a worker about to trim has selected records.                        *)
LEMMA OnlyTrimmersSelect ==
  ASSUME KeptInv, NEW w \in Workers, recordsToDelete[w] # {}
  PROVE  /\ pc[w] = "trim" /\ clr[w] \in Requests /\ fate[clr[w]] = "working"
<1>1. pc[w] = "trim"
  BY DEF KeptInv, PendingTrimsSafe
<1> QED
  BY <1>1, BusyEntry DEF KeptInv, Busy

(* A step that leaves the store alone.                                      *)
LEMMA StoreUntouched ==
  ASSUME KeptInv, UNCHANGED storeVars
  PROVE  FiniteLists' /\ NewerCallsKept /\ RecordsKept'
<1>1. live' = live /\ stamp' = stamp
  BY DEF storeVars
<1> QED
  BY <1>1 DEF KeptInv, FiniteLists, NewerCallsKept, RecordsKept, EverStored

(* Initially nothing has been deleted and nothing is selected.              *)
LEMMA KeptInvInit == Init => KeptInv
<1> SUFFICES ASSUME Init
             PROVE  KeptInv
  OBVIOUS
<1>1. FiniteLists /\ PendingTrimsSafe
  BY StoredAssumption DEF Init, FiniteLists, PendingTrimsSafe
<1>2. RecordsKept
  <2>1. \A i \in Impus : \A f \in Fragment : EverStored(i, f) => f \in live[i]
    BY DEF Init, EverStored
  <2> QED
    BY <2>1 DEF RecordsKept
<1> QED
  BY <1>1, <1>2, OwnInvInit DEF KeptInv

(* Every step keeps the newer calls of what is deleted or selected.         *)
LEMMA KeptInvStep == KeptInv /\ [Next]_vars => KeptInv'
<1> SUFFICES ASSUME KeptInv, [Next]_vars
             PROVE  FiniteLists' /\ PendingTrimsSafe' /\ RecordsKept'
  BY OwnInvStep DEF KeptInv
<1>0. /\ fate \in [Requests -> Fates] /\ entry \in [Requests -> Entries \cup {NoEntry}]
      /\ pc \in [Workers -> PC] /\ clr \in [Workers -> Requests \cup {NoRequest}]
      /\ cassTimestamp \in [Workers -> Nat]
      /\ recordsToDelete \in [Workers -> SUBSET Fragment]
      /\ live \in [Impus -> SUBSET Fragment]
  BY DEF KeptInv, OwnInv, TypeOK
<1>1. ASSUME NEW r \in Requests, NEW e \in Entries, WriteCallListEntry(r, e)
      PROVE  FiniteLists' /\ PendingTrimsSafe' /\ RecordsKept'
  <2>1. /\ fate[r] = "new" /\ entry' = [entry EXCEPT ![r] = e]
        /\ UNCHANGED <<pc, clr, recordsToDelete, storeVars>>
    BY <1>1 DEF WriteCallListEntry, workVars
  <2>2. FiniteLists' /\ NewerCallsKept /\ RecordsKept'
    BY <2>1, StoreUntouched
  <2>3. \A w \in Workers : recordsToDelete[w] # {} => Impu(w)' = Impu(w)
    BY <1>0, <2>1, OnlyTrimmersSelect DEF Impu
  <2> QED
    BY <2>1, <2>2, <2>3, PendingKept
<1>2. ASSUME NEW w \in Workers, Pop(w)
      PROVE  FiniteLists' /\ PendingTrimsSafe' /\ RecordsKept'
  <2>1. /\ pc[w] = "idle" /\ pc' = [pc EXCEPT ![w] = "stamp"]
        /\ clr' = [clr EXCEPT ![w] = Head(queue)]
        /\ UNCHANGED <<entry, recordsToDelete, storeVars>>
    BY <1>2 DEF Pop, Goto
  <2>2. FiniteLists' /\ NewerCallsKept /\ RecordsKept'
    BY <2>1, StoreUntouched
  <2>3. \A v \in Workers : recordsToDelete[v] # {} => pc'[v] = pc[v] /\ Impu(v)' = Impu(v)
    BY <1>0, <2>1, OnlyTrimmersSelect DEF Impu
  <2> QED
    BY <2>1, <2>2, <2>3, PendingKept
(* A worker that has not selected anything goes on.                         *)
<1>3. ASSUME NEW w \in Workers, NEW label, Goto(w, label), pc[w] # "trim",
             UNCHANGED <<entry, clr, recordsToDelete>>, NewerCallsKept
      PROVE  PendingTrimsSafe'
  <2>1. \A v \in Workers : recordsToDelete[v] # {} => pc'[v] = pc[v] /\ Impu(v)' = Impu(v)
    BY <1>0, <1>3, OnlyTrimmersSelect DEF Goto, Impu
  <2> QED
    BY <1>3, <2>1, PendingKept
<1>4. ASSUME NEW w \in Workers,
             GenerateTimestamp(w) \/ NoTrim(w) \/ Notify(w) \/ WorkerExit(w)
      PROVE  FiniteLists' /\ PendingTrimsSafe' /\ RecordsKept'
  <2>1. /\ pc[w] # "trim" /\ UNCHANGED <<entry, clr, recordsToDelete, storeVars>>
        /\ \E label : Goto(w, label)
    BY <1>4 DEF GenerateTimestamp, NoTrim, Notify, WorkerExit, poolVars
  <2>2. FiniteLists' /\ NewerCallsKept /\ RecordsKept'
    BY <2>1, StoreUntouched
  <2> QED
    BY <1>3, <2>1, <2>2
<1>5. ASSUME NEW w \in Workers, WriteOK(w) \/ WriteError(w)
      PROVE  FiniteLists' /\ PendingTrimsSafe' /\ RecordsKept'
  <2>1. /\ pc[w] = "write" /\ UNCHANGED <<entry, clr, recordsToDelete>>
        /\ \E label : Goto(w, label)
        /\ \/ UNCHANGED storeVars
           \/ WriteFragment(Impu(w), entry[clr[w]].fragment, cassTimestamp[w])
    BY <1>5 DEF WriteOK, WriteError, poolVars, Impu
  <2>2. Impu(w) \in Impus /\ entry[clr[w]].fragment \in Fragment /\ cassTimestamp[w] \in Nat
    BY <1>0, <2>1, BusyEntry DEF KeptInv, Busy
  <2>3. FiniteLists' /\ NewerCallsKept /\ RecordsKept'
    BY <2>1, <2>2, StoreUntouched, WriteKeeps
  <2> QED
    BY <1>3, <2>1, <2>3
<1>6. ASSUME NEW w \in Workers, ReadForTrim(w)
      PROVE  FiniteLists' /\ PendingTrimsSafe' /\ RecordsKept'
  <2> DEFINE list == live[Impu(w)]
  <2>1. /\ pc[w] = "check" /\ MaxCallListLength > 0
        /\ UNCHANGED <<entry, clr, storeVars>>
    BY <1>6 DEF ReadForTrim, poolVars
  <2>2. FiniteLists' /\ NewerCallsKept /\ RecordsKept' /\ live' = live
    BY <2>1, StoreUntouched DEF storeVars
  <2>3. CASE TrimNeeded(list)
    <3>1. /\ recordsToDelete' = [recordsToDelete EXCEPT ![w] = RecordsToDelete(list)]
          /\ pc' = [pc EXCEPT ![w] = "trim"]
      BY <1>6, <2>3 DEF ReadForTrim, Goto
    <3>2. list \in SUBSET Fragment /\ IsFiniteSet(list)
      <4>1. Impu(w) \in Impus
        BY <2>1, BusyEntry DEF KeptInv, Busy
      <4> QED
        BY <1>0, <4>1 DEF KeptInv, FiniteLists
    <3>3. \A f \in RecordsToDelete(list) :
            Cardinality(NewerCalls(list, f)) >= MaxCallListLength
      BY <3>2, SelectedHaveNewerCalls
    <3>4. \A v \in Workers : Impu(v)' = Impu(v)
      BY <2>1 DEF Impu
    <3> QED
      BY <1>0, <2>1, <2>2, <3>1, <3>3, <3>4 DEF KeptInv, PendingTrimsSafe
  <2>4. CASE ~ TrimNeeded(list)
    <3>1. Goto(w, "notify") /\ UNCHANGED recordsToDelete
      BY <1>6, <2>4 DEF ReadForTrim
    <3> QED
      BY <1>3, <2>1, <2>2, <3>1
  <2> QED
    BY <2>3, <2>4
<1>7. ASSUME NEW w \in Workers, NEW part \in SUBSET recordsToDelete[w], Trim(w, part)
      PROVE  FiniteLists' /\ PendingTrimsSafe' /\ RecordsKept'
  <2>1. /\ pc[w] = "trim" /\ pc' = [pc EXCEPT ![w] = "notify"]
        /\ recordsToDelete' = [recordsToDelete EXCEPT ![w] = {}]
        /\ DeleteFragments(Impu(w), part, cassTimestamp[w])
        /\ UNCHANGED <<entry, clr>>
    BY <1>7 DEF Trim, Goto, poolVars
  <2>2. Impu(w) \in Impus /\ cassTimestamp[w] \in Nat /\ part \in SUBSET Fragment
    BY <1>0, <2>1, BusyEntry DEF KeptInv, Busy
  <2>3. /\ part # {} => MaxCallListLength > 0
        /\ \A d \in part : Cardinality(NewerCalls(live[Impu(w)], d)) >= MaxCallListLength
    BY DEF KeptInv, PendingTrimsSafe
  <2>4. FiniteLists' /\ NewerCallsKept /\ RecordsKept'
    BY <2>1, <2>2, <2>3, DeleteKeeps
  <2>5. \A v \in Workers : recordsToDelete'[v] # {} =>
          /\ recordsToDelete'[v] = recordsToDelete[v]
          /\ pc'[v] = pc[v] /\ Impu(v)' = Impu(v)
    BY <1>0, <2>1 DEF Impu
  <2> QED
    BY <2>4, <2>5, PendingKept
<1>8. ASSUME NEW w \in Workers, RequestComplete(w) \/ Exception(w)
      PROVE  FiniteLists' /\ PendingTrimsSafe' /\ RecordsKept'
  <2>1. /\ pc[w] \in Busy
        /\ entry' \in {entry, [entry EXCEPT ![clr[w]] = NoEntry]}
        /\ clr' = [clr EXCEPT ![w] = NoRequest]
        /\ recordsToDelete' = [recordsToDelete EXCEPT ![w] = {}]
        /\ pc' = [pc EXCEPT ![w] = "idle"]
        /\ UNCHANGED storeVars
    BY <1>8 DEF RequestComplete, Exception, LeaveProcessWork, Goto, Busy
  <2>2. FiniteLists' /\ NewerCallsKept /\ RecordsKept'
    BY <2>1, StoreUntouched
  <2>3. ASSUME NEW v \in Workers, recordsToDelete'[v] # {}
        PROVE  /\ recordsToDelete'[v] = recordsToDelete[v]
               /\ pc'[v] = pc[v] /\ Impu(v)' = Impu(v)
    <3>1. v # w /\ recordsToDelete[v] # {}
      BY <1>0, <2>1, <2>3
    <3>2. clr[v] \in Requests /\ clr[v] # clr[w]
      BY <3>1, OnlyTrimmersSelect, RequestsAssumption DEF KeptInv, OwnInv, RequestOwnership
    <3> QED
      BY <1>0, <2>1, <3>1, <3>2 DEF Impu
  <2> QED
    BY <2>2, <2>3, PendingKept
<1>9. ASSUME Stop \/ Join \/ UNCHANGED vars
      PROVE  FiniteLists' /\ PendingTrimsSafe' /\ RecordsKept'
  <2>1. UNCHANGED <<entry, clr, pc, recordsToDelete, storeVars>>
    BY <1>9 DEF Stop, Join, vars, poolVars, workVars
  <2>2. FiniteLists' /\ NewerCallsKept /\ RecordsKept'
    BY <2>1, StoreUntouched
  <2> QED
    BY <2>1, <2>2, PendingKept DEF Impu
<1>10. ASSUME Restart
       PROVE  FiniteLists' /\ PendingTrimsSafe' /\ RecordsKept'
  <2>1. recordsToDelete' = [w \in Workers |-> {}] /\ UNCHANGED storeVars
    BY <1>10 DEF Restart
  <2>2. FiniteLists' /\ NewerCallsKept /\ RecordsKept'
    BY <2>1, StoreUntouched
  <2> QED
    BY <2>1, <2>2, PendingKept
<1> QED
  <2>1. ASSUME NEW w \in Workers, ProcessWork(w)
        PROVE  FiniteLists' /\ PendingTrimsSafe' /\ RecordsKept'
    BY <2>1, <1>4, <1>5, <1>6, <1>7, <1>8 DEF ProcessWork, TrimOK, TrimError
  <2> QED
    BY <2>1, <1>1, <1>2, <1>4, <1>8, <1>9, <1>10 DEF Next

(* Whatever other workers write or delete between the read of a list and    *)
(* the deletion that follows it, what was selected stays safe to delete.    *)
THEOREM SelectionsStaySafe == Spec => []PendingTrimsSafe
<1>1. KeptInv => PendingTrimsSafe
  BY DEF KeptInv
<1> QED
  BY <1>1, KeptInvInit, KeptInvStep, PTL DEF Spec

(* However the workers interleave and whatever fails, a fragment that was   *)
(* stored leaves its list only while MaxCallListLength newer calls are in   *)
(* it.                                                                      *)
THEOREM NewestCallsKept == Spec => []RecordsKept
<1>1. KeptInv => RecordsKept
  BY DEF KeptInv
<1> QED
  BY <1>1, KeptInvInit, KeptInvStep, PTL DEF Spec

-----------------------------------------------------------------------------
(* Notifications.                                                           *)

NotifyInv == OwnInv /\ ChangesNotified

(* A step of other workers, or one that keeps the worker between its write  *)
(* and its notification, keeps what is owed.                                *)
LEMMA OwesKept ==
  ASSUME NotifyInv, owed' \subseteq owed, excused \subseteq excused',
         \A w \in Workers : \A i \in owed' : Owes(w, i) => Owes(w, i)'
  PROVE  ChangesNotified'
  BY DEF NotifyInv, ChangesNotified

(* Every step keeps the notifications that are owed.                        *)
LEMMA NotifyInvStep == NotifyInv /\ [Next]_vars => NotifyInv'
<1> SUFFICES ASSUME NotifyInv, [Next]_vars
             PROVE  ChangesNotified'
  BY OwnInvStep DEF NotifyInv
<1>0. /\ fate \in [Requests -> Fates] /\ entry \in [Requests -> Entries \cup {NoEntry}]
      /\ pc \in [Workers -> PC] /\ clr \in [Workers -> Requests \cup {NoRequest}]
  BY DEF NotifyInv, OwnInv, TypeOK
<1>1. ASSUME NEW r \in Requests, NEW e \in Entries, WriteCallListEntry(r, e)
      PROVE  ChangesNotified'
  <2>1. /\ fate[r] = "new" /\ entry' = [entry EXCEPT ![r] = e]
        /\ UNCHANGED <<pc, clr, owed, excused>>
    BY <1>1 DEF WriteCallListEntry, workVars, noteVars
  <2>2. ASSUME NEW w \in Workers, NEW i \in owed, Owes(w, i)
        PROVE  Owes(w, i)'
    <3>1. fate[clr[w]] = "working"
      BY <2>2, BusyEntry DEF NotifyInv, Owes, Busy
    <3> QED
      BY <1>0, <2>1, <2>2, <3>1 DEF Owes, Impu
  <2> QED
    BY <2>1, <2>2, OwesKept
<1>2. ASSUME NEW w \in Workers, Pop(w)
      PROVE  ChangesNotified'
  <2>1. /\ pc[w] = "idle" /\ pc' = [pc EXCEPT ![w] = "stamp"]
        /\ clr' = [clr EXCEPT ![w] = Head(queue)]
        /\ UNCHANGED <<entry, owed, excused>>
    BY <1>2 DEF Pop, Goto, noteVars
  <2>2. \A v \in Workers : \A i \in owed : Owes(v, i) => Owes(v, i)'
    BY <1>0, <2>1 DEF Owes, Impu
  <2> QED
    BY <2>1, <2>2, OwesKept
<1>3. ASSUME NEW w \in Workers,
             \/ GenerateTimestamp(w) \/ WriteError(w) \/ NoTrim(w) \/ ReadForTrim(w)
             \/ WorkerExit(w)
      PROVE  ChangesNotified'
  <2>1. /\ UNCHANGED <<entry, clr, owed, excused>>
        /\ \/ pc[w] \notin {"check", "trim", "notify"} /\ \E label : Goto(w, label)
           \/ \E label \in {"trim", "notify"} : Goto(w, label)
    BY <1>3 DEF GenerateTimestamp, WriteError, NoTrim, ReadForTrim, WorkerExit,
                poolVars, noteVars
  <2>2. \A v \in Workers : \A i \in owed : Owes(v, i) => Owes(v, i)'
    BY <1>0, <2>1 DEF Owes, Impu, Goto
  <2> QED
    BY <2>1, <2>2, OwesKept
<1>4. ASSUME NEW w \in Workers, WriteOK(w)
      PROVE  ChangesNotified'
  <2>1. /\ owed' = owed \cup {Impu(w)} /\ pc' = [pc EXCEPT ![w] = "check"] /\ pc[w] = "write"
        /\ UNCHANGED <<entry, clr, excused>>
    BY <1>4 DEF WriteOK, Goto, poolVars, Impu
  <2>2. Owes(w, Impu(w))' /\ \A v \in Workers : \A i \in owed : Owes(v, i) => Owes(v, i)'
    BY <1>0, <2>1 DEF Owes, Impu
  <2> QED
    BY <2>1, <2>2 DEF NotifyInv, ChangesNotified, Impu
<1>5. ASSUME NEW w \in Workers, NEW part \in SUBSET recordsToDelete[w], Trim(w, part)
      PROVE  ChangesNotified'
  <2>1. /\ owed' \subseteq owed \cup {Impu(w)} /\ pc' = [pc EXCEPT ![w] = "notify"]
        /\ UNCHANGED <<entry, clr, excused>>
    BY <1>5 DEF Trim, Goto, poolVars
  <2>2. Owes(w, Impu(w))' /\ \A v \in Workers : \A i \in owed : Owes(v, i) => Owes(v, i)'
    BY <1>0, <2>1 DEF Owes, Impu
  <2> QED
    BY <2>1, <2>2 DEF NotifyInv, ChangesNotified, Impu
<1>6. ASSUME NEW w \in Workers, Notify(w)
      PROVE  ChangesNotified'
  <2>1. CASE NotifierAttached
    <3>1. /\ owed' = owed \ {Impu(w)} /\ excused' = excused \ {Impu(w)}
          /\ pc' = [pc EXCEPT ![w] = "report"] /\ UNCHANGED <<entry, clr>>
      BY <1>6, <2>1 DEF Notify, Goto, poolVars
    <3>2. \A v \in Workers : \A i \in owed' : Owes(v, i) => Owes(v, i)'
      BY <1>0, <3>1 DEF Owes, Impu
    <3> QED
      BY <3>1, <3>2 DEF NotifyInv, ChangesNotified
  <2>2. CASE ~ NotifierAttached
    BY <2>2 DEF ChangesNotified
  <2> QED
    BY <2>1, <2>2
<1>7. ASSUME NEW w \in Workers, RequestComplete(w) \/ Exception(w)
      PROVE  ChangesNotified'
  <2>1. /\ pc[w] \in Busy
        /\ entry' \in {entry, [entry EXCEPT ![clr[w]] = NoEntry]}
        /\ clr' = [clr EXCEPT ![w] = NoRequest]
        /\ pc' = [pc EXCEPT ![w] = "idle"]
        /\ owed' = owed
        /\ excused' = IF Owes(w, Impu(w)) THEN excused \cup {Impu(w)} ELSE excused
    BY <1>7 DEF RequestComplete, Exception, LeaveProcessWork, Goto, Busy, Owes, noteVars
  <2>2. ASSUME NEW v \in Workers, v # w, NEW i \in owed, Owes(v, i)
        PROVE  Owes(v, i)'
    <3>1. clr[v] \in Requests /\ clr[v] # clr[w]
      <4>1. clr[v] \in Requests
        BY <2>2, BusyEntry DEF NotifyInv, Owes, Busy
      <4> QED
        BY <2>2, <4>1, RequestsAssumption DEF NotifyInv, OwnInv, RequestOwnership
    <3> QED
      BY <1>0, <2>1, <2>2, <3>1 DEF Owes, Impu
  <2>3. \A i \in owed : Owes(w, i) => i \in excused'
    BY <2>1 DEF Owes
  <2> QED
    BY <2>1, <2>2, <2>3 DEF NotifyInv, ChangesNotified
<1>8. ASSUME Stop \/ Join \/ UNCHANGED vars
      PROVE  ChangesNotified'
  <2>1. UNCHANGED <<entry, clr, pc, owed, excused>>
    BY <1>8 DEF Stop, Join, vars, poolVars, workVars, noteVars
  <2> QED
    BY <2>1, OwesKept DEF Owes, Impu
<1>9. ASSUME Restart
      PROVE  ChangesNotified'
  BY <1>9 DEF Restart, ChangesNotified
<1> QED
  <2>1. ASSUME NEW w \in Workers, ProcessWork(w)
        PROVE  ChangesNotified'
    BY <2>1, <1>3, <1>4, <1>5, <1>6, <1>7 DEF ProcessWork, TrimOK, TrimError
  <2> QED
    BY <2>1, <1>1, <1>2, <1>3, <1>7, <1>8, <1>9 DEF Next

(* A list whose change was acknowledged has a worker that will still notify *)
(* the listener, or had one that was lost in an exception or a restart.     *)
THEOREM ChangesStayNotified == Spec => []ChangesNotified
<1>1. Init => NotifyInv
  BY OwnInvInit DEF Init, NotifyInv, ChangesNotified
<1>2. NotifyInv => ChangesNotified
  BY DEF NotifyInv
<1> QED
  BY <1>1, <1>2, NotifyInvStep, PTL DEF Spec

-----------------------------------------------------------------------------
(* The processor implements CallList.                                       *)

(* The two modules count the same newer calls.                              *)
LEMMA SameNewerCalls ==
  \A S, f : Abstract!Cardinality(Abstract!NewerCalls(S, f)) = Cardinality(NewerCalls(S, f))
<1>1. \A S, f : Abstract!NewerCalls(S, f) = NewerCalls(S, f)
  BY DEF Abstract!NewerCalls, NewerCalls, Abstract!IsCall, IsCall,
         Abstract!Before, Before, Abstract!SortKey, SortKey, Abstract!TypeRank, TypeRank
<1>2. \A S : Abstract!Cardinality(S) = Cardinality(S)
  BY Zenon DEF Abstract!Cardinality, Cardinality
<1> QED
  BY <1>1, <1>2

(* A step that leaves the lists alone and settles entries.                  *)
LEMMA SettleStep ==
  ASSUME live' = live, Pending' \subseteq Pending
  PROVE  [Abstract!Next]_<<live, Pending>>
<1>1. Pending' = Pending \ (Pending \ Pending')
  OBVIOUS
<1>2. Abstract!Settle(Pending \ Pending')
  BY <1>1 DEF Abstract!Settle
<1> QED
  BY <1>2 DEF Abstract!Next

(* A worker that takes a request from the queue leaves it in the pool.      *)
LEMMA PopPending ==
  ASSUME OwnInv, NEW w \in Workers, Pop(w)
  PROVE  Pending' = Pending
<1>1. /\ Head(queue) \in Requests /\ Head(queue) \in Queued
  BY DEF OwnInv, TypeOK, Pop, Queued
<1>2. fate[Head(queue)] = "queued"
  BY <1>1 DEF OwnInv, RequestOwnership
<1>3. entry' = entry /\ fate' = [fate EXCEPT ![Head(queue)] = "working"]
  BY DEF Pop
<1>4. InPool' = InPool
  BY <1>1, <1>2, <1>3 DEF InPool, OwnInv, TypeOK
<1> QED
  BY <1>3, <1>4 DEF Pending

(* A worker that is done with its request takes it out of the pool.         *)
LEMMA GiveUpPending ==
  ASSUME OwnInv, NEW w \in Workers, RequestComplete(w) \/ Exception(w)
  PROVE  /\ InPool' = InPool \ {clr[w]}
         /\ \A r \in InPool' : entry'[r] = entry[r]
         /\ Pending' = {entry[r] : r \in InPool'}
         /\ Pending' \subseteq Pending
<1>1. /\ pc[w] \in Busy
      /\ entry' \in {entry, [entry EXCEPT ![clr[w]] = NoEntry]}
      /\ \E outcome \in {"settled", "leaked"} : fate' = [fate EXCEPT ![clr[w]] = outcome]
  BY DEF RequestComplete, Exception, LeaveProcessWork, Busy
<1>2. clr[w] \in Requests
  BY <1>1, BusyEntry
<1>3. InPool' = InPool \ {clr[w]}
  BY <1>1, <1>2 DEF InPool, OwnInv, TypeOK
<1>4. \A r \in InPool' : entry'[r] = entry[r]
  BY <1>1, <1>3 DEF InPool, OwnInv, TypeOK
<1> QED
  BY <1>3, <1>4 DEF Pending

(* A restart empties the pool.                                              *)
LEMMA RestartPending ==
  ASSUME Restart
  PROVE  InPool' = {} /\ Pending' = {}
  BY DEF Restart, InPool, Pending

(* A new request is in the pool with the entry it was made for.             *)
LEMMA AskPending ==
  ASSUME OwnInv, NEW r \in Requests, NEW e \in Entries, WriteCallListEntry(r, e)
  PROVE  /\ r \notin InPool /\ InPool' = InPool \cup {r}
         /\ \A q \in InPool : entry'[q] = entry[q]
         /\ entry'[r] = e
         /\ Pending' = Pending \cup {e}
<1>1. /\ fate[r] = "new" /\ fate' = [fate EXCEPT ![r] = "queued"]
      /\ entry' = [entry EXCEPT ![r] = e]
  BY DEF WriteCallListEntry
<1>2. r \notin InPool /\ InPool' = InPool \cup {r}
  BY <1>1 DEF InPool, OwnInv, TypeOK
<1>3. entry'[r] = e /\ \A q \in InPool : entry'[q] = entry[q]
  BY <1>1, <1>2 DEF InPool, OwnInv, TypeOK
<1> QED
  BY <1>2, <1>3 DEF Pending

(* A write records an entry that is pending.                                *)
LEMMA RecordStep ==
  ASSUME KeptInv, NEW w \in Workers, pc[w] \in Busy, UNCHANGED <<entry, fate>>,
         WriteFragment(Impu(w), entry[clr[w]].fragment, cassTimestamp[w])
  PROVE  [Abstract!Next]_<<live, Pending>>
<1> DEFINE e == entry[clr[w]]
<1>1. clr[w] \in InPool /\ e \in Entries
  BY BusyEntry DEF KeptInv, InPool
<1>2. Pending' = Pending /\ e \in Pending
  BY <1>1 DEF Pending, InPool
<1>3. CASE live' = live
  BY <1>2, <1>3
<1>4. CASE live' = [live EXCEPT ![e.impu] = @ \cup {e.fragment}]
  <2>1. Abstract!Record(e)
    BY <1>2, <1>4 DEF Abstract!Record
  <2> QED
    BY <1>1, <2>1 DEF Abstract!Next
<1> QED
  BY <1>3, <1>4 DEF WriteFragment, storeVars, Impu

(* A deletion gives up records that are expendable when it happens.         *)
LEMMA GiveUpStep ==
  ASSUME KeptInv, NEW w \in Workers, NEW part \in SUBSET recordsToDelete[w], Trim(w, part)
  PROVE  [Abstract!Next]_<<live, Pending>>
<1> DEFINE i == Impu(w)
           gone == Deletable(i, part, cassTimestamp[w])
<1>1. i \in Impus
  BY BusyEntry DEF KeptInv, Busy, Trim
<1>2. live' = [live EXCEPT ![i] = @ \ gone] /\ Pending' = Pending
  BY DEF Trim, DeleteFragments, poolVars, Pending, InPool
<1>3. gone \subseteq recordsToDelete[w]
  BY DEF Deletable
<1>4. \A f \in gone : /\ MaxCallListLength > 0
                      /\ Abstract!Cardinality(Abstract!NewerCalls(live[i], f)) >= MaxCallListLength
  BY <1>3, SameNewerCalls DEF KeptInv, PendingTrimsSafe
<1> DEFINE D == gone \cap live[i]
<1>5. D \in SUBSET Abstract!Expendable(live[i])
  BY <1>4 DEF Abstract!Expendable
<1>6. live' = [live EXCEPT ![i] = @ \ D]
  BY <1>2
<1>7. Abstract!GiveUp(i, D)
  BY <1>2, <1>6 DEF Abstract!GiveUp
<1> QED
  BY <1>1, <1>5, <1>7 DEF Abstract!Next

(* Each step of the processor is a step of CallList or none.                *)
LEMMA RefinementStep ==
  KeptInv /\ [Next]_vars => [Abstract!Next]_<<live, Pending>>
<1> SUFFICES ASSUME KeptInv, [Next]_vars
             PROVE  [Abstract!Next]_<<live, Pending>>
  OBVIOUS
<1>1. ASSUME NEW r \in Requests, NEW e \in Entries, WriteCallListEntry(r, e)
      PROVE  [Abstract!Next]_<<live, Pending>>
  <2>1. live' = live /\ Pending' = Pending \cup {e}
    BY <1>1, AskPending DEF WriteCallListEntry, storeVars, KeptInv
  <2>2. Abstract!Ask(e)
    BY <2>1 DEF Abstract!Ask
  <2> QED
    BY <2>2 DEF Abstract!Next
<1>2. ASSUME UNCHANGED <<entry, fate, live>>
      PROVE  [Abstract!Next]_<<live, Pending>>
  BY <1>2 DEF Pending, InPool
<1>8. ASSUME NEW w \in Workers, Pop(w)
      PROVE  [Abstract!Next]_<<live, Pending>>
  <2>1. live' = live /\ Pending' = Pending
    BY <1>8, PopPending DEF Pop, storeVars, KeptInv
  <2> QED
    BY <2>1
<1>3. ASSUME NEW w \in Workers,
             \/ GenerateTimestamp(w) \/ NoTrim(w) \/ ReadForTrim(w)
             \/ Notify(w) \/ WorkerExit(w)
      PROVE  [Abstract!Next]_<<live, Pending>>
  BY <1>2, <1>3 DEF GenerateTimestamp, NoTrim, ReadForTrim, Notify,
                    WorkerExit, poolVars, storeVars
<1>4. ASSUME NEW w \in Workers, WriteOK(w) \/ WriteError(w)
      PROVE  [Abstract!Next]_<<live, Pending>>
  <2>1. /\ pc[w] \in Busy /\ UNCHANGED <<entry, fate>>
        /\ \/ UNCHANGED live
           \/ WriteFragment(Impu(w), entry[clr[w]].fragment, cassTimestamp[w])
    BY <1>4 DEF WriteOK, WriteError, poolVars, storeVars, Impu, Busy
  <2> QED
    BY <1>2, <2>1, RecordStep
<1>5. ASSUME NEW w \in Workers, RequestComplete(w) \/ Exception(w)
      PROVE  [Abstract!Next]_<<live, Pending>>
  <2>1. live' = live /\ Pending' \subseteq Pending
    BY <1>5, GiveUpPending DEF RequestComplete, Exception, storeVars, KeptInv
  <2> QED
    BY <2>1, SettleStep
<1>6. ASSUME Restart
      PROVE  [Abstract!Next]_<<live, Pending>>
  <2>1. live' = live /\ Pending' = {}
    BY <1>6, RestartPending DEF Restart, storeVars
  <2> QED
    BY <2>1, SettleStep
<1>7. ASSUME Stop \/ Join \/ UNCHANGED vars
      PROVE  [Abstract!Next]_<<live, Pending>>
  BY <1>2, <1>7 DEF Stop, Join, vars, poolVars, storeVars
<1> QED
  <2>1. ASSUME NEW w \in Workers, ProcessWork(w)
        PROVE  [Abstract!Next]_<<live, Pending>>
    BY <2>1, <1>3, <1>4, <1>5, GiveUpStep DEF ProcessWork, TrimOK, TrimError
  <2> QED
    BY <2>1, <1>1, <1>3, <1>5, <1>6, <1>7, <1>8 DEF Next

(* Queue, threads, timestamps, failures and restarts add nothing to what    *)
(* CallList allows: a record enters a list only while it is asked for, and  *)
(* leaves it only while MaxCallListLength newer calls are in the list.      *)
THEOREM ProcessorImplementsCallList == Spec => ImplementsCallList
<1>1. Init => Abstract!Init
  BY DEF Init, Abstract!Init, Pending, InPool
<1> QED
  BY <1>1, RefinementStep, KeptInvInit, KeptInvStep, PTL
  DEF Spec, ImplementsCallList, Abstract!Spec
=============================================================================
