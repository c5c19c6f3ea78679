---------------------------- MODULE MementoProofs ----------------------------
(***************************************************************************)
(* Proofs about Memento, for any number of subscribers, calls, workers,    *)
(* requests and restarts.                                                  *)
(***************************************************************************)
EXTENDS Memento, CallListStoreProcessorProofs

-----------------------------------------------------------------------------
(* A handler that asks for an entry takes a step of the processor.          *)
LEMMA WriteEntryStep ==
  ASSUME NEW k \in Handlers!Key, NEW type \in FragmentType,
         WriteEntry(Handlers!EntryOf(k, type))
  PROVE  /\ [Next]_vars
         /\ Handlers!EntryOf(k, type) \in Entries
         /\ \E r \in Requests : WriteCallListEntry(r, Handlers!EntryOf(k, type))
BY NewCallsAssumption DEF WriteEntry, Next

(* Each step of Memento is a step of the processor or none.                 *)
LEMMA ProcessorStep == [MementoNext]_mementoVars => [Next]_vars
<1> SUFFICES ASSUME [MementoNext]_mementoVars
             PROVE  [Next]_vars
  OBVIOUS
<1>1. ASSUME NEW k \in Handlers!Key, HandlerJoins(k)
      PROVE  [Next]_vars
  BY <1>1 DEF HandlerJoins
<1>2. ASSUME NEW k \in Handlers!Key, NEW type \in Handlers!Outcomes, HandlerOpens(k, type)
      PROVE  [Next]_vars
  BY <1>2, WriteEntryStep DEF HandlerOpens, Handlers!Outcomes, FragmentType
<1>3. ASSUME NEW k \in Handlers!Key, HandlerEnds(k)
      PROVE  [Next]_vars
  BY <1>3, WriteEntryStep DEF HandlerEnds, FragmentType
<1>4. ASSUME NEW w \in Workers, WorkerStep(w)
      PROVE  [Next]_vars
  BY <1>4 DEF WorkerStep, Work, Next
<1>5. ASSUME SproutRestarts
      PROVE  [Next]_vars
  BY <1>5 DEF SproutRestarts, LoseWork, Next
<1>6. ASSUME UNCHANGED mementoVars
      PROVE  [Next]_vars
  BY <1>6 DEF mementoVars
<1> QED
  BY <1>1, <1>2, <1>3, <1>4, <1>5, <1>6 DEF MementoNext

(* What is proved of the processor for any entries and any order of them    *)
(* holds where the handlers are the ones who ask.                           *)
THEOREM MementoRunsProcessor == MementoSpec => Spec
BY ProcessorStep, PTL DEF MementoSpec, MementoInit, Spec

-----------------------------------------------------------------------------
(* Nothing a handler asks for vanishes unnoticed.                           *)

HasRoomFor(e) ==
  /\ MaxCallListLength > 0
  /\ Cardinality(NewerCalls(live[e.impu], e.fragment)) >= MaxCallListLength

Settled(e) == e.fragment \in live[e.impu] \/ e \in lost \/ HasRoomFor(e)

(* A worker has tried to write the entry it has.                            *)
Tried(w) == pc[w] \in {"check", "trim", "notify", "report"}

AccountInv ==
  /\ KeptInv
  /\ asked \subseteq Entries
  /\ \A e \in asked : Settled(e) \/ e \in Pending
  /\ \A w \in Workers : Tried(w) => Settled(entry[clr[w]])
  /\ \A w \in Workers : pc[w] = "write" => cassTimestamp[w] > 0

(* What is settled stays settled.                                           *)
LEMMA SettledKept ==
  ASSUME KeptInv, [Next]_vars, lost \subseteq lost', NEW e \in Entries, Settled(e)
  PROVE  Settled(e)'
<1>1. /\ e.impu \in Impus /\ e.fragment \in Fragment
  BY EntriesAssumption
<1>2. live \in [Impus -> SUBSET Fragment] /\ \A i \in Impus : IsFiniteSet(live[i])
  BY DEF KeptInv, OwnInv, TypeOK, FiniteLists
<1>3. CASE live' = live
  BY <1>3 DEF Settled, HasRoomFor
<1>4. ASSUME NEW d \in Entries, live' = [live EXCEPT ![d.impu] = @ \cup {d.fragment}]
      PROVE  Settled(e)'
  <2>1. d.impu \in Impus /\ d.fragment \in Fragment
    BY EntriesAssumption
  <2>2. live[e.impu] \subseteq live'[e.impu] /\ IsFiniteSet(live'[e.impu])
    BY <1>1, <1>2, <1>4, <2>1, FS_AddElement
  <2>3. /\ NewerCalls(live[e.impu], e.fragment) \subseteq NewerCalls(live'[e.impu], e.fragment)
        /\ NewerCalls(live'[e.impu], e.fragment) \subseteq live'[e.impu]
    BY <2>2 DEF NewerCalls
  <2>4. HasRoomFor(e) => HasRoomFor(e)'
    <3>1. IsFiniteSet(NewerCalls(live'[e.impu], e.fragment))
      BY <2>2, <2>3, FS_Subset
    <3>2. /\ Cardinality(NewerCalls(live[e.impu], e.fragment))
               <= Cardinality(NewerCalls(live'[e.impu], e.fragment))
          /\ Cardinality(NewerCalls(live[e.impu], e.fragment)) \in Nat
          /\ Cardinality(NewerCalls(live'[e.impu], e.fragment)) \in Nat
      BY <2>3, <3>1, FS_Subset, FS_CardinalityType
    <3> QED
      BY <3>2, MaxLengthAssumption DEF HasRoomFor
  <2> QED
    BY <2>2, <2>4 DEF Settled
<1>5. ASSUME NEW i \in Impus, NEW D \in SUBSET Abstract!Expendable(live[i]),
             live' = [live EXCEPT ![i] = @ \ D]
      PROVE  Settled(e)'
  <2>1. CASE i # e.impu
    BY <1>1, <1>2, <1>5, <2>1 DEF Settled, HasRoomFor
  <2>2. CASE i = e.impu
    <3> DEFINE S == live[i]
    <3>1. /\ S \in SUBSET Fragment /\ IsFiniteSet(S) /\ D \in SUBSET S
          /\ live'[i] = S \ D
          /\ D # {} => MaxCallListLength > 0
          /\ \A d \in D : Cardinality(NewerCalls(S, d)) >= MaxCallListLength
      BY <1>2, <1>5, SameNewerCalls DEF Abstract!Expendable
    <3>2. e.fragment \in D => HasRoomFor(e)
      BY <3>1, <2>2 DEF HasRoomFor
    <3>3. HasRoomFor(e) => HasRoomFor(e)'
      BY <1>1, <2>2, <3>1, DeletionKeepsNewerCalls, MaxLengthAssumption DEF HasRoomFor
    <3> QED
      BY <2>2, <3>1, <3>2, <3>3 DEF Settled
  <2> QED
    BY <2>1, <2>2
<1> QED
  BY <1>3, <1>4, <1>5, RefinementStep
  DEF Abstract!Next, Abstract!Ask, Abstract!Record, Abstract!Settle, Abstract!GiveUp

(* What a worker holds is an entry.                                         *)
LEMMA TriedEntry ==
  ASSUME KeptInv, NEW w \in Workers, Tried(w) \/ Unwritten(w)
  PROVE  clr[w] \in Requests /\ fate[clr[w]] = "working" /\ entry[clr[w]] \in Entries
BY BusyEntry DEF KeptInv, Tried, Unwritten, Busy

(* The steps of a worker that neither take nor release a request.           *)
LEMMA AccountOnTheWay ==
  ASSUME AccountInv, [Next]_vars, lost \subseteq lost', UNCHANGED <<entry, fate, clr, asked>>,
         NEW w \in Workers, NEW label, pc' = [pc EXCEPT ![w] = label],
         Tried(w)' => Tried(w) \/ Settled(entry[clr[w]])',
         \A v \in Workers : cassTimestamp'[v] = cassTimestamp[v] \/ cassTimestamp'[v] > 0,
         label = "write" => cassTimestamp'[w] > 0
  PROVE  AccountInv'
<1>1. KeptInv' /\ pc \in [Workers -> PC] /\ Pending' = Pending
  BY KeptInvStep DEF AccountInv, KeptInv, OwnInv, TypeOK, Pending, InPool
<1>2. asked' \subseteq Entries
  BY DEF AccountInv
<1>3. ASSUME NEW e \in asked'
      PROVE  Settled(e)' \/ e \in Pending'
  BY <1>1, <1>2, <1>3, SettledKept DEF AccountInv
<1>4. ASSUME NEW v \in Workers, Tried(v)'
      PROVE  Settled(entry[clr[v]])'
  <2>1. Tried(v) \/ (v = w /\ Settled(entry[clr[w]])')
    BY <1>1, <1>4 DEF Tried
  <2>2. ASSUME Tried(v)
        PROVE  Settled(entry[clr[v]])'
    <3> DEFINE e == entry[clr[v]]
    <3>1. e \in Entries /\ Settled(e)
      BY <2>2, TriedEntry DEF AccountInv
    <3>2. \A d \in Entries : Settled(d) => Settled(d)'
      BY SettledKept DEF AccountInv
    <3>3. entry'[clr'[v]] = e
      OBVIOUS
    <3> QED
      BY <3>1, <3>2, <3>3 DEF Settled, HasRoomFor
  <2> QED
    BY <2>1, <2>2
<1>5. ASSUME NEW v \in Workers, pc'[v] = "write"
      PROVE  cassTimestamp'[v] > 0
  BY <1>1, <1>5 DEF AccountInv
<1> QED
  BY <1>1, <1>2, <1>3, <1>4, <1>5 DEF AccountInv

(* The write is acknowledged: the record is in the list, or a deletion that *)
(* is as recent as the write has taken it.                                  *)
LEMMA WrittenSettled ==
  ASSUME AccountInv, NEW w \in Workers, WriteOK(w), KeptInv'
  PROVE  Settled(entry[clr[w]])'
<1> DEFINE e == entry[clr[w]]
           i == e.impu
           f == e.fragment
           t == cassTimestamp[w]
<1>1. pc[w] = "write" /\ WriteFragment(i, f, t) /\ UNCHANGED <<entry, clr>>
  BY DEF WriteOK, poolVars
<1>2. e \in Entries /\ i \in Impus /\ f \in Fragment
  BY <1>1, TriedEntry, EntriesAssumption DEF AccountInv, Unwritten
<1>3. /\ live \in [Impus -> SUBSET Fragment] /\ stamp \in [Impus -> [Fragment -> Nat]]
      /\ t \in Nat /\ t > 0
  BY <1>1 DEF AccountInv, KeptInv, OwnInv, TypeOK
<1>4. CASE f \in live'[i]
  BY <1>1, <1>4 DEF Settled
<1>5. CASE f \notin live'[i]
  <2>1. ~ WriteWins(i, f, t) /\ UNCHANGED storeVars
    BY <1>1, <1>2, <1>3, <1>5 DEF WriteFragment
  <2>2. f \notin live[i] /\ stamp[i][f] >= t
    BY <1>2, <1>3, <1>5, <2>1 DEF WriteWins, storeVars
  <2>3. stamp'[i][f] > 0
    BY <1>2, <1>3, <2>1, <2>2 DEF storeVars
  <2>4. \A j \in Impus : \A g \in Fragment :
          stamp'[j][g] > 0 /\ g \notin live'[j] =>
            /\ MaxCallListLength > 0
            /\ Cardinality(NewerCalls(live'[j], g)) >= MaxCallListLength
    BY DEF KeptInv, RecordsKept, EverStored
  <2>5. MaxCallListLength > 0 /\ Cardinality(NewerCalls(live'[i], f)) >= MaxCallListLength
    BY <1>2, <1>5, <2>3, <2>4
  <2> QED
    BY <1>1, <2>5 DEF Settled, HasRoomFor
<1> QED
  BY <1>4, <1>5

(* A step of a worker.                                                      *)
LEMMA AccountWorker ==
  ASSUME AccountInv, NEW w \in Workers, Work(w), UNCHANGED asked
  PROVE  AccountInv'
<1>0. /\ pc \in [Workers -> PC] /\ clr \in [Workers -> Requests \cup {NoRequest}]
      /\ cassTimestamp \in [Workers -> Nat] /\ clock \in Nat
      /\ entry \in [Requests -> Entries \cup {NoEntry}]
  BY DEF AccountInv, KeptInv, OwnInv, TypeOK
<1>1. /\ [Next]_vars /\ lost \subseteq lost' /\ UNCHANGED asked
      /\ Pop(w) \/ ProcessWork(w) \/ Exception(w)
  BY DEF Work, Next
<1>2. KeptInv' /\ asked' \subseteq Entries
  BY <1>1, KeptInvStep DEF AccountInv
<1>3. \A d \in Entries : Settled(d) => Settled(d)'
  BY <1>1, SettledKept DEF AccountInv
<1>4. CASE Pop(w)
  <2>1. /\ pc' = [pc EXCEPT ![w] = "stamp"] /\ clr' = [clr EXCEPT ![w] = Head(queue)]
        /\ UNCHANGED <<entry, cassTimestamp>>
    BY <1>4 DEF Pop, Goto
  <2>2. ASSUME NEW v \in Workers, Tried(v)'
        PROVE  Settled(entry[clr[v]])'
    <3>1. v # w /\ Tried(v) /\ entry'[clr'[v]] = entry[clr[v]]
      BY <1>0, <2>1, <2>2 DEF Tried
    <3>2. entry[clr[v]] \in Entries /\ Settled(entry[clr[v]])
      BY <3>1, TriedEntry DEF AccountInv
    <3> QED
      BY <1>3, <3>1, <3>2 DEF Settled, HasRoomFor
  <2>3. ASSUME NEW e \in asked'
        PROVE  Settled(e)' \/ e \in Pending'
    BY <1>1, <1>2, <1>3, <1>4, <2>3, PopPending DEF AccountInv, KeptInv
  <2>4. \A v \in Workers : pc'[v] = "write" => cassTimestamp'[v] > 0
    BY <1>0, <2>1 DEF AccountInv
  <2> QED
    BY <1>2, <2>2, <2>3, <2>4 DEF AccountInv
<1>5. CASE GenerateTimestamp(w)
  <2>1. /\ pc' = [pc EXCEPT ![w] = "write"] /\ UNCHANGED <<entry, fate, clr>>
        /\ cassTimestamp' = [cassTimestamp EXCEPT ![w] = clock']
        /\ clock' \in {clock, clock + 1} \ {0}
    BY <1>5 DEF GenerateTimestamp, Goto, poolVars
  <2>2. /\ \A v \in Workers : cassTimestamp'[v] = cassTimestamp[v] \/ cassTimestamp'[v] > 0
        /\ cassTimestamp'[w] > 0
    BY <1>0, <2>1
  <2>3. ~ Tried(w)'
    BY <1>0, <2>1 DEF Tried
  <2> QED
    BY <1>1, <2>1, <2>2, <2>3, AccountOnTheWay
<1>6. CASE WriteOK(w)
  <2>1. pc' = [pc EXCEPT ![w] = "check"] /\ UNCHANGED <<entry, fate, clr, cassTimestamp>>
    BY <1>6 DEF WriteOK, Goto, poolVars
  <2>2. Settled(entry[clr[w]])'
    BY <1>2, <1>6, WrittenSettled
  <2> QED
    BY <1>1, <2>1, <2>2, AccountOnTheWay
<1>7. CASE WriteError(w)
  <2>1. /\ pc[w] = "write" /\ pc' = [pc EXCEPT ![w] = "report"]
        /\ UNCHANGED <<entry, fate, clr, cassTimestamp>>
    BY <1>7 DEF WriteError, Goto, poolVars
  <2>2. entry[clr[w]] \in lost'
    BY <1>0, <2>1 DEF Work, Unwritten
  <2>3. Settled(entry[clr[w]])'
    BY <2>1, <2>2 DEF Settled
  <2> QED
    BY <1>1, <2>1, <2>3, AccountOnTheWay
<1>8. CASE NoTrim(w) \/ ReadForTrim(w) \/ TrimOK(w) \/ TrimError(w) \/ Notify(w)
  <2>1. /\ Tried(w) /\ UNCHANGED <<entry, fate, clr, cassTimestamp>>
        /\ \E label \in {"trim", "notify", "report"} : pc' = [pc EXCEPT ![w] = label]
    BY <1>8 DEF NoTrim, ReadForTrim, TrimOK, TrimError, Trim, Notify,
                Goto, poolVars, Tried
  <2> QED
    BY <1>1, <2>1, AccountOnTheWay
<1>9. CASE RequestComplete(w) \/ Exception(w)
  <2>1. /\ Tried(w) \/ Unwritten(w)
        /\ pc' = [pc EXCEPT ![w] = "idle"] /\ clr' = [clr EXCEPT ![w] = NoRequest]
        /\ entry' \in {entry, [entry EXCEPT ![clr[w]] = NoEntry]}
        /\ cassTimestamp' = [cassTimestamp EXCEPT ![w] = 0]
    BY <1>9 DEF RequestComplete, Exception, LeaveProcessWork, Goto, Tried, Unwritten, Busy
  <2>2. clr[w] \in Requests /\ entry[clr[w]] \in Entries
    BY <2>1, TriedEntry DEF AccountInv
  <2> DEFINE e == entry[clr[w]]
  <2>3. e \in lost' \/ (e.fragment \in live'[e.impu])
        \/ (MaxCallListLength > 0
            /\ Cardinality(NewerCalls(live'[e.impu], e.fragment)) >= MaxCallListLength)
    <3>1. CASE Tried(w)
      <4>1. Settled(e) /\ e \in Entries
        BY <2>2, <3>1 DEF AccountInv
      <4> QED
        BY <1>3, <4>1 DEF Settled, HasRoomFor
    <3>2. CASE Unwritten(w)
      BY <1>0, <2>1, <3>2 DEF Work
    <3> QED
      BY <2>1, <3>1, <3>2
  <2>4. ASSUME NEW d \in asked'
        PROVE  Settled(d)' \/ d \in Pending'
    <3>1. CASE Settled(d)
      BY <1>2, <1>3, <3>1
    <3>2. CASE d = e
      BY <2>3, <3>2 DEF Settled, HasRoomFor
    <3>3. CASE d \in Pending /\ d # e
      BY <1>9, <3>3, GiveUpPending DEF Pending, AccountInv, KeptInv
    <3> QED
      BY <1>1, <2>4, <3>1, <3>2, <3>3 DEF AccountInv
  <2>5. ASSUME NEW v \in Workers, Tried(v)'
        PROVE  Settled(entry[clr[v]])'
    <3>1. v # w /\ Tried(v) /\ clr'[v] = clr[v]
      BY <1>0, <2>1, <2>5 DEF Tried
    <3>2. clr[v] \in Requests /\ clr[v] # clr[w] /\ entry[clr[v]] \in Entries
      BY <2>2, <3>1, TriedEntry, RequestsAssumption
      DEF AccountInv, KeptInv, OwnInv, RequestOwnership
    <3>3. Settled(entry[clr[v]]) /\ entry'[clr'[v]] = entry[clr[v]]
      BY <1>0, <2>1, <3>1, <3>2 DEF AccountInv
    <3> QED
      BY <1>3, <3>2, <3>3 DEF Settled, HasRoomFor
  <2>6. \A v \in Workers : pc'[v] = "write" => cassTimestamp'[v] > 0
    BY <1>0, <2>1 DEF AccountInv
  <2> QED
    BY <1>2, <2>4, <2>5, <2>6 DEF AccountInv
<1> QED
  BY <1>1, <1>4, <1>5, <1>6, <1>7, <1>8, <1>9 DEF ProcessWork

(* A handler asks for an entry.                                             *)
LEMMA AccountHandler ==
  ASSUME AccountInv, NEW e \in Entries, WriteEntry(e), asked' = asked \cup {e}
  PROVE  AccountInv'
<1>1. [Next]_vars /\ lost' = lost
  BY DEF WriteEntry, Next
<1>2. KeptInv' /\ asked' \subseteq Entries
  BY <1>1, KeptInvStep DEF AccountInv
<1>3. \A d \in Entries : Settled(d) => Settled(d)'
  BY <1>1, SettledKept DEF AccountInv
<1>4. PICK r \in Requests : WriteCallListEntry(r, e)
  BY DEF WriteEntry
<1>5. /\ fate[r] = "new" /\ entry' = [entry EXCEPT ![r] = e]
      /\ UNCHANGED <<pc, clr, cassTimestamp>>
  BY <1>4 DEF WriteCallListEntry, workVars
<1>6. /\ entry \in [Requests -> Entries \cup {NoEntry}] /\ entry[r] = NoEntry
  BY <1>5 DEF AccountInv, KeptInv, OwnInv, TypeOK, RequestOwnership
<1>7. Pending' = Pending \cup {e}
  BY <1>4, AskPending DEF AccountInv, KeptInv
<1>8. ASSUME NEW d \in asked'
      PROVE  Settled(d)' \/ d \in Pending'
  BY <1>2, <1>3, <1>7, <1>8 DEF AccountInv
<1>9. ASSUME NEW v \in Workers, Tried(v)'
      PROVE  Settled(entry[clr[v]])'
  <2>1. Tried(v) /\ clr'[v] = clr[v]
    BY <1>5, <1>9 DEF Tried
  <2>2. clr[v] \in Requests /\ clr[v] # r /\ entry[clr[v]] \in Entries
    BY <1>5, <2>1, TriedEntry DEF AccountInv
  <2>3. Settled(entry[clr[v]]) /\ entry'[clr'[v]] = entry[clr[v]]
    BY <1>5, <1>6, <2>1, <2>2 DEF AccountInv
  <2> QED
    BY <1>3, <2>2, <2>3 DEF Settled, HasRoomFor
<1>10. \A v \in Workers : pc'[v] = "write" => cassTimestamp'[v] > 0
  BY <1>5 DEF AccountInv
<1> QED
  BY <1>2, <1>8, <1>9, <1>10 DEF AccountInv

(* A restart loses what had not been written.                               *)
LEMMA AccountRestart ==
  ASSUME AccountInv, LoseWork, UNCHANGED asked
  PROVE  AccountInv'
<1>1. [Next]_vars /\ lost \subseteq lost' /\ asked' = asked
  BY DEF LoseWork, Next
<1>2. KeptInv' /\ asked' \subseteq Entries
  BY <1>1, KeptInvStep DEF AccountInv
<1>3. \A d \in Entries : Settled(d) => Settled(d)'
  BY <1>1, SettledKept DEF AccountInv
<1>4. pc' = [w \in Workers |-> "idle"]
  BY DEF LoseWork, Restart
<1>5. ASSUME NEW d \in asked, d \in Pending
      PROVE  Settled(d) \/ d \in lost'
  <2>1. PICK r \in Requests : r \in InPool /\ d = entry[r]
    BY <1>5 DEF Pending, InPool
  <2>2. r \in Queued \/ \E w \in Workers : clr[w] = r
    BY <2>1 DEF AccountInv, KeptInv, OwnInv, RequestOwnership, InPool
  <2>3. ASSUME NEW w \in Workers, clr[w] = r
        PROVE  Settled(d) \/ d \in lost'
    <3>1. Tried(w) \/ Unwritten(w)
      BY <2>3, RequestsAssumption
      DEF AccountInv, KeptInv, OwnInv, HeldRequests, Busy, Tried, Unwritten
    <3> QED
      BY <2>1, <2>3, <3>1 DEF AccountInv, LoseWork
  <2> QED
    BY <2>1, <2>2, <2>3 DEF LoseWork
<1>6. ASSUME NEW d \in asked'
      PROVE  Settled(d)' \/ d \in Pending'
  <2>1. d \in lost' => Settled(d)'
    BY DEF Settled
  <2> QED
    BY <1>1, <1>2, <1>3, <1>5, <1>6, <2>1 DEF AccountInv
<1>7. \A v \in Workers : pc'[v] = "idle"
  BY <1>4
<1> QED
  BY <1>2, <1>6, <1>7 DEF AccountInv, Tried

LEMMA AccountUntouched ==
  ASSUME AccountInv, UNCHANGED <<vars, asked, lost>>
  PROVE  AccountInv'
<1>1. KeptInv'
  BY KeptInvStep DEF AccountInv
<1>2. UNCHANGED <<entry, clr, pc, cassTimestamp, live, asked, lost>> /\ Pending' = Pending
  BY DEF vars, poolVars, workVars, storeVars, Pending, InPool
<1>3. \A e : Settled(e)' <=> Settled(e)
  BY <1>2 DEF Settled, HasRoomFor
<1>4. ASSUME NEW w \in Workers, Tried(w)'
      PROVE  Settled(entry[clr[w]])'
  BY <1>2, <1>4 DEF AccountInv, Tried, Settled, HasRoomFor
<1> QED
  BY <1>1, <1>2, <1>3, <1>4 DEF AccountInv

LEMMA AccountInvStep == AccountInv /\ [MementoNext]_mementoVars => AccountInv'
<1> SUFFICES ASSUME AccountInv, [MementoNext]_mementoVars
             PROVE  AccountInv'
  OBVIOUS
<1>1. ASSUME UNCHANGED <<vars, asked, lost>>
      PROVE  AccountInv'
  BY <1>1, AccountUntouched
<1>2. ASSUME NEW k \in Handlers!Key, HandlerJoins(k)
      PROVE  AccountInv'
  BY <1>1, <1>2 DEF HandlerJoins, Handlers!Join
<1>3. ASSUME NEW k \in Handlers!Key, NEW type \in Handlers!Outcomes, HandlerOpens(k, type)
      PROVE  AccountInv'
  BY <1>3, WriteEntryStep, AccountHandler
  DEF HandlerOpens, Handlers!Open, Handlers!Outcomes, FragmentType
<1>4. ASSUME NEW k \in Handlers!Key, HandlerEnds(k)
      PROVE  AccountInv'
  BY <1>4, WriteEntryStep, AccountHandler DEF HandlerEnds, Handlers!End, FragmentType
<1>5. ASSUME UNCHANGED mementoVars
      PROVE  AccountInv'
  BY <1>1, <1>5 DEF mementoVars, handlerVars
<1> QED
  BY <1>2, <1>3, <1>4, <1>5, AccountWorker, AccountRestart
  DEF MementoNext, WorkerStep, handlerVars, SproutRestarts, Handlers!LoseTransactions

LEMMA AccountInvInit == MementoInit => AccountInv
<1> SUFFICES ASSUME MementoInit
             PROVE  AccountInv
  OBVIOUS
<1>1. KeptInv /\ asked = {}
  BY KeptInvInit DEF MementoInit, Handlers!Init
<1>2. \A w \in Workers : pc[w] = "idle"
  BY DEF MementoInit, Init
<1> QED
  BY <1>1, <1>2 DEF AccountInv, Tried

(* Whatever is asked for, in whatever order the workers take it, whatever   *)
(* fails and however often Sprout is restarted, an entry is in its list, on *)
(* its way there, lost with its write, or older than MaxCallListLength      *)
(* calls in the list.                                                       *)
THEOREM EntriesStayAccountedFor == MementoSpec => []EntriesAccountedFor
<1>1. AccountInv => EntriesAccountedFor
  BY DEF AccountInv, EntriesAccountedFor, Settled, HasRoomFor
<1> QED
  BY <1>1, AccountInvInit, AccountInvStep, PTL DEF MementoSpec

-----------------------------------------------------------------------------
(* A call has one outcome.                                                  *)

EntryFor(i, f) == [impu |-> i, fragment |-> f]

(* Only a call in progress can be opened, and then only once.               *)
OpenedOnce ==
  /\ inProgress \subseteq joined
  /\ \A k \in Handlers!Key, type \in Handlers!Outcomes :
       Handlers!EntryOf(k, type) \in asked => k \in joined \ inProgress
  /\ \A k \in Handlers!Key :
       ~ /\ Handlers!EntryOf(k, "BEGIN") \in asked
         /\ Handlers!EntryOf(k, "REJECTED") \in asked

(* Of the calls made while Sprout runs, the pool, the lists, the tombstones *)
(* and the workers' selections hold only what was asked for.                *)
Traced ==
  /\ Pending \subseteq asked
  /\ \A i \in Impus, f \in Fragment :
       f.call \in NewCalls /\ (f \in live[i] \/ stamp[i][f] > 0) => EntryFor(i, f) \in asked
  /\ \A w \in Workers : \A f \in recordsToDelete[w] :
       f.call \in NewCalls => EntryFor(Impu(w), f) \in asked

LEMMA HandlersAskOn == [MementoNext]_mementoVars => asked \subseteq asked'
BY DEF MementoNext, mementoVars, handlerVars, HandlerJoins, HandlerOpens, HandlerEnds,
       WorkerStep, SproutRestarts, Handlers!Join, Handlers!Open, Handlers!End,
       Handlers!LoseTransactions

LEMMA OpenedOnceStep == OpenedOnce /\ [MementoNext]_mementoVars => OpenedOnce'
<1> SUFFICES ASSUME OpenedOnce, [MementoNext]_mementoVars
             PROVE  OpenedOnce'
  OBVIOUS
<1>1. ASSUME NEW k \in Handlers!Key, Handlers!Join(k)
      PROVE  OpenedOnce'
  BY <1>1 DEF OpenedOnce, Handlers!Join
<1>2. ASSUME NEW k \in Handlers!Key, NEW type \in Handlers!Outcomes, Handlers!Open(k, type)
      PROVE  OpenedOnce'
  <2>1. /\ k \in inProgress /\ k \in joined /\ joined' = joined /\ inProgress' = inProgress \ {k}
        /\ asked' = asked \cup {Handlers!EntryOf(k, type)}
    BY <1>2 DEF OpenedOnce, Handlers!Open
  <2>2. \A t \in Handlers!Outcomes : Handlers!EntryOf(k, t) \notin asked
    BY <2>1 DEF OpenedOnce
  <2>3. ASSUME NEW j \in Handlers!Key, NEW t \in Handlers!Outcomes,
               Handlers!EntryOf(j, t) = Handlers!EntryOf(k, type)
        PROVE  j = k /\ t = type
    BY <2>3 DEF Handlers!EntryOf, Handlers!Key
  <2>4. ASSUME NEW j \in Handlers!Key, NEW t \in Handlers!Outcomes,
               Handlers!EntryOf(j, t) \in asked'
        PROVE  j \in joined' \ inProgress'
    BY <2>1, <2>3, <2>4 DEF OpenedOnce
  <2>5. ASSUME NEW j \in Handlers!Key
        PROVE  ~ /\ Handlers!EntryOf(j, "BEGIN") \in asked'
                 /\ Handlers!EntryOf(j, "REJECTED") \in asked'
    BY <2>1, <2>2, <2>3 DEF OpenedOnce, Handlers!Outcomes
  <2> QED
    BY <2>1, <2>4, <2>5 DEF OpenedOnce
<1>3. ASSUME NEW k \in Handlers!Key, Handlers!End(k)
      PROVE  OpenedOnce'
  <2>1. /\ joined' = joined /\ inProgress' = inProgress
        /\ asked' = asked \cup {Handlers!EntryOf(k, "END")}
    BY <1>3 DEF Handlers!End
  <2>2. ASSUME NEW j \in Handlers!Key, NEW t \in Handlers!Outcomes,
               Handlers!EntryOf(j, t) \in asked'
        PROVE  Handlers!EntryOf(j, t) \in asked
    <3>1. Handlers!EntryOf(j, t) # Handlers!EntryOf(k, "END")
      BY DEF Handlers!EntryOf, Handlers!Outcomes
    <3> QED
      BY <2>1, <2>2, <3>1
  <2> QED
    BY <2>1, <2>2 DEF OpenedOnce, Handlers!Outcomes
<1>4. ASSUME Handlers!LoseTransactions
      PROVE  OpenedOnce'
  BY <1>4 DEF OpenedOnce, Handlers!LoseTransactions
<1>5. ASSUME UNCHANGED handlerVars
      PROVE  OpenedOnce'
  BY <1>5 DEF OpenedOnce, handlerVars
<1> QED
  BY <1>1, <1>2, <1>3, <1>4, <1>5
  DEF MementoNext, mementoVars, HandlerJoins, HandlerOpens, HandlerEnds, WorkerStep, SproutRestarts

(* A step that leaves the store alone and selects nothing.                  *)
LEMMA TracedUntouched ==
  ASSUME Traced, asked \subseteq asked', Pending' \subseteq asked', UNCHANGED storeVars,
         \A w \in Workers : recordsToDelete'[w] # {} =>
           recordsToDelete'[w] = recordsToDelete[w] /\ Impu(w)' = Impu(w)
  PROVE  Traced'
<1>1. live' = live /\ stamp' = stamp
  BY DEF storeVars
<1>2. ASSUME NEW w \in Workers, NEW f \in recordsToDelete'[w], f.call \in NewCalls
      PROVE  EntryFor(Impu(w)', f) \in asked'
  BY <1>2 DEF Traced
<1> QED
  BY <1>1, <1>2 DEF Traced, EntryFor

(* A write of an entry that was asked for.                                  *)
LEMMA TracedWrite ==
  ASSUME KeptInv, Traced, NEW w \in Workers, pc[w] = "write",
         asked \subseteq asked', UNCHANGED <<entry, fate, clr, recordsToDelete>>,
         WriteFragment(Impu(w), entry[clr[w]].fragment, cassTimestamp[w])
  PROVE  Traced'
<1> DEFINE e == entry[clr[w]]
<1>1. clr[w] \in InPool /\ e \in Entries
  BY BusyEntry DEF KeptInv, Busy, InPool
<1>2. e \in asked /\ e = EntryFor(e.impu, e.fragment)
  BY <1>1, EntriesAssumption DEF Traced, Pending, EntryFor
<1>3. live \in [Impus -> SUBSET Fragment] /\ stamp \in [Impus -> [Fragment -> Nat]]
  BY DEF KeptInv, OwnInv, TypeOK
<1>4. \A v \in Workers : Impu(v)' = Impu(v)
  BY DEF Impu
<1>5. ASSUME NEW i \in Impus, NEW f \in Fragment, f.call \in NewCalls,
             f \in live'[i] \/ stamp'[i][f] > 0
      PROVE  EntryFor(i, f) \in asked
  <2>1. (f \in live[i] \/ stamp[i][f] > 0) \/ (i = e.impu /\ f = e.fragment)
    BY <1>3, <1>5 DEF WriteFragment, Impu, storeVars
  <2> QED
    BY <1>2, <1>5, <2>1 DEF Traced
<1>6. Pending' = Pending
  BY DEF Pending, InPool
<1> QED
  BY <1>4, <1>5, <1>6 DEF Traced

(* A deletion of records that were asked for.                               *)
LEMMA TracedTrim ==
  ASSUME KeptInv, Traced, NEW w \in Workers, NEW part \in SUBSET recordsToDelete[w],
         Trim(w, part), asked \subseteq asked'
  PROVE  Traced'
<1> DEFINE gone == Deletable(Impu(w), part, cassTimestamp[w])
<1>1. /\ pc[w] = "trim" /\ UNCHANGED <<entry, fate, clr>>
      /\ recordsToDelete' = [recordsToDelete EXCEPT ![w] = {}]
      /\ DeleteFragments(Impu(w), part, cassTimestamp[w])
  BY DEF Trim, poolVars
<1>2. /\ live \in [Impus -> SUBSET Fragment] /\ stamp \in [Impus -> [Fragment -> Nat]]
      /\ recordsToDelete \in [Workers -> SUBSET Fragment] /\ Impu(w) \in Impus
  BY <1>1, BusyEntry DEF KeptInv, OwnInv, TypeOK, Busy
<1>3. /\ live' = [live EXCEPT ![Impu(w)] = @ \ gone]
      /\ stamp' = [stamp EXCEPT ![Impu(w)] =
                     [f \in Fragment |-> IF f \in gone THEN cassTimestamp[w] ELSE @[f]]]
      /\ gone \subseteq recordsToDelete[w]
  BY <1>1 DEF DeleteFragments, Deletable
<1>4. ASSUME NEW i \in Impus, NEW f \in Fragment, f.call \in NewCalls,
             f \in live'[i] \/ stamp'[i][f] > 0
      PROVE  EntryFor(i, f) \in asked
  <2>1. (f \in live[i] \/ stamp[i][f] > 0) \/ (i = Impu(w) /\ f \in recordsToDelete[w])
    BY <1>2, <1>3, <1>4
  <2> QED
    BY <1>4, <2>1 DEF Traced
<1>5. Pending' = Pending /\ \A v \in Workers : Impu(v)' = Impu(v)
  BY <1>1 DEF Pending, InPool, Impu
<1>6. \A v \in Workers : recordsToDelete'[v] \subseteq recordsToDelete[v]
  BY <1>1, <1>2
<1> QED
  BY <1>4, <1>5, <1>6 DEF Traced

LEMMA TracedWorker ==
  ASSUME KeptInv, Traced, NEW w \in Workers, WorkerStep(w)
  PROVE  Traced'
<1>0. /\ pc \in [Workers -> PC] /\ clr \in [Workers -> Requests \cup {NoRequest}]
      /\ entry \in [Requests -> Entries \cup {NoEntry}]
      /\ recordsToDelete \in [Workers -> SUBSET Fragment]
      /\ live \in [Impus -> SUBSET Fragment]
  BY DEF KeptInv, OwnInv, TypeOK
<1>1. asked' = asked /\ (Pop(w) \/ ProcessWork(w) \/ Exception(w))
  BY DEF WorkerStep, Work, handlerVars
<1>2. CASE Pop(w)
  <2>1. /\ pc[w] = "idle" /\ clr' = [clr EXCEPT ![w] = Head(queue)]
        /\ UNCHANGED <<entry, recordsToDelete, storeVars>>
    BY <1>2 DEF Pop
  <2>2. \A v \in Workers : recordsToDelete[v] # {} => Impu(v)' = Impu(v)
    BY <1>0, <2>1, OnlyTrimmersSelect DEF Impu
  <2>3. Pending' = Pending
    BY <1>2, PopPending DEF KeptInv
  <2> QED
    BY <1>1, <2>1, <2>2, <2>3, TracedUntouched DEF Traced
<1>3. ASSUME UNCHANGED <<entry, fate, clr, recordsToDelete, storeVars>>
      PROVE  Traced'
  BY <1>1, <1>3, TracedUntouched DEF Pending, InPool, Traced, Impu
<1>4. CASE GenerateTimestamp(w) \/ NoTrim(w) \/ Notify(w)
  BY <1>3, <1>4 DEF GenerateTimestamp, NoTrim, Notify, poolVars
<1>5. CASE WriteOK(w) \/ WriteError(w)
  <2>1. /\ pc[w] = "write" /\ UNCHANGED <<entry, fate, clr, recordsToDelete>>
        /\ \/ UNCHANGED storeVars
           \/ WriteFragment(Impu(w), entry[clr[w]].fragment, cassTimestamp[w])
    BY <1>5 DEF WriteOK, WriteError, poolVars, Impu
  <2> QED
    BY <1>1, <1>3, <2>1, TracedWrite
<1>6. CASE ReadForTrim(w)
  <2> DEFINE list == live[Impu(w)]
  <2>1. pc[w] = "check" /\ UNCHANGED <<entry, fate, clr, storeVars>>
    BY <1>6 DEF ReadForTrim, poolVars
  <2>2. CASE TrimNeeded(list)
    <3>1. recordsToDelete' = [recordsToDelete EXCEPT ![w] = RecordsToDelete(list)]
      BY <1>6, <2>2 DEF ReadForTrim
    <3>2. Impu(w) \in Impus /\ RecordsToDelete(list) \subseteq list
      BY <2>1, BusyEntry DEF KeptInv, Busy, RecordsToDelete
    <3>3. \A v \in Workers : Impu(v)' = Impu(v)
      BY <2>1 DEF Impu
    <3>4. ASSUME NEW v \in Workers, NEW f \in recordsToDelete'[v], f.call \in NewCalls
          PROVE  EntryFor(Impu(v), f) \in asked
      <4>1. CASE v = w
        <5>1. f \in list /\ f \in Fragment
          BY <1>0, <3>1, <3>2, <3>4, <4>1
        <5> QED
          BY <3>2, <3>4, <4>1, <5>1 DEF Traced
      <4>2. CASE v # w
        BY <1>0, <3>1, <3>4, <4>2 DEF Traced
      <4> QED
        BY <4>1, <4>2
    <3> QED
      BY <1>1, <2>1, <3>3, <3>4 DEF Traced, Pending, InPool, storeVars
  <2>3. CASE ~ TrimNeeded(list)
    BY <1>3, <1>6, <2>1, <2>3 DEF ReadForTrim
  <2> QED
    BY <2>2, <2>3
<1>7. CASE TrimOK(w) \/ TrimError(w)
  BY <1>1, <1>7, TracedTrim DEF TrimOK, TrimError
<1>8. CASE RequestComplete(w) \/ Exception(w)
  <2>1. /\ pc[w] \in Busy
        /\ entry' \in {entry, [entry EXCEPT ![clr[w]] = NoEntry]}
        /\ clr' = [clr EXCEPT ![w] = NoRequest]
        /\ recordsToDelete' = [recordsToDelete EXCEPT ![w] = {}]
        /\ UNCHANGED storeVars
    BY <1>8 DEF RequestComplete, Exception, LeaveProcessWork, Busy
  <2>2. Pending' \subseteq Pending
    BY <1>8, GiveUpPending DEF KeptInv
  <2>3. ASSUME NEW v \in Workers, recordsToDelete'[v] # {}
        PROVE  recordsToDelete'[v] = recordsToDelete[v] /\ Impu(v)' = Impu(v)
    <3>1. v # w /\ recordsToDelete[v] # {}
      BY <1>0, <2>1, <2>3
    <3>2. clr[v] \in Requests /\ clr[v] # clr[w]
      BY <3>1, OnlyTrimmersSelect, RequestsAssumption DEF KeptInv, OwnInv, RequestOwnership
    <3> QED
      BY <1>0, <2>1, <3>1, <3>2 DEF Impu
  <2> QED
    BY <1>1, <2>1, <2>2, <2>3, TracedUntouched DEF Traced
<1> QED
  BY <1>1, <1>2, <1>4, <1>5, <1>6, <1>7, <1>8 DEF ProcessWork

LEMMA TracedHandler ==
  ASSUME KeptInv, Traced, NEW k \in Handlers!Key, NEW type \in FragmentType,
         WriteEntry(Handlers!EntryOf(k, type)), asked' = asked \cup {Handlers!EntryOf(k, type)}
  PROVE  Traced'
<1>1. PICK r \in Requests : WriteCallListEntry(r, Handlers!EntryOf(k, type))
  BY WriteEntryStep
<1>2. /\ fate[r] = "new" /\ entry' = [entry EXCEPT ![r] = Handlers!EntryOf(k, type)]
      /\ UNCHANGED <<clr, recordsToDelete, storeVars>>
  BY <1>1 DEF WriteCallListEntry, workVars
<1>3. entry \in [Requests -> Entries \cup {NoEntry}]
  BY DEF KeptInv, OwnInv, TypeOK
<1>4. Pending' \subseteq Pending \cup {Handlers!EntryOf(k, type)}
  BY <1>1, AskPending, NewCallsAssumption DEF KeptInv
<1>5. \A v \in Workers : recordsToDelete[v] # {} => Impu(v)' = Impu(v)
  BY <1>2, <1>3, OnlyTrimmersSelect DEF Impu
<1> QED
  BY <1>2, <1>4, <1>5, TracedUntouched DEF Traced

LEMMA TracedStep == KeptInv /\ Traced /\ [MementoNext]_mementoVars => Traced'
<1> SUFFICES ASSUME KeptInv, Traced, [MementoNext]_mementoVars
             PROVE  Traced'
  OBVIOUS
<1>1. ASSUME UNCHANGED <<vars, asked>>
      PROVE  Traced'
  BY <1>1, TracedUntouched DEF Traced, Pending, InPool, Impu, vars, poolVars, workVars
<1>2. ASSUME NEW k \in Handlers!Key, HandlerJoins(k)
      PROVE  Traced'
  BY <1>1, <1>2 DEF HandlerJoins, Handlers!Join
<1>3. ASSUME NEW k \in Handlers!Key, NEW type \in Handlers!Outcomes, HandlerOpens(k, type)
      PROVE  Traced'
  BY <1>3, TracedHandler DEF HandlerOpens, Handlers!Open, Handlers!Outcomes, FragmentType
<1>4. ASSUME NEW k \in Handlers!Key, HandlerEnds(k)
      PROVE  Traced'
  BY <1>4, TracedHandler DEF HandlerEnds, Handlers!End, FragmentType
<1>5. ASSUME SproutRestarts
      PROVE  Traced'
  <2>1. /\ Restart /\ recordsToDelete' = [w \in Workers |-> {}]
        /\ UNCHANGED <<storeVars, asked>>
    BY <1>5 DEF SproutRestarts, LoseWork, Restart, Handlers!LoseTransactions
  <2>2. Pending' = {}
    BY <2>1, RestartPending
  <2> QED
    BY <2>1, <2>2, TracedUntouched
<1>6. ASSUME UNCHANGED mementoVars
      PROVE  Traced'
  BY <1>1, <1>6 DEF mementoVars, handlerVars
<1> QED
  BY <1>2, <1>3, <1>4, <1>5, <1>6, TracedWorker DEF MementoNext

LEMMA TracedInit == MementoInit => KeptInv /\ OpenedOnce /\ Traced
<1> SUFFICES ASSUME MementoInit
             PROVE  KeptInv /\ OpenedOnce /\ Traced
  OBVIOUS
<1>1. KeptInv /\ joined = {} /\ inProgress = {} /\ asked = {}
  BY KeptInvInit DEF MementoInit, Handlers!Init
<1>2. /\ Pending = {} /\ live = StoredBefore
      /\ \A w \in Workers : recordsToDelete[w] = {}
      /\ \A i \in Impus, f \in Fragment : stamp[i][f] = 0
  BY DEF MementoInit, Init, Pending, InPool
<1>3. Traced
  BY <1>2, NewCallsAssumption DEF Traced
<1> QED
  BY <1>1, <1>3 DEF OpenedOnce

(* For any number of calls, BYEs, workers and restarts: no call made while  *)
(* Sprout runs is ever in a list both as answered and as rejected.          *)
THEOREM CallsHaveOneOutcome == MementoSpec => []CallHasOneOutcome
<1>1. MementoInit => KeptInv /\ OpenedOnce /\ Traced
  BY TracedInit
<1>2. KeptInv /\ OpenedOnce /\ Traced /\ [MementoNext]_mementoVars
        => KeptInv' /\ OpenedOnce' /\ Traced'
  BY ProcessorStep, KeptInvStep, OpenedOnceStep, TracedStep
<1>3. KeptInv /\ OpenedOnce /\ Traced => CallHasOneOutcome
  <2> SUFFICES ASSUME OpenedOnce, Traced
               PROVE  CallHasOneOutcome
    OBVIOUS
  <2> USE DEF CallHasOneOutcome
  <2> TAKE i \in Impus, c \in NewCalls
  <2> DEFINE k == [impu |-> i, call |-> c]
             f(type) == [call |-> c, type |-> type]
  <2>1. k \in Handlers!Key
    BY DEF Handlers!Key
  <2>2. ASSUME NEW type \in {"BEGIN", "REJECTED"}, EverStored(i, f(type))
        PROVE  Handlers!EntryOf(k, type) \in asked
    <3>1. f(type) \in Fragment /\ f(type).call = c
      BY NewCallsAssumption DEF Fragment, FragmentType
    <3>2. f(type) \notin StoredBefore[i]
      BY <3>1, NewCallsAssumption
    <3>3. EntryFor(i, f(type)) \in asked
      BY <2>2, <3>1, <3>2 DEF Traced, EverStored
    <3> QED
      BY <3>3 DEF EntryFor, Handlers!EntryOf
  <2> QED
    BY <2>1, <2>2 DEF OpenedOnce
<1> QED
  BY <1>1, <1>2, <1>3, PTL DEF MementoSpec

-----------------------------------------------------------------------------
(* The statistic of failed calls.                                           *)

(* The rejected calls that reached Cassandra.                               *)
Recorded ==
  {k \in Handlers!Key : EverStored(k.impu, [call |-> k.call, type |-> "REJECTED"])}

AskedForCalls ==
  \A e \in asked : \E k \in Handlers!Key, type \in FragmentType : e = Handlers!EntryOf(k, type)

(* Of the calls made while Sprout runs, what is in a list, or was when a    *)
(* worker selected it, has the timestamp of its write.                      *)
LiveStamped ==
  /\ \A i \in Impus : \A f \in live[i] : f.call \in NewCalls => stamp[i][f] > 0
  /\ \A w \in Workers : \A f \in recordsToDelete[w] :
       f.call \in NewCalls => stamp[Impu(w)][f] > 0

(* The requests whose entry has not been passed to Cassandra.               *)
Waiting ==
  {r \in Requests : fate[r] = "queued" \/ \E w \in Workers : clr[w] = r /\ Unwritten(w)}

Rejects(r) == r \in InPool /\ entry[r].fragment.type = "REJECTED"

(* A rejection is in the pool once, and until its write it is not stored.   *)
RejectedOnce ==
  \A r \in Requests : Rejects(r) =>
    /\ \A s \in InPool : entry[s] = entry[r] => s = r
    /\ r \in Waiting => stamp[entry[r].impu][entry[r].fragment] = 0

CountInv ==
  /\ AccountInv /\ OpenedOnce /\ Traced
  /\ IsFiniteSet(asked) /\ AskedForCalls
  /\ LiveStamped /\ RejectedOnce
  /\ FailedCallsCountedOnce

(* Calls whose rejection was asked for are finitely many.                   *)
LEMMA RejectionsFinite ==
  ASSUME NEW A, IsFiniteSet(A), NEW K \in SUBSET Handlers!Key,
         \A k \in K : Handlers!EntryOf(k, "REJECTED") \in A
  PROVE  IsFiniteSet(K)
<1> DEFINE g == [k \in K |-> Handlers!EntryOf(k, "REJECTED")]
<1>1. \A j, k \in K : g[j] = g[k] => j = k
  BY DEF Handlers!EntryOf, Handlers!Key
<1>2. g \in [K -> A]
  OBVIOUS
<1> HIDE DEF g
<1>3. g \in Injection(K, A)
  BY <1>1, <1>2 DEF Injection, IsInjective
<1> QED
  BY <1>3, FS_Injection

(* The columns of a row that a write changes.                               *)
LEMMA WriteColumns ==
  ASSUME KeptInv, NEW i \in Impus, NEW g \in Fragment, NEW t \in Nat, WriteFragment(i, g, t)
  PROVE  /\ \A j \in Impus, f \in Fragment : j # i \/ f # g =>
              stamp'[j][f] = stamp[j][f] /\ (f \in live'[j] <=> f \in live[j])
         /\ stamp'[i][g] >= stamp[i][g]
         /\ g \in live'[i] => g \in live[i] \/ stamp'[i][g] = t
         /\ stamp[i][g] = 0 /\ g \notin live[i] /\ t > 0 => stamp'[i][g] = t
<1>1. live \in [Impus -> SUBSET Fragment] /\ stamp \in [Impus -> [Fragment -> Nat]]
  BY DEF KeptInv, OwnInv, TypeOK
<1>2. CASE WriteWins(i, g, t)
  <2>1. /\ live' = [live EXCEPT ![i] = @ \cup {g}]
        /\ stamp' = [stamp EXCEPT ![i][g] = t]
    BY <1>2 DEF WriteFragment
  <2>2. t >= stamp[i][g]
    BY <1>1, <1>2 DEF WriteWins
  <2> QED
    BY <1>1, <2>1, <2>2
<1>3. CASE ~ WriteWins(i, g, t)
  <2>1. live' = live /\ stamp' = stamp
    BY <1>3 DEF WriteFragment, storeVars
  <2>2. ~ (stamp[i][g] = 0 /\ g \notin live[i] /\ t > 0)
    BY <1>3 DEF WriteWins
  <2> QED
    BY <1>1, <2>1, <2>2
<1> QED
  BY <1>2, <1>3

(* The columns that a deletion of selected records changes.                 *)
LEMMA TrimColumns ==
  ASSUME KeptInv, NEW w \in Workers, NEW part \in SUBSET recordsToDelete[w], Trim(w, part)
  PROVE  \A j \in Impus, f \in Fragment :
           /\ stamp'[j][f] >= stamp[j][f]
           /\ f \in live'[j] => f \in live[j]
           /\ j # Impu(w) \/ f \notin recordsToDelete[w] => stamp'[j][f] = stamp[j][f]
<1> DEFINE i == Impu(w)
           t == cassTimestamp[w]
           gone == Deletable(i, part, t)
<1>1. /\ live \in [Impus -> SUBSET Fragment] /\ stamp \in [Impus -> [Fragment -> Nat]]
      /\ recordsToDelete \in [Workers -> SUBSET Fragment] /\ t \in Nat
  BY DEF KeptInv, OwnInv, TypeOK
<1>2. i \in Impus
  BY BusyEntry DEF KeptInv, Trim, Busy
<1>3. /\ live' = [live EXCEPT ![i] = @ \ gone]
      /\ stamp' = [stamp EXCEPT ![i] = [f \in Fragment |-> IF f \in gone THEN t ELSE @[f]]]
  BY DEF Trim, DeleteFragments
<1>4. gone \subseteq recordsToDelete[w] /\ \A f \in gone : stamp[i][f] <= t
  BY DEF Deletable
<1> HIDE DEF gone, i, t
<1>5. \A f \in Fragment : stamp'[i][f] = IF f \in gone THEN t ELSE stamp[i][f]
  BY <1>1, <1>2, <1>3
<1>6. \A j \in Impus : j # i => stamp'[j] = stamp[j]
  BY <1>1, <1>2, <1>3
<1> QED
  BY <1>1, <1>2, <1>3, <1>4, <1>5, <1>6 DEF i

(* No step lets the timestamp of a column go back.                          *)
StampsGrow == \A j \in Impus, f \in Fragment : stamp'[j][f] >= stamp[j][f]

LEMMA StoreStamps ==
  ASSUME KeptInv, UNCHANGED storeVars
  PROVE  StampsGrow
<1>1. stamp' = stamp /\ stamp \in [Impus -> [Fragment -> Nat]]
  BY DEF storeVars, KeptInv, OwnInv, TypeOK
<1> QED
  BY <1>1 DEF StampsGrow

(* The number of calls counted and of those recorded after a step.          *)
LEMMA CountKept ==
  ASSUME CountInv, KeptInv', Traced', IsFiniteSet(asked'), StampsGrow,
         \/ stats'.failed = stats.failed
         \/ stats'.failed = 0
         \/ /\ stats'.failed = stats.failed + 1
            /\ Recorded' # Recorded
  PROVE  FailedCallsCountedOnce'
<1>1. /\ stamp \in [Impus -> [Fragment -> Nat]] /\ stamp' \in [Impus -> [Fragment -> Nat]]
      /\ stats.failed \in Nat
  BY DEF CountInv, AccountInv, KeptInv, OwnInv, TypeOK
<1>2. ASSUME NEW k \in Handlers!Key
      PROVE  LET f == [call |-> k.call, type |-> "REJECTED"] IN
             /\ k.impu \in Impus /\ f \in Fragment /\ f.call \in NewCalls
             /\ f \notin StoredBefore[k.impu] /\ EntryFor(k.impu, f) = Handlers!EntryOf(k, "REJECTED")
  <2>1. k.impu \in Impus /\ k.call \in NewCalls /\ k.call \in Calls
    BY NewCallsAssumption DEF Handlers!Key
  <2> QED
    BY <2>1, NewCallsAssumption DEF Fragment, FragmentType, EntryFor, Handlers!EntryOf
<1>3. Recorded \subseteq Recorded'
  <2> SUFFICES ASSUME NEW k \in Handlers!Key,
                      EverStored(k.impu, [call |-> k.call, type |-> "REJECTED"])
               PROVE  EverStored(k.impu, [call |-> k.call, type |-> "REJECTED"])'
    BY DEF Recorded
  <2> DEFINE i == k.impu
             f == [call |-> k.call, type |-> "REJECTED"]
  <2>1. i \in Impus /\ f \in Fragment /\ f \notin StoredBefore[i]
    BY <1>2
  <2> HIDE DEF i, f
  <2>2. EverStored(i, f) => EverStored(i, f)'
    BY <1>1, <2>1 DEF EverStored, StampsGrow
  <2> QED
    BY <2>2 DEF i, f
<1>4. IsFiniteSet(Recorded')
  <2>1. \A k \in Recorded' : Handlers!EntryOf(k, "REJECTED") \in asked'
    BY <1>2 DEF Recorded, EverStored, Traced
  <2>2. Recorded' \in SUBSET Handlers!Key
    BY DEF Recorded
  <2> QED
    BY <2>1, <2>2, RejectionsFinite
<1>5. /\ IsFiniteSet(Recorded) /\ Cardinality(Recorded) \in Nat /\ Cardinality(Recorded') \in Nat
      /\ Cardinality(Recorded) <= Cardinality(Recorded')
      /\ Recorded' # Recorded => Cardinality(Recorded) # Cardinality(Recorded')
  BY <1>3, <1>4, FS_Subset, FS_CardinalityType
<1>6. stats.failed <= Cardinality(Recorded)
  BY DEF CountInv, FailedCallsCountedOnce, Recorded
<1>7. stats'.failed <= Cardinality(Recorded')
  <2> DEFINE m == Cardinality(Recorded)
             n == Cardinality(Recorded')
  <2>1. m \in Nat /\ n \in Nat /\ m <= n /\ (Recorded' # Recorded => m + 1 <= n)
    BY <1>5
  <2>2. stats.failed <= m
    BY <1>6
  <2> HIDE DEF m, n
  <2>3. stats'.failed <= n
    BY <1>1, <2>1, <2>2
  <2> QED
    BY <2>3 DEF n
<1> QED
  BY <1>7 DEF FailedCallsCountedOnce, Recorded

(* A step that asks for nothing.                                            *)
LEMMA OnceKept ==
  ASSUME RejectedOnce,
         InPool' \subseteq InPool, \A r \in InPool' : entry'[r] = entry[r],
         Waiting' \subseteq Waiting,
         \A r \in Waiting' : Rejects(r) =>
           stamp'[entry[r].impu][entry[r].fragment] = stamp[entry[r].impu][entry[r].fragment]
  PROVE  RejectedOnce'
<1> SUFFICES ASSUME NEW r \in Requests, Rejects(r)'
             PROVE  /\ \A s \in InPool' : entry'[s] = entry'[r] => s = r
                    /\ r \in Waiting' => stamp'[entry'[r].impu][entry'[r].fragment] = 0
  BY DEF RejectedOnce
<1>1. entry'[r] = entry[r] /\ Rejects(r)
  BY DEF Rejects
<1>2. ASSUME NEW s \in InPool', entry'[s] = entry'[r]
      PROVE  s = r
  BY <1>1, <1>2 DEF RejectedOnce
<1>3. r \in Waiting' => stamp'[entry'[r].impu][entry'[r].fragment] = 0
  BY <1>1 DEF RejectedOnce
<1> QED
  BY <1>2, <1>3

(* A step that leaves the store alone and selects nothing.                  *)
LEMMA StampedUntouched ==
  ASSUME LiveStamped, UNCHANGED storeVars,
         \A w \in Workers : recordsToDelete'[w] # {} =>
           recordsToDelete'[w] = recordsToDelete[w] /\ Impu(w)' = Impu(w)
  PROVE  LiveStamped'
<1>1. live' = live /\ stamp' = stamp
  BY DEF storeVars
<1>2. ASSUME NEW w \in Workers, NEW f \in recordsToDelete'[w], f.call \in NewCalls
      PROVE  stamp'[Impu(w)'][f] > 0
  BY <1>1, <1>2 DEF LiveStamped
<1> QED
  BY <1>1, <1>2 DEF LiveStamped

(* The request of a busy worker is no other's, and its entry is that of a   *)
(* call made while Sprout runs.                                             *)
LEMMA HeldEntry ==
  ASSUME CountInv, NEW r \in InPool
  PROVE  /\ entry[r] \in asked /\ entry[r] \in Entries
         /\ entry[r].impu \in Impus /\ entry[r].fragment \in Fragment
         /\ entry[r].fragment.call \in NewCalls
         /\ [impu |-> entry[r].impu, call |-> entry[r].fragment.call] \in Handlers!Key
         /\ entry[r].fragment
              = [call |-> entry[r].fragment.call, type |-> entry[r].fragment.type]
<1>1. entry[r] \in asked /\ entry[r] \in Entries
  BY DEF CountInv, Traced, Pending, AccountInv
<1>2. PICK k \in Handlers!Key, type \in FragmentType : entry[r] = Handlers!EntryOf(k, type)
  BY <1>1 DEF CountInv, AskedForCalls
<1>3. entry[r].impu = k.impu /\ entry[r].fragment = [call |-> k.call, type |-> type]
  BY <1>2 DEF Handlers!EntryOf
<1>4. k.impu \in Impus /\ k.call \in NewCalls /\ k = [impu |-> k.impu, call |-> k.call]
  BY DEF Handlers!Key
<1>5. entry[r].impu \in Impus /\ entry[r].fragment \in Fragment
  BY <1>1, EntriesAssumption
<1> QED
  BY <1>1, <1>3, <1>4, <1>5

LEMMA WaitingShrinks ==
  ASSUME KeptInv, NEW w \in Workers, NEW label,
         pc' = [pc EXCEPT ![w] = label], UNCHANGED <<fate, clr>>,
         Unwritten(w)' => Unwritten(w)
  PROVE  /\ Waiting' \subseteq Waiting
         /\ ~ Unwritten(w)' /\ pc[w] \in Busy => clr[w] \notin Waiting'
<1>1. pc \in [Workers -> PC]
  BY DEF KeptInv, OwnInv, TypeOK
<1>2. \A v \in Workers : Unwritten(v)' => Unwritten(v)
  BY <1>1 DEF Unwritten
<1>3. Waiting' \subseteq Waiting
  BY <1>2 DEF Waiting
<1>4. ASSUME ~ Unwritten(w)', pc[w] \in Busy
      PROVE  clr[w] \notin Waiting'
  <2>1. clr[w] \in Requests /\ fate[clr[w]] = "working"
    BY <1>4, BusyEntry DEF KeptInv
  <2>2. \A v \in Workers : clr[v] = clr[w] => v = w
    BY <2>1, RequestsAssumption DEF KeptInv, OwnInv, RequestOwnership
  <2> QED
    BY <1>4, <2>1, <2>2 DEF Waiting
<1> QED
  BY <1>3, <1>4

(* A worker writes its entry, whether or not the write is acknowledged.     *)
LEMMA CountWrite ==
  ASSUME CountInv, NEW w \in Workers, WriteOK(w) \/ WriteError(w)
  PROVE  /\ LiveStamped' /\ RejectedOnce' /\ StampsGrow
         /\ WriteOK(w) /\ entry[clr[w]].fragment.type = "REJECTED" => Recorded' # Recorded
<1> DEFINE r == clr[w]
           e == entry[r]
           i == e.impu
           g == e.fragment
           t == cassTimestamp[w]
<1>0. /\ KeptInv /\ Traced /\ LiveStamped /\ RejectedOnce
      /\ live \in [Impus -> SUBSET Fragment] /\ stamp \in [Impus -> [Fragment -> Nat]]
      /\ cassTimestamp \in [Workers -> Nat] /\ pc \in [Workers -> PC]
      /\ recordsToDelete \in [Workers -> SUBSET Fragment]
  BY DEF CountInv, AccountInv, KeptInv, OwnInv, TypeOK
<1>1. /\ pc[w] = "write" /\ UNCHANGED <<entry, clr, fate, recordsToDelete>>
      /\ \E label \in {"check", "report"} : pc' = [pc EXCEPT ![w] = label]
      /\ UNCHANGED storeVars \/ WriteFragment(i, g, t)
      /\ WriteOK(w) => WriteFragment(i, g, t)
  BY DEF WriteOK, WriteError, Goto, poolVars
<1>2. pc[w] \in Busy /\ Unwritten(w) /\ r \in Requests /\ r \in InPool /\ e \in Entries
  BY <1>0, <1>1, BusyEntry DEF KeptInv, Busy, Unwritten, InPool
<1>3. /\ i \in Impus /\ g \in Fragment /\ g.call \in NewCalls
      /\ [impu |-> i, call |-> g.call] \in Handlers!Key /\ g = [call |-> g.call, type |-> g.type]
  BY <1>2, HeldEntry
<1>4. t \in Nat /\ t > 0
  BY <1>0, <1>1 DEF CountInv, AccountInv
<1>5. r \in Waiting
  BY <1>2 DEF Waiting
<1>6. Waiting' \subseteq Waiting /\ r \notin Waiting'
  <2>1. ~ Unwritten(w)'
    BY <1>0, <1>1 DEF Unwritten
  <2> QED
    BY <1>0, <1>1, <1>2, <2>1, WaitingShrinks
<1> HIDE DEF r, e, i, g, t
<1>7. /\ \A j \in Impus, f \in Fragment : j # i \/ f # g =>
           stamp'[j][f] = stamp[j][f] /\ (f \in live'[j] <=> f \in live[j])
      /\ stamp'[i][g] >= stamp[i][g]
      /\ g \in live'[i] => g \in live[i] \/ stamp'[i][g] = t
  <2>1. CASE UNCHANGED storeVars
    BY <1>0, <1>3, <2>1 DEF storeVars
  <2>2. CASE WriteFragment(i, g, t)
    BY <1>0, <1>3, <1>4, <2>2, WriteColumns
  <2> QED
    BY <1>1, <2>1, <2>2 DEF r, e, i, g, t
<1>8. StampsGrow /\ live' \in [Impus -> SUBSET Fragment] /\ stamp' \in [Impus -> [Fragment -> Nat]]
  <2>1. StampsGrow
    BY <1>0, <1>7 DEF StampsGrow
  <2>2. live' \in [Impus -> SUBSET Fragment] /\ stamp' \in [Impus -> [Fragment -> Nat]]
    <3>1. CASE UNCHANGED storeVars
      BY <1>0, <3>1 DEF storeVars
    <3>2. CASE WriteFragment(i, g, t)
      BY <1>0, <1>3, <1>4, <3>2, StoreTypes DEF KeptInv, OwnInv
    <3> QED
      BY <1>1, <3>1, <3>2 DEF r, e, i, g, t
  <2> QED
    BY <2>1, <2>2
<1>9. LiveStamped'
  <2>1. ASSUME NEW j \in Impus, NEW f \in live'[j], f.call \in NewCalls
        PROVE  stamp'[j][f] > 0
    <3>1. f \in Fragment
      BY <1>8
    <3>2. CASE j = i /\ f = g
      <4>1. g \in live[i] => stamp[i][g] > 0
        BY <1>0, <1>3 DEF LiveStamped
      <4> QED
        BY <1>0, <1>3, <1>4, <1>7, <1>8, <2>1, <3>2, <4>1
    <3>3. CASE j # i \/ f # g
      BY <1>0, <1>7, <2>1, <3>1, <3>3 DEF LiveStamped
    <3> QED
      BY <3>2, <3>3
  <2>2. ASSUME NEW v \in Workers, NEW f \in recordsToDelete'[v], f.call \in NewCalls
        PROVE  stamp'[Impu(v)'][f] > 0
    <3>1. f \in recordsToDelete[v] /\ Impu(v)' = Impu(v) /\ f \in Fragment
      BY <1>0, <1>1, <2>2 DEF Impu
    <3>2. Impu(v) \in Impus
      BY <1>0, <3>1, OnlyTrimmersSelect, BusyEntry DEF KeptInv, Busy
    <3>3. stamp[Impu(v)][f] > 0
      BY <1>0, <2>2, <3>1 DEF LiveStamped
    <3> QED
      BY <1>0, <1>8, <3>1, <3>2, <3>3 DEF StampsGrow
  <2> QED
    BY <2>1, <2>2 DEF LiveStamped
<1>10. RejectedOnce'
  <2>1. ASSUME NEW q \in Waiting', Rejects(q)
        PROVE  stamp'[entry[q].impu][entry[q].fragment] = stamp[entry[q].impu][entry[q].fragment]
    <3>1. q \in Requests /\ q # r /\ q \in InPool
      BY <1>6, <2>1 DEF Waiting, Rejects
    <3>2. entry[q] # e
      BY <1>0, <1>2, <2>1, <3>1 DEF RejectedOnce, e, r
    <3>3. entry[q] \in Entries /\ entry[q].impu \in Impus /\ entry[q].fragment \in Fragment
      BY <3>1, HeldEntry
    <3>4. entry[q].impu # i \/ entry[q].fragment # g
      BY <1>2, <3>2, <3>3, EntriesAssumption DEF e, r, i, g
    <3> QED
      BY <1>7, <3>3, <3>4
  <2>2. InPool' = InPool
    BY <1>1 DEF InPool
  <2> QED
    BY <1>0, <1>1, <1>6, <2>1, <2>2, OnceKept
<1>11. ASSUME WriteOK(w), g.type = "REJECTED"
       PROVE  Recorded' # Recorded
  <2>1. stamp[i][g] = 0
    BY <1>0, <1>2, <1>5, <1>11 DEF RejectedOnce, Rejects, e, r, i, g
  <2>2. g \notin live[i]
    BY <1>0, <1>3, <2>1 DEF LiveStamped
  <2>3. stamp'[i][g] = t
    BY <1>0, <1>1, <1>3, <1>4, <1>11, <2>1, <2>2, WriteColumns DEF r, e, i, g, t
  <2>4. g \notin StoredBefore[i]
    BY <1>3, NewCallsAssumption
  <2>5. PICK k \in Handlers!Key : k = [impu |-> i, call |-> g.call]
    BY <1>3
  <2>6. g = [call |-> k.call, type |-> "REJECTED"] /\ k.impu = i
    BY <1>3, <1>11, <2>5
  <2>7. k \notin Recorded
    BY <2>1, <2>4, <2>6 DEF Recorded, EverStored
  <2>8. k \in Recorded'
    BY <1>4, <2>3, <2>6 DEF Recorded, EverStored
  <2> QED
    BY <2>7, <2>8
<1> QED
  BY <1>8, <1>9, <1>10, <1>11 DEF g, e, r

(* A worker deletes records it selected: none of them is one whose          *)
(* rejection is still to be written.                                        *)
LEMMA CountTrim ==
  ASSUME CountInv, NEW w \in Workers, NEW part \in SUBSET recordsToDelete[w], Trim(w, part)
  PROVE  LiveStamped' /\ RejectedOnce' /\ StampsGrow
<1>0. /\ KeptInv /\ LiveStamped /\ RejectedOnce
      /\ live \in [Impus -> SUBSET Fragment] /\ stamp \in [Impus -> [Fragment -> Nat]]
      /\ pc \in [Workers -> PC] /\ recordsToDelete \in [Workers -> SUBSET Fragment]
  BY DEF CountInv, AccountInv, KeptInv, OwnInv, TypeOK
<1>1. /\ pc[w] = "trim" /\ UNCHANGED <<entry, clr, fate>>
      /\ recordsToDelete' = [recordsToDelete EXCEPT ![w] = {}]
      /\ pc' = [pc EXCEPT ![w] = "notify"]
      /\ DeleteFragments(Impu(w), part, cassTimestamp[w])
  BY DEF Trim, Goto, poolVars
<1>2. Impu(w) \in Impus
  BY <1>0, <1>1, BusyEntry DEF KeptInv, Busy
<1>3. \A j \in Impus, f \in Fragment :
        /\ stamp'[j][f] >= stamp[j][f]
        /\ f \in live'[j] => f \in live[j]
        /\ j # Impu(w) \/ f \notin recordsToDelete[w] => stamp'[j][f] = stamp[j][f]
  BY <1>0, TrimColumns
<1>4. live' \in [Impus -> SUBSET Fragment] /\ stamp' \in [Impus -> [Fragment -> Nat]]
  BY <1>0, <1>1, <1>2, StoreTypes DEF KeptInv, OwnInv, TypeOK
<1>5. StampsGrow
  BY <1>3 DEF StampsGrow
<1>6. LiveStamped'
  <2>1. ASSUME NEW j \in Impus, NEW f \in live'[j], f.call \in NewCalls
        PROVE  stamp'[j][f] > 0
    <3>1. f \in Fragment /\ f \in live[j] /\ stamp[j][f] > 0
      BY <1>0, <1>3, <1>4, <2>1 DEF LiveStamped
    <3> QED
      BY <1>0, <1>3, <1>4, <3>1
  <2>2. ASSUME NEW v \in Workers, NEW f \in recordsToDelete'[v], f.call \in NewCalls
        PROVE  stamp'[Impu(v)'][f] > 0
    <3>1. f \in recordsToDelete[v] /\ Impu(v)' = Impu(v) /\ f \in Fragment
      BY <1>0, <1>1, <2>2 DEF Impu
    <3>2. Impu(v) \in Impus
      BY <1>0, <3>1, OnlyTrimmersSelect, BusyEntry DEF KeptInv, Busy
    <3>3. stamp[Impu(v)][f] > 0
      BY <1>0, <2>2, <3>1 DEF LiveStamped
    <3> QED
      BY <1>0, <1>3, <1>4, <3>1, <3>2, <3>3
  <2> QED
    BY <2>1, <2>2 DEF LiveStamped
<1>7. RejectedOnce'
  <2>1. Waiting' \subseteq Waiting
    BY <1>0, <1>1, WaitingShrinks DEF Unwritten
  <2>2. ASSUME NEW q \in Waiting', Rejects(q)
        PROVE  stamp'[entry[q].impu][entry[q].fragment] = stamp[entry[q].impu][entry[q].fragment]
    <3>1. q \in Requests /\ q \in Waiting /\ q \in InPool
      BY <2>1, <2>2 DEF Waiting, Rejects
    <3>2. /\ entry[q].impu \in Impus /\ entry[q].fragment \in Fragment
          /\ entry[q].fragment.call \in NewCalls
      BY <3>1, HeldEntry
    <3>3. stamp[entry[q].impu][entry[q].fragment] = 0
      BY <1>0, <2>2, <3>1 DEF RejectedOnce
    <3>4. entry[q].impu # Impu(w) \/ entry[q].fragment \notin recordsToDelete[w]
      BY <1>0, <3>2, <3>3 DEF LiveStamped
    <3> QED
      BY <1>3, <3>2, <3>4
  <2>3. InPool' = InPool
    BY <1>1 DEF InPool
  <2> QED
    BY <1>0, <1>1, <2>1, <2>2, <2>3, OnceKept
<1> QED
  BY <1>5, <1>6, <1>7

(* A worker selects the records of its list that it will delete.            *)
LEMMA CountSelect ==
  ASSUME CountInv, NEW w \in Workers, ReadForTrim(w)
  PROVE  LiveStamped'
<1> DEFINE list == live[Impu(w)]
<1>0. /\ KeptInv /\ LiveStamped /\ recordsToDelete \in [Workers -> SUBSET Fragment]
  BY DEF CountInv, AccountInv, KeptInv, OwnInv, TypeOK
<1>1. pc[w] = "check" /\ UNCHANGED <<entry, clr, storeVars>>
  BY DEF ReadForTrim, poolVars
<1>2. \A v \in Workers : Impu(v)' = Impu(v)
  BY <1>1 DEF Impu
<1>3. CASE TrimNeeded(list)
  <2>1. recordsToDelete' = [recordsToDelete EXCEPT ![w] = RecordsToDelete(list)]
    BY <1>3 DEF ReadForTrim
  <2>2. Impu(w) \in Impus /\ RecordsToDelete(list) \subseteq list
    BY <1>0, <1>1, BusyEntry DEF KeptInv, Busy, RecordsToDelete
  <2>3. live' = live /\ stamp' = stamp
    BY <1>1 DEF storeVars
  <2>4. ASSUME NEW v \in Workers, NEW f \in recordsToDelete'[v], f.call \in NewCalls
        PROVE  stamp[Impu(v)][f] > 0
    <3>1. CASE v = w
      <4>1. f \in list
        BY <1>0, <2>1, <2>2, <2>4, <3>1
      <4> QED
        BY <1>0, <2>2, <2>4, <3>1, <4>1 DEF LiveStamped
    <3>2. CASE v # w
      BY <1>0, <2>1, <2>4, <3>2 DEF LiveStamped
    <3> QED
      BY <3>1, <3>2
  <2> QED
    BY <1>0, <1>2, <2>3, <2>4 DEF LiveStamped
<1>4. CASE ~ TrimNeeded(list)
  BY <1>0, <1>1, <1>2, <1>4, StampedUntouched DEF ReadForTrim
<1> QED
  BY <1>3, <1>4

(* A worker takes a request, or is done with one.                           *)
LEMMA CountTakeOrLeave ==
  ASSUME CountInv, NEW w \in Workers, Pop(w) \/ RequestComplete(w) \/ Exception(w)
  PROVE  LiveStamped' /\ RejectedOnce' /\ StampsGrow /\ stats' = stats
<1>0. /\ KeptInv /\ LiveStamped /\ RejectedOnce
      /\ clr \in [Workers -> Requests \cup {NoRequest}] /\ fate \in [Requests -> Fates]
      /\ entry \in [Requests -> Entries \cup {NoEntry}] /\ queue \in Seq(Requests)
      /\ pc \in [Workers -> PC] /\ recordsToDelete \in [Workers -> SUBSET Fragment]
  BY DEF CountInv, AccountInv, KeptInv, OwnInv, TypeOK
<1>1. UNCHANGED <<storeVars, stats>>
  BY DEF Pop, RequestComplete, Exception
<1>2. stamp' = stamp
  BY <1>1 DEF storeVars
<1>3. CASE Pop(w)
  <2> DEFINE r == Head(queue)
  <2>1. /\ pc[w] = "idle" /\ queue # <<>> /\ clr' = [clr EXCEPT ![w] = r]
        /\ fate' = [fate EXCEPT ![r] = "working"]
        /\ pc' = [pc EXCEPT ![w] = "stamp"] /\ UNCHANGED <<entry, recordsToDelete>>
    BY <1>3 DEF Pop, Goto
  <2>2. \A v \in Workers : recordsToDelete[v] # {} => Impu(v)' = Impu(v)
    BY <1>0, <2>1, OnlyTrimmersSelect DEF Impu
  <2>3. r \in Requests /\ fate[r] = "queued"
    <3>1. r = queue[1] /\ 1 \in 1..Len(queue) /\ r \in Requests
      BY <1>0, <2>1
    <3> QED
      BY <1>0, <3>1 DEF KeptInv, OwnInv, RequestOwnership, Queued
  <2> HIDE DEF r
  <2>4. Waiting' \subseteq Waiting
    <3> SUFFICES ASSUME NEW q \in Waiting' PROVE q \in Waiting
      OBVIOUS
    <3>1. q \in Requests /\ (fate'[q] = "queued" \/ \E v \in Workers : clr'[v] = q /\ Unwritten(v)')
      BY DEF Waiting
    <3>2. CASE q = r
      BY <2>3, <3>2 DEF Waiting
    <3>3. CASE q # r
      BY <1>0, <2>1, <3>1, <3>3 DEF Waiting, Unwritten
    <3> QED
      BY <3>2, <3>3
  <2>5. InPool' = InPool
    BY <1>0, <2>1, <2>3 DEF InPool
  <2> QED
    BY <1>0, <1>1, <1>2, <2>1, <2>2, <2>4, <2>5, OnceKept, StampedUntouched, StoreStamps
<1>4. CASE RequestComplete(w) \/ Exception(w)
  <2>1. /\ pc[w] \in Busy
        /\ \E outcome \in {"settled", "leaked"} : fate' = [fate EXCEPT ![clr[w]] = outcome]
        /\ entry' \in {entry, [entry EXCEPT ![clr[w]] = NoEntry]}
        /\ clr' = [clr EXCEPT ![w] = NoRequest] /\ pc' = [pc EXCEPT ![w] = "idle"]
        /\ recordsToDelete' = [recordsToDelete EXCEPT ![w] = {}]
    BY <1>4 DEF RequestComplete, Exception, LeaveProcessWork, Goto, Busy
  <2>2. clr[w] \in Requests
    BY <1>0, <2>1, BusyEntry DEF KeptInv
  <2>3. ASSUME NEW v \in Workers, recordsToDelete'[v] # {}
        PROVE  recordsToDelete'[v] = recordsToDelete[v] /\ Impu(v)' = Impu(v)
    <3>1. v # w /\ recordsToDelete[v] # {}
      BY <1>0, <2>1, <2>3
    <3>2. clr[v] \in Requests /\ clr[v] # clr[w]
      BY <1>0, <3>1, OnlyTrimmersSelect, RequestsAssumption DEF KeptInv, OwnInv, RequestOwnership
    <3> QED
      BY <1>0, <2>1, <3>1, <3>2 DEF Impu
  <2>4. InPool' \subseteq InPool /\ \A r \in InPool' : entry'[r] = entry[r]
    BY <1>0, <1>4, GiveUpPending DEF KeptInv
  <2>5. Waiting' \subseteq Waiting
    <3>1. \A v \in Workers : v # w => clr'[v] = clr[v] /\ (Unwritten(v)' <=> Unwritten(v))
      BY <1>0, <2>1 DEF Unwritten
    <3>2. ~ Unwritten(w)'
      BY <1>0, <2>1 DEF Unwritten
    <3>3. \A r \in Requests : fate'[r] = "queued" => fate[r] = "queued"
      BY <1>0, <2>1, <2>2
    <3> QED
      BY <3>1, <3>2, <3>3 DEF Waiting
  <2> QED
    BY <1>0, <1>1, <1>2, <2>3, <2>4, <2>5, OnceKept, StampedUntouched, StoreStamps
<1> QED
  BY <1>3, <1>4
(* The steps of a worker that leave requests and lists alone.               *)
LEMMA CountOnTheWay ==
  ASSUME CountInv, NEW w \in Workers,
         GenerateTimestamp(w) \/ NoTrim(w) \/ ReadForTrim(w) \/ Notify(w)
  PROVE  LiveStamped' /\ RejectedOnce' /\ StampsGrow /\ stats' = stats
<1>0. KeptInv /\ LiveStamped /\ RejectedOnce /\ pc \in [Workers -> PC]
  BY DEF CountInv, AccountInv, KeptInv, OwnInv, TypeOK
<1>1. /\ UNCHANGED <<fate, entry, clr, storeVars>> /\ stats' = stats
      /\ \E label \in {"write", "notify", "trim", "report"} :
           /\ pc' = [pc EXCEPT ![w] = label]
           /\ label = "write" => pc[w] = "stamp"
  BY DEF GenerateTimestamp, NoTrim, ReadForTrim, Notify, Goto, poolVars
<1>2. Waiting' \subseteq Waiting
  <2>1. PICK label \in {"write", "notify", "trim", "report"} :
          pc' = [pc EXCEPT ![w] = label] /\ (label = "write" => pc[w] = "stamp")
    BY <1>1
  <2>2. Unwritten(w)' => Unwritten(w)
    BY <1>0, <2>1 DEF Unwritten
  <2> QED
    BY <1>0, <1>1, <2>1, <2>2, WaitingShrinks
<1>3. RejectedOnce'
  <2>1. stamp' = stamp
    BY <1>1 DEF storeVars
  <2>2. InPool' = InPool
    BY <1>1 DEF InPool
  <2> QED
    BY <1>0, <1>1, <1>2, <2>1, <2>2, OnceKept
<1>4. LiveStamped'
  <2>1. CASE recordsToDelete' = recordsToDelete
    <3>1. \A v \in Workers : Impu(v)' = Impu(v)
      BY <1>1 DEF Impu
    <3> QED
      BY <1>0, <1>1, <2>1, <3>1, StampedUntouched
  <2>2. CASE ReadForTrim(w)
    BY <2>2, CountSelect
  <2> QED
    BY <2>1, <2>2 DEF GenerateTimestamp, NoTrim, Notify
<1> QED
  BY <1>0, <1>1, <1>3, <1>4, StoreStamps

(* Only an acknowledged write of a rejection is counted.                    *)
LEMMA CountWorker ==
  ASSUME CountInv, NEW w \in Workers, WorkerStep(w)
  PROVE  /\ LiveStamped' /\ RejectedOnce' /\ StampsGrow
         /\ \/ stats'.failed = stats.failed
            \/ stats'.failed = stats.failed + 1 /\ Recorded' # Recorded
<1>1. Pop(w) \/ ProcessWork(w) \/ Exception(w)
  BY DEF WorkerStep, Work
<1>2. CASE WriteOK(w)
  <2> DEFINE type == entry[clr[w]].fragment.type
  <2>1. stats \in [completed : Nat, failed : Nat] /\ stats' = CountRecorded(type)
    BY <1>2 DEF WriteOK, CountInv, AccountInv, KeptInv, OwnInv, TypeOK
  <2>2. LiveStamped' /\ RejectedOnce' /\ StampsGrow /\ (type = "REJECTED" => Recorded' # Recorded)
    BY <1>2, CountWrite
  <2>3. type \in FragmentType
    <3>1. entry[clr[w]] \in Entries
      BY <1>2, TriedEntry DEF CountInv, AccountInv, WriteOK, Unwritten
    <3> QED
      BY <3>1, EntriesAssumption DEF Fragment
  <2> HIDE DEF type
  <2>4. \/ stats'.failed = stats.failed
        \/ stats'.failed = stats.failed + 1 /\ type = "REJECTED"
    <3>1. CASE type = "END"
      BY <2>1, <3>1 DEF CountRecorded
    <3>2. CASE type = "REJECTED"
      BY <2>1, <3>2 DEF CountRecorded
    <3>3. CASE type = "BEGIN"
      BY <2>1, <3>3 DEF CountRecorded
    <3> QED
      BY <2>3, <3>1, <3>2, <3>3 DEF FragmentType
  <2> QED
    BY <2>2, <2>4
<1>3. CASE WriteError(w)
  BY <1>3, CountWrite DEF WriteError
<1>4. CASE TrimOK(w) \/ TrimError(w)
  <2>1. PICK part \in SUBSET recordsToDelete[w] : Trim(w, part)
    BY <1>4 DEF TrimOK, TrimError
  <2> QED
    BY <2>1, CountTrim DEF Trim
<1>5. CASE GenerateTimestamp(w) \/ NoTrim(w) \/ ReadForTrim(w) \/ Notify(w)
  BY <1>5, CountOnTheWay
<1>6. CASE Pop(w) \/ RequestComplete(w) \/ Exception(w)
  BY <1>6, CountTakeOrLeave
<1> QED
  BY <1>1, <1>2, <1>3, <1>4, <1>5, <1>6 DEF ProcessWork
(* A handler asks for an entry; a rejection is asked for once.              *)
LEMMA CountHandler ==
  ASSUME CountInv, NEW k \in Handlers!Key, NEW type \in FragmentType,
         WriteEntry(Handlers!EntryOf(k, type)),
         asked' = asked \cup {Handlers!EntryOf(k, type)},
         type = "REJECTED" => Handlers!EntryOf(k, type) \notin asked
  PROVE  /\ IsFiniteSet(asked') /\ AskedForCalls'
         /\ LiveStamped' /\ RejectedOnce' /\ StampsGrow /\ stats' = stats
<1> DEFINE e == Handlers!EntryOf(k, type)
<1>0. /\ KeptInv /\ Traced /\ LiveStamped /\ RejectedOnce /\ AskedForCalls /\ IsFiniteSet(asked)
      /\ entry \in [Requests -> Entries \cup {NoEntry}] /\ fate \in [Requests -> Fates]
      /\ stamp \in [Impus -> [Fragment -> Nat]]
  BY DEF CountInv, AccountInv, KeptInv, OwnInv, TypeOK
<1>1. PICK r \in Requests : WriteCallListEntry(r, e)
  BY WriteEntryStep
<1>2. /\ fate[r] = "new" /\ entry' = [entry EXCEPT ![r] = e]
      /\ fate' = [fate EXCEPT ![r] = "queued"]
      /\ UNCHANGED <<pc, clr, recordsToDelete, storeVars, stats>>
  BY <1>1 DEF WriteCallListEntry, workVars
<1>3. IsFiniteSet(asked')
  BY <1>0, FS_AddElement
<1>4. AskedForCalls'
  BY <1>0 DEF AskedForCalls
<1>5. \A v \in Workers : recordsToDelete[v] # {} => Impu(v)' = Impu(v)
  BY <1>0, <1>2, OnlyTrimmersSelect DEF Impu
<1>6. LiveStamped' /\ StampsGrow
  BY <1>0, <1>2, <1>5, StampedUntouched, StoreStamps
<1>7. /\ e \in Entries /\ e.impu \in Impus /\ e.fragment \in Fragment
      /\ e.fragment.call \in NewCalls /\ e.fragment.type = type
      /\ EntryFor(e.impu, e.fragment) = e
  BY NewCallsAssumption, EntriesAssumption DEF Handlers!EntryOf, Handlers!Key, EntryFor
<1> HIDE DEF e
<1>8. \A q \in InPool : entry[q] \in asked
  BY <1>0 DEF Traced, Pending
<1>9. stamp' = stamp
  BY <1>2 DEF storeVars
<1>12. /\ InPool' = InPool \cup {r} /\ InPool \subseteq Requests
       /\ entry'[r] = e /\ \A q \in InPool : entry'[q] = entry[q]
  BY <1>0, <1>1, <1>7, AskPending DEF KeptInv, InPool
<1>10. ASSUME NEW q \in Requests, Rejects(q)'
       PROVE  /\ \A s \in InPool' : entry'[s] = entry'[q] => s = q
              /\ q \in Waiting' => stamp'[entry'[q].impu][entry'[q].fragment] = 0
  <2>1. CASE q = r
    <3>1. entry'[q] = e /\ type = "REJECTED" /\ e \notin asked
      BY <1>7, <1>10, <1>12, <2>1 DEF Rejects, e
    <3>2. \A s \in InPool' : s # r => entry'[s] # e
      BY <1>8, <1>12, <3>1
    <3>3. ~ (stamp[e.impu][e.fragment] > 0)
      BY <1>0, <1>7, <3>1 DEF Traced
    <3>4. stamp[e.impu][e.fragment] \in Nat
      BY <1>0, <1>7
    <3> QED
      BY <1>9, <2>1, <3>1, <3>2, <3>3, <3>4
  <2>2. CASE q # r
    <3>1. entry'[q] = entry[q] /\ Rejects(q)
      BY <1>10, <1>12, <2>2 DEF Rejects
    <3>2. entry[q] # e
      BY <1>7, <1>8, <3>1 DEF Rejects, e
    <3>3. \A s \in InPool' : entry'[s] = entry'[q] => s = q
      BY <1>0, <1>12, <3>1, <3>2 DEF RejectedOnce
    <3>4. q \in Waiting' => q \in Waiting
      BY <1>0, <1>2, <2>2 DEF Waiting, Unwritten
    <3> QED
      BY <1>0, <1>9, <3>1, <3>3, <3>4 DEF RejectedOnce
  <2> QED
    BY <2>1, <2>2
<1>11. RejectedOnce'
  BY <1>10 DEF RejectedOnce
<1> QED
  BY <1>2, <1>3, <1>4, <1>6, <1>11

(* A restart begins to count anew.                                          *)
LEMMA CountRestart ==
  ASSUME CountInv, SproutRestarts
  PROVE  LiveStamped' /\ RejectedOnce' /\ StampsGrow /\ stats'.failed = 0
<1>1. KeptInv /\ LiveStamped
  BY DEF CountInv, AccountInv
<1>2. /\ InPool' = {} /\ stats' = [completed |-> 0, failed |-> 0]
      /\ recordsToDelete' = [w \in Workers |-> {}] /\ UNCHANGED storeVars
  BY RestartPending DEF SproutRestarts, LoseWork, Restart
<1>3. LiveStamped' /\ StampsGrow
  BY <1>1, <1>2, StampedUntouched, StoreStamps
<1>4. RejectedOnce'
  BY <1>2 DEF RejectedOnce, Rejects
<1> QED
  BY <1>2, <1>3, <1>4

(* What each step of Memento keeps or does of what CountInv adds.           *)
CountedStep ==
  /\ IsFiniteSet(asked') /\ AskedForCalls'
  /\ LiveStamped' /\ RejectedOnce' /\ StampsGrow
  /\ \/ stats'.failed = stats.failed
     \/ stats'.failed = 0
     \/ stats'.failed = stats.failed + 1 /\ Recorded' # Recorded

LEMMA CountInvStep == CountInv /\ [MementoNext]_mementoVars => CountInv'
<1> SUFFICES ASSUME CountInv, [MementoNext]_mementoVars
             PROVE  CountInv'
  OBVIOUS
<1>1. AccountInv' /\ OpenedOnce' /\ Traced' /\ KeptInv'
  <2>1. AccountInv /\ OpenedOnce /\ Traced /\ KeptInv
    BY DEF CountInv, AccountInv
  <2>2. AccountInv' /\ OpenedOnce' /\ Traced'
    BY <2>1, AccountInvStep, OpenedOnceStep, TracedStep
  <2> QED
    BY <2>2 DEF AccountInv
<1>2. ASSUME asked' = asked
      PROVE  IsFiniteSet(asked') /\ AskedForCalls'
  BY <1>2 DEF CountInv, AskedForCalls
<1>3. ASSUME UNCHANGED <<vars, asked>>
      PROVE  LiveStamped' /\ RejectedOnce' /\ StampsGrow /\ stats' = stats
  <2>1. UNCHANGED <<entry, fate, clr, pc, recordsToDelete, storeVars, stamp, stats>>
    BY <1>3 DEF vars, poolVars, workVars, storeVars
  <2>2. Waiting' = Waiting /\ \A v \in Workers : Impu(v)' = Impu(v)
    BY <2>1 DEF Waiting, Unwritten, Impu
  <2> QED
    BY <2>1, <2>2, OnceKept, StampedUntouched, StoreStamps DEF CountInv, AccountInv, InPool
<1>4. ASSUME NEW k \in Handlers!Key, HandlerJoins(k)
      PROVE  asked' = asked /\ UNCHANGED <<vars, asked>>
  BY <1>4 DEF HandlerJoins, Handlers!Join
<1>5. ASSUME NEW k \in Handlers!Key, NEW type \in Handlers!Outcomes, HandlerOpens(k, type)
      PROVE  /\ IsFiniteSet(asked') /\ AskedForCalls'
             /\ LiveStamped' /\ RejectedOnce' /\ StampsGrow /\ stats' = stats
  <2>1. /\ WriteEntry(Handlers!EntryOf(k, type)) /\ type \in FragmentType /\ k \in inProgress
        /\ asked' = asked \cup {Handlers!EntryOf(k, type)}
    BY <1>5 DEF HandlerOpens, Handlers!Open, Handlers!Outcomes, FragmentType
  <2>2. Handlers!EntryOf(k, type) \notin asked
    BY <2>1 DEF CountInv, OpenedOnce
  <2> QED
    BY <2>1, <2>2, CountHandler
<1>6. ASSUME NEW k \in Handlers!Key, HandlerEnds(k)
      PROVE  /\ IsFiniteSet(asked') /\ AskedForCalls'
             /\ LiveStamped' /\ RejectedOnce' /\ StampsGrow /\ stats' = stats
  <2>1. WriteEntry(Handlers!EntryOf(k, "END")) /\ asked' = asked \cup {Handlers!EntryOf(k, "END")}
    BY <1>6 DEF HandlerEnds, Handlers!End
  <2> QED
    BY <2>1, CountHandler DEF FragmentType
<1>7. ASSUME NEW w \in Workers, WorkerStep(w)
      PROVE  asked' = asked
  BY <1>7 DEF WorkerStep, handlerVars
<1>8. SproutRestarts => asked' = asked
  BY DEF SproutRestarts, Handlers!LoseTransactions
<1>9. UNCHANGED mementoVars => UNCHANGED <<vars, asked>>
  BY DEF mementoVars, handlerVars
<1>10. CountedStep
  <2>1. CASE UNCHANGED mementoVars
    BY <1>2, <1>3, <1>9, <2>1 DEF CountedStep
  <2>2. CASE \E k \in Handlers!Key : HandlerJoins(k)
    BY <1>2, <1>3, <1>4, <2>2 DEF CountedStep
  <2>3. CASE \E w \in Workers : WorkerStep(w)
    BY <1>2, <1>7, <2>3, CountWorker DEF CountedStep
  <2>4. CASE SproutRestarts
    BY <1>2, <1>8, <2>4, CountRestart DEF CountedStep
  <2>5. CASE \E k \in Handlers!Key : \/ HandlerEnds(k)
                                   \/ \E type \in Handlers!Outcomes : HandlerOpens(k, type)
    BY <1>5, <1>6, <2>5 DEF CountedStep
  <2> QED
    BY <2>1, <2>2, <2>3, <2>4, <2>5 DEF MementoNext
<1>11. FailedCallsCountedOnce'
  BY <1>1, <1>10, CountKept DEF CountedStep
<1> QED
  BY <1>1, <1>10, <1>11 DEF CountInv, CountedStep

(* However the calls, the workers and the restarts interleave and whatever  *)
(* fails, _stat_failed_calls_recorded counts no call twice and none whose   *)
(* rejection is not in Cassandra, or was there before it was trimmed.       *)
THEOREM FailedCallsCounted == MementoSpec => []FailedCallsCountedOnce
<1>1. MementoInit => CountInv
  <2> SUFFICES ASSUME MementoInit
               PROVE  CountInv
    OBVIOUS
  <2>1. AccountInv /\ OpenedOnce /\ Traced
    BY AccountInvInit, TracedInit
  <2>2. /\ asked = {} /\ live = StoredBefore /\ stats.failed = 0
        /\ \A w \in Workers : recordsToDelete[w] = {}
        /\ InPool = {}
        /\ \A i \in Impus, f \in Fragment : stamp[i][f] = 0
    BY DEF MementoInit, Init, Handlers!Init, InPool
  <2>3. LiveStamped
    BY <2>2, NewCallsAssumption DEF LiveStamped
  <2>4. RejectedOnce
    BY <2>2 DEF RejectedOnce, Rejects
  <2>5. IsFiniteSet(asked) /\ AskedForCalls
    BY <2>2, FS_EmptySet DEF AskedForCalls
  <2>6. Recorded = {}
    <3> SUFFICES ASSUME NEW k \in Handlers!Key
                 PROVE  ~ EverStored(k.impu, [call |-> k.call, type |-> "REJECTED"])
      BY DEF Recorded
    <3> DEFINE f == [call |-> k.call, type |-> "REJECTED"]
    <3>1. k.impu \in Impus /\ f \in Fragment /\ f.call \in NewCalls
      BY NewCallsAssumption DEF Handlers!Key, Fragment, FragmentType
    <3>2. f \notin StoredBefore[k.impu] /\ stamp[k.impu][f] = 0
      BY <2>2, <3>1, NewCallsAssumption
    <3> QED
      BY <3>2 DEF EverStored
  <2>7. FailedCallsCountedOnce
    <3>1. Cardinality(Recorded) = 0
      BY <2>6, FS_EmptySet
    <3> QED
      BY <2>2, <3>1 DEF FailedCallsCountedOnce, Recorded
  <2> QED
    BY <2>1, <2>3, <2>4, <2>5, <2>7 DEF CountInv
<1>2. CountInv => FailedCallsCountedOnce
  BY DEF CountInv
<1> QED
  BY <1>1, <1>2, CountInvStep, PTL DEF MementoSpec
-----------------------------------------------------------------------------
(* The handlers' variables and the history of losses.                       *)

Joined == joined \subseteq Handlers!Key /\ lost \subseteq asked

(* Only what is in the pool can be lost.                                    *)
LEMMA LostAsked ==
  ASSUME KeptInv, Traced, Joined, [MementoNext]_mementoVars
  PROVE  lost' \subseteq asked'
<1>0. asked \subseteq asked'
  BY HandlersAskOn
<1>1. ASSUME NEW w \in Workers, Unwritten(w)
      PROVE  entry[clr[w]] \in asked
  <2>1. clr[w] \in InPool
    BY <1>1, TriedEntry DEF InPool
  <2> QED
    BY <2>1 DEF Traced, Pending
<1>2. ASSUME NEW r \in Queued
      PROVE  entry[r] \in asked
  <2>1. r \in InPool
    <3>1. queue \in Seq(Requests)
      BY DEF KeptInv, OwnInv, TypeOK
    <3>2. r \in Requests
      BY <3>1 DEF Queued
    <3> QED
      BY <3>2 DEF KeptInv, OwnInv, RequestOwnership, InPool
  <2> QED
    BY <2>1 DEF Traced, Pending
<1>3. CASE lost' = lost
  BY <1>0, <1>3 DEF Joined
<1>4. CASE \E w \in Workers : WorkerStep(w)
  BY <1>0, <1>1, <1>4 DEF Joined, WorkerStep, Work
<1>5. CASE SproutRestarts
  BY <1>0, <1>1, <1>2, <1>5 DEF Joined, SproutRestarts, LoseWork
<1> QED
  BY <1>3, <1>4, <1>5
  DEF MementoNext, mementoVars, HandlerJoins, HandlerOpens, HandlerEnds, WriteEntry

LEMMA JoinedStep ==
  KeptInv /\ Traced /\ Joined /\ [MementoNext]_mementoVars => Joined'
<1> SUFFICES ASSUME KeptInv, Traced, Joined, [MementoNext]_mementoVars
             PROVE  Joined'
  OBVIOUS
<1>1. joined' \subseteq Handlers!Key
  BY DEF Joined, MementoNext, mementoVars, handlerVars, HandlerJoins, HandlerOpens, HandlerEnds,
         WorkerStep, SproutRestarts, Handlers!Join, Handlers!Open, Handlers!End,
         Handlers!LoseTransactions
<1> QED
  BY <1>1, LostAsked DEF Joined

(* The handlers know only calls that joined, and what is in the pool or was *)
(* lost there, over any number of restarts, is what a handler asked for.    *)
THEOREM MementoTypeCorrect == MementoSpec => []MementoTypeOK
<1>1. MementoInit => AccountInv /\ OpenedOnce /\ Traced /\ Joined
  BY AccountInvInit, TracedInit DEF MementoInit, Handlers!Init, Joined
<1>2. AccountInv /\ OpenedOnce /\ Traced /\ Joined /\ [MementoNext]_mementoVars
        => AccountInv' /\ OpenedOnce' /\ Traced' /\ Joined'
  BY AccountInvStep, OpenedOnceStep, TracedStep, JoinedStep DEF AccountInv
<1>3. AccountInv /\ OpenedOnce /\ Traced /\ Joined => MementoTypeOK
  BY DEF AccountInv, OpenedOnce, Traced, Joined, MementoTypeOK
<1> QED
  BY <1>1, <1>2, <1>3, PTL DEF MementoSpec

-----------------------------------------------------------------------------
(* What the lists gain, whoever asked for it.                               *)

(* A fragment enters a list only while its entry is pending.                *)
LEMMA ListsGainPending ==
  ASSUME KeptInv, [Next]_vars, NEW i \in Impus, NEW f \in live'[i]
  PROVE  f \in live[i] \/ EntryFor(i, f) \in Pending
<1>1. live \in [Impus -> SUBSET Fragment]
  BY DEF KeptInv, OwnInv, TypeOK
<1>2. CASE live' = live
  BY <1>2
<1>3. ASSUME NEW e \in Entries, Abstract!Record(e)
      PROVE  f \in live[i] \/ EntryFor(i, f) \in Pending
  <2>1. e \in Pending /\ e = EntryFor(e.impu, e.fragment)
    BY <1>3, EntriesAssumption DEF Abstract!Record, EntryFor
  <2>2. f \in live[i] \/ (i = e.impu /\ f = e.fragment)
    BY <1>1, <1>3 DEF Abstract!Record
  <2> QED
    BY <2>1, <2>2
<1>4. ASSUME NEW j \in Impus, NEW D, Abstract!GiveUp(j, D)
      PROVE  f \in live[i]
  BY <1>1, <1>4 DEF Abstract!GiveUp
<1> QED
  BY <1>2, <1>3, <1>4, RefinementStep DEF Abstract!Next, Abstract!Ask, Abstract!Settle

(* Neither a worker nor a restart asks for anything.                        *)
LEMMA WorkAsksNothing ==
  ASSUME KeptInv, LoseWork \/ \E w \in Workers : Work(w)
  PROVE  Pending' \subseteq Pending
<1>1. CASE LoseWork
  BY <1>1, RestartPending DEF LoseWork
<1>2. ASSUME NEW w \in Workers, Work(w)
      PROVE  Pending' \subseteq Pending
  <2>1. CASE Pop(w)
    BY <2>1, PopPending DEF KeptInv
  <2>2. CASE RequestComplete(w) \/ Exception(w)
    BY <2>2, GiveUpPending DEF KeptInv
  <2>3. CASE UNCHANGED <<entry, fate>>
    BY <2>3 DEF Pending, InPool
  <2> QED
    BY <1>2, <2>1, <2>2, <2>3
    DEF Work, ProcessWork, GenerateTimestamp, WriteOK, WriteError, NoTrim, ReadForTrim,
        TrimOK, TrimError, Trim, Notify, poolVars
<1> QED
  BY <1>1, <1>2
=============================================================================
