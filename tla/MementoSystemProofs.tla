------------------------ MODULE MementoSystemProofs ------------------------
(***************************************************************************)
(* Proofs about the handlers and the processor running together, for any   *)
(* finite number of transactions and any users, requests, workers, lists   *)
(* and restarts.  Nothing about either side is proved again here: every    *)
(* step of the system is shown to be one of the handlers' module and one   *)
(* of the processor's, or of Memento, and what is proved there carries     *)
(* over.                                                                   *)
(***************************************************************************)
EXTENDS MementoSystem, MementoAppServerRefinement

(* The instance P of MementoSystem, with what is proved of Memento.         *)
Proved == INSTANCE MementoProofs
  WITH Impus <- MaybeUser, Entries <- [impu : MaybeUser, fragment : CallFragment],
       NoRequest <- NoCallListRequest, pc <- workerPc, clock <- cassClock,
       joined <- {Numbered(k) : k \in Joined},
       inProgress <- {Numbered(k) : k \in InProgress},
       asked <- {CallListEntry(e) : e \in Written}

(* What the processor assumes of its constants holds of those it gets.      *)
LEMMA ProcessorAssumptions ==
  /\ Proved!CallsAssumption /\ Proved!MaxLengthAssumption /\ Proved!EntriesAssumption
  /\ Proved!RequestsAssumption /\ Proved!StoredAssumption /\ Proved!RestartsAssumption
  /\ Proved!NotifierAssumption /\ Proved!NewCallsAssumption
<1>1. /\ Proved!CallsAssumption /\ Proved!MaxLengthAssumption /\ Proved!RequestsAssumption
      /\ Proved!RestartsAssumption /\ Proved!NotifierAssumption
  BY ProcessorAssumption
  DEF Proved!CallsAssumption, Proved!MaxLengthAssumption, Proved!RequestsAssumption,
      Proved!RestartsAssumption, Proved!NotifierAssumption
<1>2. CallFragment = Proved!Fragment
  BY DEF CallFragment, Opening, Proved!Fragment, Proved!FragmentType
<1>3. Proved!EntriesAssumption
  BY <1>2, ProcessorAssumption DEF Proved!EntriesAssumption
<1>4. Proved!StoredAssumption
  <2>1. \A S : IsFiniteSet(S) <=> Proved!IsFiniteSet(S)
    BY Zenon DEF IsFiniteSet, Proved!IsFiniteSet
  <2> QED
    BY <1>2, <2>1, StoredBeforeAssumption DEF Proved!StoredAssumption
<1>5. NewCalls \subseteq Calls
  BY CallNumberAssumption DEF NewCalls, CallNames, CallPairs
<1>6. Proved!NewCallsAssumption
  BY <1>5, StoredBeforeAssumption
  DEF Proved!NewCallsAssumption, Proved!Handlers!Key, Proved!Handlers!EntryOf,
      Proved!FragmentType, CallFragment, Opening
<1> QED
  BY <1>1, <1>3, <1>4, <1>6

-----------------------------------------------------------------------------
(* P and Proved are instances of the same definitions.                      *)

LEMMA SameInit == (P!Init <=> Proved!Init) /\ (P!MementoInit <=> Proved!MementoInit)
BY DEF P!MementoInit, Proved!MementoInit, P!Init, Proved!Init,
       P!Handlers!Init, Proved!Handlers!Init,
       P!Fragment, Proved!Fragment, P!FragmentType, Proved!FragmentType

LEMMA SameWrite == \A e : P!WriteEntry(e) <=> Proved!WriteEntry(e)
BY DEF P!WriteEntry, Proved!WriteEntry, P!WriteCallListEntry, Proved!WriteCallListEntry,
       P!workVars, Proved!workVars, P!storeVars, Proved!storeVars, P!noteVars, Proved!noteVars

LEMMA SameLoss == P!LoseWork <=> Proved!LoseWork
BY DEF P!LoseWork, Proved!LoseWork, P!Restart, Proved!Restart, P!storeVars, Proved!storeVars,
       P!Unwritten, Proved!Unwritten, P!Queued, Proved!Queued

LEMMA SameWork == \A w : P!Work(w) <=> Proved!Work(w)
<1> SUFFICES ASSUME NEW w
             PROVE  P!Work(w) <=> Proved!Work(w)
  OBVIOUS
<1> USE DEF P!Goto, Proved!Goto, P!poolVars, Proved!poolVars, P!storeVars, Proved!storeVars,
            P!noteVars, Proved!noteVars
<1>1. P!Pop(w) <=> Proved!Pop(w)
  BY DEF P!Pop, Proved!Pop
<1>2. P!GenerateTimestamp(w) <=> Proved!GenerateTimestamp(w)
  BY DEF P!GenerateTimestamp, Proved!GenerateTimestamp
<1>3. \A i, f, s : P!WriteFragment(i, f, s) <=> Proved!WriteFragment(i, f, s)
  BY DEF P!WriteFragment, Proved!WriteFragment, P!WriteWins, Proved!WriteWins
<1>4. P!WriteOK(w) <=> Proved!WriteOK(w)
  BY <1>3 DEF P!WriteOK, Proved!WriteOK, P!CountRecorded, Proved!CountRecorded
<1>5. P!WriteError(w) <=> Proved!WriteError(w)
  BY <1>3 DEF P!WriteError, Proved!WriteError
<1>6. P!NoTrim(w) <=> Proved!NoTrim(w)
  BY DEF P!NoTrim, Proved!NoTrim
<1>7. P!ReadForTrim(w) <=> Proved!ReadForTrim(w)
  <2>1. \A S : P!Cardinality(S) = Proved!Cardinality(S)
    BY Zenon DEF P!Cardinality, Proved!Cardinality
  <2>2. \A S : P!RecordsToDelete(S) = Proved!RecordsToDelete(S)
    BY <2>1 DEF P!RecordsToDelete, Proved!RecordsToDelete, P!IndexOf, Proved!IndexOf,
      P!NumToDelete, Proved!NumToDelete, P!CallCount, Proved!CallCount, P!IsCall, Proved!IsCall,
      P!Before, Proved!Before, P!SortKey, Proved!SortKey, P!TypeRank, Proved!TypeRank
  <2>3. \A S : P!TrimNeeded(S) <=> Proved!TrimNeeded(S)
    BY <2>1 DEF P!TrimNeeded, Proved!TrimNeeded, P!CallCount, Proved!CallCount,
                P!IsCall, Proved!IsCall
  <2> QED
    BY <2>2, <2>3 DEF P!ReadForTrim, Proved!ReadForTrim, P!Impu, Proved!Impu
<1>8. \A part : P!Trim(w, part) <=> Proved!Trim(w, part)
  BY DEF P!Trim, Proved!Trim, P!DeleteFragments, Proved!DeleteFragments,
         P!Deletable, Proved!Deletable, P!Impu, Proved!Impu,
         P!Fragment, Proved!Fragment, P!FragmentType, Proved!FragmentType
<1>9. P!Notify(w) <=> Proved!Notify(w)
  BY DEF P!Notify, Proved!Notify, P!Impu, Proved!Impu
<1>10. P!RequestComplete(w) <=> Proved!RequestComplete(w)
  BY DEF P!RequestComplete, Proved!RequestComplete, P!LeaveProcessWork, Proved!LeaveProcessWork
<1>11. P!Exception(w) <=> Proved!Exception(w)
  BY DEF P!Exception, Proved!Exception, P!LeaveProcessWork, Proved!LeaveProcessWork, P!Busy, Proved!Busy,
         P!Owes, Proved!Owes, P!Impu, Proved!Impu
<1>12. P!ProcessWork(w) <=> Proved!ProcessWork(w)
  BY <1>2, <1>4, <1>5, <1>6, <1>7, <1>8, <1>9, <1>10
  DEF P!ProcessWork, Proved!ProcessWork, P!TrimOK, Proved!TrimOK, P!TrimError, Proved!TrimError
<1> QED
  BY <1>1, <1>11, <1>12 DEF P!Work, Proved!Work, P!Unwritten, Proved!Unwritten

LEMMA SameNext == [P!MementoNext]_P!mementoVars <=> [Proved!MementoNext]_Proved!mementoVars
<1>1. /\ UNCHANGED P!vars <=> UNCHANGED Proved!vars
      /\ UNCHANGED P!handlerVars <=> UNCHANGED Proved!handlerVars
  BY DEF P!vars, Proved!vars, P!poolVars, Proved!poolVars, P!workVars, Proved!workVars,
         P!storeVars, Proved!storeVars, P!noteVars, Proved!noteVars,
         P!handlerVars, Proved!handlerVars
<1>2. ASSUME NEW k
      PROVE  P!HandlerJoins(k) <=> Proved!HandlerJoins(k)
  BY <1>1 DEF P!HandlerJoins, Proved!HandlerJoins, P!Handlers!Join, Proved!Handlers!Join
<1>3. ASSUME NEW k, NEW type
      PROVE  /\ P!HandlerOpens(k, type) <=> Proved!HandlerOpens(k, type)
             /\ P!HandlerEnds(k) <=> Proved!HandlerEnds(k)
  BY SameWrite
  DEF P!HandlerOpens, Proved!HandlerOpens, P!HandlerEnds, Proved!HandlerEnds,
      P!Handlers!Open, Proved!Handlers!Open, P!Handlers!End, Proved!Handlers!End,
      P!Handlers!EntryOf, Proved!Handlers!EntryOf
<1>4. ASSUME NEW w
      PROVE  P!WorkerStep(w) <=> Proved!WorkerStep(w)
  BY <1>1, SameWork DEF P!WorkerStep, Proved!WorkerStep
<1>5. P!SproutRestarts <=> Proved!SproutRestarts
  BY SameLoss DEF P!SproutRestarts, Proved!SproutRestarts,
                  P!Handlers!LoseTransactions, Proved!Handlers!LoseTransactions
<1>6. P!Handlers!Key = Proved!Handlers!Key /\ P!Handlers!Outcomes = Proved!Handlers!Outcomes
  BY DEF P!Handlers!Key, Proved!Handlers!Key, P!Handlers!Outcomes, Proved!Handlers!Outcomes
<1>7. P!MementoNext <=> Proved!MementoNext
  BY <1>2, <1>3, <1>4, <1>5, <1>6 DEF P!MementoNext, Proved!MementoNext
<1> QED
  BY <1>1, <1>7 DEF P!mementoVars, Proved!mementoVars

LEMMA SameSpec == P!MementoSpec <=> Proved!MementoSpec
BY SameInit, SameNext, PTL DEF P!MementoSpec, Proved!MementoSpec

-----------------------------------------------------------------------------
(* The handlers' side.                                                      *)

LEMMA ServerSteps == [SystemNext]_systemVars => [Next]_vars
BY DEF SystemNext, systemVars, TimePasses, ServerStep, SystemWork, SystemRestart, Next

(* What is proved of the handlers holds where the processor takes what they *)
(* ask for: its full queue, its failures and its restarts included.         *)
THEOREM SystemRunsServer == SystemSpec => Spec
BY ServerSteps, PTL DEF SystemSpec, SystemInit, Spec

(* Each entry that is written has a number for its call.                    *)
EntriesTyped ==
  \A e \in Written : CallListEntry(e) \in [impu : MaybeUser, fragment : CallFragment]

LEMMA WrittenTyped == CountedInv => EntriesTyped
<1> SUFFICES ASSUME CountedInv, NEW e \in Written
             PROVE  CallListEntry(e) \in [impu : MaybeUser, fragment : CallFragment]
  BY DEF EntriesTyped
<1>1. PICK t \in Txns : written[t] # <<>> /\ e = written[t][1]
  BY WrittenElements DEF CountedInv, ServerInv
<1>2. e \in WrittenEntry /\ EntryOK(t, e) /\ TxnInv(t)
  BY <1>1, OneEntry DEF CountedInv, ServerInv, VarTypes, TxnInv
<1>3. /\ CallNames \subseteq CallPairs
      /\ \A s \in SomeTime : <<s, NoId>> \in CallPairs
  BY TxnsAssumption, FS_CardinalityType DEF CallNames, CallPairs, SomeTime, NoId
<1>4. <<e.timestamp, e.id>> \in CallPairs
  <2>1. CASE e.type = "END"
    <3> DEFINE d == <<e.timestamp, e.id, e.impu>>
    <3>1. d \in dialogs
      BY <1>2, <2>1 DEF EntryOK
    <3>2. CallKey(d[3], d[1], d[2]) \in Abstract!Key
      BY <3>1, DialogKey
    <3> QED
      BY <1>3, <3>2 DEF CallKey, Abstract!Key
  <2>2. CASE e.type \in Opening
    <3>1. Key(e) = <<tsx[t].impu, tsx[t].start_cassandra, tsx[t].unique_id>>
      BY <1>2, <2>2 DEF EntryOK
    <3>2. CASE Named(t)
      <4>1. KeyOf(t) \in Abstract!Key
        BY <3>2, KeyOfCall
      <4> QED
        BY <1>3, <3>1, <4>1 DEF Key, KeyOf, CallKey, Abstract!Key
    <3>3. CASE ~ Named(t)
      <4>1. tsx[t].includes_initial /\ tsx[t].unique_id = NoId
        BY <1>2, <2>2, <3>3 DEF EntryOK, Named
      <4>2. tsx[t].start_cassandra \in SomeTime
        BY <1>1, <1>2, <3>3, <4>1 DEF TxnInv
      <4> QED
        BY <1>3, <3>1, <4>1, <4>2 DEF Key
    <3> QED
      BY <3>2, <3>3
  <2> QED
    BY <1>2, <2>1, <2>2 DEF WrittenEntry
<1> QED
  BY <1>2, <1>4, CallNumberAssumption DEF WrittenEntry, CallListEntry, CallFragment

(* A handler calls write_call_list_entry with its last entry, or not at all.*)
LEMMA ServerCalls ==
  ASSUME CountedInv, CountedInv', NEW t \in Txns, ServerStep(t)
  PROVE  \/ written' = written /\ UNCHANGED processorVars
         \/ \E e \in WrittenEntry :
              /\ written[t] = <<>> /\ written' = [written EXCEPT ![t] = <<e>>]
              /\ Written' = Written \cup {e} /\ Proved!WriteEntry(CallListEntry(e))
<1>1. CASE written' = written
  BY <1>1 DEF ServerStep
<1>2. CASE written' # written
  <2>1. PICK e \in WrittenEntry : written[t] = <<>> /\ written' = [written EXCEPT ![t] = <<e>>]
    BY <1>2, HandlerMapped DEF ServerStep
  <2>2. /\ written \in [Txns -> {<<>>} \cup {<<d>> : d \in WrittenEntry}]
        /\ written' \in [Txns -> {<<>>} \cup {<<d>> : d \in WrittenEntry}]
    BY DEF CountedInv, ServerInv, VarTypes
  <2>3. /\ Written = {written[u][1] : u \in {v \in Txns : written[v] # <<>>}}
        /\ Written' = {written'[u][1] : u \in {v \in Txns : written'[v] # <<>>}}
    BY <2>2, ElementsOf DEF Written
  <2>4. written'[t] = <<e>> /\ \A u \in Txns \ {t} : written'[u] = written[u]
    BY <2>1, <2>2
  <2>5. {v \in Txns : written'[v] # <<>>} = {v \in Txns : written[v] # <<>>} \cup {t}
    BY <2>1, <2>4
  <2>6. Written' = Written \cup {e}
    BY <2>1, <2>3, <2>4, <2>5
  <2>7. written'[t][Len(written'[t])] = e
    BY <2>4
  <2>8. Proved!WriteEntry(CallListEntry(e))
    BY <1>2, <2>7, SameWrite DEF ServerStep
  <2> QED
    BY <2>1, <2>6, <2>8
<1> QED
  BY <1>1, <1>2

LEMMA CountedSystemInit == SystemInit => CountedInv
BY CountedInit DEF SystemInit

LEMMA CountedSystemStep == CountedInv /\ [SystemNext]_systemVars => CountedInv'
BY CountedStep, ServerSteps

-----------------------------------------------------------------------------
(* The processor's side.                                                    *)

AskedEntries == {CallListEntry(e) : e \in Written}

(* What a step is to the processor and to the entries that were asked for.  *)
LEMMA SystemSteps ==
  ASSUME CountedInv, [SystemNext]_systemVars
  PROVE  \/ UNCHANGED <<processorVars, AskedEntries>>
         \/ \E e \in [impu : MaybeUser, fragment : CallFragment] :
              Proved!WriteEntry(e) /\ AskedEntries' = AskedEntries \cup {e}
         \/ /\ Proved!LoseWork \/ \E w \in Workers : Proved!Work(w)
            /\ AskedEntries' = AskedEntries
<1>1. CountedInv'
  BY CountedSystemStep
<1>2. written' = written => AskedEntries' = AskedEntries
  BY DEF AskedEntries, Written
<1>3. CASE TimePasses \/ UNCHANGED systemVars
  BY <1>2, <1>3 DEF TimePasses, Tick, systemVars, vars
<1>4. CASE SystemRestart \/ \E w \in Workers : SystemWork(w)
  BY <1>2, <1>4, SameWork, SameLoss DEF SystemRestart, Restart, SystemWork, vars
<1>5. ASSUME NEW t \in Txns, ServerStep(t), written' # written
      PROVE  \E e \in [impu : MaybeUser, fragment : CallFragment] :
               Proved!WriteEntry(e) /\ AskedEntries' = AskedEntries \cup {e}
  <2>1. PICK d \in WrittenEntry :
          Written' = Written \cup {d} /\ Proved!WriteEntry(CallListEntry(d))
    BY <1>1, <1>5, ServerCalls
  <2>2. EntriesTyped'
    BY <1>1, WrittenTyped, PTL
  <2>3. CallListEntry(d) \in [impu : MaybeUser, fragment : CallFragment]
    BY <2>1, <2>2 DEF EntriesTyped, CallListEntry
  <2>4. AskedEntries' = AskedEntries \cup {CallListEntry(d)}
    BY <2>1 DEF AskedEntries
  <2> QED
    BY <2>1, <2>3, <2>4
<1>6. ASSUME NEW t \in Txns, ServerStep(t), written' = written
      PROVE  UNCHANGED <<processorVars, AskedEntries>>
  BY <1>2, <1>6 DEF ServerStep
<1> QED
  BY <1>3, <1>4, <1>5, <1>6 DEF SystemNext


LEMMA ProcessorSteps == CountedInv /\ [SystemNext]_systemVars => [Proved!Next]_Proved!vars
<1> SUFFICES ASSUME CountedInv, [SystemNext]_systemVars
             PROVE  [Proved!Next]_Proved!vars
  OBVIOUS
<1>1. UNCHANGED processorVars => UNCHANGED Proved!vars
  BY DEF processorVars, Proved!vars, Proved!poolVars, Proved!workVars, Proved!storeVars,
         Proved!noteVars
<1> QED
  BY <1>1, SystemSteps DEF Proved!WriteEntry, Proved!Work, Proved!LoseWork, Proved!Next

(* What is proved of the processor for any entries that anyone asks for     *)
(* holds of those the handlers ask for, in their order.                     *)
THEOREM SystemRunsProcessor == SystemSpec => Proved!Spec
<1>1. SystemInit => Proved!Init
  BY SameInit DEF SystemInit
<1> QED
  BY <1>1, CountedSystemInit, CountedSystemStep, ProcessorSteps, PTL DEF SystemSpec, Proved!Spec

-----------------------------------------------------------------------------
(* Nothing a handler asks for vanishes unnoticed, with or without a key.    *)

LEMMA AccountSteps ==
  ASSUME CountedInv, Proved!AccountInv, [SystemNext]_systemVars
  PROVE  Proved!AccountInv'
<1>1. CASE UNCHANGED <<processorVars, AskedEntries>>
  <2>1. UNCHANGED <<queue, pool, entry, fate, workerPc, clr, cassTimestamp, recordsToDelete,
                    live, stamp, cassClock, stats, owed, excused, restarts, lost, AskedEntries>>
    BY <1>1 DEF processorVars
  <2> QED
    BY <2>1, ProcessorAssumptions, Proved!AccountUntouched
    DEF AskedEntries, Proved!vars, Proved!poolVars, Proved!workVars, Proved!storeVars,
        Proved!noteVars
<1>2. ASSUME NEW e \in [impu : MaybeUser, fragment : CallFragment],
             Proved!WriteEntry(e), AskedEntries' = AskedEntries \cup {e}
      PROVE  Proved!AccountInv'
  BY <1>2, ProcessorAssumptions, Proved!AccountHandler DEF AskedEntries
<1>3. ASSUME AskedEntries' = AskedEntries,
             Proved!LoseWork \/ \E w \in Workers : Proved!Work(w)
      PROVE  Proved!AccountInv'
  BY <1>3, ProcessorAssumptions, Proved!AccountWorker, Proved!AccountRestart DEF AskedEntries
<1> QED
  BY <1>1, <1>2, <1>3, SystemSteps

(* Whatever the handlers write, in whatever order the workers take it,      *)
(* whatever fails and however often Sprout is restarted: an entry is in its *)
(* list, on its way there, lost with its write, or has made room for newer  *)
(* calls.                                                                   *)
THEOREM SystemAccountsForEntries == SystemSpec => []P!EntriesAccountedFor
<1>1. SystemInit => Proved!AccountInv
  <2> SUFFICES ASSUME SystemInit
               PROVE  Proved!AccountInv
    OBVIOUS
  <2>1. Proved!KeptInv
    BY SameInit, ProcessorAssumptions, Proved!KeptInvInit DEF SystemInit
  <2>2. \A w \in Workers : workerPc[w] = "idle"
    BY SameInit DEF SystemInit, Proved!Init
  <2>3. Written = {}
    BY WrittenElements, CountedSystemInit DEF SystemInit, Init, CountedInv, ServerInv
  <2> QED
    BY <2>1, <2>2, <2>3 DEF Proved!AccountInv, Proved!Tried
<1>2. Proved!AccountInv => P!EntriesAccountedFor
  <2>1. \A S : P!Cardinality(S) = Proved!Cardinality(S)
    BY Zenon DEF P!Cardinality, Proved!Cardinality
  <2>2. P!Pending = Proved!Pending
    BY DEF P!Pending, Proved!Pending, P!InPool, Proved!InPool
  <2>3. \A S, f : P!NewerCalls(S, f) = Proved!NewerCalls(S, f)
    BY DEF P!NewerCalls, Proved!NewerCalls, P!IsCall, Proved!IsCall, P!Before, Proved!Before,
           P!SortKey, Proved!SortKey, P!TypeRank, Proved!TypeRank
  <2> QED
    BY <2>1, <2>2, <2>3
    DEF P!EntriesAccountedFor, Proved!AccountInv, Proved!Settled, Proved!HasRoomFor
<1> QED
  BY <1>1, <1>2, CountedSystemInit, CountedSystemStep, AccountSteps, PTL DEF SystemSpec

-----------------------------------------------------------------------------
(* The system implements Memento where originating requests carry an        *)
(* identity: then every call that gets a final response has its key.        *)

AllNamed ==
  \A t \in Txns : pc[t] \in Answering \cup {"sent"} /\ tsx[t].includes_initial => Named(t)

LEMMA AllNamedStep ==
  ASSUME IdentitiesAsserted, CountedInv, AllNamed, [Next]_vars
  PROVE  AllNamed'
<1>0. pc \in [Txns -> PC] /\ tsx \in [Txns -> TsxType] /\ \A v \in Txns : TxnInv(v)
  BY DEF CountedInv, ServerInv, VarTypes
<1>1. CASE Tick \/ UNCHANGED vars
  BY <1>1 DEF Tick, vars, AllNamed, Named
<1>2. CASE Restart
  BY <1>2 DEF Restart, AllNamed, Answering
<1>3. ASSUME NEW t \in Txns, OnlyOf(t),
             pc'[t] \in Answering \cup {"sent"} /\ tsx'[t].includes_initial => Named(t)'
      PROVE  AllNamed'
  BY <1>3 DEF OnlyOf, AllNamed, Named
<1>4. ASSUME NEW t \in Txns, JoinDialog(t)
      PROVE  AllNamed'
  BY <1>3, <1>4, JoinDialogStep DEF CountedInv
<1>5. ASSUME NEW t \in Txns, Receipt(t) \/ Handler(t), ~ JoinDialog(t)
      PROVE  AllNamed'
  <2>1. OnlyOf(t) /\ (Named(t)' <=> Named(t)) /\ TxnInv(t)
    BY <1>0, <1>5, HandlerStep DEF CountedInv, Quiet
  <2>2. ~ NoAssertedIdentity(t)
    BY <2>1 DEF NoAssertedIdentity, TxnInv, Starting, IdentitiesAsserted
  <2>3. CASE Receipt(t) \/ OnInitialRequest(t) \/ FormatStartXml(t) \/ FormatStartCassandra(t)
    <3>1. pc'[t] \notin Answering \cup {"sent"}
      BY <1>0, <2>3 DEF Receipt, ReceiveInitial, ReceiveInDialog, Receive, Refuse, OnInitialRequest,
        FormatStartXml, FormatStartCassandra, ReadTime, Goto, Answering
    <3> QED
      BY <1>3, <2>1, <3>1
  <2>4. CASE PassInDialogRequest(t) \/ OnInDialogBye(t) \/ StoreEnd(t)
    <3>1. ~ tsx'[t].includes_initial
      BY <1>0, <2>1, <2>4 DEF PassInDialogRequest, OnInDialogBye, StoreEnd, TxnInv, Fresh, Ending,
        NewTsx, TsxType
    <3> QED
      BY <1>3, <2>1, <3>1
  <2>5. CASE \/ LocaltimeStart(t) \/ LocaltimeEnd(t) \/ StoreBegin(t)
             \/ \E rsp \in Responses : OnRejection(t, rsp) \/ OnAnswer(t, rsp)
    <3>1. /\ tsx'[t].includes_initial = tsx[t].includes_initial
          /\ pc'[t] \in Answering \cup {"sent"} => pc[t] \in Answering \cup {"sent"}
      BY <1>0, <2>5 DEF LocaltimeStart, LocaltimeEnd, StoreBegin, OnRejection, OnAnswer, Return,
        ReadTime, Goto, Answering, TsxType
    <3> QED
      BY <1>3, <2>1, <3>1 DEF AllNamed
  <2> QED
    BY <1>5, <2>2, <2>3, <2>4, <2>5 DEF Handler
<1> QED
  BY <1>1, <1>2, <1>4, <1>5 DEF Next

(* Calls with different keys have different numbers.                        *)
LEMMA NumberedKeys ==
  ASSUME NEW k \in Abstract!Key
  PROVE  /\ Numbered(k) \in P!Handlers!Key
         /\ \A l \in Abstract!Key : Numbered(k) = Numbered(l) => k = l
<1>1. CallNames \subseteq CallPairs
  BY TxnsAssumption, FS_CardinalityType DEF CallNames, CallPairs
<1> QED
  BY <1>1, CallNumberAssumption
  DEF Numbered, Abstract!Key, P!Handlers!Key, NewCalls, MaybeUser

LEMMA KeysOfCalls ==
  CountedInv => Joined \subseteq Abstract!Key /\ InProgress \subseteq Abstract!Key
<1> SUFFICES ASSUME CountedInv
             PROVE  Joined \subseteq Abstract!Key /\ InProgress \subseteq Abstract!Key
  OBVIOUS
<1>1. Joined \subseteq Abstract!Key
  BY DialogKey DEF Joined
<1>2. InProgress = {KeyOf(t) : t \in Unopened}
  BY InProgressKeys
<1>3. \A t \in Unopened : KeyOf(t) \in Abstract!Key
  BY KeyOfCall DEF Unopened
<1> QED
  BY <1>1, <1>2, <1>3

NumberedJoined == {Numbered(k) : k \in Joined}
NumberedInProgress == {Numbered(k) : k \in InProgress}

(* The steps of CallEntries, on calls and on their numbers.                 *)
LEMMA JoinNumbered ==
  ASSUME CountedInv, NEW k \in Abstract!Key, Abstract!Join(k), written' = written
  PROVE  P!Handlers!Join(Numbered(k))
<1>1. k \notin Joined /\ Joined' = Joined \cup {k} /\ InProgress' = InProgress \cup {k}
  BY DEF Abstract!Join
<1>2. Numbered(k) \notin NumberedJoined
  BY <1>1, KeysOfCalls, NumberedKeys DEF NumberedJoined
<1>3. /\ NumberedJoined' = NumberedJoined \cup {Numbered(k)}
      /\ NumberedInProgress' = NumberedInProgress \cup {Numbered(k)}
  BY <1>1 DEF NumberedJoined, NumberedInProgress
<1>4. AskedEntries' = AskedEntries
  BY DEF AskedEntries, Written
<1> QED
  BY <1>2, <1>3, <1>4
  DEF P!Handlers!Join, NumberedJoined, NumberedInProgress, AskedEntries

LEMMA EntryNumbered ==
  ASSUME NEW e, NEW k, NEW type, FragmentOf(e) = Abstract!EntryOf(k, type)
  PROVE  CallListEntry(e) = P!Handlers!EntryOf(Numbered(k), type)
<1>1. /\ e.impu = k.impu /\ <<e.timestamp, e.id>> = k.call /\ e.type = type
  BY DEF FragmentOf, Abstract!EntryOf
<1> QED
  BY <1>1 DEF CallListEntry, P!Handlers!EntryOf, Numbered

LEMMA OpenNumbered ==
  ASSUME CountedInv, NEW e, Written' = Written \cup {e}, NEW k \in Abstract!Key,
         NEW type \in Abstract!Outcomes, FragmentOf(e) = Abstract!EntryOf(k, type),
         Abstract!Open(k, type)
  PROVE  P!Handlers!Open(Numbered(k), type)
<1>1. k \in InProgress /\ InProgress' = InProgress \ {k} /\ Joined' = Joined
  BY DEF Abstract!Open
<1>2. /\ Numbered(k) \in NumberedInProgress
      /\ NumberedInProgress' = NumberedInProgress \ {Numbered(k)}
  <2>1. \A l \in InProgress : Numbered(l) = Numbered(k) => l = k
    BY KeysOfCalls, NumberedKeys
  <2> QED
    BY <1>1, <2>1 DEF NumberedInProgress
<1>3. NumberedJoined' = NumberedJoined
  BY <1>1 DEF NumberedJoined
<1>4. AskedEntries' = AskedEntries \cup {P!Handlers!EntryOf(Numbered(k), type)}
  BY EntryNumbered DEF AskedEntries
<1> QED
  BY <1>2, <1>3, <1>4
  DEF P!Handlers!Open, NumberedJoined, NumberedInProgress, AskedEntries

LEMMA EndNumbered ==
  ASSUME NEW e, Written' = Written \cup {e}, NEW k, FragmentOf(e) = Abstract!EntryOf(k, "END"),
         Abstract!End(k)
  PROVE  P!Handlers!End(Numbered(k))
<1>1. k \in Joined /\ Joined' = Joined /\ InProgress' = InProgress
  BY DEF Abstract!End
<1>2. /\ Numbered(k) \in NumberedJoined /\ NumberedJoined' = NumberedJoined
      /\ NumberedInProgress' = NumberedInProgress
  BY <1>1 DEF NumberedJoined, NumberedInProgress
<1>3. AskedEntries' = AskedEntries \cup {P!Handlers!EntryOf(Numbered(k), "END")}
  BY EntryNumbered DEF AskedEntries
<1> QED
  BY <1>2, <1>3
  DEF P!Handlers!End, NumberedJoined, NumberedInProgress, AskedEntries

LEMMA MementoSteps ==
  IdentitiesAsserted /\ CountedInv /\ AllNamed /\ [SystemNext]_systemVars
    => [P!MementoNext]_P!mementoVars
<1> SUFFICES ASSUME IdentitiesAsserted, CountedInv, AllNamed, [SystemNext]_systemVars
             PROVE  [P!MementoNext]_P!mementoVars
  OBVIOUS
<1>0. CountedInv' /\ AllNamed'
  BY CountedSystemStep, ServerSteps, AllNamedStep
<1>1. ASSUME UNCHANGED <<Joined, InProgress, written>>
      PROVE  UNCHANGED P!handlerVars
  BY <1>1 DEF P!handlerVars, Written
<1>2. UNCHANGED processorVars => UNCHANGED <<P!vars, lost>>
  BY DEF processorVars, P!vars, P!poolVars, P!workVars, P!storeVars, P!noteVars
<1>3. CASE TimePasses \/ UNCHANGED systemVars
  <2>1. UNCHANGED <<Joined, InProgress, written>>
    BY <1>3, SilentStep DEF TimePasses, Tick, systemVars, vars, Named, CallOf
  <2> QED
    BY <1>1, <1>2, <1>3, <2>1 DEF TimePasses, systemVars, P!mementoVars
<1>4. ASSUME NEW w \in Workers, SystemWork(w)
      PROVE  P!MementoNext
  <2>1. UNCHANGED <<Joined, InProgress, written>>
    BY <1>4, SilentStep DEF SystemWork, vars, Named, CallOf
  <2> QED
    BY <1>1, <1>4, <2>1 DEF SystemWork, P!WorkerStep, P!MementoNext
<1>5. CASE SystemRestart
  <2>1. Abstract!LoseTransactions /\ written' = written
    BY <1>5, RestartMapped DEF SystemRestart, Restart
  <2>2. InProgress' = {} /\ Joined' = Joined
    BY <2>1 DEF Abstract!LoseTransactions
  <2>3. P!Handlers!LoseTransactions
    BY <2>1, <2>2 DEF P!Handlers!LoseTransactions, Written
  <2> QED
    BY <1>5, <2>3 DEF SystemRestart, P!SproutRestarts, P!MementoNext
<1>6. ASSUME NEW t \in Txns, ServerStep(t)
      PROVE  [P!MementoNext]_P!mementoVars
  <2>1. CASE written' = written
    <3>1. UNCHANGED <<P!vars, lost>>
      BY <1>2, <1>6, <2>1 DEF ServerStep
    <3>2. CASE UNCHANGED <<Joined, InProgress, Asked>>
      BY <1>1, <2>1, <3>1, <3>2 DEF P!mementoVars
    <3>3. ASSUME NEW k \in Abstract!Key, Abstract!Join(k)
          PROVE  P!MementoNext
      <4>1. P!HandlerJoins(Numbered(k))
        BY <2>1, <3>1, <3>3, JoinNumbered DEF P!HandlerJoins
      <4> QED
        BY <4>1, NumberedKeys DEF P!MementoNext
    <3>4. \A e : written[t] = <<>> /\ written' = [written EXCEPT ![t] = <<e>>] => FALSE
      BY <2>1 DEF CountedInv, ServerInv, VarTypes
    <3> QED
      BY <1>0, <1>6, <3>2, <3>3, <3>4, HandlerMapped DEF ServerStep
  <2>2. CASE written' # written
    <3>1. PICK e \in WrittenEntry :
            /\ written' = [written EXCEPT ![t] = <<e>>]
            /\ Written' = Written \cup {e} /\ Proved!WriteEntry(CallListEntry(e))
      BY <1>0, <1>6, <2>2, ServerCalls
    <3>2. PICK d \in WrittenEntry :
            /\ written' = [written EXCEPT ![t] = <<d>>]
            /\ \/ OpensOrEnds(FragmentOf(d))
               \/ pc'[t] = "sent" /\ tsx'[t].includes_initial /\ ~ Named(t)'
      BY <1>0, <1>6, <2>2, HandlerMapped DEF ServerStep
    <3>3. d = e
      BY <3>1, <3>2 DEF CountedInv, ServerInv, VarTypes
    <3>4. OpensOrEnds(FragmentOf(e))
      BY <1>0, <3>2, <3>3 DEF AllNamed
    <3>5. PICK k \in Abstract!Key :
            \/ FragmentOf(e) = Abstract!EntryOf(k, "END") /\ Abstract!End(k)
            \/ \E type \in Abstract!Outcomes :
                 FragmentOf(e) = Abstract!EntryOf(k, type) /\ Abstract!Open(k, type)
      BY <3>4 DEF OpensOrEnds
    <3>6. Numbered(k) \in P!Handlers!Key /\ P!WriteEntry(CallListEntry(e))
      BY <3>1, NumberedKeys, SameWrite
    <3>7. CASE FragmentOf(e) = Abstract!EntryOf(k, "END") /\ Abstract!End(k)
      <4>1. P!HandlerEnds(Numbered(k))
        BY <3>1, <3>6, <3>7, EndNumbered, EntryNumbered DEF P!HandlerEnds
      <4> QED
        BY <3>6, <4>1 DEF P!MementoNext
    <3>8. ASSUME NEW type \in Abstract!Outcomes, FragmentOf(e) = Abstract!EntryOf(k, type),
                 Abstract!Open(k, type)
          PROVE  P!MementoNext
      <4>1. P!HandlerOpens(Numbered(k), type)
        BY <3>1, <3>6, <3>8, OpenNumbered, EntryNumbered DEF P!HandlerOpens
      <4> QED
        BY <3>6, <4>1 DEF P!MementoNext, P!Handlers!Outcomes, Abstract!Outcomes
    <3> QED
      BY <3>5, <3>7, <3>8
  <2> QED
    BY <2>1, <2>2
<1> QED
  BY <1>3, <1>4, <1>5, <1>6 DEF SystemNext

(* Where originating requests carry an identity: whatever the handlers, the *)
(* workers, the store and the restarts do, each step of the whole system is *)
(* one that Memento allows, or none.                                        *)
THEOREM SystemImplementsMemento ==
  ASSUME IdentitiesAsserted
  PROVE  SystemSpec => ImplementsMemento
<1>1. SystemInit => CountedInv /\ AllNamed
  BY CountedSystemInit DEF SystemInit, Init, AllNamed, Answering
<1>2. CountedInv /\ AllNamed /\ [SystemNext]_systemVars => CountedInv' /\ AllNamed'
  BY CountedSystemStep, ServerSteps, AllNamedStep
<1>3. SystemInit => P!MementoInit
  <2> SUFFICES ASSUME SystemInit
               PROVE  P!Handlers!Init
    BY DEF SystemInit, P!MementoInit
  <2>1. Joined = {} /\ InProgress = {}
    BY DEF SystemInit, Init, Joined, InProgress, NewTsx
  <2>2. Written = {}
    BY WrittenElements, CountedSystemInit DEF SystemInit, Init, CountedInv, ServerInv
  <2> QED
    BY <2>1, <2>2 DEF P!Handlers!Init
<1>4. CountedInv /\ AllNamed /\ [SystemNext]_systemVars => [P!MementoNext]_P!mementoVars
  BY MementoSteps
<1> QED
  BY <1>1, <1>2, <1>3, <1>4, PTL DEF SystemSpec, ImplementsMemento, P!MementoSpec

(* What Memento keeps, then, the system keeps: no call is recorded both as  *)
(* answered and as rejected, and the statistic of failed calls counts none  *)
(* twice.                                                                   *)
THEOREM SystemKeepsOutcomes ==
  ASSUME IdentitiesAsserted
  PROVE  SystemSpec => [](P!CallHasOneOutcome /\ P!FailedCallsCountedOnce)
<1>1. \A i, f : P!EverStored(i, f) <=> Proved!EverStored(i, f)
  BY DEF P!EverStored, Proved!EverStored
<1>2. Proved!CallHasOneOutcome => P!CallHasOneOutcome
  BY <1>1 DEF P!CallHasOneOutcome, Proved!CallHasOneOutcome
<1>3. Proved!FailedCallsCountedOnce => P!FailedCallsCountedOnce
  <2>1. \A S : P!Cardinality(S) = Proved!Cardinality(S)
    BY Zenon DEF P!Cardinality, Proved!Cardinality
  <2>2. P!Handlers!Key = Proved!Handlers!Key
    BY DEF P!Handlers!Key, Proved!Handlers!Key
  <2> QED
    BY <1>1, <2>1, <2>2 DEF P!FailedCallsCountedOnce, Proved!FailedCallsCountedOnce
<1>4. Proved!MementoSpec => []Proved!CallHasOneOutcome
  BY ProcessorAssumptions, Proved!CallsHaveOneOutcome
<1>5. Proved!MementoSpec => []Proved!FailedCallsCountedOnce
  BY ProcessorAssumptions, Proved!FailedCallsCounted
<1> QED
  BY <1>2, <1>3, <1>4, <1>5, SystemImplementsMemento, SameSpec, PTL DEF ImplementsMemento

-----------------------------------------------------------------------------
(* The lists hold what the handlers wrote, and nothing of anybody else's.   *)

(* The list a call goes to is that of the subscriber its INVITE is for.     *)
OwnersKept == \A t \in Txns : Named(t) => tsx[t].impu = Owner(req[t])

LEMMA OwnersStep ==
  ASSUME CountedInv, OwnersKept, [Next]_vars
  PROVE  OwnersKept'
<1>1. CASE Tick \/ Restart \/ UNCHANGED vars
  BY <1>1 DEF Tick, Restart, vars, input, OwnersKept, Named
<1>2. ASSUME NEW t \in Txns, JoinDialog(t)
      PROVE  OwnersKept'
  <2>1. OnlyOf(t) /\ tsx'[t].impu = Owner(req[t]) /\ req' = req
    BY <1>2, JoinDialogStep DEF CountedInv, CallOf, JoinDialog, input
  <2> QED
    BY <2>1 DEF OwnersKept, OnlyOf, Named
<1>3. ASSUME NEW t \in Txns, Receipt(t) \/ Handler(t), ~ JoinDialog(t)
      PROVE  OwnersKept'
  <2>1. Quiet(t) /\ TxnInv(t)
    BY <1>3, HandlerStep DEF CountedInv, ServerInv
  <2>2. Named(t) => req' = req
    <3>1. CASE Receipt(t)
      BY <2>1, <3>1 DEF Receipt, ReceiveInitial, ReceiveInDialog, Receive, Refuse, TxnInv, Fresh,
                        NewTsx, Named
    <3>2. CASE Handler(t)
      BY <3>2 DEF Handler, OnInitialRequest, LocaltimeStart, LocaltimeEnd, FormatStartXml,
        FormatStartCassandra, NoAssertedIdentity, JoinDialog, PassInDialogRequest, OnInDialogBye,
        StoreEnd, OnRejection, OnAnswer, StoreBegin, input
    <3> QED
      BY <1>3, <3>1, <3>2
  <2>3. \A v \in Txns \ {t} : tsx'[v] = tsx[v] /\ req'[v] = req[v]
    BY <2>1 DEF Quiet, OnlyOf
  <2>4. Named(t)' => Named(t) /\ tsx'[t].impu = tsx[t].impu
    BY <2>1 DEF Quiet, CallOf
  <2> QED
    BY <2>2, <2>3, <2>4 DEF OwnersKept, Named
<1> QED
  BY <1>1, <1>2, <1>3 DEF Next

(* What is in a list was there before or was written by a handler.          *)
Provenance ==
  /\ Proved!Pending \subseteq AskedEntries
  /\ \A i \in MaybeUser : \A f \in live[i] \ StoredBefore[i] :
       Proved!EntryFor(i, f) \in AskedEntries

SystemInv == CountedInv /\ OwnersKept /\ Proved!KeptInv /\ Provenance

LEMMA ProvenanceStep ==
  ASSUME SystemInv, [SystemNext]_systemVars
  PROVE  Provenance'
<1>0. CountedInv /\ CountedInv' /\ Proved!KeptInv
  BY CountedSystemStep DEF SystemInv
<1>1. [Proved!Next]_Proved!vars
  BY <1>0, ProcessorSteps
<1>2. \A i \in MaybeUser : \A f \in live'[i] :
        f \in live[i] \/ Proved!EntryFor(i, f) \in Proved!Pending
  BY <1>0, <1>1, ProcessorAssumptions, Proved!ListsGainPending
<1>3. ASSUME AskedEntries \subseteq AskedEntries', Proved!Pending' \subseteq AskedEntries'
      PROVE  Provenance'
  BY <1>2, <1>3 DEF SystemInv, Provenance, Proved!EntryFor
<1>4. CASE UNCHANGED <<processorVars, AskedEntries>>
  BY <1>3, <1>4 DEF processorVars, Proved!Pending, Proved!InPool, SystemInv, Provenance
<1>5. ASSUME NEW e \in [impu : MaybeUser, fragment : CallFragment],
             Proved!WriteEntry(e), AskedEntries' = AskedEntries \cup {e}
      PROVE  Provenance'
  <2>1. PICK r \in Requests : Proved!WriteCallListEntry(r, e)
    BY <1>5 DEF Proved!WriteEntry
  <2>2. Proved!Pending' \subseteq Proved!Pending \cup {e}
    BY <1>0, <2>1, ProcessorAssumptions, Proved!AskPending DEF Proved!KeptInv
  <2> QED
    BY <1>3, <1>5, <2>2 DEF SystemInv, Provenance
<1>6. ASSUME AskedEntries' = AskedEntries,
             Proved!LoseWork \/ \E w \in Workers : Proved!Work(w)
      PROVE  Provenance'
  <2>1. Proved!Pending' \subseteq Proved!Pending
    BY <1>0, <1>6, ProcessorAssumptions, Proved!WorkAsksNothing
  <2> QED
    BY <1>3, <1>6, <2>1 DEF SystemInv, Provenance
<1> QED
  BY <1>0, <1>4, <1>5, <1>6, SystemSteps

(* Whose entry it is.                                                       *)
LEMMA EntryOwner ==
  ASSUME CountedInv, OwnersKept, NEW e \in Written, e.impu \in Users
  PROVE  \E t \in Txns :
           /\ Named(t) /\ <<tsx[t].start_cassandra, tsx[t].unique_id>> = <<e.timestamp, e.id>>
           /\ <<e.timestamp, e.id>> \in CallNames /\ e.impu = Owner(req[t])
           /\ e.type # "END" => \E k \in 1..Len(written[t]) : written[t][k].type = e.type
<1>1. PICK u \in Txns : written[u] # <<>> /\ e = written[u][1]
  BY WrittenElements DEF CountedInv, ServerInv
<1>2. /\ e \in WrittenEntry /\ EntryOK(u, e) /\ TxnInv(u) /\ 1 \in 1..Len(written[u])
  BY <1>1, OneEntry DEF CountedInv, ServerInv, VarTypes, TxnInv
<1>3. ASSUME NEW t \in Txns, Named(t),
             Key(e) = <<tsx[t].impu, tsx[t].start_cassandra, tsx[t].unique_id>>
      PROVE  /\ <<tsx[t].start_cassandra, tsx[t].unique_id>> = <<e.timestamp, e.id>>
             /\ <<e.timestamp, e.id>> \in CallNames /\ e.impu = Owner(req[t])
  <2>1. KeyOf(t) \in Abstract!Key
    BY <1>3, KeyOfCall
  <2> QED
    BY <1>3, <2>1 DEF Key, KeyOf, CallKey, Abstract!Key, OwnersKept
<1>4. CASE e.type = "END"
  <2>1. PICK t \in Txns : Named(t) /\ <<e.timestamp, e.id, e.impu>> = CallOf(t)
    BY <1>2, <1>4 DEF EntryOK, CountedInv, ServerInv, DialogsTraced
  <2> QED
    BY <1>3, <1>4, <2>1 DEF CallOf, Key
<1>5. CASE e.type \in Opening
  <2>1. /\ tsx[u].includes_initial
        /\ Key(e) = <<tsx[u].impu, tsx[u].start_cassandra, tsx[u].unique_id>>
    BY <1>2, <1>5 DEF EntryOK
  <2>2. Named(u)
    BY <1>1, <1>2, <2>1, NoUserAssumption DEF TxnInv, Key
  <2> QED
    BY <1>1, <1>2, <1>3, <2>1, <2>2
<1> QED
  BY <1>2, <1>4, <1>5 DEF WrittenEntry

LEMMA ListsOwn == SystemInv => ListsHoldOwnCalls
<1> SUFFICES ASSUME SystemInv, NEW i \in Users, NEW f \in live[i] \ StoredBefore[i]
             PROVE  \E t \in Txns, c \in CallNames :
                      /\ f.call = CallNumber[c]
                      /\ c = <<tsx[t].start_cassandra, tsx[t].unique_id>> /\ tsx[t].includes_initial
                      /\ i = IF Originating(req[t]) THEN req[t].pai ELSE req[t].ruri
                      /\ f.type # "END" => \E k \in 1..Len(written[t]) : written[t][k].type = f.type
  BY DEF ListsHoldOwnCalls
<1>1. Proved!EntryFor(i, f) \in AskedEntries
  BY DEF SystemInv, Provenance, MaybeUser
<1>2. PICK e \in Written : CallListEntry(e) = Proved!EntryFor(i, f)
  BY <1>1 DEF AskedEntries
<1>3. e.impu = i /\ f = [call |-> CallNumber[<<e.timestamp, e.id>>], type |-> e.type]
  BY <1>2 DEF CallListEntry, Proved!EntryFor
<1>4. PICK t \in Txns :
        /\ Named(t) /\ <<tsx[t].start_cassandra, tsx[t].unique_id>> = <<e.timestamp, e.id>>
        /\ <<e.timestamp, e.id>> \in CallNames /\ e.impu = Owner(req[t])
        /\ e.type # "END" => \E k \in 1..Len(written[t]) : written[t][k].type = e.type
  BY <1>3, EntryOwner DEF SystemInv
<1> QED
  BY <1>3, <1>4 DEF Named, Owner

(* However handlers, workers and restarts interleave and whatever fails, a  *)
(* list gains only fragments of calls whose INVITE names its subscriber, of *)
(* the type its transaction or a BYE wrote.                                 *)
THEOREM ListsGainOwnCalls == SystemSpec => []ListsHoldOwnCalls
<1>1. SystemInit => SystemInv
  <2> SUFFICES ASSUME SystemInit
               PROVE  OwnersKept /\ Proved!KeptInv /\ Provenance
    BY CountedSystemInit DEF SystemInv
  <2>1. OwnersKept
    BY DEF SystemInit, Init, OwnersKept, Named, NewTsx
  <2>2. Proved!Init
    BY SameInit DEF SystemInit
  <2>3. Proved!KeptInv
    BY <2>2, ProcessorAssumptions, Proved!KeptInvInit
  <2>4. Provenance
    BY <2>2 DEF Proved!Init, Provenance, Proved!Pending, Proved!InPool
  <2> QED
    BY <2>1, <2>3, <2>4
<1>2. SystemInv /\ [SystemNext]_systemVars => SystemInv'
  <2> SUFFICES ASSUME SystemInv, [SystemNext]_systemVars
               PROVE  OwnersKept' /\ Proved!KeptInv'
    BY CountedSystemStep, ProvenanceStep DEF SystemInv
  <2>1. OwnersKept'
    BY ServerSteps, OwnersStep DEF SystemInv
  <2>2. Proved!KeptInv'
    BY ProcessorSteps, ProcessorAssumptions, Proved!KeptInvStep DEF SystemInv
  <2> QED
    BY <2>1, <2>2
<1> QED
  BY <1>1, <1>2, ListsOwn, PTL DEF SystemSpec
=============================================================================
