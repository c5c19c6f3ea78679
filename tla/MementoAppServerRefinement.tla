--------------------- MODULE MementoAppServerRefinement ---------------------
(***************************************************************************)
(* MementoAppServer implements CallEntries, for any finite number of       *)
(* transactions, any users, requests and responses and any time.           *)
(***************************************************************************)
EXTENDS MementoAppServerProofs

-----------------------------------------------------------------------------
(* generate_unique_integer has been called once by each call that joined    *)
(* its dialog: the ids in use are no more than the transactions.            *)

Namers == {t \in Txns : Named(t)}

IdsCounted == nextId = Cardinality(Namers) + 1

CountedInv == ServerInv /\ IdsCounted

LEMMA NamersFinite == IsFiniteSet(Namers) /\ Cardinality(Namers) \in Nat
  BY TxnsAssumption, FS_Subset, FS_CardinalityType DEF Namers

LEMMA CountedInit == Init => CountedInv
<1> SUFFICES ASSUME Init PROVE CountedInv
  OBVIOUS
<1>1. Namers = {} /\ nextId = 1
  BY DEF Init, Namers, Named, NewTsx
<1> QED
  BY <1>1, ServerInvInit, FS_EmptySet DEF CountedInv, IdsCounted

LEMMA CountedStep == CountedInv /\ [Next]_vars => CountedInv'
<1> SUFFICES ASSUME CountedInv, [Next]_vars PROVE IdsCounted'
  BY ServerInvStep DEF CountedInv
<1>1. CASE Tick \/ Restart \/ UNCHANGED vars
  <2>1. nextId' = nextId /\ tsx' = tsx
    BY <1>1 DEF Tick, Restart, vars, count
  <2>2. Namers' = Namers
    BY <2>1 DEF Namers, Named
  <2> QED
    BY <2>1, <2>2 DEF CountedInv, IdsCounted
<1>2. ASSUME NEW t \in Txns, Quiet(t)
      PROVE  IdsCounted'
  <2>1. Namers' = Namers /\ nextId' = nextId
    BY <1>2, QuietStep DEF CountedInv, Namers, Quiet
  <2> QED
    BY <2>1 DEF CountedInv, IdsCounted
<1>3. ASSUME NEW t \in Txns, JoinDialog(t)
      PROVE  IdsCounted'
  <2>1. /\ ~ Named(t) /\ Named(t)' /\ OnlyOf(t) /\ nextId' = nextId + 1
    BY <1>3, JoinDialogStep DEF CountedInv
  <2>2. \A v \in Txns \ {t} : Named(v)' <=> Named(v)
    BY <2>1 DEF OnlyOf, Named
  <2>3. Namers' = Namers \cup {t} /\ t \notin Namers
    BY <2>1, <2>2 DEF Namers
  <2>4. Cardinality(Namers \cup {t}) = Cardinality(Namers) + 1
    BY <2>3, NamersFinite, FS_AddElement
  <2> QED
    BY <2>1, <2>3, <2>4 DEF CountedInv, IdsCounted
<1> QED
  BY <1>1, <1>2, <1>3, HandlerStep DEF CountedInv, Next

-----------------------------------------------------------------------------
(* The key of the call of an INVITE, and those of the calls not opened yet. *)
KeyOf(t) == CallKey(tsx[t].impu, tsx[t].start_cassandra, tsx[t].unique_id)

Unopened == {u \in Txns : Named(u) /\ written[u] = <<>> /\ pc[u] # "lost"}

LEMMA InProgressKeys ==
  /\ InProgress = {KeyOf(t) : t \in Unopened}
  /\ InProgress' = {KeyOf(t)' : t \in Unopened'}
  BY DEF InProgress, KeyOf, Unopened, Named

LEMMA AskedFragments ==
  /\ VarTypes => Asked = {FragmentOf(written[t][1]) : t \in {u \in Txns : written[u] # <<>>}}
  /\ VarTypes' => Asked' = {FragmentOf(written'[t][1]) : t \in {u \in Txns : written'[u] # <<>>}}
  BY ElementsOf DEF Asked, Written, VarTypes, FragmentOf

(* The key of a call of an INVITE is one of those of CallEntries.           *)
LEMMA KeyOfCall ==
  ASSUME CountedInv, NEW t \in Txns, Named(t)
  PROVE  /\ KeyOf(t) \in Abstract!Key
         /\ KeyOf(t) = CallKey(CallOf(t)[3], CallOf(t)[1], CallOf(t)[2])
         /\ KeyOf(t) \in Joined
         /\ tsx[t].unique_id < nextId
<1>1. /\ VarTypes /\ TxnInv(t) /\ tsx[t] \in TsxType /\ pc[t] \in PC
  BY DEF CountedInv, ServerInv, VarTypes
<1>2. pc[t] \in Answering \cup {"sent", "lost"}
  BY <1>1 DEF TxnInv, Named, NewTsx, PC, Fresh, Starting, Ending, Answering
<1>3. tsx[t].start_cassandra \in SomeTime /\ CallOf(t) \in dialogs
  BY <1>1, <1>2 DEF TxnInv, KeyComplete
<1>4. tsx[t].impu \in Users /\ tsx[t].unique_id \in Nat
  BY <1>1, <1>3 DEF CallOf, VarTypes
<1>5. tsx[t].unique_id < nextId
  BY DEF CountedInv, ServerInv, IdsDistinct
<1>6. Cardinality(Namers) \in Nat /\ Cardinality(Txns) \in Nat
      /\ Cardinality(Namers) <= Cardinality(Txns)
  BY TxnsAssumption, FS_Subset, FS_CardinalityType DEF Namers
<1>7. tsx[t].unique_id \in 1..Cardinality(Txns)
  BY <1>4, <1>5, <1>6 DEF CountedInv, IdsCounted, Named, NoId
<1>8. KeyOf(t) \in Abstract!Key
  BY <1>3, <1>4, <1>7 DEF KeyOf, CallKey, Abstract!Key, CallNames, SomeTime
<1>9. KeyOf(t) = CallKey(CallOf(t)[3], CallOf(t)[1], CallOf(t)[2])
  BY DEF KeyOf, CallKey, CallOf
<1> QED
  BY <1>3, <1>5, <1>8, <1>9 DEF Joined

(* A dialog id is the key of the call of an INVITE.                         *)
LEMMA DialogKey ==
  ASSUME CountedInv, NEW d \in dialogs
  PROVE  /\ CallKey(d[3], d[1], d[2]) \in Abstract!Key
         /\ CallKey(d[3], d[1], d[2]) \in Joined
         /\ d[2] < nextId
<1>1. PICK t \in Txns : Named(t) /\ d = CallOf(t)
  BY DEF CountedInv, ServerInv, DialogsTraced
<1>2. d[2] = tsx[t].unique_id
  BY <1>1 DEF CallOf
<1> QED
  BY <1>1, <1>2, KeyOfCall

(* Calls of different INVITEs have different keys.                          *)
LEMMA KeysDistinct ==
  ASSUME CountedInv, NEW t \in Txns, NEW u \in Txns, Named(t), Named(u), KeyOf(t) = KeyOf(u)
  PROVE  t = u
<1>1. tsx[t].unique_id = tsx[u].unique_id
  BY DEF KeyOf, CallKey
<1> QED
  BY <1>1 DEF CountedInv, ServerInv, IdsDistinct

-----------------------------------------------------------------------------
(* The steps.                                                               *)

(* A handler that writes an entry writes the first of its transaction, and  *)
(* is done with its message; the others do not lose the transaction.        *)
LEMMA WritesFirst ==
  ASSUME ServerInv, NEW t \in Txns, Receipt(t) \/ Handler(t)
  PROVE  /\ written' = written \/ (written[t] = <<>> /\ pc'[t] = "sent")
         /\ pc[t] # "lost" /\ pc'[t] # "lost"
<1>1. TxnInv(t) /\ pc \in [Txns -> PC]
  BY DEF ServerInv, VarTypes
<1>2. CASE StoreEnd(t) \/ StoreBegin(t) \/ \E rsp \in Responses : OnRejection(t, rsp)
  BY <1>1, <1>2 DEF TxnInv, StoreEnd, StoreBegin, OnRejection, ActsOn, Return, Goto
<1>3. CASE Receipt(t)
  BY <1>1, <1>3 DEF Receipt, ReceiveInitial, ReceiveInDialog, Receive, Refuse, Goto
<1>4. CASE \/ LocaltimeStart(t) \/ LocaltimeEnd(t) \/ OnInitialRequest(t)
           \/ FormatStartXml(t) \/ FormatStartCassandra(t) \/ NoAssertedIdentity(t)
           \/ JoinDialog(t) \/ PassInDialogRequest(t) \/ OnInDialogBye(t)
           \/ \E rsp \in Responses : OnAnswer(t, rsp)
  BY <1>1, <1>4 DEF LocaltimeStart, LocaltimeEnd, OnInitialRequest, FormatStartXml,
    FormatStartCassandra, NoAssertedIdentity, JoinDialog, PassInDialogRequest, OnInDialogBye,
    OnAnswer, ReadTime, Return, Goto
<1> QED
  BY <1>2, <1>3, <1>4 DEF Handler

(* Nothing that CallEntries speaks of changes.                              *)
LEMMA SilentStep ==
  ASSUME CountedInv, UNCHANGED <<dialogs, written>>,
         \A v \in Txns : Named(v)' <=> Named(v),
         \A v \in Txns : Named(v) => CallOf(v)' = CallOf(v),
         \A v \in Txns : Named(v) => (pc'[v] = "lost" <=> pc[v] = "lost")
  PROVE  UNCHANGED <<Joined, InProgress, Asked>>
<1>1. Unopened' = Unopened
  BY DEF Unopened
<1>2. \A v \in Unopened : KeyOf(v)' = KeyOf(v)
  BY DEF Unopened, CallOf, KeyOf, CallKey
<1>3. InProgress = {KeyOf(t) : t \in Unopened} /\ InProgress' = {KeyOf(t)' : t \in Unopened'}
  BY InProgressKeys
<1>4. InProgress' = InProgress
  BY <1>1, <1>2, <1>3
<1>5. Joined' = Joined
  BY DEF Joined
<1>6. Asked' = Asked
  BY DEF Asked, Written
<1> QED
  BY <1>4, <1>5, <1>6

(* The transaction of the INVITE makes the call join its dialog.            *)
LEMMA JoinStep ==
  ASSUME CountedInv, CountedInv', NEW t \in Txns, JoinDialog(t)
  PROVE  \E k \in Abstract!Key : Abstract!Join(k)
<1> DEFINE k == CallKey(Owner(req[t]), tsx[t].start_cassandra, nextId)
<1>1. /\ ~ Named(t) /\ Named(t)' /\ written[t] = <<>> /\ written' = written /\ OnlyOf(t)
      /\ CallOf(t)' = <<tsx[t].start_cassandra, nextId, Owner(req[t])>>
      /\ dialogs' = dialogs \cup {CallOf(t)'} /\ pc'[t] # "lost"
  BY JoinDialogStep, WritesFirst DEF CountedInv, Handler
<1>2. KeyOf(t)' = k
  BY <1>1 DEF KeyOf, CallKey, CallOf
<1>3. k \in Abstract!Key
  <2>1. nextId \in Nat \ {0} /\ nextId' = nextId + 1
    BY JoinDialogStep DEF CountedInv, ServerInv, VarTypes, NoId
  <2>2. nextId = Cardinality(Namers')
    <3>1. Namers' \subseteq Txns
      BY DEF Namers
    <3>2. Cardinality(Namers') \in Nat
      BY <3>1, TxnsAssumption, FS_Subset, FS_CardinalityType
    <3> QED
      BY <2>1, <3>2 DEF CountedInv, IdsCounted
  <2>3. Cardinality(Namers') <= Cardinality(Txns) /\ Cardinality(Txns) \in Nat
    BY TxnsAssumption, FS_Subset, FS_CardinalityType DEF Namers
  <2>4. tsx[t].start_cassandra \in SomeTime /\ Owner(req[t]) \in Users
    BY JoinDialogStep DEF CountedInv
  <2> QED
    BY <2>1, <2>2, <2>3, <2>4 DEF CallKey, Abstract!Key, CallNames, SomeTime
<1> HIDE DEF k
<1>4. k \notin Joined
  <2> SUFFICES ASSUME NEW d \in dialogs, k = CallKey(d[3], d[1], d[2])
               PROVE  FALSE
    BY DEF Joined
  <2>1. d[2] = nextId
    BY DEF CallKey, k
  <2>2. d[2] < nextId /\ nextId \in Nat
    BY DialogKey DEF CountedInv, ServerInv, VarTypes
  <2> QED
    BY <2>1, <2>2
<1>5. Joined' = Joined \cup {k}
  BY <1>1 DEF Joined, CallKey, k
<1>6. \A v \in Txns \ {t} : (Named(v)' <=> Named(v)) /\ KeyOf(v)' = KeyOf(v)
  BY <1>1 DEF OnlyOf, Named, KeyOf, CallKey
<1>7. InProgress' = InProgress \cup {k}
  <2>1. Unopened' = Unopened \cup {t} /\ t \notin Unopened
    BY <1>1, <1>6 DEF Unopened, OnlyOf
  <2>2. \A v \in Unopened : KeyOf(v)' = KeyOf(v)
    BY <1>6, <2>1 DEF Unopened
  <2>3. InProgress = {KeyOf(v) : v \in Unopened} /\ InProgress' = {KeyOf(v)' : v \in Unopened'}
    BY InProgressKeys
  <2> QED
    BY <1>2, <2>1, <2>2, <2>3
<1>8. Asked' = Asked
  BY <1>1 DEF Asked, Written
<1> QED
  BY <1>3, <1>4, <1>5, <1>7, <1>8 DEF Abstract!Join

(* The step of CallEntries that asks for f, an entry with a key.            *)
OpensOrEnds(f) ==
  \E k \in Abstract!Key :
    \/ f = Abstract!EntryOf(k, "END") /\ Abstract!End(k)
    \/ \E type \in Abstract!Outcomes : f = Abstract!EntryOf(k, type) /\ Abstract!Open(k, type)

(* A transaction writes its entry: it opens its call or ends another.       *)
LEMMA WriteStep ==
  ASSUME CountedInv, ServerInv', NEW t \in Txns, Quiet(t), written[t] = <<>>,
         written'[t] # <<>>, pc[t] # "lost", pc'[t] = "sent"
  PROVE  LET f == FragmentOf(written'[t][1]) IN
         OpensOrEnds(f) \/ (Abstract!OpenUnnamed(f) /\ tsx'[t].includes_initial /\ ~ Named(t)')
<1>0. PICK e : e = written'[t][1]
  OBVIOUS
<1>1. /\ VarTypes /\ VarTypes' /\ TxnInv(t)' /\ UNCHANGED dialogs
      /\ \A v \in Txns \ {t} : written'[v] = written[v]
  BY DEF CountedInv, ServerInv, Quiet, OnlyOf
<1>2. EntryOK(t, e)'
  BY <1>0, <1>1 DEF TxnInv
<1>3. e \in WrittenEntry
  BY <1>0, <1>1 DEF VarTypes
<1>4. /\ \A v \in Txns : Named(v)' <=> Named(v)
      /\ \A v \in Txns : Named(v) => CallOf(v)' = CallOf(v)
  BY QuietStep DEF CountedInv
<1>5. Asked' = Asked \cup {FragmentOf(e)}
  <2>2. Asked' = {FragmentOf(written'[v][1]) : v \in {u \in Txns : written'[u] # <<>>}}
    BY <1>1, AskedFragments
  <2>3. Asked = {FragmentOf(written[v][1]) : v \in {u \in Txns : written[u] # <<>>}}
    BY <1>1, AskedFragments
  <2>4. {u \in Txns : written'[u] # <<>>} = {u \in Txns : written[u] # <<>>} \cup {t}
    BY <1>1
  <2>5. \A u \in Txns : written[u] # <<>> => written'[u] = written[u]
    BY <1>1
  <2> HIDE DEF FragmentOf
  <2> QED
    BY <1>0, <2>2, <2>3, <2>4, <2>5
<1>6. Joined' = Joined
  BY <1>1 DEF Joined
<1>7. InProgress = {KeyOf(v) : v \in Unopened} /\ InProgress' = {KeyOf(v)' : v \in Unopened'}
  BY InProgressKeys
<1>8. \A v \in Txns : Named(v) => KeyOf(v)' = KeyOf(v)
  BY <1>4 DEF CallOf, KeyOf, CallKey
<1>9. Unopened' = Unopened \ {t}
  BY <1>1, <1>4 DEF Unopened, Quiet, OnlyOf
<1>10. ~ Named(t) => InProgress' = InProgress
  BY <1>7, <1>8, <1>9 DEF Unopened
<1>11. CASE e.type = "END"
  <2> DEFINE d == <<e.timestamp, e.id, e.impu>>
             k == CallKey(d[3], d[1], d[2])
  <2>1. ~ Named(t) /\ d \in dialogs
    BY <1>1, <1>2, <1>4, <1>11 DEF EntryOK, Named
  <2>2. k \in Abstract!Key /\ k \in Joined
    BY <2>1, DialogKey
  <2>3. Abstract!EntryOf(k, "END") = FragmentOf(e)
    BY <1>11 DEF Abstract!EntryOf, FragmentOf, CallKey
  <2> QED
    BY <1>0, <1>5, <1>6, <1>10, <2>1, <2>2, <2>3 DEF OpensOrEnds, Abstract!End
<1>12. CASE e.type \in Opening /\ Named(t)
  <2> DEFINE k == KeyOf(t)
  <2>1. t \in Unopened /\ k \in Abstract!Key /\ k \in InProgress
    BY <1>7, <1>12, KeyOfCall DEF Unopened
  <2>2. Key(e) = <<tsx'[t].impu, tsx'[t].start_cassandra, tsx'[t].unique_id>>
    BY <1>2, <1>12 DEF EntryOK, Key
  <2>3. KeyOf(t)' = KeyOf(t)
    BY <1>8, <1>12
  <2>4. Abstract!EntryOf(k, e.type) = FragmentOf(e)
    BY <2>2, <2>3 DEF Abstract!EntryOf, FragmentOf, CallKey, KeyOf, Key
  <2>5. InProgress' = InProgress \ {k}
    <3>1. \A v \in Unopened : KeyOf(v) = k => v = t
      BY <1>12, KeysDistinct DEF Unopened
    <3>2. \A v \in Unopened : KeyOf(v)' = KeyOf(v)
      BY <1>8 DEF Unopened
    <3> HIDE DEF k
    <3>3. InProgress' = {KeyOf(v) : v \in Unopened \ {t}}
      BY <1>7, <1>9, <3>2
    <3> QED
      BY <1>7, <2>1, <3>1, <3>3 DEF k
  <2>6. e.type \in Abstract!Outcomes
    BY <1>12 DEF Opening, Abstract!Outcomes
  <2> QED
    BY <1>0, <1>5, <1>6, <2>1, <2>4, <2>5, <2>6 DEF OpensOrEnds, Abstract!Open
<1>13. CASE e.type \in Opening /\ ~ Named(t)
  <2>1. /\ tsx'[t].includes_initial /\ ~ Named(t)'
        /\ Key(e) = <<tsx'[t].impu, tsx'[t].start_cassandra, tsx'[t].unique_id>>
    BY <1>2, <1>4, <1>13 DEF EntryOK, Key
  <2>2. tsx'[t].impu = NoUser /\ tsx'[t].start_cassandra \in SomeTime /\ tsx'[t].unique_id = NoId
    BY <1>1, <1>2, <2>1 DEF TxnInv, Named
  <2>3. e.impu = NoUser /\ e.timestamp \in 0..MaxTime + Radix /\ e.id = NoId
    BY <2>1, <2>2 DEF Key, SomeTime
  <2>4. FragmentOf(e) \in UnnamedEntries
    BY <1>13, <2>3 DEF UnnamedEntries, FragmentOf
  <2> QED
    BY <1>0, <1>5, <1>6, <1>10, <1>13, <2>1, <2>4 DEF Abstract!OpenUnnamed
<1> QED
  BY <1>3, <1>11, <1>12, <1>13 DEF WrittenEntry

(* What a step of a handler is to CallEntries, with or without a write.     *)
LEMMA HandlerMapped ==
  ASSUME CountedInv, CountedInv', NEW t \in Txns, Receipt(t) \/ Handler(t)
  PROVE  \/ /\ written' = written
            /\ \/ UNCHANGED <<Joined, InProgress, Asked>>
               \/ \E k \in Abstract!Key : Abstract!Join(k)
         \/ \E e \in WrittenEntry :
              /\ written[t] = <<>> /\ written' = [written EXCEPT ![t] = <<e>>]
              /\ \/ OpensOrEnds(FragmentOf(e))
                 \/ /\ Abstract!OpenUnnamed(FragmentOf(e))
                    /\ pc'[t] = "sent" /\ tsx'[t].includes_initial /\ ~ Named(t)'
<1>1. CASE JoinDialog(t)
  <2>1. written' = written
    BY <1>1 DEF JoinDialog
  <2> QED
    BY <1>1, <2>1, JoinStep
<1>2. CASE ~ JoinDialog(t)
  <2>1. Quiet(t) /\ pc[t] # "lost" /\ pc'[t] # "lost"
    BY <1>2, HandlerStep, WritesFirst DEF CountedInv
  <2>2. CASE written' = written
    <3>1. \A v \in Txns : pc'[v] = "lost" <=> pc[v] = "lost"
      BY <2>1 DEF Quiet, OnlyOf
    <3> QED
      BY <2>1, <2>2, <3>1, QuietStep, SilentStep DEF CountedInv, Quiet
  <2>3. CASE written' # written
    <3>1. written[t] = <<>> /\ pc'[t] = "sent"
      BY <2>3, WritesFirst DEF CountedInv
    <3>2. written \in [Txns -> {<<>>} \cup {<<e>> : e \in WrittenEntry}]
          /\ written' \in [Txns -> {<<>>} \cup {<<e>> : e \in WrittenEntry}]
      BY DEF CountedInv, ServerInv, VarTypes
    <3>3. written'[t] # written[t] /\ \A v \in Txns \ {t} : written'[v] = written[v]
      BY <2>1, <2>3, <3>2 DEF Quiet, OnlyOf
    <3>4. PICK e \in WrittenEntry : written'[t] = <<e>>
      BY <3>1, <3>2, <3>3
    <3>5. written' = [written EXCEPT ![t] = <<e>>] /\ written'[t][1] = e
      BY <3>2, <3>3, <3>4
    <3>6. \/ OpensOrEnds(FragmentOf(e))
          \/ /\ Abstract!OpenUnnamed(FragmentOf(e))
             /\ tsx'[t].includes_initial /\ ~ Named(t)'
      BY <2>1, <3>1, <3>3, <3>5, WriteStep DEF CountedInv
    <3> QED
      BY <3>1, <3>5, <3>6
  <2> QED
    BY <2>2, <2>3
<1> QED
  BY <1>1, <1>2

(* A restart takes the transactions of all calls in progress.               *)
LEMMA RestartMapped ==
  ASSUME CountedInv, Restart
  PROVE  Abstract!LoseTransactions
<1>1. UNCHANGED <<dialogs, written>>
  BY DEF Restart
<1>2. Unopened' = {}
  BY RestartStep DEF CountedInv, Unopened
<1>3. InProgress' = {}
  BY <1>2, InProgressKeys
<1> QED
  BY <1>1, <1>3 DEF Joined, Asked, Written, Abstract!LoseTransactions

LEMMA AbstractStep ==
  CountedInv /\ CountedInv' /\ [Next]_vars => [Abstract!Next]_<<Joined, InProgress, Asked>>
<1> SUFFICES ASSUME CountedInv, CountedInv', [Next]_vars
             PROVE  [Abstract!Next]_<<Joined, InProgress, Asked>>
  OBVIOUS
<1>1. CASE Tick \/ UNCHANGED vars
  BY <1>1, SilentStep DEF Tick, vars, Named, CallOf
<1>2. CASE Restart
  BY <1>2, RestartMapped DEF Abstract!Next
<1>3. ASSUME NEW t \in Txns, Receipt(t) \/ Handler(t)
      PROVE  [Abstract!Next]_<<Joined, InProgress, Asked>>
  <2>1. \A f : OpensOrEnds(f) \/ Abstract!OpenUnnamed(f) => Abstract!Next
    BY DEF OpensOrEnds, Abstract!OpenUnnamed, Abstract!Next
  <2> QED
    BY <1>3, <2>1, HandlerMapped DEF Abstract!Next
<1> QED
  BY <1>1, <1>2, <1>3 DEF Next

(* However the handlers of different transactions interleave: every step of *)
(* theirs is one of CallEntries or none.  A call gets a key of its own in   *)
(* on_initial_request, its transaction opens it at most once, under that    *)
(* key, and a BYE ends only a call that joined its dialog before.           *)
THEOREM HandlersImplementCallEntries == Spec => ImplementsCallEntries
<1>1. Init => Abstract!Init
  <2> SUFFICES ASSUME Init PROVE Abstract!Init
    OBVIOUS
  <2>1. Joined = {} /\ InProgress = {}
    BY DEF Init, Joined, InProgress, NewTsx
  <2>2. Asked = {}
    BY ServerInvInit, AskedFragments DEF Init, ServerInv
  <2> QED
    BY <2>1, <2>2 DEF Abstract!Init
<1> QED
  BY <1>1, CountedInit, CountedStep, AbstractStep, PTL DEF Spec, ImplementsCallEntries, Abstract!Spec
=============================================================================
