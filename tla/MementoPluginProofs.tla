------------------------- MODULE MementoPluginProofs -------------------------
(***************************************************************************)
(* Proofs about MementoPlugin: load, unload and the workers, for any       *)
(* number of workers and requests and any options.                         *)
(***************************************************************************)
EXTENDS MementoPlugin, CallListStoreProcessorProofs

(* Each step of the plugin is a step of the processor or none.              *)
LEMMA PluginProcessorStep == [PluginNext]_allVars => [Next]_vars
<1> SUFFICES ASSUME [PluginNext]_allVars
             PROVE  [Next]_vars
  OBVIOUS
<1>1. CASE UNCHANGED allVars
  BY <1>1 DEF allVars
<1>2. CASE Load \/ Unload \/ DeleteNext \/ Unloaded \/ Crash
  BY <1>2 DEF Load, Unload, DeleteNext, Unloaded, Crash
<1>3. CASE \E r \in Requests, e \in Entries : HandlerWrites(r, e)
  BY <1>3 DEF HandlerWrites, Next
<1>4. CASE \E w \in Workers : WorkerStep(w) \/ WorkerThrows(w)
  BY <1>4 DEF WorkerStep, WorkerThrows, Next
<1>5. CASE StopProcessor \/ DeleteProcessor
  BY <1>5 DEF StopProcessor, DeleteProcessor, Next
<1> QED
  BY <1>1, <1>2, <1>3, <1>4, <1>5 DEF PluginNext, UnloadStep

(* What is proved of the processor holds while the plugin is loaded, while  *)
(* it is unloaded and where a worker crashes on the way: in particular no   *)
(* list loses a record that it should keep.                                 *)
THEOREM PluginRunsProcessor == PluginSpec => Spec
BY PluginProcessorStep, PTL DEF PluginSpec, PluginInit, Spec

-----------------------------------------------------------------------------
(* The concatenation of a tuple of one, one of three and one of four.       *)
LEMMA EightInARow ==
  ASSUME NEW S, NEW a \in S, NEW b \in S, NEW c \in S, NEW d \in S,
         NEW e \in S, NEW f \in S, NEW g \in S, NEW h \in S
  PROVE  LET s == <<a>> \o <<b, c, d>> \o <<e, f, g, h>> IN
         /\ s \in Seq(S) /\ Len(s) = 8
         /\ s[1] = a /\ s[2] = b /\ s[3] = c /\ s[4] = d
         /\ s[5] = e /\ s[6] = f /\ s[7] = g /\ s[8] = h
<1> DEFINE left == <<a>> \o <<b, c, d>>
           last == <<e, f, g, h>>
           s == left \o last
<1>1. /\ <<a>> \in Seq(S) /\ <<b, c, d>> \in Seq(S) /\ last \in Seq(S)
      /\ last[1] = e /\ last[2] = f /\ last[3] = g /\ last[4] = h
      /\ Len(<<a>>) = 1 /\ Len(<<b, c, d>>) = 3 /\ Len(last) = 4
  OBVIOUS
<1>2. /\ left \in Seq(S) /\ Len(left) = 4
      /\ left[1] = a /\ left[2] = b /\ left[3] = c /\ left[4] = d
  BY <1>1, ConcatProperties
<1>3. ASSUME NEW p \in Seq(S), NEW q \in Seq(S), Len(p) = 4, Len(q) = 4
      PROVE  /\ (p \o q) \in Seq(S) /\ Len(p \o q) = 8
             /\ \A k \in 1..4 : (p \o q)[k] = p[k]
             /\ \A k \in 5..8 : (p \o q)[k] = q[k - 4]
  <2>1. /\ (p \o q) \in Seq(S) /\ Len(p \o q) = Len(p) + Len(q)
        /\ \A k \in 1..(Len(p) + Len(q)) :
             (p \o q)[k] = IF k <= Len(p) THEN p[k] ELSE q[k - Len(p)]
    BY ConcatProperties
  <2>2. \A k \in 1..8 : (p \o q)[k] = IF k <= 4 THEN p[k] ELSE q[k - 4]
    BY <1>3, <2>1
  <2>3. \A k \in 1..4 : k \in 1..8 /\ k <= 4
    OBVIOUS
  <2>4. \A k \in 5..8 : k \in 1..8 /\ ~ (k <= 4)
    OBVIOUS
  <2> QED
    BY <1>3, <2>1, <2>2, <2>3, <2>4
<1>4. /\ s \in Seq(S) /\ Len(s) = 8
      /\ \A k \in 1..4 : s[k] = left[k]
      /\ \A k \in 5..8 : s[k] = last[k - 4]
  <2> HIDE DEF left, last
  <2> QED
    BY <1>1, <1>2, <1>3
<1>5. /\ s[1] = a /\ s[2] = b /\ s[3] = c /\ s[4] = d
      /\ s[5] = e /\ s[6] = f /\ s[7] = g /\ s[8] = h
  <2> HIDE DEF left, last, s
  <2> QED
    BY <1>1, <1>2, <1>4
<1> QED
  <2> HIDE DEF s
  <2> QED
    BY <1>4, <1>5 DEF s

Members == PluginMembers \cup AppServerMembers

(* The order in which unload deletes, written out.                          *)
LEMMA OrderOfObjects ==
  /\ UnloadOrder \in Seq(Members)
  /\ Len(UnloadOrder) = 8
  /\ UnloadOrder[1] = "sproutlet" /\ UnloadOrder[2] = "load_monitor"
  /\ UnloadOrder[3] = "processor" /\ UnloadOrder[4] = "http_notifier"
  /\ UnloadOrder[5] = "memento" /\ UnloadOrder[6] = "cass_resolver"
  /\ UnloadOrder[7] = "call_list_store" /\ UnloadOrder[8] = "cass_comm_monitor"
BY EightInARow DEF UnloadOrder, DestroyAppServer, Members, PluginMembers, AppServerMembers

LEMMA OrderHasMembers == \A k \in 1..8 : UnloadOrder[k] \in Members
BY OrderOfObjects DEF Members, PluginMembers, AppServerMembers

(* The members that are left after n deletions.                             *)
Left(n) == {UnloadOrder[k] : k \in (n + 1)..Len(UnloadOrder)}

(* unload has deleted the first n members.                                  *)
HasDeleted(n) ==
  /\ toDelete \in Seq(Members)
  /\ Len(toDelete) = Len(UnloadOrder) - n
  /\ \A k \in 1..Len(toDelete) : toDelete[k] = UnloadOrder[k + n]
  /\ alive = Left(n) \cup SnmpTables

(* Nothing was created, nothing is deleted yet, or unload is under way.     *)
ObjectsInv ==
  \/ alive = {} /\ toDelete = <<>>
  \/ phase = "loaded" /\ alive = Created /\ toDelete = <<>>
  \/ /\ phase \in {"unloading", "unloaded", "crashed"}
     /\ \E n \in 0..Len(UnloadOrder) : HasDeleted(n)

(* Without a processor, no worker is busy and none has anything to take.    *)
NoneAtWork ==
  /\ \A w \in Workers : pc[w] \notin Busy
  /\ pool = "joined" \/ queue = <<>>

PluginInv ==
  /\ OwnInv
  /\ options \in OptionMaps
  /\ phase \in {"new", "loaded", "unloading", "unloaded", "crashed"}
  /\ phase = "new" => alive = {}
  /\ ObjectsInv
  /\ "processor" \notin alive => NoneAtWork

(* The sproutlet is the first to go, what the workers use comes after the   *)
(* processor.  No member is forgotten.                                      *)
LEMMA LeftObjects ==
  ASSUME NEW n \in 0..Len(UnloadOrder)
  PROVE  /\ "processor" \in Left(n) \cup SnmpTables <=> n <= 2
         /\ "sproutlet" \in Left(n) \cup SnmpTables => n = 0
         /\ n <= 2 => {"http_notifier", "cass_resolver", "call_list_store",
                       "cass_comm_monitor"} \subseteq Left(n)
         /\ Left(n) \subseteq Members
         /\ Left(0) = Members
<1>1. n \in 0..8 /\ Left(n) = {UnloadOrder[k] : k \in (n + 1)..8}
  BY OrderOfObjects DEF Left
<1>2. \A k \in 1..8 : /\ UnloadOrder[k] = "processor" <=> k = 3
                      /\ UnloadOrder[k] = "sproutlet" <=> k = 1
  BY OrderOfObjects
<1>3. n <= 2 => {4, 6, 7, 8} \subseteq (n + 1)..8
  BY <1>1
<1>4. Left(n) \subseteq Members
  <2>1. \A k \in (n + 1)..8 : k \in 1..8
    BY <1>1
  <2> QED
    BY <1>1, <2>1, OrderHasMembers
<1>5. Left(0) = Members
  <2>1. Left(0) = {UnloadOrder[k] : k \in 1..8}
    BY OrderOfObjects DEF Left
  <2> QED
    BY <2>1, OrderOfObjects DEF Members, PluginMembers, AppServerMembers
<1>6. SnmpTables \cap {"processor", "sproutlet"} = {}
  BY DEF SnmpTables
<1> QED
  BY <1>1, <1>2, <1>3, <1>4, <1>5, <1>6, OrderOfObjects

(* unload deletes the next object.                                          *)
LEMMA DeletedOneMore ==
  ASSUME NEW n \in 0..Len(UnloadOrder), HasDeleted(n), toDelete # <<>>, Deleted
  PROVE  /\ n + 1 \in 0..Len(UnloadOrder)
         /\ HasDeleted(n + 1)'
         /\ Head(toDelete) = "processor" <=> n = 2
<1>1. /\ Len(UnloadOrder) = 8 /\ n \in 0..7 /\ Len(toDelete) = 8 - n
      /\ Head(toDelete) = UnloadOrder[n + 1]
  BY OrderOfObjects DEF HasDeleted
<1>2. /\ toDelete' \in Seq(Members) /\ Len(toDelete') = 8 - (n + 1)
      /\ \A k \in 1..Len(toDelete') : toDelete'[k] = UnloadOrder[k + (n + 1)]
  <2>1. toDelete' = Tail(toDelete) /\ toDelete \in Seq(Members)
    BY DEF Deleted, HasDeleted
  <2>2. /\ toDelete' \in Seq(Members) /\ Len(toDelete') = 8 - (n + 1)
        /\ \A k \in 1..Len(toDelete') : toDelete'[k] = toDelete[k + 1] /\ k + 1 \in 1..Len(toDelete)
    BY <1>1, <2>1, HeadTailProperties
  <2>3. \A k \in 1..Len(toDelete') : UnloadOrder[(k + 1) + n] = UnloadOrder[k + (n + 1)]
    BY <1>1, <2>2
  <2> QED
    BY <2>2, <2>3 DEF HasDeleted
<1>3. \A j, k \in 1..8 : UnloadOrder[j] = UnloadOrder[k] => j = k
  BY OrderOfObjects
<1>4. alive' = Left(n + 1) \cup SnmpTables
  <2>1. alive' = (Left(n) \cup SnmpTables) \ {UnloadOrder[n + 1]}
    BY <1>1 DEF Deleted, HasDeleted
  <2>2. Left(n) = {UnloadOrder[k] : k \in (n + 1)..8} /\ Left(n + 1) = {UnloadOrder[k] : k \in (n + 2)..8}
    BY <1>1 DEF Left
  <2>3. UnloadOrder[n + 1] \notin SnmpTables
    <3>1. n + 1 \in 1..8 /\ UnloadOrder[n + 1] \in Members
      BY <1>1, OrderHasMembers
    <3> QED
      BY <3>1 DEF Members, PluginMembers, AppServerMembers, SnmpTables
  <2> QED
    BY <1>1, <1>3, <2>1, <2>2, <2>3
<1> QED
  BY <1>1, <1>2, <1>3, <1>4, OrderOfObjects DEF HasDeleted

(* A deletion is one of an unload that has something to delete.             *)
LEMMA DeletesInOrder ==
  ASSUME ObjectsInv, phase = "unloading", toDelete # <<>>
  PROVE  \E n \in 0..Len(UnloadOrder) : HasDeleted(n)
BY DEF ObjectsInv

LEMMA PluginInvStep == PluginInv /\ [PluginNext]_allVars => PluginInv'
<1> SUFFICES ASSUME PluginInv, [PluginNext]_allVars
             PROVE  PluginInv'
  OBVIOUS
<1>1. OwnInv'
  BY PluginProcessorStep, OwnInvStep DEF PluginInv
<1>2. /\ options' \in OptionMaps
      /\ phase' \in {"new", "loaded", "unloading", "unloaded", "crashed"}
      /\ phase' = "new" => alive' = {}
  BY DEF PluginInv, PluginNext, UnloadStep, allVars, pluginVars, Load, HandlerWrites, Unload, Deleted,
         DeleteNext, StopProcessor, DeleteProcessor, Unloaded, Crash, WorkerStep, WorkerThrows
<1>3. ASSUME UNCHANGED <<alive, toDelete>>,
             phase' = phase \/ (phase = "unloading" /\ phase' \in {"unloaded", "crashed"}),
             "processor" \notin alive => NoneAtWork'
      PROVE  PluginInv'
  <2>1. ObjectsInv'
    BY <1>3 DEF PluginInv, ObjectsInv, HasDeleted
  <2> QED
    BY <1>1, <1>2, <1>3, <2>1 DEF PluginInv
<1>4. ASSUME UNCHANGED vars
      PROVE  NoneAtWork => NoneAtWork'
  BY <1>4 DEF NoneAtWork, vars, poolVars, workVars
<1>5. "processor" \in Created /\ "sproutlet" \in Created
  BY DEF Created, PluginMembers, AppServerMembers
<1>6. CASE Load
  <2>1. /\ toDelete' = <<>> /\ phase' = "loaded" /\ (alive' = {} \/ alive' = Created)
        /\ NoneAtWork'
    <3>1. phase = "new" /\ alive = {} /\ NoneAtWork
      BY <1>6 DEF Load, PluginInv
    <3>2. toDelete = <<>>
      BY <3>1, <1>5 DEF PluginInv, ObjectsInv
    <3> QED
      BY <1>4, <1>6, <3>1, <3>2 DEF Load
  <2> QED
    BY <1>1, <1>2, <2>1 DEF PluginInv, ObjectsInv
<1>7. CASE Unload
  <2>1. phase = "loaded" /\ phase' = "unloading" /\ alive' = alive
    BY <1>7 DEF Unload
  <2>2. ObjectsInv'
    <3>1. CASE alive = {}
      BY <1>7, <2>1, <3>1 DEF Unload, ObjectsInv
    <3>2. CASE alive # {}
      <4>1. alive = Created /\ toDelete' = UnloadOrder
        BY <1>7, <2>1, <3>2 DEF Unload, PluginInv, ObjectsInv
      <4>2. 0 \in 0..Len(UnloadOrder) /\ alive' = Left(0) \cup SnmpTables
        BY <2>1, <4>1, OrderOfObjects, LeftObjects DEF Created, Members
      <4>3. HasDeleted(0)'
        BY <4>1, <4>2, OrderOfObjects DEF HasDeleted
      <4> QED
        BY <2>1, <4>2, <4>3 DEF ObjectsInv
    <3> QED
      BY <3>1, <3>2
  <2>3. "processor" \notin alive' => NoneAtWork'
    BY <1>4, <1>7, <2>1 DEF Unload, PluginInv
  <2> QED
    BY <1>1, <1>2, <2>2, <2>3 DEF PluginInv
<1>8. CASE \E r \in Requests, e \in Entries : HandlerWrites(r, e)
  <2>1. "sproutlet" \in alive /\ UNCHANGED <<alive, toDelete, phase>>
    BY <1>8 DEF HandlerWrites, pluginVars
  <2>2. "processor" \in alive
    <3>1. alive = Created \/ \E n \in 0..Len(UnloadOrder) : HasDeleted(n)
      BY <2>1 DEF PluginInv, ObjectsInv
    <3>2. ASSUME NEW n \in 0..Len(UnloadOrder), HasDeleted(n)
          PROVE  "processor" \in alive
      <4>1. alive = Left(n) \cup SnmpTables
        BY <3>2 DEF HasDeleted
      <4>2. n = 0
        BY <2>1, <4>1, LeftObjects
      <4>3. 0 <= 2
        OBVIOUS
      <4> QED
        BY <4>1, <4>2, <4>3, LeftObjects
    <3> QED
      BY <1>5, <3>1, <3>2
  <2> QED
    BY <1>3, <2>1, <2>2
<1>9. CASE \E w \in Workers : WorkerStep(w) \/ WorkerThrows(w)
  <2>1. PICK w \in Workers : WorkerStep(w) \/ WorkerThrows(w)
    BY <1>9
  <2>2. ASSUME NoneAtWork
        PROVE  NoneAtWork'
    <3>1. WorkerExit(w)
      BY <2>1, <2>2 DEF WorkerStep, WorkerThrows, NoneAtWork, Pop, Exception, ProcessWork, Busy,
            GenerateTimestamp, WriteOK, WriteError, NoTrim, ReadForTrim, TrimOK, TrimError, Trim,
            Notify, RequestComplete
    <3>2. pc' = [pc EXCEPT ![w] = "exited"] /\ UNCHANGED <<pool, queue>>
      BY <3>1 DEF WorkerExit, Goto, poolVars
    <3>3. pc \in [Workers -> PC]
      BY DEF PluginInv, OwnInv, TypeOK
    <3> QED
      BY <2>2, <3>2, <3>3 DEF NoneAtWork, Busy
  <2> QED
    BY <1>3, <2>1, <2>2 DEF PluginInv, WorkerStep, WorkerThrows, pluginVars
<1>10. CASE DeleteNext
  <2>1. toDelete # <<>> /\ Head(toDelete) # "processor" /\ Deleted /\ UNCHANGED vars
        /\ phase = "unloading" /\ phase' = "unloading"
    BY <1>10 DEF DeleteNext, Deleted
  <2>2. PICK n \in 0..Len(UnloadOrder) : HasDeleted(n)
    BY <2>1, DeletesInOrder DEF PluginInv
  <2>3. HasDeleted(n + 1)' /\ n + 1 \in 0..Len(UnloadOrder) /\ n # 2
    BY <2>1, <2>2, DeletedOneMore
  <2>4. /\ "processor" \in alive <=> n <= 2
        /\ "processor" \in alive' <=> n + 1 <= 2
    BY <2>2, <2>3, LeftObjects DEF HasDeleted
  <2>5. "processor" \notin alive' => NoneAtWork'
    <3>1. n \in Nat
      OBVIOUS
    <3> QED
      BY <1>4, <2>1, <2>3, <2>4, <3>1 DEF PluginInv
  <2>6. ObjectsInv'
    BY <2>1, <2>3 DEF ObjectsInv
  <2> QED
    BY <1>1, <1>2, <2>5, <2>6 DEF PluginInv
<1>11. CASE StopProcessor
  <2>1. "processor" \in alive
    <3>1. toDelete # <<>> /\ Head(toDelete) = "processor" /\ phase = "unloading"
      BY <1>11 DEF StopProcessor
    <3>2. PICK n \in 0..Len(UnloadOrder) : HasDeleted(n)
      BY <3>1, DeletesInOrder DEF PluginInv
    <3>3. toDelete[1] = UnloadOrder[n + 1] /\ n + 1 \in 1..8
      BY <3>1, <3>2, OrderOfObjects DEF HasDeleted
    <3>4. n + 1 = 3 /\ n \in Nat
      BY <3>1, <3>3, OrderOfObjects DEF HasDeleted
    <3>5. n <= 2
      BY <3>4
    <3> QED
      BY <3>2, <3>5, LeftObjects DEF HasDeleted
  <2> QED
    BY <1>3, <1>11, <2>1 DEF StopProcessor, pluginVars
<1>12. CASE DeleteProcessor
  <2>1. toDelete # <<>> /\ Deleted /\ phase = "unloading" /\ phase' = "unloading"
    BY <1>12 DEF DeleteProcessor, Deleted
  <2>2. PICK n \in 0..Len(UnloadOrder) : HasDeleted(n)
    BY <2>1, DeletesInOrder DEF PluginInv
  <2>3. HasDeleted(n + 1)' /\ n + 1 \in 0..Len(UnloadOrder)
    BY <2>1, <2>2, DeletedOneMore
  <2>4. ObjectsInv'
    BY <2>1, <2>3 DEF ObjectsInv
  <2>5. NoneAtWork'
    BY <1>12 DEF DeleteProcessor, Join, NoneAtWork, workVars, Busy
  <2> QED
    BY <1>1, <1>2, <2>4, <2>5 DEF PluginInv
<1>13. CASE Unloaded \/ Crash \/ UNCHANGED allVars
  BY <1>3, <1>4, <1>13 DEF Unloaded, Crash, allVars, pluginVars, PluginInv
<1> QED
  BY <1>6, <1>7, <1>8, <1>9, <1>10, <1>11, <1>12, <1>13 DEF PluginNext, UnloadStep

LEMMA PluginInvInit == PluginInit => PluginInv
<1> SUFFICES ASSUME PluginInit
             PROVE  PluginInv
  OBVIOUS
<1>1. /\ OwnInv /\ options \in OptionMaps /\ phase = "new"
      /\ alive = {} /\ toDelete = <<>> /\ queue = <<>>
      /\ \A w \in Workers : pc[w] = "idle"
  BY OwnInvInit DEF PluginInit, Init
<1>2. NoneAtWork
  BY <1>1 DEF NoneAtWork, Busy
<1> QED
  BY <1>1, <1>2 DEF PluginInv, ObjectsInv

(* Whatever the options and the workers do: unload deletes what load        *)
(* created, all but the SNMP tables, each object once and none twice.       *)
THEOREM UnloadDeletesWhatLoadCreated == PluginSpec => []ObjectsDeletedOnce
<1>1. PluginInv => ObjectsDeletedOnce
  <2> SUFFICES ASSUME PluginInv
               PROVE  ObjectsDeletedOnce
    OBVIOUS
  <2>1. CASE toDelete = <<>> /\ (alive = {} \/ (phase = "loaded" /\ alive = Created))
    <3>1. IsInjective(toDelete) /\ Range(toDelete) = {}
      BY <2>1 DEF IsInjective, Range
    <3> QED
      BY <2>1, <3>1 DEF PluginInv, ObjectsDeletedOnce
  <2>2. ASSUME NEW n \in 0..Len(UnloadOrder), HasDeleted(n)
        PROVE  ObjectsDeletedOnce
    <3>1. /\ n \in 0..8 /\ DOMAIN toDelete = 1..(8 - n)
          /\ Len(toDelete) = 8 - n
          /\ \A k \in 1..(8 - n) : toDelete[k] = UnloadOrder[k + n] /\ k + n \in (n + 1)..8
      BY <2>2, OrderOfObjects DEF HasDeleted
    <3>2. Range(toDelete) = Left(n)
      <4>1. Left(n) = {UnloadOrder[k] : k \in (n + 1)..8}
        BY OrderOfObjects DEF Left
      <4>2. ASSUME NEW k \in (n + 1)..8
            PROVE  \E j \in 1..(8 - n) : UnloadOrder[k] = toDelete[j]
        <5>1. k - n \in 1..(8 - n) /\ (k - n) + n = k
          BY <3>1
        <5>2. toDelete[k - n] = UnloadOrder[k]
          BY <3>1, <5>1
        <5> QED
          BY <5>1, <5>2
      <4>3. \A j \in 1..(8 - n) : toDelete[j] \in Left(n)
        BY <3>1, <4>1
      <4>4. Range(toDelete) = {toDelete[j] : j \in 1..(8 - n)}
        BY <3>1 DEF Range
      <4>5. \A o \in Left(n) : o \in {toDelete[j] : j \in 1..(8 - n)}
        BY <4>1, <4>2
      <4> QED
        BY <4>3, <4>4, <4>5
    <3>3. IsInjective(toDelete)
      <4>1. \A j, k \in 1..8 : UnloadOrder[j] = UnloadOrder[k] => j = k
        BY OrderOfObjects
      <4>2. \A j, k \in 1..(8 - n) : toDelete[j] = toDelete[k] => j + n = k + n
        <5> TAKE j, k \in 1..(8 - n)
        <5>1. j + n \in 1..8 /\ k + n \in 1..8
          BY <3>1
        <5> QED
          BY <3>1, <4>1, <5>1
      <4>3. \A j, k \in 1..(8 - n) : j + n = k + n => j = k
        BY <3>1
      <4> QED
        BY <3>1, <4>2, <4>3 DEF IsInjective
    <3>4. alive = Left(n) \cup SnmpTables /\ Left(n) \subseteq Members
      BY <2>2, LeftObjects DEF HasDeleted
    <3>5. /\ alive \subseteq Created /\ Range(toDelete) \subseteq alive
          /\ alive \ Range(toDelete) \subseteq SnmpTables
      BY <3>2, <3>4 DEF Created, Members
    <3> QED
      BY <3>3, <3>5 DEF PluginInv, ObjectsDeletedOnce
  <2> QED
    BY <2>1, <2>2 DEF PluginInv, ObjectsInv
<1> QED
  BY <1>1, PluginInvInit, PluginInvStep, PTL DEF PluginSpec

(* For any number of workers, wherever each of them is when unload is       *)
(* called: none is about to use a store, a connection or a notifier that    *)
(* unload has deleted.                                                      *)
THEOREM WorkersFindTheirObjects == PluginSpec => []StoreAndNotifierOutliveWorkers
<1>1. PluginInv => StoreAndNotifierOutliveWorkers
  <2> SUFFICES ASSUME PluginInv, NEW w \in Workers, pc[w] \in Busy \ {"report"}
               PROVE  Uses(pc[w]) \subseteq alive
    BY DEF StoreAndNotifierOutliveWorkers
  <2> DEFINE Used == {"http_notifier", "cass_resolver", "call_list_store", "cass_comm_monitor"}
  <2>1. "processor" \in alive
    BY DEF PluginInv, NoneAtWork
  <2>2. Used \subseteq alive
    <3>1. alive = Created \/ \E n \in 0..Len(UnloadOrder) : HasDeleted(n)
      BY <2>1 DEF PluginInv, ObjectsInv
    <3>2. Used \subseteq Created
      BY DEF Created, PluginMembers, AppServerMembers
    <3>3. ASSUME NEW n \in 0..Len(UnloadOrder), HasDeleted(n)
          PROVE  Used \subseteq alive
      BY <2>1, <3>3, LeftObjects DEF HasDeleted
    <3> QED
      BY <3>1, <3>2, <3>3
  <2>3. Uses(pc[w]) \subseteq Used
    BY DEF Uses, Busy
  <2> QED
    BY <2>2, <2>3
<1> QED
  BY <1>1, PluginInvInit, PluginInvStep, PTL DEF PluginSpec
-----------------------------------------------------------------------------
(* What the options make of the lists.                                      *)

(* The variables of load that the limit of a list depends on.               *)
Known(s) == {"enabled", "call_list_ttl", "max_call_list_length"} \subseteq DOMAIN s

Given(opts, s, name) == IF s.enabled /\ Readable(opts, name) THEN opts[name] ELSE s[name]

(* Reading an option may disable the plugin, never enable it, and sets its  *)
(* own variable only.                                                       *)
LEMMA OneOption ==
  ASSUME NEW opts, NEW s, Known(s), NEW name \in OptionName
  PROVE  /\ Known(ReadOption(opts, s, name))
         /\ ReadOption(opts, s, name).enabled => s.enabled
         /\ \A x \in {"call_list_ttl", "max_call_list_length"} :
              ReadOption(opts, s, name)[x] = IF name = x THEN Given(opts, s, x) ELSE s[x]
<1> DEFINE r == SetOption(opts, s, name)
<1>1. /\ Known(r) /\ (r.enabled => s.enabled)
      /\ \A x \in {"call_list_ttl", "max_call_list_length"} :
           r[x] = IF name = x THEN Given(opts, s, x) ELSE s[x]
  <2>1. CASE ~ s.enabled
    BY <2>1 DEF SetOption, Given
  <2>2. CASE s.enabled /\ Readable(opts, name)
    <3>1. name # "enabled"
      BY DEF OptionName, OptionOrder
    <3>2. r = [s EXCEPT ![name] = opts[name]]
      BY <2>2 DEF SetOption
    <3> QED
      BY <2>2, <3>1, <3>2 DEF Known, Given
  <2>3. CASE s.enabled /\ ~ Readable(opts, name)
    <3>1. PICK b : r = [s EXCEPT !.enabled = b]
      BY <2>3, Zenon DEF SetOption
    <3> QED
      BY <2>3, <3>1 DEF Known, Given
  <2> QED
    BY <2>1, <2>2, <2>3
<1> HIDE DEF r
<1>2. /\ Known(AfterOption(r, name)) /\ (AfterOption(r, name).enabled => r.enabled)
      /\ \A x \in {"call_list_ttl", "max_call_list_length"} : AfterOption(r, name)[x] = r[x]
  <2>1. CASE name = "memento"
    <3>1. PICK b : AfterOption(r, name) = [r EXCEPT !.enabled = b] /\ (b => r.enabled)
      BY <2>1, Zenon DEF AfterOption
    <3> QED
      BY <1>1, <3>1 DEF Known
  <2>2. CASE name = "memento_prefix"
    <3>1. AfterOption(r, name) = [r EXCEPT !.memento_uri = <<"sip", r.memento_prefix>>]
      BY <2>2 DEF AfterOption
    <3> QED
      BY <1>1, <3>1 DEF Known
  <2>3. CASE name \notin {"memento", "memento_prefix"}
    <3>1. AfterOption(r, name) = r
      BY <2>3 DEF AfterOption
    <3> QED
      BY <1>1, <3>1
  <2> QED
    BY <2>1, <2>2, <2>3
<1> QED
  BY <1>1, <1>2 DEF ReadOption, r

(* The variables after each option, as ReadOptions computes them.           *)
LEMMA ReadInOrder ==
  ASSUME NEW opts
  PROVE  \E read : /\ read[0] = Defaults
                   /\ \A k \in 1..9 :
                        read[k] = ReadOption(opts, read[k - 1], OptionOrder[k])
                   /\ ReadOptions(opts) = read[9]
<1> DEFINE Step(k, s) == ReadOption(opts, s, OptionOrder[k])
           IsReading(f) == f = [k \in 0..Len(OptionOrder) |->
                                  IF k = 0 THEN Defaults
                                  ELSE ReadOption(opts, f[k - 1], OptionOrder[k])]
           read == CHOOSE f : IsReading(f)
<1>1. Len(OptionOrder) = 9
  BY DEF OptionOrder
<1>2. \E f : IsReading(f)
  <2>1. PICK s1, s2, s3 : s1 = Step(1, Defaults) /\ s2 = Step(2, s1) /\ s3 = Step(3, s2)
    OBVIOUS
  <2>2. PICK s4, s5, s6 : s4 = Step(4, s3) /\ s5 = Step(5, s4) /\ s6 = Step(6, s5)
    OBVIOUS
  <2>3. PICK s7, s8, s9 : s7 = Step(7, s6) /\ s8 = Step(8, s7) /\ s9 = Step(9, s8)
    OBVIOUS
  <2> DEFINE f == [k \in 0..9 |->
                     IF k = 0 THEN Defaults ELSE IF k = 1 THEN s1 ELSE IF k = 2 THEN s2
                     ELSE IF k = 3 THEN s3 ELSE IF k = 4 THEN s4 ELSE IF k = 5 THEN s5
                     ELSE IF k = 6 THEN s6 ELSE IF k = 7 THEN s7 ELSE IF k = 8 THEN s8
                     ELSE s9]
  <2>4. /\ f[0] = Defaults /\ f[1] = s1 /\ f[2] = s2 /\ f[3] = s3 /\ f[4] = s4
        /\ f[5] = s5 /\ f[6] = s6 /\ f[7] = s7 /\ f[8] = s8 /\ f[9] = s9
        /\ f = [k \in 0..9 |-> f[k]]
    OBVIOUS
  <2> HIDE DEF f, Step
  <2>5. /\ Step(1, f[0]) = f[1] /\ Step(2, f[1]) = f[2] /\ Step(3, f[2]) = f[3]
        /\ Step(4, f[3]) = f[4] /\ Step(5, f[4]) = f[5] /\ Step(6, f[5]) = f[6]
        /\ Step(7, f[6]) = f[7] /\ Step(8, f[7]) = f[8] /\ Step(9, f[8]) = f[9]
    BY <2>1, <2>2, <2>3, <2>4
  <2>6. \A k \in 1..9 : f[k] = Step(k, f[k - 1])
    BY <2>5
  <2>7. \A k \in 0..9 : f[k] = IF k = 0 THEN Defaults ELSE Step(k, f[k - 1])
    BY <2>4, <2>6
  <2>8. f = [k \in 0..9 |-> IF k = 0 THEN Defaults ELSE Step(k, f[k - 1])]
    BY <2>4, <2>7
  <2> QED
    BY <1>1, <2>8 DEF Step
<1>3. IsReading(read)
  BY <1>2
<1>4. ReadOptions(opts) = read[9]
  BY <1>1 DEF ReadOptions
<1> HIDE DEF read
<1> QED
  BY <1>1, <1>3, <1>4

(* The options that enable the plugin limit the lists or let them expire.   *)
LEMMA EnabledListsAreBounded ==
  ASSUME NEW opts, Settings(opts).enabled
  PROVE  \/ opts["max_call_list_length"] \notin {Absent, Unreadable, 0}
         \/ opts["call_list_ttl"] # 0
<1>1. PICK read : /\ read[0] = Defaults
                  /\ \A k \in 1..9 : read[k] = ReadOption(opts, read[k - 1], OptionOrder[k])
                  /\ ReadOptions(opts) = read[9]
  BY ReadInOrder
<1>2. /\ \A k \in 1..9 : OptionOrder[k] \in OptionName
      /\ \A k \in 1..9 : /\ OptionOrder[k] = "call_list_ttl" <=> k = 7
                         /\ OptionOrder[k] = "max_call_list_length" <=> k = 8
  <2>1. Len(OptionOrder) = 9
    BY DEF OptionOrder
  <2>2. /\ OptionOrder[1] = "memento" /\ OptionOrder[2] = "memento_prefix"
        /\ OptionOrder[3] = "memento_uri" /\ OptionOrder[4] = "memento_threads"
        /\ OptionOrder[5] = "memento_notify_url" /\ OptionOrder[6] = "cassandra"
        /\ OptionOrder[7] = "call_list_ttl" /\ OptionOrder[8] = "max_call_list_length"
        /\ OptionOrder[9] = "cass_target_latency_us"
    BY DEF OptionOrder
  <2> QED
    BY <2>1, <2>2 DEF OptionName
<1>3. Known(read[0]) /\ read[0].max_call_list_length = 0
  <2>1. Known(Defaults)
    BY DEF Known, Defaults
  <2>2. Defaults.max_call_list_length = 0
    BY DEF Defaults
  <2> QED
    BY <1>1, <2>1, <2>2
<1> DEFINE Next1(k) ==
             /\ Known(read[k])
             /\ read[k].enabled => read[k - 1].enabled
             /\ k # 7 => read[k].call_list_ttl = read[k - 1].call_list_ttl
             /\ k # 8 => read[k].max_call_list_length = read[k - 1].max_call_list_length
             /\ k = 7 => read[k].call_list_ttl = Given(opts, read[k - 1], "call_list_ttl")
             /\ k = 8 => read[k].max_call_list_length
                           = Given(opts, read[k - 1], "max_call_list_length")
<1>4. ASSUME NEW k \in 1..9, Known(read[k - 1])
      PROVE  Next1(k)
  <2> DEFINE old == read[k - 1]
             new == ReadOption(opts, old, OptionOrder[k])
  <2>1. /\ Known(new) /\ (new.enabled => old.enabled)
        /\ \A x \in {"call_list_ttl", "max_call_list_length"} :
             new[x] = IF OptionOrder[k] = x THEN Given(opts, old, x) ELSE old[x]
    BY <1>2, <1>4, OneOption
  <2>2. read[k] = new
    BY <1>1
  <2> HIDE DEF new
  <2> QED
    BY <1>2, <2>1, <2>2
<1>5. \A k \in 1..9 : Next1(k)
  <2>1. Next1(1)
    BY <1>3, <1>4
  <2>2. Next1(2)
    BY <1>4, <2>1
  <2>3. Next1(3)
    BY <1>4, <2>2
  <2>4. Next1(4)
    BY <1>4, <2>3
  <2>5. Next1(5)
    BY <1>4, <2>4
  <2>6. Next1(6)
    BY <1>4, <2>5
  <2>7. Next1(7)
    BY <1>4, <2>6
  <2>8. Next1(8)
    BY <1>4, <2>7
  <2>9. Next1(9)
    BY <1>4, <2>8
  <2> HIDE DEF Next1
  <2> QED
    BY <2>1, <2>2, <2>3, <2>4, <2>5, <2>6, <2>7, <2>8, <2>9
<1> DEFINE s == read[9]
<1>6. /\ s.enabled => read[7].enabled /\ read[6].enabled
      /\ s.call_list_ttl = Given(opts, read[6], "call_list_ttl")
      /\ s.max_call_list_length = Given(opts, read[7], "max_call_list_length")
      /\ read[7].max_call_list_length = 0 /\ Known(s)
  BY <1>3, <1>5
<1>7. s.enabled /\ ~ (s.max_call_list_length = 0 /\ s.call_list_ttl = 0)
  BY <1>1, <1>6 DEF Settings, Known
<1> HIDE DEF s
<1> QED
  BY <1>6, <1>7, TextsAssumption DEF Given, Readable, StringOptions

OnlyEnabled == alive # {} => Settings(options).enabled

LEMMA OnlyEnabledStep == OnlyEnabled /\ [PluginNext]_allVars => OnlyEnabled'
BY DEF OnlyEnabled, PluginNext, UnloadStep, allVars, pluginVars, Load, HandlerWrites, Unload,
       Deleted, DeleteNext, StopProcessor, DeleteProcessor, Unloaded, Crash, WorkerStep,
       WorkerThrows

(* Whatever texts the options have, the plugin runs only with a limit on    *)
(* its lists or with an expiry of their records.                            *)
THEOREM PluginBoundsLists == PluginSpec => []ListsAreBounded
<1>1. PluginInit => OnlyEnabled
  BY DEF PluginInit, OnlyEnabled
<1>2. OnlyEnabled => ListsAreBounded
  BY EnabledListsAreBounded DEF OnlyEnabled, ListsAreBounded
<1> QED
  BY <1>1, <1>2, OnlyEnabledStep, PTL DEF PluginSpec

-----------------------------------------------------------------------------
(* The divisor of rand() in is_call_trim_needed.                            *)

(* is_call_trim_needed divides by zero for the negative lengths from -19 to *)
(* -11, which load accepts, and for no other limit; for a limit that is a   *)
(* natural number it divides by CheckInterval.                              *)
THEOREM DivisorOfLength ==
  /\ \A length \in Int : Divisor(length) = 0 <=> length = 0 \/ length \in -19..-11
  /\ Divisor(MaxCallListLength) = CheckInterval
<1>1. ASSUME NEW length \in Nat
      PROVE  /\ Divisor(length) = length \div 10 + IF length % 10 # 0 THEN 1 ELSE 0
             /\ Divisor(length) = 0 <=> length = 0
  BY <1>1 DEF Divisor, TruncatedDiv
<1>2. ASSUME NEW n \in Nat, n > 0
      PROVE  Divisor(-n) = 0 <=> n \in 11..19
  <2> DEFINE q == n \div 10
             r == n % 10
  <2>1. n = 10 * q + r /\ q \in Nat /\ r \in 0..9
    OBVIOUS
  <2>2. (-n) % 10 = 0 <=> r = 0
    OBVIOUS
  <2>3. Divisor(-n) = (-q) + IF r # 0 THEN 1 ELSE 0
    BY <1>2, <2>2 DEF Divisor, TruncatedDiv
  <2>4. CASE r = 0
    <3>1. Divisor(-n) = -q /\ n = 10 * q
      BY <2>1, <2>3, <2>4
    <3> HIDE DEF q, r
    <3> QED
      BY <1>2, <2>1, <3>1
  <2>5. CASE r # 0
    <3>1. Divisor(-n) = 1 - q
      BY <2>1, <2>3, <2>5
    <3> HIDE DEF q, r
    <3>2. r \in 1..9 /\ n = 10 * q + r /\ q \in Nat
      BY <2>1, <2>5
    <3>3. n \in 11..19 <=> q = 1
      BY <3>2
    <3> QED
      BY <2>1, <3>1, <3>3
  <2> QED
    BY <2>4, <2>5
<1>3. ASSUME NEW length \in Int, length < 0
      PROVE  Divisor(length) = 0 <=> length \in -19..-11
  <2>1. -length \in Nat /\ -length > 0 /\ -(-length) = length
    BY <1>3
  <2> QED
    BY <1>2, <2>1
<1> QED
  BY <1>1, <1>3, MaxLengthAssumption DEF CheckInterval
=============================================================================
