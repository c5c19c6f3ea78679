----------------------- MODULE MementoAppServerProofs -----------------------
(***************************************************************************)
(* Proofs about MementoAppServer, for any number of transactions and users,*)
(* any requests and responses and any time.                                *)
(***************************************************************************)
EXTENDS MementoAppServer, FiniteSetTheorems, TLAPS

-----------------------------------------------------------------------------
(* Time: a struct tm denotes the time it was filled in with, and a torn one *)
(* at most one value of its low-order part more than the last second.       *)

SomeTime == 0..MaxTime + Radix

TmOK == tm \in [hi : Nat, lo : 0..Radix - 1] /\ tm.hi * Radix <= MaxTime

LEMMA BrokenTime ==
  ASSUME NEW s \in 0..MaxTime
  PROVE  Broken(s) \in [hi : Nat, lo : 0..Radix - 1] /\ Broken(s).hi * Radix <= MaxTime
<1>1. s \div Radix \in Nat /\ s % Radix \in 0..Radix - 1
  BY TimeAssumption
<1>2. (s \div Radix) * Radix <= s
  BY TimeAssumption
<1>3. (s \div Radix) * Radix \in Int
  BY <1>1, TimeAssumption
<1> QED
  BY <1>1, <1>2, <1>3, TimeAssumption DEF Broken

LEMMA FormattedTime ==
  ASSUME TmOK
  PROVE  Formatted \in SomeTime
<1>1. tm.hi \in Nat /\ tm.lo \in 0..Radix - 1
  BY DEF TmOK
<1>2. tm.hi * Radix \in Nat
  BY <1>1, TimeAssumption
<1> QED
  BY <1>1, <1>2, TimeAssumption DEF Formatted, TmOK, SomeTime

(* A struct tm that a handler has written half of.                          *)
LEMMA TornTime ==
  ASSUME TmOK, NEW s \in 0..MaxTime, NEW part \in {"hi", "lo"},
         tm' = [tm EXCEPT ![part] = Broken(s)[part]]
  PROVE  TmOK'
<1>1. Broken(s) \in [hi : Nat, lo : 0..Radix - 1] /\ Broken(s).hi * Radix <= MaxTime
  BY BrokenTime
<1>2. CASE part = "hi"
  <2>1. tm' = [tm EXCEPT !.hi = Broken(s).hi]
    BY <1>2
  <2>2. tm'.hi = Broken(s).hi /\ tm' \in [hi : Nat, lo : 0..Radix - 1]
    BY <1>1, <2>1 DEF TmOK
  <2> QED
    BY <1>1, <2>2 DEF TmOK
<1>3. CASE part = "lo"
  <2>1. tm' = [tm EXCEPT !.lo = Broken(s).lo]
    BY <1>3
  <2>2. tm'.hi = tm.hi /\ tm' \in [hi : Nat, lo : 0..Radix - 1]
    BY <1>1, <2>1 DEF TmOK
  <2> QED
    BY <2>2 DEF TmOK
<1> QED
  BY <1>2, <1>3

-----------------------------------------------------------------------------
(* The inductive invariant.                                                 *)

Contents ==
  [to : MaybeUser, from : MaybeUser, outgoing : BOOLEAN, start : Times,
   answer : Times, answerer : MaybeUser] \cup [end : Nat]

WrittenEntry ==
  [impu : MaybeUser, timestamp : Nat, id : Nat, type : Opening \cup {"END"},
   contents : Contents]

(* TypeOK but for what has been written, of which it is known that it is at *)
(* most one entry of each transaction.                                      *)
VarTypes ==
  /\ pc \in [Txns -> PC]
  /\ method \in [Txns -> Methods \cup {"none"}]
  /\ req \in [Txns -> Initial \cup {NoRequest}]
  /\ dialogid \in [Txns -> dialogs \cup {Malformed, NoDialog}]
  /\ tsx \in [Txns -> TsxType]
  /\ rawtime \in [Txns -> Times]
  /\ TmOK
  /\ dialogs \subseteq Nat \X Nat \X Users
  /\ clock \in 0..MaxTime
  /\ nextId \in Nat \ {NoId}
  /\ notRecorded \in Nat
  /\ written \in [Txns -> {<<>>} \cup {<<e>> : e \in WrittenEntry}]

Fresh == {"unused", "refused", "initial", "in_dialog"}
Starting == {"initial_localtime", "initial_fill", "format_xml", "format_cassandra", "parties"}
Ending == {"end_localtime", "end_fill", "format_end"}
Answering == {"answer_localtime", "answer_fill", "format_answer"}
Timed == {"initial_localtime", "initial_fill", "end_localtime", "end_fill",
          "answer_localtime", "answer_fill"}

(* The transaction is that of the INVITE of a call that joined its dialog.  *)
Named(t) == tsx[t].includes_initial /\ tsx[t].unique_id # NoId

CallOf(t) == <<tsx[t].start_cassandra, tsx[t].unique_id, tsx[t].impu>>

(* The one entry of a transaction.                                          *)
EntryOK(t, e) ==
  /\ e.type \in Opening =>
       /\ tsx[t].includes_initial /\ tsx[t].stored_entry
       /\ Key(e) = <<tsx[t].impu, tsx[t].start_cassandra, tsx[t].unique_id>>
       /\ e.contents.outgoing = tsx[t].outgoing
       /\ e.contents.from = tsx[t].caller
       /\ e.contents.to = tsx[t].callee
  /\ e.type = "END" =>
       ~ tsx[t].includes_initial /\ <<e.timestamp, e.id, e.impu>> \in dialogs

(* The call of the transaction has got its key, and its list's owner.       *)
KeyComplete(t) ==
  /\ tsx[t].start_cassandra \in SomeTime
  /\ CallOf(t) \in dialogs
  /\ tsx[t].impu = IF tsx[t].outgoing THEN tsx[t].caller ELSE tsx[t].callee

(* How the members of a transaction depend on where its handlers are.       *)
TxnInv(t) ==
  /\ pc[t] \in Fresh => tsx[t] = NewTsx
  /\ pc[t] \in Starting \cup {"initial"} => req[t] \in Initial
  /\ pc[t] \in Starting =>
       /\ tsx[t].includes_initial /\ ~ tsx[t].stored_entry
       /\ tsx[t].unique_id = NoId /\ tsx[t].impu = NoUser
  /\ pc[t] = "parties" => tsx[t].start_cassandra \in SomeTime
  /\ pc[t] = "in_dialog" => dialogid[t] \in dialogs \cup {Malformed}
  /\ pc[t] \in Ending =>
       /\ ~ tsx[t].includes_initial /\ dialogid[t] \in dialogs
       /\ tsx[t].unique_id = dialogid[t][2] /\ tsx[t].impu = dialogid[t][3]
  /\ pc[t] \in Answering => tsx[t].includes_initial /\ tsx[t].stored_entry
  /\ /\ pc[t] \in Answering \cup {"sent"} \/ written[t] # <<>>
     /\ tsx[t].includes_initial /\ ~ Named(t)
     => tsx[t].start_cassandra \in SomeTime /\ tsx[t].impu = NoUser
  /\ pc[t] \in Answering \cup {"sent", "lost"} /\ Named(t) => KeyComplete(t)
  /\ pc[t] \in Timed => rawtime[t] \in 0..MaxTime
  /\ pc[t] = "sent" /\ tsx[t].includes_initial /\ ~ tsx[t].stored_entry => written[t] = <<>>
  /\ pc[t] \notin {"sent", "lost"} => written[t] = <<>>
  /\ written[t] # <<>> => EntryOK(t, written[t][1])

(* A dialog id that is in a Route header was put there by the transaction   *)
(* of an INVITE, which keeps it.                                            *)
DialogsTraced ==
  \A d \in dialogs : \E t \in Txns : Named(t) /\ d = CallOf(t)

IdsDistinct ==
  /\ \A t \in Txns : Named(t) => tsx[t].unique_id < nextId
  /\ \A t, u \in Txns :
       Named(t) /\ Named(u) /\ tsx[t].unique_id = tsx[u].unique_id => t = u

ServerInv ==
  /\ VarTypes
  /\ \A t \in Txns : TxnInv(t)
  /\ DialogsTraced
  /\ IdsDistinct

-----------------------------------------------------------------------------
(* What transaction t does leaves the others as they are.                   *)
OnlyOf(t) ==
  /\ dialogs \subseteq dialogs'
  /\ \A v \in Txns \ {t} :
       /\ pc'[v] = pc[v] /\ req'[v] = req[v] /\ dialogid'[v] = dialogid[v]
       /\ tsx'[v] = tsx[v] /\ rawtime'[v] = rawtime[v] /\ written'[v] = written[v]

LEMMA OthersKept ==
  ASSUME NEW t \in Txns, OnlyOf(t), NEW v \in Txns \ {t}, TxnInv(v)
  PROVE  /\ TxnInv(v)'
         /\ Named(v)' <=> Named(v)
         /\ CallOf(v)' = CallOf(v)
<1>1. Named(v)' <=> Named(v)
  BY DEF OnlyOf, Named
<1>2. CallOf(v)' = CallOf(v)
  BY DEF OnlyOf, CallOf
<1>3. EntryOK(v, written[v][1]) => EntryOK(v, written[v][1])'
  BY DEF OnlyOf, EntryOK, Key
<1>4. TxnInv(v)'
  BY <1>1, <1>2, <1>3 DEF OnlyOf, TxnInv, KeyComplete
<1> QED
  BY <1>1, <1>2, <1>4

(* A step of one transaction that makes no call join its dialog.            *)
Quiet(t) ==
  /\ OnlyOf(t)
  /\ UNCHANGED <<dialogs, nextId>>
  /\ VarTypes' /\ TxnInv(t)'
  /\ Named(t)' <=> Named(t)
  /\ Named(t) => CallOf(t)' = CallOf(t)

LEMMA QuietStep ==
  ASSUME ServerInv, NEW t \in Txns, Quiet(t)
  PROVE  /\ ServerInv'
         /\ \A v \in Txns : Named(v)' <=> Named(v)
         /\ \A v \in Txns : Named(v) => CallOf(v)' = CallOf(v)
<1>1. \A v \in Txns : TxnInv(v)'
  BY OthersKept DEF ServerInv, Quiet
<1>2. \A v \in Txns : Named(v)' <=> Named(v)
  BY OthersKept DEF ServerInv, Quiet
<1>3. \A v \in Txns : Named(v) => CallOf(v)' = CallOf(v)
  BY OthersKept DEF ServerInv, Quiet
<1>4. DialogsTraced'
  BY <1>2, <1>3 DEF ServerInv, DialogsTraced, Quiet
<1>5. IdsDistinct'
  <2>1. \A v \in Txns : Named(v) => tsx'[v].unique_id = tsx[v].unique_id
    BY <1>3 DEF CallOf
  <2> QED
    BY <1>2, <2>1 DEF ServerInv, IdsDistinct, Quiet
<1> QED
  BY <1>1, <1>2, <1>3, <1>4, <1>5 DEF ServerInv, Quiet

-----------------------------------------------------------------------------
(* The actions, one by one.                                                 *)

LEMMA ReceiptStep ==
  ASSUME ServerInv, NEW t \in Txns, Receipt(t)
  PROVE  Quiet(t)
<1>0. VarTypes /\ TxnInv(t)
  BY DEF ServerInv
<1>1. ASSUME NEW m \in Methods, NEW r \in Initial \cup {NoRequest},
             NEW d \in dialogs \cup {Malformed, NoDialog}, NEW handler \in {"initial", "in_dialog"},
             Receive(t, m, r, d, handler),
             handler = "initial" => r \in Initial,
             handler = "in_dialog" => d \in dialogs \cup {Malformed}
      PROVE  Quiet(t)
  <2>1. /\ pc[t] = "unused" /\ pc' = [pc EXCEPT ![t] = handler]
        /\ req' = [req EXCEPT ![t] = r] /\ dialogid' = [dialogid EXCEPT ![t] = d]
        /\ method' = [method EXCEPT ![t] = m]
        /\ UNCHANGED <<tsx, rawtime, tm, dialogs, written, clock, nextId, notRecorded>>
    BY <1>1 DEF Receive, Goto, count
  <2>2. VarTypes'
    BY <1>0, <2>1 DEF VarTypes, TmOK, PC
  <2>3. pc'[t] = handler /\ req'[t] = r /\ dialogid'[t] = d
    BY <1>0, <2>1 DEF VarTypes
  <2>4. tsx[t] = NewTsx /\ written[t] = <<>>
    BY <1>0, <2>1 DEF TxnInv, Fresh
  <2>5. TxnInv(t)'
    BY <1>1, <2>1, <2>3, <2>4 DEF TxnInv, Fresh, Starting, Ending, Answering, Timed
  <2>6. OnlyOf(t)
    BY <1>0, <2>1 DEF OnlyOf, VarTypes
  <2>7. ~ Named(t) /\ ~ Named(t)'
    BY <2>1, <2>4 DEF Named, NewTsx
  <2> QED
    BY <2>1, <2>2, <2>5, <2>6, <2>7 DEF Quiet
<1>2. ASSUME Refuse(t)
      PROVE  Quiet(t)
  <2>1. /\ pc[t] = "unused" /\ pc' = [pc EXCEPT ![t] = "refused"]
        /\ method' = [method EXCEPT ![t] = "INVITE"] /\ notRecorded' = notRecorded + 1
        /\ UNCHANGED <<req, dialogid, tsx, rawtime, tm, dialogs, written, clock, nextId>>
    BY <1>2 DEF Refuse, Goto
  <2>2. VarTypes'
    BY <1>0, <2>1 DEF VarTypes, TmOK, PC, Methods
  <2>3. pc'[t] = "refused"
    BY <1>0, <2>1 DEF VarTypes
  <2>4. tsx[t] = NewTsx /\ written[t] = <<>>
    BY <1>0, <2>1 DEF TxnInv, Fresh
  <2>5. TxnInv(t)'
    BY <2>1, <2>3, <2>4 DEF TxnInv, Fresh, Starting, Ending, Answering, Timed
  <2>6. OnlyOf(t)
    BY <1>0, <2>1 DEF OnlyOf, VarTypes
  <2>7. ~ Named(t) /\ ~ Named(t)'
    BY <2>1, <2>4 DEF Named, NewTsx
  <2> QED
    BY <2>1, <2>2, <2>5, <2>6, <2>7 DEF Quiet
<1>3. ASSUME NEW r \in Initial, ReceiveInitial(t, r)
      PROVE  Quiet(t)
  <2>1. r.method \in Methods
    BY InitialAssumption
  <2>2. Receive(t, r.method, r, NoDialog, "initial")
    BY <1>3 DEF ReceiveInitial
  <2> QED
    BY <1>1, <2>1, <2>2
<1>4. ASSUME NEW m \in Methods, NEW d \in dialogs \cup {Malformed}, ReceiveInDialog(t, m, d)
      PROVE  Quiet(t)
  BY <1>1, <1>4 DEF ReceiveInDialog
<1> QED
  BY <1>2, <1>3, <1>4 DEF Receipt

(* Filling in the shared struct tm.                                         *)
LEMMA LocaltimeStep ==
  ASSUME ServerInv, NEW t \in Txns, LocaltimeStart(t) \/ LocaltimeEnd(t)
  PROVE  Quiet(t)
<1>0. VarTypes /\ TxnInv(t)
  BY DEF ServerInv
<1>1. PICK from \in Timed, to \in PC :
        /\ pc[t] = from /\ pc' = [pc EXCEPT ![t] = to]
        /\ from \in Starting => to \in Starting \ {"parties"}
        /\ from \in Ending => to \in Ending
        /\ from \in Answering => to \in Answering
        /\ \/ tm' = Broken(rawtime[t])
           \/ \E part \in {"hi", "lo"} : tm' = [tm EXCEPT ![part] = Broken(rawtime[t])[part]]
        /\ UNCHANGED <<method, req, dialogid, tsx, rawtime, dialogs, written, clock, nextId, notRecorded>>
  <2> DEFINE Halves == {<<"initial_localtime", "initial_fill">>, <<"end_localtime", "end_fill">>,
                        <<"answer_localtime", "answer_fill">>,
                        <<"initial_fill", "format_xml">>, <<"end_fill", "format_end">>,
                        <<"answer_fill", "format_answer">>}
  <2>1. PICK s \in Halves :
          /\ pc[t] = s[1] /\ Goto(t, s[2])
          /\ \/ tm' = Broken(rawtime[t])
             \/ \E part \in {"hi", "lo"} : tm' = [tm EXCEPT ![part] = Broken(rawtime[t])[part]]
          /\ UNCHANGED <<input, tsx, rawtime, dialogs, written, count>>
    <3>1. CASE LocaltimeStart(t)
      BY <3>1 DEF LocaltimeStart
    <3>2. CASE LocaltimeEnd(t)
      BY <3>2 DEF LocaltimeEnd
    <3> QED
      BY <3>1, <3>2
  <2>2. /\ s[1] \in Timed /\ s[2] \in PC
        /\ s[1] \in Starting => s[2] \in Starting \ {"parties"}
        /\ s[1] \in Ending => s[2] \in Ending
        /\ s[1] \in Answering => s[2] \in Answering
    BY DEF Timed, PC, Starting, Ending, Answering
  <2> HIDE DEF Halves
  <2> QED
    BY <2>1, <2>2 DEF Goto, input, count
<1>2. rawtime[t] \in 0..MaxTime
  BY <1>0, <1>1 DEF TxnInv
<1>3. TmOK'
  <2>1. CASE tm' = Broken(rawtime[t])
    BY <1>2, <2>1, BrokenTime DEF TmOK
  <2>2. CASE \E part \in {"hi", "lo"} : tm' = [tm EXCEPT ![part] = Broken(rawtime[t])[part]]
    BY <1>0, <1>2, <2>2, TornTime DEF VarTypes
  <2> QED
    BY <1>1, <2>1, <2>2
<1>4. VarTypes'
  BY <1>0, <1>1, <1>3 DEF VarTypes
<1>5. pc'[t] = to
  BY <1>0, <1>1 DEF VarTypes
<1>6. Timed \subseteq Starting \cup Ending \cup Answering
  BY DEF Timed, Starting, Ending, Answering
<1>7. TxnInv(t)'
  <2>1. EntryOK(t, written[t][1]) => EntryOK(t, written[t][1])'
    BY <1>1 DEF EntryOK, Key
  <2>2. (Named(t)' <=> Named(t)) /\ CallOf(t)' = CallOf(t)
    BY <1>1 DEF Named, CallOf
  <2> QED
    BY <1>0, <1>1, <1>2, <1>5, <1>6, <2>1, <2>2
    DEF TxnInv, KeyComplete, Fresh, Starting, Ending, Answering
<1>8. OnlyOf(t)
  BY <1>0, <1>1 DEF OnlyOf, VarTypes
<1> QED
  <2>1. (Named(t)' <=> Named(t)) /\ CallOf(t)' = CallOf(t) /\ tsx'[t].unique_id = tsx[t].unique_id
    BY <1>1 DEF Named, CallOf
  <2> QED
    BY <1>1, <1>4, <1>7, <1>8, <2>1 DEF Quiet

(* The transaction object of an initial request, before it has a key: it    *)
(* becomes x, its handler goes on to label to, and rawtime is now.          *)
StartsWith(t, x, to, now) ==
  /\ tsx' = [tsx EXCEPT ![t] = x]
  /\ pc' = [pc EXCEPT ![t] = to]
  /\ rawtime' = [rawtime EXCEPT ![t] = now]
  /\ to \in Starting \cup {"sent"}
  /\ to \in Timed => now \in 0..MaxTime
  /\ to \in {"parties", "sent"} => x.start_cassandra \in SomeTime
  /\ req[t] \in Initial /\ written[t] = <<>>
  /\ x.includes_initial /\ ~ x.stored_entry /\ x.unique_id = NoId /\ x.impu = NoUser
  /\ tsx[t].unique_id = NoId
  /\ UNCHANGED <<method, req, dialogid, tm, dialogs, written, clock, nextId, notRecorded>>

LEMMA StartsWithStep ==
  ASSUME ServerInv, NEW t \in Txns, NEW x \in TsxType, NEW to, NEW now \in Times,
         StartsWith(t, x, to, now)
  PROVE  Quiet(t)
<1>0. VarTypes /\ TxnInv(t)
  BY DEF ServerInv
<1>1. /\ to \in PC /\ to \notin Fresh /\ to \notin Ending /\ to \notin Answering
      /\ to # "initial" /\ to # "in_dialog"
  BY DEF StartsWith, Starting, PC, Fresh, Ending, Answering
<1>2. VarTypes'
  BY <1>0, <1>1 DEF VarTypes, TmOK, StartsWith
<1>3. pc'[t] = to /\ tsx'[t] = x /\ rawtime'[t] = now
  BY <1>0 DEF VarTypes, StartsWith
<1>4. ~ Named(t) /\ ~ Named(t)'
  BY <1>3 DEF Named, StartsWith
<1>5. TxnInv(t)'
  BY <1>1, <1>3, <1>4 DEF TxnInv, StartsWith
<1>6. OnlyOf(t)
  BY <1>0 DEF OnlyOf, VarTypes, StartsWith
<1>7. UNCHANGED <<dialogs, nextId>>
  BY DEF StartsWith
<1> QED
  BY <1>2, <1>4, <1>5, <1>6, <1>7 DEF Quiet

LEMMA StartingStep ==
  ASSUME ServerInv, NEW t \in Txns,
         \/ OnInitialRequest(t) \/ FormatStartXml(t) \/ FormatStartCassandra(t)
         \/ NoAssertedIdentity(t)
  PROVE  Quiet(t)
<1>0. /\ VarTypes /\ TxnInv(t) /\ tsx[t] \in TsxType /\ rawtime[t] \in Times
      /\ rawtime = [rawtime EXCEPT ![t] = rawtime[t]]
      /\ clock \in 0..MaxTime /\ clock \in Times /\ NoTime \in Times
      /\ Formatted \in SomeTime /\ Formatted \in Times
  BY FormattedTime, TimeAssumption DEF ServerInv, VarTypes, Times, NoTime, SomeTime
<1>1. CASE OnInitialRequest(t)
  <2> DEFINE x == [tsx[t] EXCEPT !.includes_initial = TRUE]
  <2>1. /\ pc[t] = "initial" /\ tsx' = [tsx EXCEPT ![t] = x]
        /\ pc' = [pc EXCEPT ![t] = "initial_localtime"]
        /\ rawtime' = [rawtime EXCEPT ![t] = clock]
        /\ UNCHANGED <<method, req, dialogid, tm, dialogs, written, clock, nextId, notRecorded>>
    BY <1>1 DEF OnInitialRequest, ReadTime, Goto, input, count
  <2>2. tsx[t] = NewTsx /\ req[t] \in Initial /\ written[t] = <<>>
    BY <1>0, <2>1 DEF TxnInv, Fresh
  <2>3. /\ x \in TsxType /\ x.includes_initial /\ ~ x.stored_entry
        /\ x.unique_id = NoId /\ x.impu = NoUser /\ tsx[t].unique_id = NoId
    <3>1. x \in TsxType
      BY <1>0 DEF TsxType
    <3> QED
      BY <1>0, <2>2, <3>1 DEF NewTsx, TsxType
  <2>4. /\ "initial_localtime" \in Starting \cup {"sent"}
        /\ "initial_localtime" \notin {"parties", "sent"}
    BY DEF Starting
  <2> HIDE DEF x
  <2>5. StartsWith(t, x, "initial_localtime", clock)
    BY <1>0, <2>1, <2>2, <2>3, <2>4 DEF StartsWith
  <2> QED
    BY <1>0, <2>3, <2>5, StartsWithStep
<1>2. ASSUME pc[t] \in Starting
      PROVE  /\ tsx[t].includes_initial /\ ~ tsx[t].stored_entry /\ tsx[t].unique_id = NoId
             /\ tsx[t].impu = NoUser /\ req[t] \in Initial /\ written[t] = <<>>
  BY <1>0, <1>2 DEF TxnInv, Starting
<1>3. CASE FormatStartXml(t)
  <2> DEFINE x == [tsx[t] EXCEPT !.start_xml = Formatted]
  <2>1. /\ pc[t] = "format_xml" /\ tsx' = [tsx EXCEPT ![t] = x]
        /\ pc' = [pc EXCEPT ![t] = "format_cassandra"]
        /\ UNCHANGED <<method, req, dialogid, rawtime, tm, dialogs, written, clock, nextId, notRecorded>>
    BY <1>3 DEF FormatStartXml, Goto, input, count
  <2>2. /\ x \in TsxType /\ x.includes_initial = tsx[t].includes_initial
        /\ x.stored_entry = tsx[t].stored_entry
        /\ x.unique_id = tsx[t].unique_id /\ x.impu = tsx[t].impu
    BY <1>0 DEF TsxType
  <2>3. /\ pc[t] \in Starting /\ "format_cassandra" \in Starting \cup {"sent"}
        /\ "format_cassandra" \notin Timed /\ "format_cassandra" \notin {"parties", "sent"}
    BY <2>1 DEF Starting, Timed
  <2> HIDE DEF x
  <2>4. StartsWith(t, x, "format_cassandra", rawtime[t])
    BY <1>0, <1>2, <2>1, <2>2, <2>3 DEF StartsWith
  <2> QED
    BY <1>0, <2>2, <2>4, StartsWithStep
<1>4. CASE FormatStartCassandra(t)
  <2> DEFINE x == [tsx[t] EXCEPT !.start_cassandra = Formatted]
  <2>1. /\ pc[t] = "format_cassandra" /\ tsx' = [tsx EXCEPT ![t] = x]
        /\ pc' = [pc EXCEPT ![t] = "parties"]
        /\ UNCHANGED <<method, req, dialogid, rawtime, tm, dialogs, written, clock, nextId, notRecorded>>
    BY <1>4 DEF FormatStartCassandra, Goto, input, count
  <2>2. /\ x \in TsxType /\ x.includes_initial = tsx[t].includes_initial
        /\ x.stored_entry = tsx[t].stored_entry
        /\ x.unique_id = tsx[t].unique_id /\ x.impu = tsx[t].impu
        /\ x.start_cassandra \in SomeTime
    BY <1>0 DEF TsxType
  <2>3. pc[t] \in Starting /\ "parties" \in Starting \cup {"sent"} /\ "parties" \notin Timed
    BY <2>1 DEF Starting, Timed
  <2> HIDE DEF x
  <2>4. StartsWith(t, x, "parties", rawtime[t])
    BY <1>0, <1>2, <2>1, <2>2, <2>3 DEF StartsWith
  <2> QED
    BY <1>0, <2>2, <2>4, StartsWithStep
<1>5. CASE NoAssertedIdentity(t)
  <2> DEFINE x == [tsx[t] EXCEPT !.outgoing = TRUE, !.callee = req[t].to]
  <2>1. /\ pc[t] = "parties" /\ tsx' = [tsx EXCEPT ![t] = x]
        /\ pc' = [pc EXCEPT ![t] = "sent"] /\ rawtime' = [rawtime EXCEPT ![t] = NoTime]
        /\ UNCHANGED <<method, req, dialogid, tm, dialogs, written, clock, nextId, notRecorded>>
    BY <1>5 DEF NoAssertedIdentity, Return, Goto, input, count
  <2>2. pc[t] \in Starting /\ "sent" \notin Timed
    BY <2>1 DEF Starting, Timed
  <2>3. req[t] \in Initial /\ tsx[t].start_cassandra \in SomeTime
    BY <1>0, <1>2, <2>1, <2>2 DEF TxnInv
  <2>4. req[t].to \in MaybeUser
    BY <2>3, InitialAssumption DEF MaybeUser
  <2>5. /\ x \in TsxType /\ x.includes_initial = tsx[t].includes_initial
        /\ x.stored_entry = tsx[t].stored_entry
        /\ x.unique_id = tsx[t].unique_id /\ x.impu = tsx[t].impu
        /\ x.start_cassandra = tsx[t].start_cassandra
    BY <1>0, <2>4 DEF TsxType
  <2> HIDE DEF x
  <2>6. StartsWith(t, x, "sent", NoTime)
    BY <1>0, <1>2, <2>1, <2>2, <2>3, <2>5 DEF StartsWith
  <2> QED
    BY <1>0, <2>5, <2>6, StartsWithStep
<1> QED
  BY <1>1, <1>3, <1>4, <1>5

(* A BYE, or another request in a dialog.                                   *)
LEMMA InDialogStep ==
  ASSUME ServerInv, NEW t \in Txns, PassInDialogRequest(t) \/ OnInDialogBye(t)
  PROVE  Quiet(t)
<1>0. /\ VarTypes /\ TxnInv(t) /\ tsx[t] \in TsxType /\ clock \in 0..MaxTime
  BY DEF ServerInv, VarTypes
<1>1. CASE PassInDialogRequest(t)
  <2>1. /\ pc[t] = "in_dialog" /\ pc' = [pc EXCEPT ![t] = "sent"]
        /\ UNCHANGED <<method, req, dialogid, tsx, rawtime, tm, dialogs, written, clock, nextId, notRecorded>>
    BY <1>1 DEF PassInDialogRequest, Goto, input, count
  <2>2. VarTypes' /\ pc'[t] = "sent" /\ OnlyOf(t)
    BY <1>0, <2>1 DEF VarTypes, TmOK, PC, OnlyOf
  <2>3. tsx[t] = NewTsx /\ written[t] = <<>>
    BY <1>0, <2>1 DEF TxnInv, Fresh
  <2>4. TxnInv(t)' /\ ~ Named(t) /\ ~ Named(t)'
    BY <2>1, <2>2, <2>3 DEF TxnInv, NewTsx, Named, Fresh, Starting, Ending, Answering, Timed
  <2> QED
    BY <2>1, <2>2, <2>4 DEF Quiet
<1>2. CASE OnInDialogBye(t)
  <2> DEFINE x == [tsx[t] EXCEPT !.unique_id = dialogid[t][2], !.impu = dialogid[t][3]]
  <2>1. /\ pc[t] = "in_dialog" /\ dialogid[t] # Malformed /\ tsx' = [tsx EXCEPT ![t] = x]
        /\ pc' = [pc EXCEPT ![t] = "end_localtime"] /\ rawtime' = [rawtime EXCEPT ![t] = clock]
        /\ UNCHANGED <<method, req, dialogid, tm, dialogs, written, clock, nextId, notRecorded>>
    BY <1>2 DEF OnInDialogBye, ReadTime, Goto, input, count
  <2>2. tsx[t] = NewTsx /\ written[t] = <<>> /\ dialogid[t] \in dialogs
    BY <1>0, <2>1 DEF TxnInv, Fresh
  <2>3. dialogid[t][2] \in Nat /\ dialogid[t][3] \in Users
    BY <1>0, <2>2 DEF VarTypes
  <2>4. /\ x \in TsxType /\ ~ x.includes_initial
        /\ x.unique_id = dialogid[t][2] /\ x.impu = dialogid[t][3]
    <3>1. dialogid[t][3] \in MaybeUser
      BY <2>3 DEF MaybeUser
    <3>2. x \in TsxType /\ x.includes_initial = tsx[t].includes_initial
      BY <1>0, <2>3, <3>1 DEF TsxType
    <3> QED
      BY <1>0, <2>2, <3>2 DEF TsxType, NewTsx
  <2> HIDE DEF x
  <2>5. VarTypes' /\ OnlyOf(t)
    BY <1>0, <2>1, <2>4 DEF VarTypes, TmOK, PC, Times, OnlyOf
  <2>6. pc'[t] = "end_localtime" /\ tsx'[t] = x /\ rawtime'[t] = clock
    BY <1>0, <2>1 DEF VarTypes
  <2>7. TxnInv(t)' /\ ~ Named(t) /\ ~ Named(t)'
    BY <1>0, <2>1, <2>2, <2>4, <2>6
    DEF TxnInv, NewTsx, Named, Fresh, Starting, Ending, Answering, Timed
  <2> QED
    BY <2>1, <2>5, <2>7 DEF Quiet
<1> QED
  BY <1>1, <1>2

(* The entry of a transaction that has written none yet.                    *)
LEMMA FirstEntry ==
  ASSUME VarTypes, NEW t \in Txns, written[t] = <<>>,
         NEW type \in Opening \cup {"END"}, NEW timestamp \in Nat, NEW contents \in Contents,
         Write(t, type, timestamp, contents)
  PROVE  \E e \in WrittenEntry :
           /\ e = [impu |-> tsx[t].impu, timestamp |-> timestamp, id |-> tsx[t].unique_id,
                   type |-> type, contents |-> contents]
           /\ written' = [written EXCEPT ![t] = <<e>>]
           /\ written' \in [Txns -> {<<>>} \cup {<<f>> : f \in WrittenEntry}]
           /\ written'[t] = <<e>> /\ written'[t] # <<>> /\ written'[t][1] = e
<1> DEFINE e == [impu |-> tsx[t].impu, timestamp |-> timestamp, id |-> tsx[t].unique_id,
                 type |-> type, contents |-> contents]
<1>1. tsx[t].impu \in MaybeUser /\ tsx[t].unique_id \in Nat
  BY DEF VarTypes, TsxType
<1>2. e \in WrittenEntry
  BY <1>1 DEF WrittenEntry
<1>3. written' = [written EXCEPT ![t] = Append(@, e)]
  BY DEF Write
<1> HIDE DEF e
<1>4. Append(written[t], e) = <<e>>
  OBVIOUS
<1>5. written' = [written EXCEPT ![t] = <<e>>]
  BY <1>3, <1>4
<1>6. written'[t] = <<e>> /\ written' \in [Txns -> {<<>>} \cup {<<f>> : f \in WrittenEntry}]
  BY <1>2, <1>5 DEF VarTypes
<1>7. <<e>> # <<>> /\ <<e>>[1] = e
  OBVIOUS
<1> QED
  BY <1>2, <1>5, <1>6, <1>7 DEF e

LEMMA CallDetailsContents ==
  ASSUME NEW x \in TsxType, NEW answer \in Times
  PROVE  /\ CallDetails(x, answer) \in Contents
         /\ CallDetails(x, answer).outgoing = x.outgoing
         /\ CallDetails(x, answer).from = x.caller
         /\ CallDetails(x, answer).to = x.callee
  BY DEF CallDetails, Contents, TsxType

LEMMA StoreEndStep ==
  ASSUME ServerInv, NEW t \in Txns, StoreEnd(t)
  PROVE  Quiet(t)
<1>0. /\ VarTypes /\ TxnInv(t) /\ tsx[t] \in TsxType /\ Formatted \in Nat
  BY FormattedTime, TimeAssumption DEF ServerInv, VarTypes, SomeTime
<1>1. /\ pc[t] = "format_end" /\ pc' = [pc EXCEPT ![t] = "sent"]
      /\ rawtime' = [rawtime EXCEPT ![t] = NoTime]
      /\ Write(t, "END", dialogid[t][1], [end |-> Formatted])
      /\ UNCHANGED <<method, req, dialogid, tsx, tm, dialogs, clock, nextId, notRecorded>>
  BY DEF StoreEnd, Return, Goto, input, count
<1>2. /\ ~ tsx[t].includes_initial /\ dialogid[t] \in dialogs /\ written[t] = <<>>
      /\ tsx[t].unique_id = dialogid[t][2] /\ tsx[t].impu = dialogid[t][3]
  BY <1>0, <1>1 DEF TxnInv, Ending
<1>3. dialogid[t][1] \in Nat /\ dialogid[t] = <<dialogid[t][1], dialogid[t][2], dialogid[t][3]>>
  BY <1>0, <1>2 DEF VarTypes
<1>4. [end |-> Formatted] \in Contents /\ "END" \in Opening \cup {"END"}
  BY <1>0 DEF Contents
<1>5. PICK e \in WrittenEntry :
        /\ e = [impu |-> tsx[t].impu, timestamp |-> dialogid[t][1], id |-> tsx[t].unique_id,
                type |-> "END", contents |-> [end |-> Formatted]]
        /\ written' = [written EXCEPT ![t] = <<e>>]
        /\ written' \in [Txns -> {<<>>} \cup {<<f>> : f \in WrittenEntry}]
        /\ written'[t] = <<e>> /\ written'[t] # <<>> /\ written'[t][1] = e
  BY <1>0, <1>1, <1>2, <1>3, <1>4, FirstEntry
<1>6. e.type = "END" /\ <<e.timestamp, e.id, e.impu>> \in dialogs
  BY <1>2, <1>3, <1>5
<1>7. EntryOK(t, written[t][1])'
  BY <1>1, <1>2, <1>5, <1>6 DEF EntryOK, Opening
<1>8. VarTypes'
  BY <1>0, <1>1, <1>5 DEF VarTypes, TmOK, PC, Times
<1>9. pc'[t] = "sent"
  BY <1>0, <1>1 DEF VarTypes
<1>10. TxnInv(t)'
  BY <1>1, <1>2, <1>7, <1>9 DEF TxnInv, Named, Fresh, Starting, Ending, Answering, Timed
<1>11. OnlyOf(t)
  BY <1>0, <1>1, <1>5 DEF OnlyOf, VarTypes
<1>12. ~ Named(t) /\ ~ Named(t)'
  BY <1>1, <1>2 DEF Named
<1> QED
  BY <1>1, <1>8, <1>10, <1>11, <1>12 DEF Quiet

(* The first final response, a rejection.                                   *)
LEMMA OnRejectionStep ==
  ASSUME ServerInv, NEW t \in Txns, NEW rsp \in Responses, OnRejection(t, rsp)
  PROVE  Quiet(t)
<1>0. /\ VarTypes /\ TxnInv(t) /\ tsx[t] \in TsxType
  BY DEF ServerInv, VarTypes
<1> DEFINE x == [tsx[t] EXCEPT !.stored_entry = TRUE]
<1>1. /\ pc[t] = "sent" /\ tsx' = [tsx EXCEPT ![t] = x]
      /\ tsx[t].includes_initial /\ ~ tsx[t].stored_entry
      /\ Write(t, "REJECTED", tsx[t].start_cassandra, CallDetails(tsx[t], NoTime))
      /\ UNCHANGED <<pc, method, req, dialogid, rawtime, tm, dialogs, clock, nextId, notRecorded>>
  BY DEF OnRejection, ActsOn, input, count
<1>2. /\ x \in TsxType /\ x.stored_entry /\ x.includes_initial = tsx[t].includes_initial
      /\ x.unique_id = tsx[t].unique_id /\ x.impu = tsx[t].impu
      /\ x.start_cassandra = tsx[t].start_cassandra /\ x.outgoing = tsx[t].outgoing
      /\ x.caller = tsx[t].caller /\ x.callee = tsx[t].callee
  BY <1>0 DEF TsxType
<1> HIDE DEF x
<1>3. /\ written[t] = <<>> /\ tsx[t].start_cassandra \in SomeTime
      /\ ~ Named(t) => tsx[t].impu = NoUser
      /\ Named(t) => /\ CallOf(t) \in dialogs
                     /\ tsx[t].impu = IF tsx[t].outgoing THEN tsx[t].caller ELSE tsx[t].callee
  BY <1>0, <1>1 DEF TxnInv, KeyComplete
<1>4. tsx[t].start_cassandra \in Nat /\ NoTime \in Times /\ "REJECTED" \in Opening
  BY <1>3, TimeAssumption DEF SomeTime, Times, Opening
<1>5. PICK e \in WrittenEntry :
        /\ e = [impu |-> tsx[t].impu, timestamp |-> tsx[t].start_cassandra,
                id |-> tsx[t].unique_id, type |-> "REJECTED",
                contents |-> CallDetails(tsx[t], NoTime)]
        /\ written' = [written EXCEPT ![t] = <<e>>]
        /\ written' \in [Txns -> {<<>>} \cup {<<f>> : f \in WrittenEntry}]
        /\ written'[t] = <<e>> /\ written'[t] # <<>> /\ written'[t][1] = e
  BY <1>0, <1>1, <1>3, <1>4, FirstEntry, CallDetailsContents
<1>6. tsx'[t] = x
  BY <1>0, <1>1 DEF VarTypes
<1>7. /\ e.type = "REJECTED"
      /\ Key(e) = <<tsx[t].impu, tsx[t].start_cassandra, tsx[t].unique_id>>
      /\ e.contents = CallDetails(tsx[t], NoTime)
  BY <1>5 DEF Key
<1>8. EntryOK(t, written[t][1])'
  <2>1. EntryOK(t, e)'
    BY <1>0, <1>1, <1>2, <1>4, <1>6, <1>7, CallDetailsContents DEF EntryOK, Key
  <2> QED
    BY <1>5, <2>1
<1>9. VarTypes'
  BY <1>0, <1>1, <1>2, <1>5 DEF VarTypes, TmOK
<1>10. /\ Named(t)' <=> Named(t)
       /\ CallOf(t)' = CallOf(t)
       /\ tsx'[t].unique_id = tsx[t].unique_id
  BY <1>2, <1>6 DEF Named, CallOf
<1>11. TxnInv(t)'
  BY <1>1, <1>2, <1>3, <1>6, <1>8, <1>10
     DEF TxnInv, KeyComplete, Fresh, Starting, Ending, Answering, Timed
<1>12. OnlyOf(t)
  BY <1>0, <1>1, <1>5 DEF OnlyOf, VarTypes
<1> QED
  BY <1>1, <1>9, <1>10, <1>11, <1>12 DEF Quiet

(* The first final response, an answer.                                     *)
LEMMA OnAnswerStep ==
  ASSUME ServerInv, NEW t \in Txns, NEW rsp \in Responses, OnAnswer(t, rsp)
  PROVE  Quiet(t)
<1>0. /\ VarTypes /\ TxnInv(t) /\ tsx[t] \in TsxType /\ clock \in 0..MaxTime
  BY DEF ServerInv, VarTypes
<1> DEFINE x == [tsx[t] EXCEPT !.stored_entry = TRUE, !.answerer = Answerer(rsp)]
<1>1. /\ pc[t] = "sent" /\ tsx' = [tsx EXCEPT ![t] = x]
      /\ tsx[t].includes_initial /\ ~ tsx[t].stored_entry
      /\ rawtime' = [rawtime EXCEPT ![t] = clock]
      /\ pc' = [pc EXCEPT ![t] = "answer_localtime"]
      /\ UNCHANGED <<method, req, dialogid, tm, dialogs, written, clock, nextId, notRecorded>>
  BY DEF OnAnswer, ActsOn, ReadTime, Goto, input, count
<1>2. Answerer(rsp) \in MaybeUser
  BY ResponsesAssumption DEF Answerer, MaybeUser
<1>3. /\ x \in TsxType /\ x.stored_entry /\ x.includes_initial = tsx[t].includes_initial
      /\ x.unique_id = tsx[t].unique_id /\ x.impu = tsx[t].impu
      /\ x.start_cassandra = tsx[t].start_cassandra /\ x.outgoing = tsx[t].outgoing
      /\ x.caller = tsx[t].caller /\ x.callee = tsx[t].callee
  BY <1>0, <1>2 DEF TsxType
<1> HIDE DEF x
<1>4. /\ written[t] = <<>> /\ tsx[t].start_cassandra \in SomeTime
      /\ ~ Named(t) => tsx[t].impu = NoUser
      /\ Named(t) => /\ CallOf(t) \in dialogs
                     /\ tsx[t].impu = IF tsx[t].outgoing THEN tsx[t].caller ELSE tsx[t].callee
  BY <1>0, <1>1 DEF TxnInv, KeyComplete
<1>5. VarTypes'
  BY <1>0, <1>1, <1>3 DEF VarTypes, TmOK, PC, Times
<1>6. tsx'[t] = x /\ pc'[t] = "answer_localtime" /\ rawtime'[t] = clock
  BY <1>0, <1>1 DEF VarTypes
<1>7. /\ Named(t)' <=> Named(t)
      /\ CallOf(t)' = CallOf(t)
      /\ tsx'[t].unique_id = tsx[t].unique_id
  BY <1>3, <1>6 DEF Named, CallOf
<1>8. TxnInv(t)'
  BY <1>0, <1>1, <1>3, <1>4, <1>6, <1>7
     DEF TxnInv, KeyComplete, Fresh, Starting, Ending, Answering, Timed
<1>9. OnlyOf(t)
  BY <1>0, <1>1 DEF OnlyOf, VarTypes
<1> QED
  BY <1>1, <1>5, <1>7, <1>8, <1>9 DEF Quiet

LEMMA StoreBeginStep ==
  ASSUME ServerInv, NEW t \in Txns, StoreBegin(t)
  PROVE  Quiet(t)
<1>0. /\ VarTypes /\ TxnInv(t) /\ tsx[t] \in TsxType /\ Formatted \in Times
  BY FormattedTime, TimeAssumption DEF ServerInv, VarTypes, SomeTime, Times
<1>1. /\ pc[t] = "format_answer" /\ pc' = [pc EXCEPT ![t] = "sent"]
      /\ rawtime' = [rawtime EXCEPT ![t] = NoTime]
      /\ Write(t, "BEGIN", tsx[t].start_cassandra, CallDetails(tsx[t], Formatted))
      /\ UNCHANGED <<method, req, dialogid, tsx, tm, dialogs, clock, nextId, notRecorded>>
  BY DEF StoreBegin, Return, Goto, input, count
<1>2. /\ written[t] = <<>> /\ tsx[t].start_cassandra \in SomeTime
      /\ tsx[t].includes_initial /\ tsx[t].stored_entry
      /\ ~ Named(t) => tsx[t].impu = NoUser
      /\ Named(t) => /\ CallOf(t) \in dialogs
                     /\ tsx[t].impu = IF tsx[t].outgoing THEN tsx[t].caller ELSE tsx[t].callee
  BY <1>0, <1>1 DEF TxnInv, KeyComplete, Answering
<1>3. tsx[t].start_cassandra \in Nat /\ "BEGIN" \in Opening
  BY <1>2, TimeAssumption DEF SomeTime, Opening
<1>4. PICK e \in WrittenEntry :
        /\ e = [impu |-> tsx[t].impu, timestamp |-> tsx[t].start_cassandra,
                id |-> tsx[t].unique_id, type |-> "BEGIN",
                contents |-> CallDetails(tsx[t], Formatted)]
        /\ written' = [written EXCEPT ![t] = <<e>>]
        /\ written' \in [Txns -> {<<>>} \cup {<<f>> : f \in WrittenEntry}]
        /\ written'[t] = <<e>> /\ written'[t] # <<>> /\ written'[t][1] = e
  BY <1>0, <1>1, <1>2, <1>3, FirstEntry, CallDetailsContents
<1>5. /\ e.type = "BEGIN"
      /\ Key(e) = <<tsx[t].impu, tsx[t].start_cassandra, tsx[t].unique_id>>
      /\ e.contents = CallDetails(tsx[t], Formatted)
  BY <1>4 DEF Key
<1>6. EntryOK(t, written[t][1])'
  <2>1. EntryOK(t, e)
    BY <1>0, <1>2, <1>5, CallDetailsContents DEF EntryOK
  <2>2. EntryOK(t, e)'
    BY <1>1, <2>1 DEF EntryOK, Key
  <2> QED
    BY <1>4, <2>2
<1>7. VarTypes'
  BY <1>0, <1>1, <1>4 DEF VarTypes, TmOK, PC, Times
<1>8. /\ Named(t)' <=> Named(t)
      /\ CallOf(t)' = CallOf(t)
      /\ tsx'[t].unique_id = tsx[t].unique_id
  BY <1>1 DEF Named, CallOf
<1>9. pc'[t] = "sent"
  BY <1>0, <1>1 DEF VarTypes
<1>10. TxnInv(t)'
  BY <1>1, <1>2, <1>6, <1>8, <1>9 DEF TxnInv, KeyComplete, Fresh, Starting, Ending, Answering, Timed
<1>11. OnlyOf(t)
  BY <1>0, <1>1, <1>4 DEF OnlyOf, VarTypes
<1> QED
  BY <1>1, <1>7, <1>8, <1>10, <1>11 DEF Quiet

(* A call joins its dialog: its key is new because its id is.               *)
LEMMA JoinDialogStep ==
  ASSUME ServerInv, NEW t \in Txns, JoinDialog(t)
  PROVE  /\ ServerInv'
         /\ pc[t] = "parties" /\ tsx[t].includes_initial /\ ~ Named(t) /\ Named(t)'
         /\ written[t] = <<>> /\ written' = written
         /\ CallOf(t)' = <<tsx[t].start_cassandra, nextId, Owner(req[t])>>
         /\ tsx[t].start_cassandra \in SomeTime /\ Owner(req[t]) \in Users
         /\ dialogs' = dialogs \cup {CallOf(t)'}
         /\ nextId' = nextId + 1
         /\ OnlyOf(t)
<1>0. /\ VarTypes /\ TxnInv(t) /\ tsx[t] \in TsxType /\ nextId \in Nat \ {NoId}
  BY DEF ServerInv, VarTypes
<1> DEFINE r == req[t]
           out == Originating(r)
           x == [tsx[t] EXCEPT !.outgoing = out,
                               !.callee = IF out THEN r.to ELSE r.ruri,
                               !.caller = IF out THEN r.pai ELSE r.from,
                               !.impu = Owner(r),
                               !.unique_id = nextId]
           d == <<tsx[t].start_cassandra, nextId, Owner(r)>>
<1>1. /\ pc[t] = "parties" /\ tsx' = [tsx EXCEPT ![t] = x]
      /\ out => r.pai # NoUser
      /\ pc' = [pc EXCEPT ![t] = "sent"] /\ rawtime' = [rawtime EXCEPT ![t] = NoTime]
      /\ dialogs' = dialogs \cup {d} /\ nextId' = nextId + 1
      /\ UNCHANGED <<method, req, dialogid, tm, written, clock, notRecorded>>
  BY DEF JoinDialog, Return, Goto, input, UniqueId, DialogId
<1>2. /\ r \in Initial /\ tsx[t].start_cassandra \in SomeTime
      /\ tsx[t].includes_initial /\ ~ tsx[t].stored_entry
      /\ tsx[t].unique_id = NoId /\ written[t] = <<>>
  BY <1>0, <1>1 DEF TxnInv, Starting
<1>3. /\ Owner(r) \in Users
      /\ Owner(r) = IF out THEN r.pai ELSE r.ruri
  BY <1>1, <1>2, InitialAssumption DEF Owner
<1>4. /\ out \in BOOLEAN
      /\ (IF out THEN r.to ELSE r.ruri) \in MaybeUser
      /\ (IF out THEN r.pai ELSE r.from) \in MaybeUser
      /\ Owner(r) \in MaybeUser
  BY <1>2, <1>3, InitialAssumption DEF MaybeUser, Originating
<1>5. /\ x \in TsxType /\ x.includes_initial = tsx[t].includes_initial
      /\ x.stored_entry = tsx[t].stored_entry
      /\ x.start_cassandra = tsx[t].start_cassandra
      /\ x.unique_id = nextId /\ x.impu = Owner(r) /\ x.outgoing = out
      /\ x.callee = (IF out THEN r.to ELSE r.ruri)
      /\ x.caller = (IF out THEN r.pai ELSE r.from)
  <2> HIDE DEF out, r
  <2> QED
    BY <1>0, <1>4 DEF TsxType
<1>6. tsx[t].start_cassandra \in Nat /\ d \in Nat \X Nat \X Users
  BY <1>0, <1>2, <1>3, TimeAssumption DEF SomeTime
<1> HIDE DEF x, out, r
<1>7. pc'[t] = "sent" /\ tsx'[t] = x /\ rawtime'[t] = NoTime
  BY <1>0, <1>1 DEF VarTypes
<1>8. VarTypes'
  <2>1. dialogs' \subseteq Nat \X Nat \X Users
    BY <1>0, <1>1, <1>6 DEF VarTypes
  <2>2. nextId' \in Nat \ {NoId}
    BY <1>0, <1>1 DEF NoId
  <2>3. dialogid' \in [Txns -> dialogs' \cup {Malformed, NoDialog}]
    <3>1. dialogs \subseteq dialogs'
      BY <1>1
    <3> QED
      BY <1>0, <1>1, <3>1 DEF VarTypes
  <2>4. pc' \in [Txns -> PC] /\ rawtime' \in [Txns -> Times] /\ tsx' \in [Txns -> TsxType]
    BY <1>0, <1>1, <1>5 DEF VarTypes, PC, Times
  <2> QED
    BY <1>0, <1>1, <2>1, <2>2, <2>3, <2>4 DEF VarTypes, TmOK
<1>9. /\ ~ Named(t) /\ Named(t)'
      /\ CallOf(t)' = d
  BY <1>0, <1>2, <1>5, <1>7 DEF Named, CallOf, d, r
<1>10. TxnInv(t)'
  <2>1. x.impu = IF x.outgoing THEN x.caller ELSE x.callee
    BY <1>3, <1>5
  <2>2. d \in dialogs'
    BY <1>1
  <2>3. written'[t] = <<>>
    BY <1>1, <1>2
  <2> HIDE DEF d
  <2>4. x.start_cassandra \in SomeTime
    BY <1>2, <1>5
  <2>5. /\ "sent" \notin Fresh /\ "sent" \notin Starting \cup {"initial"} /\ "sent" \notin Ending
        /\ "sent" \notin Answering /\ "sent" \notin Timed
    BY DEF Fresh, Starting, Ending, Answering, Timed
  <2> QED
    BY <1>5, <1>7, <1>9, <2>1, <2>2, <2>3, <2>4, <2>5 DEF TxnInv, KeyComplete
<1>11. OnlyOf(t)
  BY <1>0, <1>1 DEF OnlyOf, VarTypes
<1>12. \A v \in Txns \ {t} :
         /\ TxnInv(v)' /\ (Named(v)' <=> Named(v)) /\ CallOf(v)' = CallOf(v)
         /\ pc'[v] = pc[v] /\ tsx'[v] = tsx[v]
  BY <1>11, OthersKept DEF ServerInv, OnlyOf
<1>13. DialogsTraced'
  <2> SUFFICES ASSUME NEW c \in dialogs'
               PROVE  \E v \in Txns : Named(v)' /\ c = CallOf(v)'
    BY DEF DialogsTraced
  <2>1. CASE c = d
    BY <1>7, <1>9, <2>1
  <2>2. CASE c \in dialogs
    <3>1. PICK v \in Txns : Named(v) /\ c = CallOf(v)
      BY <2>2 DEF ServerInv, DialogsTraced
    <3>2. v # t
      BY <1>9, <3>1
    <3> QED
      BY <1>12, <3>1, <3>2
  <2> QED
    BY <1>1, <2>1, <2>2
<1>14. IdsDistinct'
  <2>1. tsx'[t].unique_id = nextId
    BY <1>5, <1>7
  <2>2. \A v \in Txns \ {t} : Named(v)' => tsx'[v].unique_id < nextId
    BY <1>12 DEF ServerInv, IdsDistinct
  <2>3. \A v \in Txns : tsx'[v].unique_id \in Nat
    BY <1>8 DEF VarTypes, TsxType
  <2>4. \A v \in Txns : Named(v)' => tsx'[v].unique_id < nextId'
    BY <1>0, <1>1, <2>1, <2>2, <2>3
  <2>5. ASSUME NEW v \in Txns, NEW u \in Txns, Named(v)', Named(u)',
               tsx'[v].unique_id = tsx'[u].unique_id
        PROVE  v = u
    <3>1. CASE v # t /\ u # t
      BY <1>12, <2>5, <3>1 DEF ServerInv, IdsDistinct
    <3>2. CASE (v = t) # (u = t)
      BY <1>0, <2>1, <2>2, <2>5, <3>2
    <3> QED
      BY <3>1, <3>2
  <2> QED
    BY <2>4, <2>5 DEF IdsDistinct
<1>15. \A v \in Txns : TxnInv(v)'
  BY <1>10, <1>12
<1>16. ServerInv'
  BY <1>8, <1>13, <1>14, <1>15 DEF ServerInv
<1>17. CallOf(t)' = <<tsx[t].start_cassandra, nextId, Owner(req[t])>>
  BY <1>9 DEF d, r
<1>18. dialogs' = dialogs \cup {CallOf(t)'}
  BY <1>1, <1>9
<1>19. Owner(req[t]) \in Users
  BY <1>3 DEF r
<1> QED
  BY <1>1, <1>2, <1>9, <1>11, <1>16, <1>17, <1>18, <1>19

(* A step that changes nothing but the clock.                               *)
LEMMA TickStep ==
  ASSUME ServerInv, Tick \/ UNCHANGED vars
  PROVE  ServerInv'
<1>1. UNCHANGED <<pc, method, req, dialogid, tsx, rawtime, tm, dialogs, written, nextId, notRecorded>>
  BY DEF Tick, vars, input, count
<1>2. clock' \in 0..MaxTime
  BY TimeAssumption DEF ServerInv, VarTypes, Tick, vars, count
<1>3. VarTypes'
  BY <1>1, <1>2 DEF ServerInv, VarTypes, TmOK
<1>4. \A v \in Txns : /\ EntryOK(v, written[v][1])' <=> EntryOK(v, written[v][1])
                      /\ Named(v)' <=> Named(v)
                      /\ CallOf(v)' = CallOf(v)
  BY <1>1 DEF EntryOK, Key, Named, CallOf
<1>5. \A v \in Txns : TxnInv(v)'
  BY <1>1, <1>4 DEF ServerInv, TxnInv, KeyComplete
<1>6. DialogsTraced' /\ IdsDistinct'
  BY <1>1, <1>4 DEF ServerInv, DialogsTraced, IdsDistinct
<1> QED
  BY <1>3, <1>5, <1>6 DEF ServerInv

(* A restart leaves the keys of all calls as they are.                      *)
LEMMA RestartStep ==
  ASSUME ServerInv, Restart
  PROVE  /\ ServerInv'
         /\ \A v \in Txns : (Named(v)' <=> Named(v)) /\ (Named(v) => pc'[v] = "lost")
<1>1. /\ UNCHANGED <<method, req, dialogid, tsx, dialogs, written, clock, nextId>>
      /\ pc' = [t \in Txns |-> IF pc[t] = "unused" THEN "unused" ELSE "lost"]
      /\ rawtime' = [t \in Txns |-> NoTime] /\ tm' = Broken(0) /\ notRecorded' = 0
  BY DEF Restart, input
<1>2. VarTypes'
  <2>1. TmOK'
    BY <1>1, BrokenTime, TimeAssumption DEF TmOK
  <2> QED
    BY <1>1, <2>1 DEF ServerInv, VarTypes, PC, Times
<1>3. \A v \in Txns : /\ EntryOK(v, written[v][1])' <=> EntryOK(v, written[v][1])
                      /\ Named(v)' <=> Named(v)
                      /\ CallOf(v)' = CallOf(v)
  BY <1>1 DEF EntryOK, Key, Named, CallOf
<1>4. ASSUME NEW v \in Txns
      PROVE  TxnInv(v)' /\ (Named(v) => pc'[v] = "lost")
  <2>1. TxnInv(v) /\ pc[v] \in PC
    BY DEF ServerInv, VarTypes
  <2>2. CASE pc[v] = "unused"
    <3>1. pc'[v] = "unused" /\ tsx[v] = NewTsx /\ written[v] = <<>>
      BY <1>1, <2>1, <2>2 DEF TxnInv, Fresh
    <3>2. ~ Named(v)
      BY <3>1 DEF Named, NewTsx
    <3> QED
      BY <1>1, <3>1, <3>2 DEF TxnInv, Fresh, Starting, Ending, Answering, Timed
  <2>3. CASE pc[v] # "unused"
    <3>1. pc'[v] = "lost"
      BY <1>1, <2>3
    <3>2. Named(v) => KeyComplete(v)
      BY <2>1 DEF TxnInv, Named, NewTsx, PC, Fresh, Starting, Ending, Answering
    <3>3. Named(v)' => KeyComplete(v)'
      BY <1>1, <1>3, <3>2 DEF KeyComplete
    <3> QED
      BY <1>1, <1>3, <2>1, <3>1, <3>3
         DEF TxnInv, Fresh, Starting, Ending, Answering, Timed
  <2> QED
    BY <2>2, <2>3
<1>5. DialogsTraced' /\ IdsDistinct'
  BY <1>1, <1>3 DEF ServerInv, DialogsTraced, IdsDistinct
<1> QED
  BY <1>2, <1>3, <1>4, <1>5 DEF ServerInv

LEMMA ServerInvInit == Init => ServerInv
<1> SUFFICES ASSUME Init PROVE ServerInv
  OBVIOUS
<1> USE DEF Init
<1>1. NewTsx \in TsxType
  BY DEF NewTsx, TsxType, Times, MaybeUser, NoTime, NoId
<1>2. TmOK
  BY BrokenTime, TimeAssumption DEF TmOK
<1>3. clock \in 0..MaxTime
  BY TimeAssumption
<1>4. VarTypes
  BY <1>1, <1>2, <1>3 DEF VarTypes, PC, Times, NoId
<1>5. \A t \in Txns : TxnInv(t)
  BY DEF TxnInv, Fresh, Starting, Ending, Answering, Timed
<1>6. \A t \in Txns : ~ Named(t)
  BY DEF Named, NewTsx
<1> QED
  BY <1>4, <1>5, <1>6 DEF ServerInv, DialogsTraced, IdsDistinct

(* Every handler but the one that makes a call join its dialog.             *)
LEMMA HandlerStep ==
  ASSUME ServerInv, NEW t \in Txns, Receipt(t) \/ Handler(t), ~ JoinDialog(t)
  PROVE  Quiet(t)
<1>1. CASE \E rsp \in Responses : OnRejection(t, rsp) \/ OnAnswer(t, rsp)
  BY <1>1, OnRejectionStep, OnAnswerStep
<1>2. CASE Receipt(t)
  BY <1>2, ReceiptStep
<1>3. CASE \/ LocaltimeStart(t) \/ LocaltimeEnd(t) \/ OnInitialRequest(t)
           \/ FormatStartXml(t) \/ FormatStartCassandra(t) \/ NoAssertedIdentity(t)
  BY <1>3, LocaltimeStep, StartingStep
<1>4. CASE PassInDialogRequest(t) \/ OnInDialogBye(t) \/ StoreEnd(t) \/ StoreBegin(t)
  BY <1>4, InDialogStep, StoreEndStep, StoreBeginStep
<1> QED
  BY <1>1, <1>2, <1>3, <1>4 DEF Handler

LEMMA ServerInvStep == ServerInv /\ [Next]_vars => ServerInv'
<1> SUFFICES ASSUME ServerInv, [Next]_vars PROVE ServerInv'
  OBVIOUS
<1>1. CASE Tick \/ UNCHANGED vars
  BY <1>1, TickStep
<1>2. ASSUME NEW t \in Txns, Receipt(t) \/ Handler(t)
      PROVE  ServerInv'
  BY <1>2, JoinDialogStep, HandlerStep, QuietStep
<1>3. CASE Restart
  BY <1>3, RestartStep
<1> QED
  BY <1>1, <1>2, <1>3 DEF Next

(* Wherever the handlers are interleaved, the members of a transaction fit  *)
(* the place its handler has reached, every dialog id was made by the       *)
(* transaction of an INVITE, and no two of those have the same unique id.   *)
THEOREM ServerInvariant == Spec => []ServerInv
  BY ServerInvInit, ServerInvStep, PTL DEF Spec

-----------------------------------------------------------------------------
(* What follows from the invariant.                                         *)

(* A transaction has written nothing or one entry.                          *)
LEMMA OneEntry ==
  ASSUME NEW w \in [Txns -> {<<>>} \cup {<<e>> : e \in WrittenEntry}], NEW t \in Txns
  PROVE  /\ w[t] = <<>> \/ (w[t] # <<>> /\ w[t] = <<w[t][1]>> /\ w[t][1] \in WrittenEntry)
         /\ Len(w[t]) \in {0, 1}
         /\ Len(w[t]) = 1 <=> w[t] # <<>>
<1>1. CASE w[t] = <<>>
  BY <1>1
<1>2. CASE \E e \in WrittenEntry : w[t] = <<e>>
  BY <1>2
<1> QED
  BY <1>1, <1>2

LEMMA ElementsOf ==
  ASSUME NEW w \in [Txns -> {<<>>} \cup {<<e>> : e \in WrittenEntry}]
  PROVE  UNION {{w[t][k] : k \in 1..Len(w[t])} : t \in Txns}
           = {w[t][1] : t \in {u \in Txns : w[u] # <<>>}}
<1> DEFINE Of(t) == {w[t][k] : k \in 1..Len(w[t])}
<1>1. ASSUME NEW t \in Txns
      PROVE  Of(t) = IF w[t] = <<>> THEN {} ELSE {w[t][1]}
  BY OneEntry
<1> HIDE DEF Of
<1>2. ASSUME NEW e
      PROVE  e \in UNION {Of(t) : t \in Txns} <=> \E t \in Txns : w[t] # <<>> /\ e = w[t][1]
  <2>1. e \in UNION {Of(t) : t \in Txns} <=> \E t \in Txns : e \in Of(t)
    OBVIOUS
  <2> QED
    BY <1>1, <2>1
<1>3. UNION {Of(t) : t \in Txns} = {w[t][1] : t \in {u \in Txns : w[u] # <<>>}}
  BY <1>2
<1> QED
  BY <1>3 DEF Of

LEMMA WrittenElements ==
  ASSUME VarTypes
  PROVE  Written = {written[t][1] : t \in {u \in Txns : written[u] # <<>>}}
  BY ElementsOf DEF Written, VarTypes

(* The first entry of a transaction is the only one there is to look at.    *)
LEMMA OnlyIndex ==
  ASSUME VarTypes, NEW t \in Txns, NEW k \in 1..Len(written[t])
  PROVE  written[t] # <<>> /\ k = 1
<1>1. CASE written[t] = <<>>
  BY <1>1
<1>2. CASE written[t] = <<written[t][1]>>
  <2>1. \A e : k \in 1..Len(<<e>>) => k = 1 /\ <<e>> # <<>>
    OBVIOUS
  <2> QED
    BY <1>2, <2>1
<1> QED
  BY <1>1, <1>2, OneEntry DEF VarTypes

LEMMA ServerTypes == ServerInv => TypeOK
<1> SUFFICES ASSUME ServerInv PROVE TypeOK
  OBVIOUS
<1>1. tm.hi \in Nat /\ tm.lo \in 0..Radix - 1
  BY DEF ServerInv, VarTypes, TmOK
<1>2. ASSUME NEW e \in Written
      PROVE  e.impu \in MaybeUser /\ e.timestamp \in Nat /\ e.id \in Nat
  <2>1. PICK t \in Txns : written[t] # <<>> /\ e = written[t][1]
    BY WrittenElements DEF ServerInv
  <2>2. e \in WrittenEntry
    BY <2>1, OneEntry DEF ServerInv, VarTypes
  <2> QED
    BY <2>2 DEF WrittenEntry
<1> QED
  BY <1>1, <1>2 DEF ServerInv, VarTypes, TypeOK

LEMMA ServerFragments == ServerInv => OneFragmentPerTransaction
<1> SUFFICES ASSUME ServerInv, NEW t \in Txns PROVE Len(written[t]) <= 1
  BY DEF OneFragmentPerTransaction
<1>1. CASE written[t] = <<>>
  BY <1>1
<1>2. CASE written[t] = <<written[t][1]>>
  <2>1. \A e : Len(<<e>>) <= 1
    OBVIOUS
  <2> QED
    BY <1>2, <2>1
<1> QED
  BY <1>1, <1>2, OneEntry DEF ServerInv, VarTypes

LEMMA ServerEnds == ServerInv => EndMatchesOpening
<1> SUFFICES ASSUME ServerInv, NEW e \in Written, e.type = "END"
             PROVE  \E t \in Txns :
                      /\ tsx[t].includes_initial
                      /\ Key(e) = <<tsx[t].impu, tsx[t].start_cassandra, tsx[t].unique_id>>
                      /\ \A k \in 1..Len(written[t]) : Key(written[t][k]) = Key(e)
  BY DEF EndMatchesOpening
<1>1. PICK u \in Txns : written[u] # <<>> /\ e = written[u][1]
  BY WrittenElements DEF ServerInv
<1>2. <<e.timestamp, e.id, e.impu>> \in dialogs
  BY <1>1 DEF ServerInv, TxnInv, EntryOK
<1>3. PICK t \in Txns :
        Named(t) /\ <<e.timestamp, e.id, e.impu>> = CallOf(t)
  BY <1>2 DEF ServerInv, DialogsTraced
<1>4. Key(e) = <<tsx[t].impu, tsx[t].start_cassandra, tsx[t].unique_id>>
  BY <1>3 DEF CallOf, Key
<1>5. ASSUME NEW k \in 1..Len(written[t])
      PROVE  Key(written[t][k]) = Key(e)
  <2>1. written[t] # <<>> /\ k = 1
    BY OnlyIndex DEF ServerInv
  <2>2. EntryOK(t, written[t][1]) /\ written[t][1] \in WrittenEntry
    BY <2>1, OneEntry DEF ServerInv, VarTypes, TxnInv
  <2>3. written[t][1].type \in Opening
    BY <1>3, <2>2 DEF EntryOK, Named, WrittenEntry
  <2> QED
    BY <1>4, <2>1, <2>2, <2>3 DEF EntryOK
<1> QED
  BY <1>3, <1>4, <1>5 DEF Named

LEMMA ServerKeys == ServerInv => CallsKeptApart
<1> SUFFICES ASSUME ServerInv, NEW t \in Txns, NEW u \in Txns,
                    NEW j \in 1..Len(written[t]), NEW k \in 1..Len(written[u]),
                    written[t][j].type \in Opening, written[u][k].type \in Opening,
                    written[t][j].id # NoId, Key(written[t][j]) = Key(written[u][k])
             PROVE  t = u
  BY DEF CallsKeptApart
<1>1. /\ written[t] # <<>> /\ j = 1 /\ EntryOK(t, written[t][1])
      /\ written[u] # <<>> /\ k = 1 /\ EntryOK(u, written[u][1])
  BY OnlyIndex DEF ServerInv, TxnInv
<1>2. /\ tsx[t].includes_initial /\ written[t][1].id = tsx[t].unique_id
      /\ tsx[u].includes_initial /\ written[u][1].id = tsx[u].unique_id
      /\ written[t][1].id = written[u][1].id
  BY <1>1 DEF EntryOK, Key
<1> QED
  BY <1>1, <1>2 DEF ServerInv, IdsDistinct, Named

(* The state of MementoAppServer keeps its types: in particular a torn      *)
(* struct tm still denotes a time, and every key that is written has a      *)
(* timestamp that is a time and an id.                                      *)
THEOREM ServerTypeCorrect == Spec => []TypeOK
  BY ServerInvariant, ServerTypes, PTL

(* Whatever responses a forked INVITE gets and in whichever order, its      *)
(* MementoAppServerTsx writes at most one call fragment.                    *)
THEOREM FragmentsWrittenOnce == Spec => []OneFragmentPerTransaction
  BY ServerInvariant, ServerFragments, PTL

(* The END that a BYE writes has the IMPU, timestamp and id that the        *)
(* transaction of the INVITE put into the dialog id and writes its own      *)
(* fragment with, whatever the two transactions read from the shared tm.    *)
THEOREM EndsMatchOpenings == Spec => []EndMatchesOpening
  BY ServerInvariant, ServerEnds, PTL

(* generate_unique_integer keeps the keys of calls that joined their        *)
(* dialogs apart, even those that one subscriber makes in one second.       *)
THEOREM CallsHaveOwnKeys == Spec => []CallsKeptApart
  BY ServerInvariant, ServerKeys, PTL
=============================================================================
