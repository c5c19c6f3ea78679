-------------------------- MODULE MementoAppServer --------------------------
(***************************************************************************)
(* MementoAppServer and MementoAppServerTsx: the handlers Sprout calls for *)
(* the transactions of a call, and the call list entries they hand to the  *)
(* CallListStoreProcessor.                                                 *)
(*                                                                         *)
(* The handlers of one transaction run one after the other; those of       *)
(* different transactions run on different Sprout threads and share the    *)
(* struct tm that localtime returns a pointer to, so a handler that        *)
(* formats a time is split at its uses of that struct.                     *)
(*                                                                         *)
(* External: the Sproutlet framework (which handler is called with what),  *)
(* the load monitor's decision, generate_unique_integer, localtime and the *)
(* restart of the Sprout process.                                          *)
(***************************************************************************)
EXTENDS Integers, Sequences, FiniteSets

CONSTANTS
  Txns,       (* The transactions.                                          *)
  Users,      (* SIP URIs.                                                  *)
  Initial,    (* The initial requests that may arrive.                      *)
  Responses,  (* The responses to an INVITE that may arrive.                *)
  MaxTime,    (* Bound: the last second of the clock.                       *)
  Radix,      (* Values of the low-order part of a struct tm: the clock     *)
              (* starts in the last second before the other part changes.   *)
  NoUser,     (* The empty string as a URI, or a missing header.            *)
  Malformed,  (* A dialog id that does not have three parts.                *)
  NoRequest,  (* No initial request.                                        *)
  NoDialog    (* No dialog id.                                              *)

Methods == {"INVITE", "BYE"}

(* A request: its method, P-Served-User and its parameters,                 *)
(* P-Asserted-Identity, From, To and the request URI.                       *)
ASSUME InitialAssumption ==
  Initial \subseteq [method : Methods, served : Users \cup {NoUser}, sescase : {"orig", "term", "none"},
                     orig_cdiv : BOOLEAN, pai : Users \cup {NoUser},
                     from : Users, to : Users, ruri : Users]
(* A response: its status code by class (429 stands for any rejection),     *)
(* the values of its Privacy header and its P-Asserted-Identity.            *)
ASSUME ResponsesAssumption ==
  Responses \subseteq [code : {180, 200, 429}, privacy : SUBSET {"id", "user"},
                       pai : Users \cup {NoUser}]
ASSUME TimeAssumption == Radix \in Nat \ {0} /\ MaxTime \in Nat /\ MaxTime >= Radix
ASSUME NoUserAssumption == NoUser \notin Users
ASSUME NoRequestAssumption == NoRequest \notin Initial
(* As many names of calls as transactions are enough: see CallNames.        *)
ASSUME TxnsAssumption == IsFiniteSet(Txns)

VARIABLES
  pc,           (* The next step of each transaction's handler.             *)
  method,       (* The method of each transaction's request.                *)
  req,          (* The headers of each initial request.                     *)
  dialogid,     (* The dialog id each in-dialog request arrived with.       *)
  tsx,          (* The members of each MementoAppServerTsx.                 *)
  rawtime,      (* rawtime and currenttime: what time() returned.           *)
  tm,           (* The struct tm all threads get from localtime.            *)
  dialogs,      (* The dialog ids passed to add_to_dialog.                  *)
  written,      (* The write_call_list_entry calls of each transaction.     *)
  clock,        (* The time of day in seconds.                              *)
  nextId,       (* What generate_unique_integer returns next.               *)
  notRecorded   (* _stat_calls_not_recorded_due_to_overload.                *)

input == <<method, req, dialogid>>
count == <<clock, nextId, notRecorded>>
vars == <<pc, input, tsx, rawtime, tm, dialogs, written, count>>

-----------------------------------------------------------------------------
PC == {"unused", "refused", "initial", "initial_localtime", "initial_fill",
       "format_xml", "format_cassandra", "parties", "in_dialog",
       "end_localtime", "end_fill", "format_end",
       "answer_localtime", "answer_fill", "format_answer", "sent", "lost"}

NoTime == -1
NoId == 0

NewTsx == [outgoing |-> FALSE, start_xml |-> NoTime, start_cassandra |-> NoTime,
           caller |-> NoUser, callee |-> NoUser, answerer |-> NoUser,
           stored_entry |-> FALSE, unique_id |-> NoId, impu |-> NoUser,
           includes_initial |-> FALSE]

(* The parts of a struct tm, and the time a formatted one denotes.          *)
Broken(t) == [hi |-> t \div Radix, lo |-> t % Radix]
Formatted == tm.hi * Radix + tm.lo

(* Mutant: the dialog id has the start time that goes into the XML.         *)
DialogId_XmlTime(t, id, impu) == <<tsx[t].start_xml, id, impu>>

(* The dialog id, as split_string recovers it from the Route header: the    *)
(* timestamp, the id and the base64 of the IMPU do not contain the          *)
(* separator.                                                               *)
DialogId(t, id, impu) == <<tsx[t].start_cassandra, id, impu>>

(* Mutant: the id is a constant, and only the timestamp tells calls apart.  *)
UniqueId_Fixed == NoId + 1

UniqueId == nextId

Goto(t, label) == pc' = [pc EXCEPT ![t] = label]

(* The handler is done with the message, and its locals are gone.           *)
Return(t) ==
  /\ Goto(t, "sent")
  /\ rawtime' = [rawtime EXCEPT ![t] = NoTime]

Write(t, type, timestamp, contents) ==
  written' = [written EXCEPT ![t] =
    Append(@, [impu |-> tsx[t].impu, timestamp |-> timestamp, id |-> tsx[t].unique_id,
               type |-> type, contents |-> contents])]

(* The XML of a BEGIN or REJECTED fragment.                                 *)
CallDetails(x, answerTime) ==
  [to |-> x.callee, from |-> x.caller, outgoing |-> x.outgoing, start |-> x.start_xml,
   answer |-> answerTime, answerer |-> x.answerer]

Init ==
  /\ pc = [t \in Txns |-> "unused"]
  /\ method = [t \in Txns |-> "none"]
  /\ req = [t \in Txns |-> NoRequest]
  /\ dialogid = [t \in Txns |-> NoDialog]
  /\ tsx = [t \in Txns |-> NewTsx]
  /\ rawtime = [t \in Txns |-> NoTime]
  /\ tm = Broken(0)
  /\ dialogs = {}
  /\ written = [t \in Txns |-> <<>>]
  /\ clock = Radix - 1
  /\ nextId = 1
  /\ notRecorded = 0

-----------------------------------------------------------------------------
(* get_app_tsx.  Other methods get no transaction object and leave no       *)
(* trace.                                                                   *)

Receive(t, m, r, d, handler) ==
  /\ pc[t] = "unused"
  /\ method' = [method EXCEPT ![t] = m]
  /\ req' = [req EXCEPT ![t] = r]
  /\ dialogid' = [dialogid EXCEPT ![t] = d]
  /\ Goto(t, handler)
  /\ UNCHANGED <<tsx, rawtime, tm, dialogs, written, count>>

ReceiveInitial(t, r) == Receive(t, r.method, r, NoDialog, "initial")
ReceiveInDialog(t, m, d) == Receive(t, m, NoRequest, d, "in_dialog")

(* The load monitor has no token for an INVITE.                             *)
Refuse(t) ==
  /\ pc[t] = "unused"
  /\ method' = [method EXCEPT ![t] = "INVITE"]
  /\ notRecorded' = notRecorded + 1
  /\ Goto(t, "refused")
  /\ UNCHANGED <<req, dialogid, tsx, rawtime, tm, dialogs, written, clock, nextId>>

-----------------------------------------------------------------------------
(* time() and localtime().                                                  *)

ReadTime(t, label) ==
  /\ rawtime' = [rawtime EXCEPT ![t] = clock]
  /\ Goto(t, label)

(* localtime fills in the shared struct, in no particular order.            *)
LocaltimeStart(t) ==
  \E s \in {<<"initial_localtime", "initial_fill">>, <<"end_localtime", "end_fill">>,
            <<"answer_localtime", "answer_fill">>} :
    /\ pc[t] = s[1]
    /\ \E part \in {"hi", "lo"} : tm' = [tm EXCEPT ![part] = Broken(rawtime[t])[part]]
    /\ Goto(t, s[2])
    /\ UNCHANGED <<input, tsx, rawtime, dialogs, written, count>>

LocaltimeEnd(t) ==
  \E s \in {<<"initial_fill", "format_xml">>, <<"end_fill", "format_end">>,
            <<"answer_fill", "format_answer">>} :
    /\ pc[t] = s[1]
    /\ tm' = Broken(rawtime[t])
    /\ Goto(t, s[2])
    /\ UNCHANGED <<input, tsx, rawtime, dialogs, written, count>>

-----------------------------------------------------------------------------
(* on_initial_request, up to its two uses of the struct tm.                 *)
OnInitialRequest(t) ==
  /\ pc[t] = "initial"
  /\ tsx' = [tsx EXCEPT ![t].includes_initial = TRUE]
  /\ ReadTime(t, "initial_localtime")
  /\ UNCHANGED <<input, tm, dialogs, written, count>>

FormatStartXml(t) ==
  /\ pc[t] = "format_xml"
  /\ tsx' = [tsx EXCEPT ![t].start_xml = Formatted]
  /\ Goto(t, "format_cassandra")
  /\ UNCHANGED <<input, rawtime, tm, dialogs, written, count>>

FormatStartCassandra(t) ==
  /\ pc[t] = "format_cassandra"
  /\ tsx' = [tsx EXCEPT ![t].start_cassandra = Formatted]
  /\ Goto(t, "parties")
  /\ UNCHANGED <<input, rawtime, tm, dialogs, written, count>>

Originating(r) == r.served # NoUser /\ (r.sescase = "orig" \/ r.orig_cdiv)

(* Mutant: the list is always that of the target of the request.            *)
Owner_Target(r) == r.ruri

(* The subscriber whose list the call goes to: the caller of an originating *)
(* request, the target of a terminating one.                                *)
Owner(r) == IF Originating(r) THEN r.pai ELSE r.ruri

(* An originating request without P-Asserted-Identity is sent on as it is.  *)
NoAssertedIdentity(t) ==
  LET r == req[t] IN
  /\ pc[t] = "parties"
  /\ Originating(r) /\ r.pai = NoUser
  /\ tsx' = [tsx EXCEPT ![t].outgoing = TRUE, ![t].callee = r.to]
  /\ Return(t)
  /\ UNCHANGED <<input, tm, dialogs, written, count>>

JoinDialog(t) ==
  LET r == req[t]
      out == Originating(r) IN
  /\ pc[t] = "parties"
  /\ out => r.pai # NoUser
  /\ tsx' = [tsx EXCEPT ![t].outgoing = out,
                        ![t].callee = IF out THEN r.to ELSE r.ruri,
                        ![t].caller = IF out THEN r.pai ELSE r.from,
                        ![t].impu = Owner(r),
                        ![t].unique_id = UniqueId]
  /\ nextId' = nextId + 1
  /\ dialogs' = dialogs \cup {DialogId(t, UniqueId, Owner(r))}
  /\ Return(t)
  /\ UNCHANGED <<input, tm, written, clock, notRecorded>>

-----------------------------------------------------------------------------
(* on_in_dialog_request: only a BYE with a well-formed dialog id ends a     *)
(* call.                                                                    *)
PassInDialogRequest(t) ==
  /\ pc[t] = "in_dialog"
  /\ method[t] # "BYE" \/ dialogid[t] = Malformed
  /\ Goto(t, "sent")
  /\ UNCHANGED <<input, tsx, rawtime, tm, dialogs, written, count>>

OnInDialogBye(t) ==
  /\ pc[t] = "in_dialog"
  /\ method[t] = "BYE" /\ dialogid[t] # Malformed
  /\ tsx' = [tsx EXCEPT ![t].unique_id = dialogid[t][2], ![t].impu = dialogid[t][3]]
  /\ ReadTime(t, "end_localtime")
  /\ UNCHANGED <<input, tm, dialogs, written, count>>

(* Mutant: the END is keyed by the start time of its own transaction.       *)
StoreEnd_OwnStartTime(t) ==
  /\ pc[t] = "format_end"
  /\ Write(t, "END", tsx[t].start_cassandra, [end |-> Formatted])
  /\ Return(t)
  /\ UNCHANGED <<input, tsx, tm, dialogs, count>>

(* The END fragment has the time the call started in its key and the time   *)
(* it ended as its contents.                                                *)
StoreEnd(t) ==
  /\ pc[t] = "format_end"
  /\ Write(t, "END", dialogid[t][1], [end |-> Formatted])
  /\ Return(t)
  /\ UNCHANGED <<input, tsx, tm, dialogs, count>>

-----------------------------------------------------------------------------
(* on_response acts on the first final response to an initial INVITE and    *)
(* passes every other one on unseen.                                        *)
ActsOn(t, rsp) ==
  /\ method[t] = "INVITE"
  /\ tsx[t].includes_initial
  /\ ~ tsx[t].stored_entry
  /\ rsp.code >= 200

(* The answerer is not recorded where the Privacy header is "id".           *)
Answerer(rsp) == IF rsp.privacy = {"id"} THEN NoUser ELSE rsp.pai

(* Mutant: only an answer is remembered as a final response.                *)
OnRejection_NotRemembered(t, rsp) ==
  /\ pc[t] = "sent"
  /\ ActsOn(t, rsp) /\ rsp.code >= 300
  /\ Write(t, "REJECTED", tsx[t].start_cassandra, CallDetails(tsx[t], NoTime))
  /\ UNCHANGED <<pc, input, tsx, rawtime, tm, dialogs, count>>

OnRejection(t, rsp) ==
  /\ pc[t] = "sent"
  /\ ActsOn(t, rsp) /\ rsp.code >= 300
  /\ tsx' = [tsx EXCEPT ![t].stored_entry = TRUE]
  /\ Write(t, "REJECTED", tsx[t].start_cassandra, CallDetails(tsx[t], NoTime))
  /\ UNCHANGED <<pc, input, rawtime, tm, dialogs, count>>

OnAnswer(t, rsp) ==
  /\ pc[t] = "sent"
  /\ ActsOn(t, rsp) /\ rsp.code < 300
  /\ tsx' = [tsx EXCEPT ![t].stored_entry = TRUE, ![t].answerer = Answerer(rsp)]
  /\ ReadTime(t, "answer_localtime")
  /\ UNCHANGED <<input, tm, dialogs, written, count>>

StoreBegin(t) ==
  /\ pc[t] = "format_answer"
  /\ Write(t, "BEGIN", tsx[t].start_cassandra, CallDetails(tsx[t], Formatted))
  /\ Return(t)
  /\ UNCHANGED <<input, tsx, tm, dialogs, count>>

-----------------------------------------------------------------------------
Tick ==
  /\ clock < MaxTime
  /\ clock' = clock + 1
  /\ UNCHANGED <<pc, input, tsx, rawtime, tm, dialogs, written, nextId, notRecorded>>

(* Sprout dies and is started again: the transactions are gone, and only    *)
(* the Route headers of the calls still hold their dialog ids.  tsx and     *)
(* written remain as history.                                               *)
Restart ==
  /\ pc' = [t \in Txns |-> IF pc[t] = "unused" THEN "unused" ELSE "lost"]
  /\ rawtime' = [t \in Txns |-> NoTime]
  /\ tm' = Broken(0)
  /\ notRecorded' = 0
  /\ UNCHANGED <<input, tsx, dialogs, written, clock, nextId>>

Receipt(t) ==
  \/ \E r \in Initial : ReceiveInitial(t, r)
  \/ \E m \in Methods, d \in dialogs \cup {Malformed} : ReceiveInDialog(t, m, d)
  \/ Refuse(t)

Handler(t) ==
  \/ OnInitialRequest(t) \/ LocaltimeStart(t) \/ LocaltimeEnd(t)
  \/ FormatStartXml(t) \/ FormatStartCassandra(t)
  \/ NoAssertedIdentity(t) \/ JoinDialog(t)
  \/ PassInDialogRequest(t) \/ OnInDialogBye(t) \/ StoreEnd(t)
  \/ \E rsp \in Responses : OnRejection(t, rsp) \/ OnAnswer(t, rsp)
  \/ StoreBegin(t)

Next == Tick \/ Restart \/ \E t \in Txns : Receipt(t) \/ Handler(t)

Spec == Init /\ [][Next]_vars

-----------------------------------------------------------------------------
(* Properties.                                                              *)

Written == UNION {{written[t][k] : k \in 1..Len(written[t])} : t \in Txns}
Key(e) == <<e.impu, e.timestamp, e.id>>
Opening == {"BEGIN", "REJECTED"}

Times == Nat \cup {NoTime}
MaybeUser == Users \cup {NoUser}

TsxType == [outgoing : BOOLEAN, start_xml : Times, start_cassandra : Times,
            caller : MaybeUser, callee : MaybeUser, answerer : MaybeUser,
            stored_entry : BOOLEAN, unique_id : Nat, impu : MaybeUser,
            includes_initial : BOOLEAN]

TypeOK ==
  /\ pc \in [Txns -> PC]
  /\ method \in [Txns -> Methods \cup {"none"}]
  /\ req \in [Txns -> Initial \cup {NoRequest}]
  /\ dialogid \in [Txns -> dialogs \cup {Malformed, NoDialog}]
  /\ tsx \in [Txns -> TsxType]
  /\ rawtime \in [Txns -> Times]
  /\ tm.hi \in Nat /\ tm.lo \in 0..Radix - 1
  /\ dialogs \subseteq Nat \X Nat \X Users
  /\ clock \in 0..MaxTime
  /\ nextId \in Nat \ {NoId}
  /\ notRecorded \in Nat
  /\ \A e \in Written : e.impu \in MaybeUser /\ e.timestamp \in Nat /\ e.id \in Nat

(* Whatever responses a forked INVITE gets and in whichever order, and      *)
(* whatever becomes of the call, a transaction writes at most one fragment. *)
OneFragmentPerTransaction == \A t \in Txns : Len(written[t]) <= 1

(* Whatever time its handlers read, the END of a call has the key of the    *)
(* call: the IMPU, timestamp and id with which the transaction of its       *)
(* INVITE writes the BEGIN or REJECTED fragment.                            *)
EndMatchesOpening ==
  \A e \in Written : e.type = "END" =>
    \E t \in Txns :
      /\ tsx[t].includes_initial
      /\ Key(e) = <<tsx[t].impu, tsx[t].start_cassandra, tsx[t].unique_id>>
      /\ \A k \in 1..Len(written[t]) : Key(written[t][k]) = Key(e)

(* Two calls that joined their dialogs never share a key, even if the same  *)
(* subscriber makes them in the same second.                                *)
CallsKeptApart ==
  \A t, u \in Txns :
    \A j \in 1..Len(written[t]), k \in 1..Len(written[u]) :
      LET e == written[t][j]
          f == written[u][k] IN
      /\ e.type \in Opening /\ f.type \in Opening
      /\ e.id # NoId
      /\ Key(e) = Key(f)
      => t = u

-----------------------------------------------------------------------------
(* Refinement.                                                              *)

(* A torn struct tm may denote a time that has not come yet.                *)
CallNames == (0..MaxTime + Radix) \X (1..Cardinality(Txns))
CallKey(impu, timestamp, id) == [impu |-> impu, call |-> <<timestamp, id>>]

Joined == {CallKey(d[3], d[1], d[2]) : d \in dialogs}

InProgress ==
  {CallKey(tsx[t].impu, tsx[t].start_cassandra, tsx[t].unique_id) :
     t \in {u \in Txns : /\ tsx[u].includes_initial /\ tsx[u].unique_id # NoId
                         /\ written[u] = <<>> /\ pc[u] # "lost"}}

FragmentOf(e) ==
  [impu |-> e.impu, fragment |-> [call |-> <<e.timestamp, e.id>>, type |-> e.type]]

Asked == {FragmentOf(e) : e \in Written}

UnnamedEntries ==
  {FragmentOf([impu |-> NoUser, timestamp |-> s, id |-> NoId, type |-> type]) :
     s \in 0..MaxTime + Radix, type \in Opening}

Abstract == INSTANCE CallEntries
  WITH Impus <- Users, Calls <- CallNames, Unnamed <- UnnamedEntries,
       joined <- Joined, inProgress <- InProgress, asked <- Asked

(* However the handlers of different transactions interleave: a call gets a *)
(* key of its own, the transaction of its INVITE opens it at most once,     *)
(* under that key, and it is ended only under the key of a call that joined *)
(* its dialog before.                                                       *)
ImplementsCallEntries == Abstract!Spec

-----------------------------------------------------------------------------
(* What comments in the code say and the code does not do.                  *)

(* mementoappserver.h: both formatted start times are the start time of the *)
(* call.                                                                    *)
StartTimesAgree ==
  \A t \in Txns : pc[t] = "sent" => tsx[t].start_xml = tsx[t].start_cassandra

(* mementoappserver.cpp:209: the caller of an outgoing call is the          *)
(* P-Asserted-Identity or, where that is missing, the From header.          *)
OutgoingCallerRecorded ==
  \A t \in Txns : \A k \in 1..Len(written[t]) :
    LET e == written[t][k] IN
    e.type \in Opening /\ e.contents.outgoing =>
      e.contents.from = IF req[t].pai # NoUser THEN req[t].pai ELSE req[t].from

(* mementoappserver.cpp:469: no answerer is recorded where the Privacy      *)
(* header has the value "id".                                               *)
AnswererPrivacyKept ==
  [][\A t \in Txns, rsp \in Responses :
       OnAnswer(t, rsp) /\ "id" \in rsp.privacy => tsx'[t].answerer = NoUser]_vars
=============================================================================
