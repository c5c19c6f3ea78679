----------------------------- MODULE CallEntries -----------------------------
(***************************************************************************)
(* What the handlers of MementoAppServerTsx promise of the call list       *)
(* entries they ask for, without transactions, headers, clocks and struct  *)
(* tm.  A call has a key - the subscriber in whose list it is recorded, and*)
(* its timestamp and id - that no other call has.  While the transaction   *)
(* of its INVITE lives, a call may be opened, once.  Whoever has the dialog*)
(* id may end it, as often as there are BYEs, even where Sprout has been   *)
(* restarted since: the key comes back in the Route header of the BYE.     *)
(***************************************************************************)

CONSTANTS
  Impus,    (* The subscribers.                                             *)
  Calls,    (* The (timestamp, id) pairs of calls.                          *)
  Unnamed   (* The entries without a key: they have no IMPU and no id.      *)

VARIABLES
  joined,      (* The keys of the calls that passed add_to_dialog.          *)
  inProgress,  (* The keys of those that are not opened yet.                *)
  asked        (* The entries write_call_list_entry was called with.        *)

-----------------------------------------------------------------------------
Key == [impu : Impus, call : Calls]
Outcomes == {"BEGIN", "REJECTED"}

EntryOf(k, type) == [impu |-> k.impu, fragment |-> [call |-> k.call, type |-> type]]

Init == joined = {} /\ inProgress = {} /\ asked = {}

(* Mutant: the call does not join its dialog.                               *)
Join_WithoutDialog(k) ==
  /\ k \notin joined
  /\ inProgress' = inProgress \cup {k}
  /\ UNCHANGED <<joined, asked>>

(* The INVITE of a new call.                                                *)
Join(k) ==
  /\ k \notin joined
  /\ joined' = joined \cup {k}
  /\ inProgress' = inProgress \cup {k}
  /\ UNCHANGED asked

(* Mutant: a later final response is recorded as well.                      *)
Open_Again(k, type) ==
  /\ k \in joined
  /\ asked' = asked \cup {EntryOf(k, type)}
  /\ UNCHANGED <<joined, inProgress>>

(* The first final response to it.                                          *)
Open(k, type) ==
  /\ k \in inProgress
  /\ inProgress' = inProgress \ {k}
  /\ asked' = asked \cup {EntryOf(k, type)}
  /\ UNCHANGED joined

(* The final response to an originating INVITE without an asserted identity.*)
OpenUnnamed(e) ==
  /\ e \in Unnamed
  /\ asked' = asked \cup {e}
  /\ UNCHANGED <<joined, inProgress>>

(* A BYE in the dialog of the call, of either end and at any time.          *)
End(k) ==
  /\ k \in joined
  /\ asked' = asked \cup {EntryOf(k, "END")}
  /\ UNCHANGED <<joined, inProgress>>

(* Sprout's transactions are lost; the dialogs of the calls are not.        *)
LoseTransactions == inProgress' = {} /\ UNCHANGED <<joined, asked>>

Next ==
  \/ \E k \in Key : Join(k) \/ End(k) \/ \E type \in Outcomes : Open(k, type)
  \/ \E e \in Unnamed : OpenUnnamed(e)
  \/ LoseTransactions

Spec == Init /\ [][Next]_<<joined, inProgress, asked>>
=============================================================================
