-------------------------- MODULE MCMementoSystem --------------------------
(* Instances of MementoSystem for TLC.                                      *)
EXTENDS MementoSystem, TLC

CONSTANTS alice, bob, carol

(* The INVITE that bob receives, the one that bob diverts to carol, and a   *)
(* BYE of alice that is in no dialog.                                       *)
Terminated == [method |-> "INVITE", served |-> bob, sescase |-> "term", orig_cdiv |-> FALSE,
               pai |-> alice, from |-> alice, to |-> bob, ruri |-> bob]
Diverted == [Terminated EXCEPT !.orig_cdiv = TRUE, !.ruri = carol]
Stray == [Terminated EXCEPT !.method = "BYE", !.served = alice, !.sescase = "orig"]
Rejected == [code |-> 429, privacy |-> {}, pai |-> NoUser]
Answered == [code |-> 200, privacy |-> {}, pai |-> bob]

InitialRequests == {Terminated, Diverted, Stray}
Finals == {Answered, Rejected}

(* Call 0 is an old one; the new ones follow by their timestamps and ids.   *)
Numbers == [c \in CallPairs |-> 1 + c[1] * (Cardinality(Txns) + 1) + c[2]]
AllCalls == 0..(MaxTime + Radix + 1) * (Cardinality(Txns) + 1)
OneOldCall == [i \in MaybeUser |-> IF i = alice THEN {[call |-> 0, type |-> "REJECTED"]} ELSE {}]

Symm == Permutations(Txns) \cup Permutations(Requests)
=============================================================================
