---------------------- MODULE MCCallListStoreProcessor ----------------------
(* Instances of CallListStoreProcessor for TLC.                             *)
EXTENDS CallListStoreProcessor, TLC

CONSTANT i1

F(c, t) == [call |-> c, type |-> t]
E(i, c, t) == [impu |-> i, fragment |-> F(c, t)]

(* An old rejected call is stored; an answered and a rejected call follow.  *)
OneRejected == [i \in Impus |-> {F(1, "REJECTED")}]
AnsweredThenRejected == {E(i1, 2, "BEGIN"), E(i1, 2, "END"), E(i1, 3, "REJECTED")}

(* An answered call has ended; rejected ones follow.                        *)
OneAnswered == [i \in Impus |-> {F(1, "BEGIN"), F(1, "END")}]
ThreeMore == {E(i1, c, "REJECTED") : c \in 2..4}

Symm == Permutations(Workers) \cup Permutations(Requests)
=============================================================================
