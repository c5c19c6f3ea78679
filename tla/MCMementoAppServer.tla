------------------------- MODULE MCMementoAppServer -------------------------
(* Instances of MementoAppServer for TLC.                                   *)
EXTENDS MementoAppServer, TLC

CONSTANTS alice, bob

Originated == [method |-> "INVITE", served |-> alice, sescase |-> "orig", orig_cdiv |-> FALSE,
               pai |-> alice, from |-> alice, to |-> bob, ruri |-> bob]
Anonymous  == [Originated EXCEPT !.pai = NoUser]

Response(code, privacy, pai) == [code |-> code, privacy |-> privacy, pai |-> pai]

OneInvite == {Originated}
MissingIdentity == {Anonymous}
EitherInvite == {Originated, Anonymous}

Trying == Response(180, {}, NoUser)
Answered == Response(200, {}, bob)
Rejected == Response(429, {}, NoUser)
Private == Response(200, {"id"}, bob)
PrivateUser == Response(200, {"id", "user"}, bob)

OneOfEach == {Trying, Answered, Rejected}
PrivateAnswers == {Private, PrivateUser}

Symm == Permutations(Txns)
=============================================================================
