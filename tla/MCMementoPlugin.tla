--------------------------- MODULE MCMementoPlugin ---------------------------
(* Instances of MementoPlugin for TLC.                                      *)
EXTENDS MementoPlugin, TLC

CONSTANT i1

F(c, t) == [call |-> c, type |-> t]

(* Twelve calls are stored, the second one answered and ended.              *)
TwelveCalls ==
  [i \in Impus |->
     {F(c, "REJECTED") : c \in 1..12 \ {2}} \cup {F(2, "BEGIN"), F(2, "END")}]
ThirteenthCall == {[impu |-> i1, fragment |-> F(13, "REJECTED")]}

(* The options that are given, and all others absent.                       *)
Given(o) == o @@ [name \in OptionName |-> Absent]

Usual == [memento |-> 5055, memento_threads |-> 2, max_call_list_length |-> 11]

Url == [memento_notify_url |-> "http:///no_server"]
NoTtl == [call_list_ttl |-> 0]

Limited == {Given(Url @@ Usual), Given(NoTtl @@ Usual)}
Refused == {Given([memento_threads |-> 2]),
            Given([memento |-> Unreadable] @@ Usual),
            Given([memento |-> -1] @@ Usual),
            Given([max_call_list_length |-> Unreadable] @@ NoTtl @@ Usual)}
SomeOptions == Limited \cup Refused
OneEnabled == {Given(Usual)}
=============================================================================
