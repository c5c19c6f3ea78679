-------------------------- MODULE MCMementoOptions --------------------------
(* The options one by one: Sprout is started with one option map, then with *)
(* another one that differs in one option.                                  *)
EXTENDS MementoOptions

VARIABLE options

Values(name) ==
  IF name \in StringOptions THEN {Absent, "text"} ELSE {Absent, Unreadable, -11, 0, 11}

Init == options = [name \in OptionName |-> Absent]
Next == \E name \in OptionName : \E value \in Values(name) :
          options' = [options EXCEPT ![name] = value]

Spec == Init /\ [][Next]_options

(* call_list_store_processor.cpp:193: with a limit, trimming is checked for *)
(* one in n calls, whatever options the plugin was enabled with.            *)
OneInSomeCallsIsChecked ==
  LET s == Settings(options) IN
  s.enabled /\ s.max_call_list_length # 0 => Divisor(s.max_call_list_length) > 0
=============================================================================
