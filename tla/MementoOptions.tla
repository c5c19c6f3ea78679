--------------------------- MODULE MementoOptions ---------------------------
(***************************************************************************)
(* The options of the plugin: what MementoPlugin::load makes of the        *)
(* --plugin-option arguments Sprout was started with.                      *)
(*                                                                         *)
(* An options map gives each option its text.  The text of an integer      *)
(* option is the integer it is the decimal form of, or Unreadable for any  *)
(* other text: the code accepts a text only if atoi's result prints as the *)
(* same text.  An option that is not in the map is Absent.                 *)
(***************************************************************************)
EXTENDS Integers, Sequences

CONSTANTS Absent, Unreadable

ASSUME TextsAssumption == Absent \notin Int /\ Unreadable \notin Int

(* The options in the order in which load reads them.                       *)
OptionOrder ==
  <<"memento", "memento_prefix", "memento_uri", "memento_threads", "memento_notify_url",
    "cassandra", "call_list_ttl", "max_call_list_length", "cass_target_latency_us">>

OptionName == {OptionOrder[k] : k \in 1..Len(OptionOrder)}
StringOptions == {"memento_prefix", "memento_uri", "memento_notify_url", "cassandra"}
Required == {"memento"}

(* The variables of load, with their defaults.                              *)
Defaults ==
  [enabled |-> TRUE, memento |-> 0, memento_prefix |-> "memento", memento_uri |-> "",
   memento_threads |-> 25, memento_notify_url |-> "", cassandra |-> "localhost",
   call_list_ttl |-> 604800, max_call_list_length |-> 0, cass_target_latency_us |-> 1000000]

Readable(opts, name) ==
  opts[name] # Absent /\ (name \in StringOptions \/ opts[name] # Unreadable)

(* set_memento_opt_str and set_memento_opt_int.                             *)
SetOption(opts, s, name) ==
  IF ~ s.enabled THEN s
  ELSE IF Readable(opts, name) THEN [s EXCEPT ![name] = opts[name]]
  ELSE [s EXCEPT !.enabled = name \notin Required]

(* What load does besides reading: the port must not be negative, and the   *)
(* default URI is made of the prefix.                                       *)
AfterOption(s, name) ==
  CASE name = "memento"        -> [s EXCEPT !.enabled = @ /\ s.memento >= 0]
    [] name = "memento_prefix" -> [s EXCEPT !.memento_uri = <<"sip", s.memento_prefix>>]
    [] OTHER                   -> s

ReadOption(opts, s, name) == AfterOption(SetOption(opts, s, name), name)

(* The variables after the first k options, and after all of them.          *)
ReadOptions(opts) ==
  LET read[k \in 0..Len(OptionOrder)] ==
        IF k = 0 THEN Defaults ELSE ReadOption(opts, read[k - 1], OptionOrder[k])
  IN  read[Len(OptionOrder)]

(* Lists without a limit whose records never expire are refused.            *)
Settings(opts) ==
  LET s == ReadOptions(opts)
      unlimited == s.max_call_list_length = 0 /\ s.call_list_ttl = 0 IN
  [s EXCEPT !.enabled = @ /\ ~ unlimited]

-----------------------------------------------------------------------------
(* C's integer division, which rounds towards zero.                         *)
TruncatedDiv(a, b) == IF a >= 0 THEN a \div b ELSE - ((-a) \div b)

(* The divisor n of rand() in is_call_trim_needed, for any int: CheckInterval*)
(* of CallListTrim is its value for a natural number.                       *)
Divisor(length) == TruncatedDiv(length, 10) + IF length % 10 # 0 THEN 1 ELSE 0
=============================================================================
