--------------------------- MODULE MementoPlugin ---------------------------
(***************************************************************************)
(* MementoPlugin: load and unload, the objects they create and delete, and *)
(* the workers of the CallListStoreProcessor that use those objects while  *)
(* unload deletes them one after the other.                                *)
(***************************************************************************)
EXTENDS CallListStoreProcessor, MementoOptions, Functions

CONSTANTS
  OptionMaps,  (* The options Sprout may be started with.                   *)
  GoodUrls     (* The texts parse_http_url accepts and finds a server in.   *)

(* HttpNotifier's constructor makes a connection.                           *)
Attached(s) == s.memento_notify_url \in GoodUrls

(* An instance follows the loads whose options agree with the parameters of *)
(* its CallListStoreProcessor.                                              *)
ASSUME OptionMapsAssumption ==
  \A opts \in OptionMaps : Settings(opts).enabled =>
    /\ Settings(opts).max_call_list_length = MaxCallListLength
    /\ Settings(opts).memento_threads = Cardinality(Workers)
    /\ NotifierAttached <=> Attached(Settings(opts))

VARIABLES
  options,   (* The options this process was started with.                  *)
  phase,     (* How far the plugin's life has come.                         *)
  alive,     (* The objects that exist.                                     *)
  toDelete   (* The objects unload has still to delete, in order.           *)

pluginVars == <<options, phase, alive, toDelete>>
allVars == <<vars, pluginVars>>

-----------------------------------------------------------------------------
(* What the plugin and its application server have pointers to, and what    *)
(* only the sproutlet was given.                                            *)
PluginMembers ==
  {"cass_comm_monitor", "cass_resolver", "call_list_store", "memento", "sproutlet"}
AppServerMembers == {"load_monitor", "http_notifier", "processor"}
SnmpTables == {"incoming_sip_transactions_tbl", "outgoing_sip_transactions_tbl"}

Created == PluginMembers \cup AppServerMembers \cup SnmpTables

(* ~MementoAppServer.                                                       *)
DestroyAppServer == <<"load_monitor", "processor", "http_notifier">>

(* Mutant: the notifier goes before the processor.                          *)
UnloadOrder_NotifierFirst ==
  <<"sproutlet", "load_monitor", "http_notifier", "processor",
    "memento", "cass_resolver", "call_list_store", "cass_comm_monitor">>

(* Mutant: the store is forgotten.                                          *)
UnloadOrder_ForgetsStore ==
  <<"sproutlet">> \o DestroyAppServer \o <<"memento", "cass_resolver", "cass_comm_monitor">>

(* unload: the sproutlet first, so that no handler is called any more; the  *)
(* application server goes when its destructor has run.                     *)
UnloadOrder ==
  <<"sproutlet">> \o DestroyAppServer
    \o <<"memento", "cass_resolver", "call_list_store", "cass_comm_monitor">>

(* What the step a worker is about to take calls.                           *)
Uses(label) ==
  CASE label \in {"write", "check", "trim"} ->
         {"call_list_store", "cass_resolver", "cass_comm_monitor"}
    [] label = "notify" -> {"http_notifier"}
    [] label = "report" -> {"load_monitor"}
    [] OTHER            -> {}

-----------------------------------------------------------------------------
PluginInit ==
  /\ Init
  /\ options \in OptionMaps
  /\ phase = "new"
  /\ alive = {}
  /\ toDelete = <<>>

(* Mutant: the limits are compared before they have been read.              *)
Load_EarlyCheck ==
  /\ phase = "new"
  /\ phase' = "loaded"
  /\ alive' = IF ReadOptions(options).enabled THEN Created ELSE {}
  /\ UNCHANGED <<vars, options, toDelete>>

(* load: all or nothing.                                                    *)
Load ==
  /\ phase = "new"
  /\ phase' = "loaded"
  /\ alive' = IF Settings(options).enabled THEN Created ELSE {}
  /\ UNCHANGED <<vars, options, toDelete>>

(* A handler of the sproutlet writes an entry.                              *)
HandlerWrites(r, e) ==
  /\ "sproutlet" \in alive
  /\ WriteCallListEntry(r, e)
  /\ UNCHANGED pluginVars

(* The pointers of a plugin that was not enabled are still NULL.            *)
Unload ==
  /\ phase = "loaded"
  /\ phase' = "unloading"
  /\ toDelete' = IF alive = {} THEN <<>> ELSE UnloadOrder
  /\ UNCHANGED <<vars, options, alive>>

(* The object unload deletes next is gone.                                  *)
Deleted ==
  /\ alive' = alive \ {Head(toDelete)}
  /\ toDelete' = Tail(toDelete)
  /\ UNCHANGED <<options, phase>>

DeleteNext ==
  /\ phase = "unloading"
  /\ toDelete # <<>> /\ Head(toDelete) # "processor"
  /\ Deleted
  /\ UNCHANGED vars

(* ~CallListStoreProcessor waits for its threads.                           *)
StopProcessor ==
  /\ phase = "unloading"
  /\ toDelete # <<>> /\ Head(toDelete) = "processor"
  /\ Stop
  /\ UNCHANGED pluginVars

DeleteProcessor ==
  /\ phase = "unloading"
  /\ toDelete # <<>> /\ Head(toDelete) = "processor"
  /\ Join
  /\ Deleted

Unloaded ==
  /\ phase = "unloading"
  /\ toDelete = <<>>
  /\ phase' = "unloaded"
  /\ UNCHANGED <<vars, options, alive, toDelete>>

(* A worker calls an object that has been deleted: it may get away with it, *)
(* or take the process with it.                                             *)
Crash ==
  /\ phase = "unloading"
  /\ \E w \in Workers : ~ Uses(pc[w]) \subseteq alive
  /\ phase' = "crashed"
  /\ UNCHANGED <<vars, options, alive, toDelete>>

WorkerStep(w) ==
  /\ phase \in {"loaded", "unloading"}
  /\ Pop(w) \/ ProcessWork(w) \/ WorkerExit(w)
  /\ UNCHANGED pluginVars

WorkerThrows(w) ==
  /\ phase \in {"loaded", "unloading"}
  /\ Exception(w)
  /\ UNCHANGED pluginVars

UnloadStep == DeleteNext \/ StopProcessor \/ DeleteProcessor \/ Unloaded

PluginNext ==
  \/ Load
  \/ \E r \in Requests, e \in Entries : HandlerWrites(r, e)
  \/ \E w \in Workers : WorkerStep(w) \/ WorkerThrows(w)
  \/ Unload
  \/ UnloadStep
  \/ Crash

(* A running thread runs: each worker, and the one that called unload.      *)
(* Store calls and the POST return; join returns when the threads are gone. *)
PluginSpec ==
  /\ PluginInit
  /\ [][PluginNext]_allVars
  /\ \A w \in Workers : WF_allVars(WorkerStep(w))
  /\ WF_allVars(UnloadStep)

-----------------------------------------------------------------------------
(* Properties.                                                              *)

(* The variables have their types.  unload deletes objects that still exist,*)
(* each once, and all that load created but the two SNMP tables, which load *)
(* has handed to the sproutlet.                                             *)
ObjectsDeletedOnce ==
  /\ options \in OptionMaps
  /\ phase \in {"new", "loaded", "unloading", "unloaded", "crashed"}
  /\ alive \subseteq Created
  /\ IsInjective(toDelete)
  /\ Range(toDelete) \subseteq alive
  /\ phase \in {"unloading", "unloaded"} => alive \ Range(toDelete) \subseteq SnmpTables

(* While unload deletes one object after the other, no worker is about to   *)
(* use a store, a connection or a notifier that is gone: the destructor of  *)
(* the processor has waited for the worker before.                          *)
StoreAndNotifierOutliveWorkers ==
  \A w \in Workers : pc[w] \in Busy \ {"report"} => Uses(pc[w]) \subseteq alive

(* Whatever the options and their order of evaluation, the plugin never     *)
(* keeps lists that have neither a limit nor an expiry.                     *)
ListsAreBounded ==
  alive # {} => \/ options["max_call_list_length"] \notin {Absent, Unreadable, 0}
                \/ options["call_list_ttl"] # 0

(* While the plugin is loaded, every queued request is completed, or given  *)
(* up in an exception.                                                      *)
RequestsSettle ==
  \A r \in Requests :
    fate[r] = "queued" ~> fate[r] \in {"settled", "leaked"} \/ phase # "loaded"

(* unload returns, whatever the workers were doing and whatever is in the   *)
(* queue, unless a worker crashes the process on the way.                   *)
UnloadCompletes == phase = "unloading" ~> phase \in {"unloaded", "crashed"}

-----------------------------------------------------------------------------
(* What comments in the code say and the code does not do.                  *)

(* call_list_store_processor.h: what the pool is given is a pointer to the  *)
(* load monitor, to report completed requests to.                           *)
LoadMonitorOutlivesWorkers ==
  \A w \in Workers : pc[w] = "report" => "load_monitor" \in alive
=============================================================================
