# Memento call lists in TLA+

A verification project for `memento-as`, the Sprout plugin that records the calls of
IMS subscribers ("records details of all calls made or received by a subscriber",
`src/README.md`) in Cassandra call lists. The modules are translated from the C++ under
`src/src` and `src/include`; paths below are relative to `src/src` unless they say otherwise.

1. [Inventory](#1-inventory)
2. [Plan](#2-plan)
3. [Modules and the code](#3-modules-and-the-code)
4. [Runs, properties and bounds](#4-runs-properties-and-bounds)
5. [Fairness](#5-fairness)
6. [Proofs](#6-proofs)
7. [Where the code and its comments disagree](#7-where-the-code-and-its-comments-disagree)
8. [What is not modelled](#8-what-is-not-modelled)
9. [Running the checks](#9-running-the-checks)

## 1. Inventory

### Components

| Component | Source | State | Operations |
|---|---|---|---|
| `MementoAppServer` | `mementoappserver.cpp` | overload counter, the components it owns | constructor, destructor, `get_app_tsx` |
| `MementoAppServerTsx` | `mementoappserver.cpp` | per transaction: parties, start times, `_unique_id`, `_impu`, `_stored_entry`, `_includes_initial_request` | `on_initial_request`, `on_in_dialog_request`, `on_response` |
| `CallListStoreProcessor` | `call_list_store_processor.cpp` | pool of threads, queue of `CallListRequest*`, two statistics | `write_call_list_entry`, `process_work`, `is_call_trim_needed`, `perform_call_trim`, `exception_callback`, destructor |
| `HttpNotifier` | `httpnotifier.cpp` | HTTP connection or NULL | `send_notify` |
| `MementoPlugin` | `mementoasplugin.cpp` | options, the objects it creates | `load`, `unload` |
| Thread pool, load monitor, Sproutlet framework, unique ids | submodules, not in the tree | queue and threads; tokens; - ; counter | external |
| Call list store | submodule, not in the tree | a Cassandra row of fragments per subscriber | external |

### Interaction

Sprout calls `get_app_tsx` for every request of a subscriber the plugin is invoked for. An
INVITE needs a token from the load monitor; an INVITE or BYE gets a transaction object. The
initial INVITE's transaction determines whose list the call belongs to, formats the start
time and puts `<time>_<id>_<base64 IMPU>` into the dialog (`add_to_dialog`). On the first
final response it hands a `BEGIN` or `REJECTED` fragment to the processor; the BYE's
transaction, a different object and possibly a different thread, rebuilds the key from the
dialog id and hands over an `END`. `write_call_list_entry` only queues a raw pointer. A pool
thread takes it, writes the fragment, may read the whole list and delete the oldest records,
POSTs a notification, reports to the load monitor and deletes the request.

### Behaviours that are hard, and what correctness means

* **Several workers, one list.** A worker reads a list, decides, and deletes later; others
  write, read and delete in between. Deleting must never lose a call that is among the newest
  `max_call_list_length`, whatever interleaves or fails (`RecordsKept`, `PendingTrimsSafe`).
* **Counting calls, indexing fragments.** The number of records to delete is a number of
  calls, applied to a vector of fragments. The loop must stay in the vector
  (`TrimTakesVectorPrefix`), a trim takes fewer calls than it should (`TrimLeavesMaxPlusEnds`,
  `TrimBringsBelowThreshold`), and since only some writes lead to one, trims must keep pace with a list
  under load (`TrimsKeepPace`).
* **Raw pointers across threads.** Each request has one owner, is deleted at most once, and is
  left behind only where an exception skips its deletion (`RequestOwnership`).
* **Failure without retry.** Store errors, exceptions in a worker, a restart with requests in
  memory: what is recorded stays intact, the pool goes on, the listener still hears of
  each acknowledged change, and every entry a handler asked for is accounted for
  (`ChangesNotified`, `RequestsSettle`, `EntriesAccountedFor`).
* **Out of order.** The pool may write a call's END before its BEGIN, a BYE may come before the
  final response, from both ends, or after Sprout was restarted: a call still has one
  outcome and is counted as failed at most once (`CallHasOneOutcome`,
  `FailedCallsCountedOnce`).
* **Unloading** deletes eight objects one by one while workers are idle, busy, or facing a
  queue (`ObjectsDeletedOnce`, `UnloadCompletes`, `StoreAndNotifierOutliveWorkers`, `LoadMonitorOutlivesWorkers`).
* **Options.** Nine options, each with a default, a text that may not be readable, and
  refusals that depend on two of them (`ListsAreBounded`, `OneInSomeCallsIsChecked`).
* **Two transactions, one call.** The END must find the key of its call, though each handler
  formats its times from the one `struct tm` all threads share (`EndMatchesOpening`).
* **Forking and retransmission.** Only one final response is recorded
  (`OneFragmentPerTransaction`).
* **One-second timestamps.** Calls of the same second stay apart (`CallsKeptApart`).
* **Whose list.** Originating, terminating and diverted calls: what Cassandra ends up with, long
  after the transaction or the process that asked for it is gone, is of the right list and
  call (`ListsHoldOwnCalls`). Missing headers (`OutgoingCallerRecorded`).

The hazards with their lines are in `PROJECT.json`; the two that have no property say why.

## 2. Plan

Done, in this order:

1. `CallListTrim` - the selection rule, a pure part both the model and the proofs use.
2. `CallListStoreProcessor` - the concurrent core.
3. `MementoAppServer` - the handlers.
4. `CallListTrimProofs`, `CallListStoreProcessorProofs`.
5. `CallList` and `CallEntries`, the abstract specifications of the processor and of the
   handlers, and the two refinements.
6. `Memento`, the handlers and the processor together, and `MementoProofs`.
7. `MementoOptions`, `MementoPlugin` - option values, load, unload, deletion order.
8. `MementoAppServerProofs` and `MementoAppServerRefinement` - the handlers' invariants and the
   simulation of `CallEntries`.
9. `MCCallListTrimProofs`, `MementoPluginProofs`, and `FailedCallsCountedOnce` in `MementoProofs`.
10. The restart of Sprout in `MementoAppServer`, and `MementoSystem`, the detailed handlers with the
    detailed processor, which implements `Memento`; `MementoSystemProofs`.

The modules depend on each other like this:

    MementoAppServer --implements--> CallEntries --composed in--> Memento
            |                                                    ^      ^
            +-- extended by MementoSystem --------implements-----+      |
                                                                        |
    CallListStoreProcessor --implements--> CallList                     |
            |  |                                                        |
            |  +----------------------- extended by --------------------+
            +--- extended by MementoPlugin (with MementoOptions)
    CallListTrim is extended by CallListStoreProcessor and by CallList.

Every safety property of a passing run is now a theorem. What could still be added: a model of TTL
expiry as one more action of the store, and the plugin's life around `MementoSystem` instead of the
processor alone.

## 3. Modules and the code

### `CallListTrim`

A list is a set of fragments `[call, type]`. A call is a number standing for the pair
(timestamp, id) in the order the store sorts those pairs; within a call, `BEGIN < END <
REJECTED`. The index of a fragment in the vector `get_call_fragments_sync` returns is thus
the number of fragments before it (`IndexOf`). `TrimNeeded`, `NumToDelete` and
`RecordsToDelete` are lines 227-251 of `call_list_store_processor.cpp`; the comparison
`count > _max_call_list_length * 1.1` is written in integers (`10 * count > 11 * max`), which
agrees with it for every length: the double next to 1.1 lies above 1.1, and where `1.1 * max`
is an integer the product rounds to that integer or above it, so no count equal to it passes.
`CheckInterval` is the divisor of `rand()`. No action uses it: whether a write is followed by a
reading of the list is a nondeterministic choice (`NoTrim`, `ReadForTrim`), for every length. It says how
many writes there are, on average, between two readings, which `TrimsKeepPace` compares with what a
trim deletes.

`MCCallListTrim` puts the rule to work on one list: `Record` is a write that no trim follows (the
list was not sampled or not too long, or the read or the deletion failed), `RecordAndTrim` one
that a trim follows. What other workers do in between is in `CallListStoreProcessor`.

### `CallListStoreProcessor`

| Variable | Code |
|---|---|
| `queue`, `pool` | the thread pool's queue; running, stopped, joined |
| `entry` | the contents of each `CallListRequest`; `NoEntry` before it is allocated and once it is deleted |
| `pc`, `clr`, `cassTimestamp`, `recordsToDelete` | a thread's place in `process_work` and its locals |
| `live`, `stamp` | the Cassandra row: what a read returns, and the timestamp of the last write or deletion of each column |
| `clock` | `generate_timestamp` |
| `stats` | `_stat_completed_calls_recorded`, `_stat_failed_calls_recorded` |
| `fate`, `owed`, `excused` | history variables, read by no action's guard except `fate` for "this object has not been allocated" |
| `restarts` | counts restarts against `MaxRestarts` |

`process_work` is split where other threads can see or change something:
`Pop`, `GenerateTimestamp`, `WriteOK`/`WriteError`, `NoTrim`/`ReadForTrim`,
`TrimOK`/`TrimError`, `Notify`, `RequestComplete`. `Exception` may strike at any of them: the thread
goes back to the pool, and since `delete clr` is skipped and `exception_callback` does nothing, the
request object stays allocated with nobody holding it (`fate` is `"leaked"`, its `entry` remains).
`NoTrim` is `is_call_trim_needed` returning false without counting: no limit, a call that is not
sampled, or a failed read. The count and the read are one action because the vector is local after the read.
The deletion uses the timestamp taken before the write, as the code does (the `++` in
`perform_call_trim` is a post-increment of a by-value argument).

External behaviour: the pool is a FIFO whose `stop` makes each worker leave after its current
request; a Cassandra column keeps the later timestamp and a deletion wins a tie; a failed
operation may have been applied, a failed deletion in part; after a restart only the row
is left.

### `MementoAppServer`

| Variable | Code |
|---|---|
| `pc`, `method`, `req`, `dialogid` | each transaction: next step of its handler, and what it was called with |
| `tsx` | the members of `MementoAppServerTsx` |
| `rawtime`, `tm` | `rawtime`/`currenttime` of each handler; the static `struct tm` |
| `dialogs` | dialog ids passed to `add_to_dialog` |
| `written` | calls of `write_call_list_entry` |
| `clock`, `nextId`, `notRecorded` | time of day, `generate_unique_integer`, the overload statistic |

Handlers of one transaction are sequential; handlers of different transactions interleave at
their uses of the shared `struct tm`: `LocaltimeStart`/`LocaltimeEnd` fill it in two parts, in
either order, and `FormatStartXml`, `FormatStartCassandra`, `StoreEnd`, `StoreBegin` read it.
The race is undefined behaviour in C++, and the model gives it the outcomes a build of this
code can produce: the reader sees the parts as they are at that time. `on_response` has three outcomes:
`OnRejection`, `OnAnswer` followed by `StoreBegin`, or nothing at all for responses that
`ActsOn` excludes (those are forwarded and leave no state, hence no action).

Data: a header is a URI or `NoUser`, a dialog id is the triple it encodes
(`split_string` recovers it since none of the parts contains `_`), XML is the record of its elements, and a
response is its class of code, the set of its Privacy values and its asserted identity.

`Restart` is the end of the Sprout process and its next start: every transaction that had begun is
`lost` and none of its handlers runs again; what it wrote and the dialog ids of its calls remain,
since the Route headers hold them, and a BYE may still come with one. The struct `tm` and the
statistic start afresh. Ids made after a restart are still new.

### `CallList` and `CallEntries`

`CallList` is what the processor promises of the lists: `Ask` and `Record` an entry, `Settle`
entries (recorded or not), and `GiveUp` records that are `Expendable`, i.e. older than
`MaxCallListLength` calls *of the list as it is at that moment*. It knows no queue, thread,
timestamp or failure. `ImplementsCallList` maps `list` to `live` and `pending` to the entries
of the requests that are queued or being processed. That a worker selects from an outdated
reading, deletes with an old timestamp, and may do so only in part, is invisible at that level.

`CallEntries` is what the handlers promise of the entries they ask for: a call `Join`s its
dialog under a key no other call has, is `Open`ed at most once while its transaction lives,
and may be `End`ed by any BYE of the dialog. `ImplementsCallEntries` maps `joined` to
`dialogs`, `inProgress` to the transactions that joined and have written nothing, and
`asked` to `written`. (`lost` transactions are no longer in progress.) The entries of `missing_identity` (section 7) have no key:
`OpenUnnamed`. `LoseTransactions` is the restart of Sprout; the keys survive it in the
Route headers of the phones.

### `Memento`

`Memento` EXTENDS the processor and takes the handlers as `CallEntries`: `HandlerOpens` and
`HandlerEnds` are the abstract step joined with `WriteCallListEntry`, since
`write_call_list_entry` is the one call between the two. `SproutRestarts` restarts both.
`lost` is a history variable: the entries whose write was reported as failed, or was never
attempted because of an exception or a restart. Shutdown is left to `MementoPlugin`.
`WriteEntry`, `Work` and `LoseWork` are the processor's part of the three kinds of steps.

### `MementoSystem`

`MementoSystem` EXTENDS `MementoAppServer`, i.e. has the handlers in full detail, and takes the
processor's actions from an instance `P` of `Memento` whose three abstract variables are computed
from the handlers' state (as in `ImplementsCallEntries`). `ServerStep` is a step of a handler; if
that step calls `write_call_list_entry`, it is also `P!WriteEntry` of just this entry. `SystemRestart`
restarts both sides at once. Two conversions lie between them: `CallNumber` gives each (timestamp, id) pair its
place in the order in which Cassandra sorts the columns, so that `CallListTrim` can compare calls,
and `CallListEntry` turns what a handler writes into what the processor stores. The only thing
assumed of `CallNumber` is that different pairs have different numbers and that the timestamp comes
first. The entries of `missing_identity` have a number, too, and the empty IMPU as their list.
`ImplementsMemento` is `P!MementoSpec`.

### `MementoOptions` and `MementoPlugin`

`MementoOptions` is `load` up to line 250: `ReadOptions` applies `ReadOption` to the options one
after the other in the order they are read. A text is the integer that it is the decimal form of, or `Unreadable`:
`set_memento_opt_int` accepts a text only if printing what `atoi` made of it gives the text
again. `Settings(opts)` is the result, `enabled` included.

`MementoPlugin` EXTENDS the processor with the life of the plugin. `alive` is the set of objects
that exist. `Load` makes it `Created`: the members of the plugin (`PluginMembers`), those of the
application server (`AppServerMembers`) and the two SNMP tables it passes to the sproutlet
(`SnmpTables`). `toDelete` is what `unload` has still to delete, from its own list of
`delete` statements with the destructor of `MementoAppServer` spliced in (`UnloadOrder`), which is written
down independently of `Created`. Nothing in this repository deletes the SNMP tables; whether the
sproutlet does is not to be seen here. While one object is deleted the workers go on;
deleting the processor is `StopProcessor` followed by `DeleteProcessor`, which waits for the
threads. `Uses` says which objects the next step of a worker calls. A call of a deleted
object is undefined: the worker may get away with it (its ordinary step) or take the process
down (`Crash`).

## 4. Runs, properties and bounds

| Run | Instance | What it shows |
|---|---|---|
| `trim_rule` | all 4096 lists of 4 calls, limit 2 | the rule selects exactly the vector's prefix, keeps the newest calls, leaves limit + (ENDs taken) calls (`TrimTakesVectorPrefix`, `TrimKeepsNewestCalls`, `TrimLeavesMaxPlusEnds`); whatever is written, a trim deletes as many records as come between two readings (`TrimsKeepPace`) |
| `processor_safety` | 2 workers, 3 requests, 1 list, 3 calls, limit 1, 1 restart | `TypeOK`, `RequestOwnership`, `PendingTrimsSafe`, `RecordsKept`, `ChangesNotified`, `ImplementsCallList` |
| `appserver_calls` | 3 transactions, INVITEs with and without an asserted identity, 3 responses, 2 clock values | `TypeOK`, `OneFragmentPerTransaction`, `EndMatchesOpening`, `CallsKeptApart`, `ImplementsCallEntries` |
| `memento_calls` | 2 calls, 2 workers, 3 requests, limit 1, 1 restart | `MementoTypeOK`, `EntriesAccountedFor`, `CallHasOneOutcome`, `FailedCallsCountedOnce` |
| `memento_system` | 2 transactions, a terminating and a diverted INVITE and a stray BYE, 2 responses, 2 clock values, 1 worker, 2 requests, limit 1, 1 old call, 1 restart | `ListsHoldOwnCalls`, `ImplementsMemento` |
| `plugin_lifecycle` | 6 option maps (2 accepted), 12 calls stored, limit 11, 2 workers, 2 requests for a 13th call, no usable notify URL | `ObjectsDeletedOnce`, `StoreAndNotifierOutliveWorkers`, `ListsAreBounded`, `RecordsKept`, `RequestsSettle`, `UnloadCompletes` |
| `trim_threshold`, `start_time_race`, `missing_identity`, `privacy`, `unload_order`, `negative_length` | small | each finds a counterexample, see section 7 |

Bounds:

* `Workers`: two are enough for every race of one worker's read-then-delete with another;
  the theorems cover any number.
* `Requests`: three let one worker trim, a second trim from a stale selection, and a third
  write arrive in between. With limit 1 the first write already makes the list trimmable. In
  `memento_calls` three are an opening and an END of one call and the opening of another,
  or a call opened and ended from both sides.
* `Calls`, `Entries`, `StoredBefore`: in `processor_safety` an old rejected call is stored; an
  answered call with its END and a newer rejected call follow in any order and may repeat, so
  ENDs, overwriting and writes of a call older than what is stored all occur.
* `MaxCallListLength`: 1 makes every trim matter; with 11, in `plugin_lifecycle`, 12 calls are still
  within the threshold and 13 are not, so the fraction in 110% decides and a trim takes two
  records at once. The case 0 (no limit) is covered by the theorem `NewestCallsKept`,
  whose conclusion says that nothing is deleted then.
* `MaxRestarts = 1`: a second restart meets the same states as the first.
* `OptionMaps`: one map for each reason to refuse (no required option, an unreadable one, a
  negative port, no limit and no expiry) and two that are accepted. `negative_length` starts
  from absent options and changes one at a time without end: every combination of the values
  `Absent`, `Unreadable`, -11, 0 and 11.
* `MaxTime`, `Radix`: the clock starts in the last second before the high part of the time
  changes (`Radix - 1`) and ticks once. `start_time_race` has times of two parts, so torn ones occur; in
  `appserver_calls` and `memento_system` a time has one part, and handlers read each other's times, but
  whole. The theorems hold for every `Radix`.
* `Txns`: three transactions are an INVITE and a BYE of one call, raced by the INVITE of another.
  `memento_system` has two, an INVITE and its BYE or two INVITEs, with one worker: what
  several workers do to each other is in `memento_calls` and `processor_safety`, and this run
  is about what a handler's step becomes in the store.
* `CallNumber` in `memento_system`: `1 + timestamp * (number of transactions + 1) + id`; 0 is the
  call stored before.

Transactions, workers and requests are symmetric; the runs without temporal properties use that
symmetry, and so do `processor_safety`, `appserver_calls` and `memento_system`, whose refinement
property speaks of an initial condition and of steps only and whose mapping is symmetric.
`plugin_lifecycle` does not use it.

Deadlock checking is off: an unloaded plugin, transactions that have all ended and requests that
have all been used are final states of the instances.

The safety properties of these runs are also theorems for every value of the constants (section 6);
there the runs show that the instances exercise what the theorems speak of.

Each property has a mutant of the code's translation that breaks it (`PROJECT.json`,
"mutants"; the mutated operators stand next to the originals), e.g. a selection with `<=`
for `<`, a trim that returns without notifying, a dialog id built from the other start time, a
notifier deleted before the workers have been joined.

## 5. Fairness

`PluginSpec` assumes weak fairness of each worker's own steps (`WorkerStep`: `Pop`, the steps of
`process_work`, `WorkerExit`) and of the thread that executes `unload` (`UnloadStep`). A running
thread is scheduled, the synchronous store calls and the POST return (they have timeouts; their
failure is an outcome), and `join` returns when the threads have ended. Nothing is assumed of
arriving requests, of `Load` and the start of `Unload`, or of exceptions.
Fairness is per worker, so a single worker may not starve. `RequestsSettle` makes no
promise once `unload` has begun: what is queued then is dropped, which is what the code does.
`UnloadCompletes` excepts a crash, which `unload_order` shows to be possible. The other
specifications state no fairness, and their properties are safety properties.

## 6. Proofs

Proved by TLAPS for every value of the constants under the named assumptions of the modules, all
of which are evaluated in the runs. They say what the constants are, and little else:

* `CallsAssumption`, `MaxLengthAssumption`, `EntriesAssumption`, `RequestsAssumption`,
  `StoredAssumption`, `RestartsAssumption`, `NotifierAssumption`: the types of the processor's
  constants; lists are finite to begin with.
* `InitialAssumption`, `ResponsesAssumption`, `TimeAssumption`, `NoUserAssumption`,
  `NoRequestAssumption`: the types of the handlers' constants. `TxnsAssumption`, finitely many
  transactions, is used by the refinement only, where the calls' names are numbers up to the
  number of transactions.
* `NewCallsAssumption`: the calls made while Sprout runs have keys that nothing stored before has.
* `TextsAssumption`, `OptionMapsAssumption`: an absent or unreadable option is no integer; the
  processor's constants are those the accepted options give it.
* `CallNumberAssumption`, `ProcessorAssumption`, `StoredBeforeAssumption`: the conversion between
  handlers and processor and the types of the processor's constants in `MementoSystem`, where they
  take the place of the processor's own assumptions, which follow from them (`ProcessorAssumptions`).
* `ListAssumption`: finitely many calls in `MCCallListTrim`, which starts from any set of fragments.

### The rule: `CallListTrimProofs`, `MCCallListTrimProofs`

* `SelectedHaveNewerCalls`: each record `RecordsToDelete` selects from a finite list has at
  least `MaxCallListLength` newer calls in it. The record's index is below
  `count - max`, so fewer than that many calls precede it.
* `DeletionKeepsNewerCalls`: removing any set of records that each have `n` newer calls
  leaves `n` newer calls to every fragment that had them. For a fragment that loses a newer
  call, take the *newest* call removed: it has `n` newer calls, none of which is removed, and they
  are newer than the fragment too. This is why overlapping trims from
  stale selections do not add up to a loss.
* `SelectsTheSurplus`, `TrimTakesPrefixOfVector`, `CallsLeftByTrim`: `IndexOf` is a bijection
  between the records and the indices of the vector (`IndexBijection`), so exactly
  `num_to_delete` records are selected; they are the first ones of *any* vector that holds the list in the
  store's order; and the calls left are the limit and one for each END selected.
  `TrimSufficesIfFewEnds` concludes when one trim is enough to get below the threshold.
* `TrimsLeaveMaxPlusEnds`, `TrimsKeepNewestCalls`: the same as invariants of the specification
  `trim_rule` checks, in which a list is written and trimmed.
* `TrimsTakeVectorPrefix`: `Spec => []TrimTakesVectorPrefix`, where the vector is the sorted one
  that `Records` builds by taking the earliest fragment again and again. That the recursive
  function has the value it is meant to have is shown without induction over data: of the lengths at
  which it went wrong there would be a least one, and `Earliest` of what is left there leads to a
  contradiction. That the rest of the claim does not depend on how the vector was
  sorted is `TrimTakesPrefixOfVector`.
* `TrimsKeepPaceAlways`: `Spec => TrimsKeepPace`. A list over 110% of the limit has at least a tenth of
  the limit, rounded up, too many calls, and by `SelectsTheSurplus` so many *records* go, whatever
  their type. This is `CheckInterval`, the number of writes between two readings on average. The list may
  be over the threshold after a trim, but in the long run it does not grow.

### The processor: `CallListStoreProcessorProofs`

* `ProcessorTypeCorrect` and `RequestsOwned`: `Spec => []TypeOK`, `Spec => []RequestOwnership`.
  Ownership alone is not inductive: `OwnInv` adds `HeldRequests`, which ties a worker's place in
  `process_work` to whether it holds a request. The objects that exist and that nobody holds are just
  those of the requests given up in an exception.
* `SelectionsStaySafe` and `NewestCallsKept`: `Spec => []PendingTrimsSafe`, `Spec =>
  []RecordsKept`. The invariant is `KeptInv == OwnInv /\ FiniteLists /\ PendingTrimsSafe /\
  RecordsKept`. `RecordsKept` needs `PendingTrimsSafe` (a deletion removes only what is safe at
  that moment), which is kept by other workers' deletions through `DeletionKeepsNewerCalls` and by
  writes because they only add; cardinalities need the lists to be finite.
* `ChangesStayNotified`: `Spec => []ChangesNotified`, from `NotifyInv == OwnInv /\
  ChangesNotified`: the step that acknowledges a change puts its worker on the way to
  `Notify`, and ownership keeps others from deleting the entry that names the list.
* `ProcessorImplementsCallList`: `Spec => ImplementsCallList`. Initial states map to initial
  states; `RefinementStep` shows that under `KeptInv` each action is a step of `CallList` or
  leaves `live` and `Pending` alone: a write is a `Record` because the worker still holds its
  request (`BusyEntry`), a deletion is a `GiveUp` because of `PendingTrimsSafe`, and a request that
  is completed or given up settles its entry (`InPool` no longer has it).

### The handlers: `MementoAppServerProofs`, `MementoAppServerRefinement`

* `ServerInvariant`: `Spec => []ServerInv`, with `ServerInv` made of
  * `VarTypes`, the types of the variables. A torn `struct tm` still has parts in range (`TmOK`),
    so what is formatted from it is a time, if perhaps one that never was.
  * `TxnInv`: how the members of a transaction depend on the place its handler has reached, e.g.
    that the key is complete before `add_to_dialog` and unchanged after it, and that a fragment of
    the opening carries just this key. Without it nothing ties `written` to `tsx`.
  * `DialogsTraced`: each dialog id is the key of the transaction of an INVITE; a BYE
    has nothing else to find its call by.
  * `IdsDistinct`: ids of different transactions differ and are below the next one.

  A restart takes every transaction that began to `lost`, for which `TxnInv` asks only what history
  needs: keys and fragments stay as they were. A second clause says that a transaction without a key writes only once its final
  response is there.

  Handlers interleave, but a step of one leaves the members of the others alone (`OnlyOf`); all steps except
  `JoinDialog` are moreover `Quiet`, i.e. make no new dialog, and one lemma carries the invariant over all of these.
* From it `ServerTypeCorrect`, `FragmentsWrittenOnce`, `EndsMatchOpenings`, `CallsHaveOwnKeys`:
  `[]TypeOK`, `[]OneFragmentPerTransaction`, `[]EndMatchesOpening`, `[]CallsKeptApart`.
* `HandlersImplementCallEntries`: `Spec => ImplementsCallEntries`. `JoinDialog` is a `Join`, the
  step that writes a `BEGIN` or `REJECTED` an `Open` (or `OpenUnnamed` if the call has no
  key), the one that writes an `END` an `End`, `Restart` is `LoseTransactions`, and every other step leaves the three abstract
  variables alone. That the key of a `Join` is new to the abstract call list follows from
  `IdsDistinct`; that it is a key at all needs `IdsCounted`, `nextId` being one more than the
  number of transactions that joined, since the abstract names are numbered.

### Both together: `MementoProofs`

* `MementoRunsProcessor`: `MementoSpec => Spec`. Each step of the whole is a step of the
  processor or none, so the theorems about it hold in the composition.
* `EntriesStayAccountedFor`: `MementoSpec => []EntriesAccountedFor`. The invariant `AccountInv`
  adds to `KeptInv` that a worker past its write has an entry that is `Settled` - in the list,
  lost, or older than enough calls - so that deleting the request loses nothing. What is
  settled stays so, because every step is one of `CallList` (`SettledKept`, from
  `RefinementStep`). The interesting case is a write that Cassandra ignores because a
  deletion is as recent (`WrittenSettled`): the positive timestamp shows that the record was
  stored before, and `RecordsKept` that it went for newer calls.
* `CallsHaveOneOutcome`: `MementoSpec => []CallHasOneOutcome`. `OpenedOnce` speaks of the
  handlers alone: an opening was asked for only of a call no longer in progress, and not two
  different ones. `Traced` carries it to the store: the pool, the lists, the tombstones and the workers'
  selections hold, of the calls made meanwhile, only what was asked for.
* `FailedCallsCounted`: `MementoSpec => []FailedCallsCountedOnce`, that the statistic is at most
  the number of rejected calls in Cassandra (or once there). `CountInv` adds to the invariants
  above what makes each counted write one that enlarges the set of those calls, `Recorded`: a rejection is
  in the pool at most once and, while it waits for its write, is not stored and never was
  (`RejectedOnce`); what is in a list or was selected by a trim has the timestamp of its write
  (`LiveStamped`), so no trim can put a tombstone in front of a write still to come. `Recorded` only
  grows and is finite, because what was asked for is (`AskedForCalls`).
* `MementoTypeCorrect`: `MementoSpec => []MementoTypeOK`, which needs `Traced`: what the pool
  holds or has lost is what a handler asked for.

These hold of the handlers as `CallEntries` describes them, which `HandlersImplementCallEntries`
proves of the detailed ones.

### All in detail: `MementoSystemProofs`

The module proves nothing about either side again. It instantiates the proofs of `Memento`
(`Proved`) with what the handlers make of its variables and shows that each step of the system is a
step of the specifications that they are about.

* `SystemRunsServer`, `SystemRunsProcessor`: `SystemSpec => Spec` of the handlers and
  `SystemSpec => Proved!Spec` of the processor. Hence all the theorems above about one side hold in the whole.
* `SystemAccountsForEntries`: `SystemSpec => []P!EntriesAccountedFor`, for any entries the
  handlers write, those without a key included.
* `SystemImplementsMemento`: `SystemSpec => ImplementsMemento`, and from it `SystemKeepsOutcomes`,
  i.e. `P!CallHasOneOutcome` and `P!FailedCallsCountedOnce` for the detailed system. Both are stated
  under `IdentitiesAsserted`: originating INVITEs and BYEs carry a P-Asserted-Identity. This is not for
  the proof's convenience. Without it (`missing_identity`, section 7) calls are recorded
  under one common empty key, their rejections overwrite each other's record but are counted one by
  one, and neither `Memento` nor `FailedCallsCountedOnce` describes that. The instance of
  `memento_system` satisfies the condition. The proof
  carries each abstract step over `CallNumber`, which needs that keys in use have different numbers, and
  uses that every call that gets a final response has joined (`AllNamed`).
* `ListsGainOwnCalls`: `SystemSpec => []ListsHoldOwnCalls`, again without that condition. The
  invariant `SystemInv` adds to the handlers' and the processor's what links them (`Provenance`): all that is
  queued, in a worker's hands or stored was in the list before or was written by a handler;
  and `OwnersKept`, `EntryOwner` trace a written entry to the INVITE whose key it carries.

### The plugin: `MementoPluginProofs`

* `PluginRunsProcessor`: `PluginSpec => Spec`, so lists keep their records and
  listeners hear of changes while the plugin is unloaded, too.
* `UnloadDeletesWhatLoadCreated`, `WorkersFindTheirObjects`: `[]ObjectsDeletedOnce` and
  `[]StoreAndNotifierOutliveWorkers`. The invariant `PluginInv` says that once `unload` has begun what is
  left to delete is the rest of `UnloadOrder` after its first `n` objects, that just these objects and the
  SNMP tables are alive (`ObjectsInv`), and
  that once the processor is gone no worker is at work. The order of the list does the rest: all that a
  worker uses, the load monitor excepted, comes after the processor.
* `PluginBoundsLists`: `[]ListsAreBounded`. The plugin creates objects only if
  `Settings(options)` is enabled (`OnlyEnabled`), and by `EnabledListsAreBounded` this is so only
  if `max_call_list_length` or `call_list_ttl` is not zero, whatever texts the nine options have.
  Since the function `ReadOptions` is recursive, `ReadInOrder` first shows that it exists, option by option.
* `DivisorOfLength`: which values of `max_call_list_length` make the divisor of `rand()` zero: 0,
  which `is_call_trim_needed` excludes, and -19 to -11, which nothing excludes
  (`negative_length`, section 7). For natural numbers it is the `CheckInterval` of `CallListTrim`.

### Only model-checked

* `RequestsSettle`, `UnloadCompletes`: liveness under fairness needs
  `ENABLED`, which is beyond the prover.
* The violation runs: they show single counterexamples.

## 7. Where the code and its comments disagree

* `trim_threshold` - `call_list_store_processor.cpp:152-153` says a trim brings "the stored number
  below the threshold again". `num_to_delete` counts calls but indexes fragments (lines 246-251), so
  each END among the first ones leaves a call more: with a limit of 1, the records of one answered and two
  rejected calls, a trim takes the BEGIN and the END of the first and leaves two calls. The theorem
  `TrimSufficesIfFewEnds` says when the comment is true: just if those ENDs are no more than a
  tenth of the limit. What is too much is left to later trims (`TrimsKeepPace`).
* `start_time_race` - `mementoappserver.cpp:169-171`: between the two uses of the pointer
  from `localtime` another thread may fill in the struct, so `_start_time_xml` and
  `_start_time_cassandra`, both "Start time of the call" (`mementoappserver.h:172`), differ. The key of the call's fragments
  remains consistent (`EndMatchesOpening`) because the dialog id carries the formatted time.
* `missing_identity` - line 209: "If this is missing, use the From header". The code
  returns instead, and the response is recorded with an empty caller, IMPU and id.
* `privacy` - line 469: "Look for the 'id' value in the Privacy header". The whole header is
  compared with `id`, so `id;user` does not keep the answerer's identity out.
* `unload_order` - `~MementoAppServer` deletes the load monitor first (`mementoappserver.cpp:88`)
  and the processor, whose destructor joins the workers, second. A worker in between
  calls `request_complete` on the deleted object. The store and the notifier are deleted
  after the join (`StoreAndNotifierOutliveWorkers` in `plugin_lifecycle`).
* `negative_length` - `max_call_list_length` is accepted when negative
  (`mementoasplugin.cpp:232-249` compares it with zero only). For -11 to -19 the divisor of
  `rand()` is zero, for -20 and below negative, where `call_list_store_processor.cpp:193` speaks
  of "1 in (max_call_list_length / 10) calls". For -1 to -10 the list is read every time and
  then always found too long, with more records to delete than there are calls in it.

Noted on the way, without a run of their own:

* A trim may take the BEGIN of a call and leave its END (line 179 speaks of "a timestamp to delete
  before"; the list then holds an END that is never counted until it is trimmed in turn).
* An orig-cdiv call is recorded for its P-Asserted-Identity, although lines 190-193 of
  `mementoappserver.cpp` say that the served subscriber will see it in their call log (`served_user` is
  computed and never used). `ListsHoldOwnCalls` states whose list the code takes, for diverted calls, too.
* An exception in `process_work` leaks the request and reports no completion to the load monitor
  (`RequestOwnership` counts such requests apart). `exception_callback` says that there is no recovery, so
  nothing is contradicted.
* `unload` deletes all that `load` creates but the two SNMP tables (`ObjectsDeletedOnce`).

## 8. What is not modelled

* TTL expiry of fragments: it removes old fragments by design and would be one more action of
  the external store.
* Display names, the wording of the XML, SAS events, logs and latency statistics: no property
  is about them.
* A clock that steps back: `generate_timestamp` is assumed not to decrease, `clock` is shared
  by all workers of the one node modelled.
* The limit of the pool's queue: this code gives none.
* How `generate_unique_integer` makes its ids unique: it is external and returns a new number at each call.
* The JSON of a notification and its result, which `send_notify` does not look at.
* The load monitor's tokens: re-INVITEs take one that no `request_complete` returns and BYEs report
  a completion without one, but the monitor is a submodule that is not in the tree and nothing in this
  repository says that the two are to be paired.
* An option given twice: `multimap::find` takes one of the values, and an option map has one.
* The number of threads for `memento_threads` of zero or less: decided by the thread pool, which is not in
  the tree. The instances have as many workers as the option says.
* Alarms, what the SNMP tables count, the address family, and what the connection to Cassandra is configured with.
* The completed-calls statistic counts ENDs, so a BYE from both ends counts twice. No comment
  promises otherwise and no property is stated of it.
* Unit tests, packaging and build files.

## 9. Running the checks

    tlc -workers 2 -config processor_safety.cfg MCCallListStoreProcessor
    tlapm MementoSystemProofs.tla    # and the other *Proofs modules, MementoAppServerRefinement

The `MC*` module of each run is named in `PROJECT.json`. The longest run, `memento_system`, takes
about two and a half minutes with two workers, `processor_safety`, `memento_calls` and
`appserver_calls` about two minutes each.
