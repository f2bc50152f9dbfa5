# opcda2ua: a verification project

TLA+ models of the OPC DA to OPC UA bridge in this repository, model-checked
with TLC, with theorems checked by TLAPS. Every definition is translated from
the code; `PROJECT.json` ("map") names the lines each one stands for.

1. [The system](#1-the-system)
2. [Modules](#2-modules)
3. [Runs](#3-runs)
4. [Where the code disagrees with what it says](#4-where-the-code-disagrees-with-what-it-says)
5. [Fairness](#5-fairness)
6. [Theorems](#6-theorems)
7. [What is not modelled, and the plan](#7-what-is-not-modelled-and-the-plan)

## 1. The system

A plant's OPC DA server (a COM process) publishes tags. The bridge,
`openopc2/ua_server.py`, subscribes to them through `openopc2/da_client.py` and
shows them as nodes of an OPC UA server (the asyncua library). With
`--enable-writes`, what a UA client writes to a node goes back to the DA server.

```
  DA server  <- COM ->  OpcDaClient  <- calls ->  DA thread   --_da_to_main_queue-->  main thread
 (process)              (da_client)               (ua_server)  <--_main_to_da_queue--  (asyncio)
      |  data changes       |                         ^                                   |
      +-- sink -> _subscription_queue                 |                              UA nodes
                    |                                 |                                   |
               event loop thread -- on_da_changes ----+-> _da_to_main_queue          notifications
                                                      |                                   |
                                                      +------- _write_queue ------- WriteHandler
```

| component | state it keeps | operations | talks to |
|---|---|---|---|
| Bridge, write path | node values and status, `_pending_da_updates`, `_initialized_nodes`, `_write_queue` | process a DA event, publish notifications, `datachange_notification`, drain the writes | asyncua by `set_value` and callbacks; DA thread by queues |
| Bridge, DA thread (steady) | the mirror `subscribed_tag_groups`, `current_tags`, three clocks | heartbeat, watchdog and rebuild, refresh of the tag list | `OpcDaClient` by calls; the callbacks by `_last_data_change_time` |
| Bridge, startup and shutdown | where both threads are, the attempt counter, the two queues | connect, discover with retries, initial read, create nodes, `ua_ready`, subscribe; `stop()` | both threads by the queues and `_da_thread_active` |
| Bridge, discovery and descriptions | none that lasts: the tags, values and descriptions of an attempt | list tags (standard, iFIX), read them in chunks that are cut up when they raise, read descriptions in batches | `OpcDaClient` |
| DA client, subscriptions | handle maps, hooks, callbacks, `_subscription_queue`, the event loop's thread | `subscribe`, `refresh_subscriptions_cache`, `unsubscribe`, `connect`, `close` | COM groups and their sinks; the callbacks |
| DA client, reads, writes and groups | `_groups`, `_group_tags`, `_group_valid_tags`, `_group_server_handles`, `_group_handles_tag`, `_tx_id`, `callback_queue`, the global `current_client` | `iread` (synchronous, asynchronous, rebuild), `iwrite`, `remove`, `list`, `properties` | COM groups |
| COM adapter (`da_com.py`) | the COM objects | connect, browse, decode | win32com |
| Gateway | `clients_by_uuid` and the times of each client | `create_client`, `release_client` | Pyro5 proxies |
| Legacy bridge (`winxp/opcda2ua_legacy.py`) | `ua_nodes`, `_ua_folders`, `_energy_bases`, `_tags_changed`, the poll list | make the nodes, poll, refresh, describe, stop | its own two DA clients and UA server |
| Command line, configuration, logging | none | print, parse | |

**What is hard.** Five threads of control meet without a lock: the asyncio loop,
the DA thread, the event loop of the subscriptions, the COM sinks and the UA
library's publishing task. The DA server restarts, loads its address space
gradually, and calls to it fail or hang. Nothing the bridge gets tells it who
changed a node, whether a sink is dead or only silent, or whether a tag that is
missing from a list was removed. Timeouts, retries, a heartbeat and a
transaction number are how the code copes, and each can be late, early or
stale. The legacy bridge is a program of its own: a poll thread and a refresh
thread, each with its own client, share the table of nodes under a lock, and an
event and the map of energy meters without one.

**What makes each component correct.**

- Write path: a write by which a UA client changed a node is offered to the DA
  server once, in order per node; nothing else is ever written; with writes
  disabled, nothing.
- Steady loop: whatever fails, the tags the server publishes end up subscribed;
  the mirror used for a rebuild holds each current tag at most once; a refresh
  never empties the tag list.
- Loop and nodes together: every known tag has a node; a node follows its tag, and
  never shows an older value after a newer one.
- Startup: the wait always ends; nodes exist before subscriptions; a server that
  is ready in time is served in full; Ctrl+C always works.
- Subscriptions: a value reaches the callback of its own group, under its own
  tag; one callback at a time; none after `close()`.
- Discovery: every tag is found once, in an order that stays; a tag that cannot
  be read, or a call that fails, costs no other tag anything; it ends.
- Asynchronous reads: a read returns the answer to its own request, under the
  right tags, and leaves nothing behind.
- Synchronous reads and writes: what comes back is told apart by its place alone,
  so the tables of a group must keep the order of the server's items, and the
  results of a write must be counted along the pairs the server has accepted.
- Legacy bridge: the nodes are those of the tags there are; each is described and
  polled; a node that is deleted is not written any more.

`PROJECT.json` ("hazards") lists what can go wrong at which line, and the
properties that would show it; a hazard the models leave out, or that no property
catches, says why.

## 2. Modules

| module | models | composed with |
|---|---|---|
| `Places` | choosing from a list by places: what a loop or a comprehension with a condition leaves | used by `WriteBack`, `SyncGroups`, `Discovery` |
| `WriteThrough` | the promise of the write path to a UA client (abstract) | |
| `WriteBack` | the write path: DA events, client writes, notifications, `WriteHandler`, the write queue | implements `WriteThrough` by the refinement mapping `Promise` |
| `WriteBack_proofs` | theorems about it | |
| `DaThread` | the steady loop of `_da_thread_main` against a failing, restarting, reconfigured server | |
| `Bridge`, `MCBridge` | the steady loop and the asyncio thread: the values, the queue between them, the nodes | extends `DaThread`; implements it (`ImplementsDaThread`) |
| `Bridge_proofs` | theorems about both: those of `DaThread` come first, those of the composition rest on them | |
| `Startup` | `start()`, `_da_thread_main` up to the steady loop, `stop()` and exit | instantiates `DaThread`: `HandsOver` |
| `Startup_proofs` | theorems about it | |
| `Subscriptions` | the persistent subscriptions of `OpcDaClient`, two threads and the server | |
| `Subscriptions_proofs` | theorems about one session of it | |
| `AsyncRead`, `MCAsyncRead` | `iread` with `sync=False`, its groups and `remove()` | |
| `AsyncRead_proofs` | theorems about one client of it | |
| `SyncGroups`, `MCSyncGroups` | `iread` with `sync=True`: sub-groups, `rebuild`; `remove()`, `connect()`, `iwrite` | |
| `SyncGroups_proofs` | theorems about its writes and its reads | |
| `Discovery`, `MCDiscovery` | the listing of tags, the first read, the descriptions | an attempt of `Startup`, in detail |
| `Discovery_proofs` | theorems about it, for any tree of branches | |
| `LegacyTags` | which tags the legacy bridge keeps, and where their nodes are | used by `LegacyBridge` |
| `LegacyBridge`, `MCLegacyBridge` | the poll and the refresh thread of the legacy bridge | |
| `LegacyBridge_proofs` | theorems about it | |

**WriteBack.** One action per handler: `DaEvent` (the DA thread puts an event),
`ProcessDaEvent` (a whole pass of `_process_da_events` over one event),
`ClientWrite` (asyncua accepts a write), `Publish` (a publishing cycle gives
`datachange_notification` all that is queued of a node), `DrainWrite`. Queued
notifications and writes carry a history field `src`, who made the change; no
guard reads it, the properties do. `_pending_da_updates` is a set, as in the
code; that two marks of a tag are one is what the properties are about. A value
may be refused by `set_value` (`Unwritable`), or only be accepted as text
(`Stringified`). `disturbed` is a history of the nodes whose mark need not fit what
is queued for them: the DA server changed the node after another change of the same
cycle, or did not change it at all (an update with the value it shows, which the
heartbeat brings all the time), or removed its tag. A node is undisturbed again when
a cycle has passed and left no mark. `WriteThrough` promises less for a disturbed
node: the oldest write of a cycle may be lost, and values nobody wrote may come among
the others. For all other nodes, and for the later writes of these, the promise
is kept under every interleaving; the two violations (`WriteBack_echo`,
`WriteBack_eaten`) show what disturbed nodes suffer.

**DaThread.** Time is in ticks. The iteration of the loop is its own sequence of
actions (`Heartbeat`, `Watchdog`, `Refresh`, `Discovered` / `DiscoveryFailed`,
`ReadAdded`, `SubscribeAdded`), in the order of the code, and the faults of the
server fall between them, and in the middle of a refresh too. Every call may fail by
itself: `Heartbeat(asked)` asks some of the groups for their values, not always all,
and a subscription may succeed and its first `AsyncRefresh` fail. `live` is what the
server would report, the mirror is what the bridge believes; the clocks are ages, capped at the thresholds they are
compared with. Switches (`GradualLoad`, `PartialFaults`, ...) name the
assumptions about the environment one at a time, so that each run says which
ones it needs. Two histories tell when the loop's one clock for all groups may be
wrong: `starved`, an `AsyncRefresh` failed or time went by in a discovery and no data
change has come since; `overlooked`, the tags that fell silent while others
were heard, or were never subscribed.

**Bridge.** The composition of `DaThread` with what it leaves out: the value each
tag has in the plant, what a data change on its way carries (`sample`), the values
a refresh has read, the events it still has to put (`to_put`), the queue, and the
value and status of each node. Every step of `DaThread` is part of one step here,
which says what the step does to these (`Beats` is a heartbeat and the answers it
asks for, `Subscribes` a subscription and the events that follow it); the other
steps leave the variables of `DaThread` alone. Values are counted: a tag's n-th
value is n, so older and newer can be told; 0 is the empty value. `shown` is a
history: the newest value a node has shown. A node may refuse a value (`Refused`),
and then keeps the value and the status it shows; a value may come with a bad
quality (`Doubtful`); `MCBridge` has one of each. A refresh puts its events one by one
(`Puts`), so callbacks put theirs in between. UA clients only read here.

**Startup.** Both threads step through named points (`da_pc`, `main_pc`) and
exchange events in two queues. The discovery retry loop, its progress events and
the timeout they reset are kept with their order of puts and sleeps; a call may
take long, or never return (`CallTakesLong`, `Hangs`). A group can be subscribed and
not be asked for its first values, if `AsyncRefresh` fails; then the first heartbeat
asks for them (`Heartbeat`). `HandsOver` instantiates
`DaThread` on the state the DA thread ends startup in, and says it is one of
`DaThread`'s initial states, so the two models join.

**Subscriptions.** An item of the server remembers the tag it is and the number
of the `subscribe()` call it came from; what the event loop hands to a callback
is compared with both. `subscribe()` is split where COM calls raise or where the
server's events can come in between: adding the group and its items, then
hooking its events. `Drop` has the outcome in which the server does not remove the
group (`stuck`): it stays there, with its items, while the client's tables are
cleaned. The event loop is four steps, so the client's thread can run
between its look-up of the handle, of the callback, and the call.

**AsyncRead.** A read is known by its number. A value in a result is a pair of
the tag it is returned for and the tag it was read from. The read is split at
adding the group, hooking and filling it, asking, and each event taken from
`callback_queue`. The server answers in time, late or never.

**SyncGroups.** A call steps through its sub-groups; `call` holds the local
variables of `iread` or `iwrite`, those that outlast a sub-group included:
`server_handles` keeps the handles of the one before, with the 0 put in front
of them, and a rebuild that adds nothing uses what it finds there. `call.whose` says
whose they are, "own", "previous" or "none" as long as the variable has not been
assigned; rows read with others' handles are `borrowed`. Loops over
some of a list are `Select`, by places, so that their results can be reasoned about.
The server gives handles that differ within a group only, as COM wants it (`Added`:
it counts on in the group or through all groups), and is assumed to enumerate
`OPCItems` in the order the items were added in. A value is the tag it is really of,
"no item" for a handle without an item, "no value" for an item whose tag is gone. The items
the server accepts of a write are any subset: of two pairs with one tag, one
item, the other, both or none. `torn` records sub-groups in which a rebuild has
added items and then failed to remove others, so that what the client notes of
them is behind the server; nothing reads it but `ReadsOwnTags`.

**Discovery.** One attempt of the DA thread, sequential: what is hard is what
raises. The server is a tree of branches and leafs. `todo` is the stack of the
recursion of `read_chunk_safe`, a list of lists still to be read. A tag may raise
or be in error whenever it is read, and a call may raise by chance. The result
of an attempt is what `Startup` calls its discovered tags.

**LegacyTags, LegacyBridge.** `LegacyTags` has the filters and the places of nodes
as operators on sets of tags; a tag is a record of branch, name (the parts between
underscores) and property. `LegacyBridge` has one action per hold of the lock, and
splits where a thread gives it up: between a read and its update, between the
reload of the poll list and the clearing of the event, between a listing, its
comparison, the deletion and each batch of new nodes. The map of energy meters, which
both threads empty and fill without the lock, is filled in one action
(`PollMeters`, `RefreshMeters`) and used in the next, so the other thread's map can be
what a filter finds; the emptying does not fall into the middle of a filling. A node
is a tag and a number, so that two nodes of one tag are two. `overlaps` records the two meetings
of the threads that break a promise ("bootstrap": a refresh takes a listing before
the poll thread has made its nodes; "reload": the event is set just before it is
cleared), and `undeleted` the nodes the library failed to delete, which the code
logs and forgets; nothing reads them but the properties, which say what holds
otherwise.

Each module holds the variants of its definitions that a plausible slip of the
code would give ("Seeded fault"). They are used by nothing: put in place of the
definition they vary, they make the properties fail, which shows that the
properties depend on that code. `PROJECT.json` ("mutants") pairs them.

## 3. Runs

| run | question | bounds |
|---|---|---|
| `WriteBack_all` | does the handler forward what clients changed, once and in order, and what no client wrote from disturbed nodes only; never a startup value, and nothing when writes are disabled? | 2 tags, 3 values, one of which is refused, quality "Error", 2 DA events of a tag each, a queue of 1, 2 client writes |
| `DaThread_all` | under every kind of fault, at any point of the loop, is the mirror consistent, no refresh fatal, the watchdog right, something heard, the tag list right in the end, and all of it subscribed but what one clock overlooks? | 2 tags, 5 groups, 1 fault, 2 reconfigurations; every switch on |
| `Bridge_all` | does every known tag get its node, does no node go back, and does every node follow its tag in the end, but one that refuses the value? | 2 tags, 3 groups, values up to 2, the last of them refused by one node and of bad quality for the other, a queue of 1, 1 fault, which may hit some groups only, 2 reconfigurations |
| `Startup_all` | does startup decide, in order, and serve what is there; does Ctrl+C work everywhere? | 2 tags, groups of 1, 3 attempts, timeout 1, 2 faults |
| `Subscriptions_all` | do values reach their own callback, under their own tag, through every interleaving of calls, events and failures? | 2 names, 2 tags, 3 `subscribe()`, 1 queued event, 1 fault |
| `AsyncRead_one` | does a read return the answer to its own request, and all of it? | 1 client, 1 named group, 2 tags, 4 reads, numbers wrap after 3 |
| `SyncGroups_all` | is what comes back by its place matched with its own tag? | 3 tags, lists of 1 to 3, size 2 or none, 1 name, 4 calls, 2 failures or changes of the server; writes of 4 pairs, one tag twice |
| `Discovery_all` | is every tag found once and in order, and does a failure cost only what it must? | 4 servers (iFIX with 6 blocks, two others, an empty one), chunks of 5 cut down to 2, batches of 2, 2 raising tags, 2 failures |
| `LegacyBridge_all` | do nodes match the tags, described and up to date, while the two threads interleave? | 2 plants with 2 tags each (a drive and a meter; one tag in two branches), qualities Good and Bad, batches of 1, 1 change, 1 failure |

Why the bounds are enough: two tags are the fewest for one to be confused with
another, or to fail alone; two values let a node change and change back; two DA
events of one tag fit one publishing cycle, the case that breaks the marks, and a
client's write fits before, between and behind them and the node's first notification
(also checked: one tag, three reports and four values of which one becomes text, 272
thousand states; two tags and four values, 1.6 million); three
`subscribe()` calls give a group dropped, a group kept and one subscribed after;
four reads over three transaction numbers wrap once with a late answer about;
three attempts give a first, a middle and a last one; a timeout of one tick lets
the wait end before and after the retries. In `DaThread_all` the one fault may be
a crash, a dead sink, a call, a listing or a heartbeat that fails, in the middle of a
refresh as well; it numbers groups up to 4, so
a group is added by each change and one is left over. In `Bridge_all` two
reconfigurations let a tag go and come back, and a tag that takes one more value
has an older and a newer one. A queue of one event is a limit the code does not
have: it only holds back who puts next, and the callbacks, the refresh and the main
thread still meet in every order; the two safety properties were also checked with
two events (1.4 million states). Four calls of `SyncGroups`
fit a read, a rebuild that fails half-way, one that succeeds and a read of the
result; three tags in pieces of two give a full and a last sub-group. Chunks of
five are cut to two and three, the three to one and two, so each way of cutting
is met. In `LegacyBridge` two tags in batches of one leave a point between the
nodes of a listing; one change lets the plant differ from any listing taken
before. The same run with the quality "Error" too passes (2 million states), but takes
longer.

`MCLegacyBridge` also assumes, for TLC to evaluate, `FilterPromise`: what the
filter of the sugar mill keeps of each of the 1024 listings that ten tags can
make, against a statement of it that does not follow the order of its steps.

`CHECK_DEADLOCK FALSE` is set where the system really stops: the bounded
environment of `WriteBack`, the exit of `Startup`, a closed client in
`Subscriptions`, the last call of `AsyncRead` and `SyncGroups`, the end of an
attempt in `Discovery` and of the threads in `LegacyBridge`. The steady loop
never stops, and is checked for deadlock.

Bounds that are also assumptions: `Fresh` in `AsyncRead` (65535 reads, each of
which waits five seconds for its answer, do not go by before a late answer
comes), `MaxConnects = 1` in `Subscriptions_all`, one client in `AsyncRead_one`, and
lists without a tag twice in the reads of `SyncGroups` (`RequestAssumption`). So are
two switches of `Bridge_all`, listings that miss no tag (`ListingFaults`) and do not
take long (`SlowDiscovery`): without each of them a property is refuted, as the next
section says. That the server publishes all its tags at once (`GradualLoad`) is only a
matter of time there: with it, and five groups, the run passes too (1.2 million
states). `DaThread_all` makes none of these assumptions.

## 4. Where the code disagrees with what it says

Each of these runs checks one statement of the repository's own comments or
docstrings, and TLC finds a behaviour of the code that contradicts it.

- `WriteBack_echo`: two DA updates of a tag in one publishing cycle leave one
  mark in a set, so the second is taken for a client's write and goes back to
  the DA server.
- `WriteBack_eaten`: a DA update that changes nothing makes no notification, so its
  mark stays. The next client write, alone in its cycle, is taken for the update and
  dropped (`LoneWriteIsForwarded`). The heartbeat makes such updates for every tag
  whose value has not changed.
- `LegacyBridge_unpolled`: when the server has no tags yet, or cannot be
  reached, as the bridge starts, the poll thread ends for good. The refresh
  thread goes on, makes the nodes when the tags come, and nobody polls them.

What follows was refuted while modelling and is not run any more; add the name to
a configuration, with the constants given, to see the behaviour.

- `EveryNodeIsDetected` of `WriteBack`: nodes created by a refresh are writable but
  not in the internal subscription. `NoRemovalWrittenBack`: marking a removed tag Bad
  is forwarded as a write of an empty value.
- Not a property, for no model is needed to see it: a client's write of the value its
  node already shows is notified to nobody, so it never reaches the DA server.
  `WriteThrough` therefore promises only the writes that change what a node shows. A
  client that writes again because the first write failed in the DA server
  (which only the log tells) meets this.
- `AlarmMeansDead` of `DaThread` with `SlowDiscovery`: the loop lists the tags itself,
  and asks for no heartbeat meanwhile. A listing longer than the stale threshold (180 s
  by default) is followed by a watchdog that rebuilds living sinks. The comment at
  `ua_server.py:972-977` says that the heartbeat takes this false alarm away; so it
  does but for a listing, or a heartbeat that fails for a silent group.
  `WatchdogMeansDead` says that these are the only cases (`starved`).
- `Recovers` of `DaThread` without `overlooked`. With `PartialFaults`: any group that
  is heard refreshes the one liveness clock, so a group whose sink died, or whose
  re-subscription failed, stays dead as long as another lives. With `GradualLoad`: a
  server that has restarted publishes its tags one after the other, and a tag it does
  not yet have when the groups are subscribed again is left out of its group, and for
  good if no listing misses it before it is there: it is still known then, and not new
  to the next refresh.
  `RemovalIsReal`: a listing that misses tags removes them.
- `RemovedAreBad` of `Bridge`: the subscription of a removed tag stays. A data
  change that comes before the server drops the tag, but is put after
  `removed_tags`, makes the node Good again, with its last value, and nothing will
  ever mark it. `NeverBack` with `ListingFaults`: a tag that was missed and comes
  back is in two groups, whose data changes have no order.
- `LiveHasTags` of `Startup`: when every initial read fails, the tags that were
  discovered are all dropped and the bridge goes live without a node.
  `RetriesFit`: a discovery that raises reports no progress, so `start()` gives up
  amid the retries.
- `RightTag` of `Subscriptions` with `MaxConnects = 2`: `connect()` on a client in
  use restarts the handle counter, but the queue keeps the events of the old
  session; their values reach callbacks under tags of the new one. `OneAtATime`
  likewise: a callback that outlasts the two seconds `close()` waits for it is met
  by the event loop of the next session; the first loop, told to go on by the same
  flag, stays too. `UnsubscribeIsComplete`: a name used twice has a second group
  that `unsubscribe()` does not know; and a group the server fails to remove stays
  there, unknown to the client.
- `NothingLeft` of `AsyncRead`: a read without a group name that raises leaves its
  group in the server, hooked and subscribed, and nothing can remove it.
  `ReadsOwnTags` with two clients: both hook groups through one global
  `current_client`, and count from 1.
- `ReadsOwnTags` of `SyncGroups` without its exceptions. Without `torn`: after a
  rebuild whose removal of old items raises, the items stay, the client does not
  know, and the next read has values under the wrong tags. Without the one for
  rebuilds (`borrowed`): a rebuild that keeps tags has the handles of the new ones
  only, or, if none are new, of the sub-group before. With too few it raises. Else it
  reads by another sub-group's handles: if the server numbers its items through all
  groups, tags that are there are reported in error; if it numbers them in each group,
  as COM allows, the values of other tags are returned (4 tags in sub-groups of 2).
  With a tag twice in a list of `Requests`: the server has two
  items, a rebuild for fewer tags removes one, and places shift. A rebuild to fewer
  sub-groups also leaves the others for a later read to use, and a named group
  whose tags could not be added raises at every later read (`UseGroup`).
- `WriteTellsTruth` speaks of writes that return. One that raises may have written
  its values, and leaves its group in the server (`SyncWrite`).
- `Ends` of `Discovery` with a branch in `closed`: a branch that can never be
  entered is found among its siblings and queued for ever. `FindsEachTagOnce`
  without its exception for `dotted`: the first branch with a dot in its name ends
  the listing without an error, and all that comes later in the queue is missing.
- `NodesMatch` of `LegacyBridge` without "bootstrap": the
  refresh compares a listing with the nodes the poll thread is still making, and
  both make one for the same tag; the first stays for ever, with its first value.
  Without `undeleted`: the failure of a deletion is swallowed, the tag is forgotten
  all the same, and its node stays with its last value.
  `Follows` without "reload": an event set between the reload of the list and
  `clear()` is lost, and the new tags are not polled until the next change.
  `Described` with `faults > 0`: after a failure the first of the new tags are
  described, as many as nodes were made, not those that have a node.
- In `LegacyTags`, `C_Ir` and `C_Ir.medida` have one place, and so have the
  property `C.velocidad` of a drive and a tag `C_velocidad`, once another tag
  (`C_P.medida`) makes `C` a meter. No property says that a place has one node: it
  would be false. A tag without a folder is named by its full tag. A read without a
  value leaves a node Good (`Polled`).

## 5. Fairness

- `WriteBack`: the asyncio loop, the publishing task and the DA thread go on
  (weak fairness of `ProcessDaEvent`, `Publish` and `DrainWrite`): nothing in
  them waits for one another. DA events and client writes are never owed.
- `DaThread`: the loop's own steps and those of the event loop run; a stopped
  server is started again and publishes its configuration in the end. Without
  the latter "in the end subscribed" cannot hold. Faults, changes of the
  configuration and plant activity are never owed; the first two are finite by
  their bounds: liveness is claimed for when they have ceased. `Tick` has strong
  fairness: data changes on their way hold it up, but not for good.
- `Bridge`: as `DaThread`, and the asyncio thread goes on (weak fairness of
  `ProcessDaEvent`). Putting an event never waits in the code; only the bound on
  the queue can hold it up, again and again, hence strong fairness of `Delivers`
  and `Puts`. That a value changes, or that the server reports one by itself, is
  not owed: `Follows` rests on the heartbeat, which asks for all values.
- `Startup`: both threads run and time passes; a live group reports. The server
  owes nothing: it may never start. `Decides` and `Stops` hold all the same,
  because the main thread's wait is bounded by its clock, not by the server.
- `Subscriptions`: calls in progress end, the bridge's heartbeat calls
  `refresh_subscriptions_cache` again and again, and callbacks return. The
  server's answer needs strong fairness: a full queue and a reconnect disable it
  now and then, but it is asked again.
- `AsyncRead` and `SyncGroups` claim no liveness: a wait ends by its timeout, a
  synchronous call returns or raises.
- `Discovery`: the thread goes on (weak fairness of `Next`); calls return, and
  only finitely many fail by chance.
- `LegacyBridge`: both threads are scheduled and their calls return (weak fairness
  of `_poll_loop` and of `_refresh_loop`); neither waits for the other but for the
  lock, which is held for one action. `stop` and changes of the plant are not owed.

## 6. Theorems

Proved for all values of the constants, from the assumptions on them that the
modules name (`ValueKindAssumption`, `IntervalAssumption`, `BoundAssumption`, ...).

- `WriteBack_proofs!TypeCorrect`, `Bridge_proofs!TypeCorrect` (of `DaThread`): the
  type invariants.
- `DisabledIsSilent`: with writes disabled the write queue and the writes to DA
  stay empty. `WritesDisabledSilent` is inductive with `TypeOK`.
- `StartupIsNeverWritten`: values from before the internal subscription are
  never written back. That property alone is not inductive: it says nothing of
  what is still queued. `StartupInv` adds that a startup notification can only
  be the first of its node, while the handler still owes the node its one skip.
- `OthersAreDisturbed`: what is queued for the DA server is a client's write, or of a
  node that was disturbed when it was published. `SoundInv` adds why, for a node that
  is not: a monitored node owes its startup value until it is initialised; then the
  next notification is the server's exactly if the node is marked, and all that
  follow are clients'. So one skip and one mark is right, whatever else goes on.
- `WritesGoThrough`: under every interleaving the write path implements the safety of
  `WriteThrough`, step by step: under the mapping `Promise` an action of `WriteBack`
  is one of `WriteThrough` or a stutter, so no accepted client write is doubled or
  passed by a later one of its node; none of an undisturbed node is lost and nothing
  else is written of it; and a disturbed one loses at most the oldest of a cycle. The
  mapping keeps the notifications and writes that are a client's, node by node.
  `SoundInv` says what `Publish` skips and drops of them.
  What a filter leaves of a queue that has grown or lost its head is proved by
  counting places (`Select` of `Places`), where `SelectSeq` would need induction.
- `MirrorConsistent`: the mirror holds current tags only, each in one group, and
  nothing in the numbers not used yet, under any number of faults.
- `NoRefreshStrands`: no step empties a tag list that is not empty. The step from
  a refresh needs `FoundInv`: once the loop reads or subscribes, the discovery
  has returned some tag it did not know.
- `Bridge_proofs!ImplementsDaThread`: what the composition does with the variables
  of `DaThread` is what `DaThread` allows, so its invariants hold here
  (`BridgeTypeCorrect` takes `TypeOK` from there).
- `WatchdogIsRight`: the watchdog declares the sinks dead only when none is alive,
  unless the loop was `starved`; for any length of a listing and any failure. It
  assumes what the code has and the model's constants leave open: the heartbeat
  (60 s, `ua_server.py:165`) comes before the stale threshold.
  `ClockInv` relates the two clocks: whoever is heard was heard after the last
  heartbeat, or an answer is on its way, and the heartbeat is sent in time.
- `KnownTagsAreShown`: `KnownAreShown` is inductive with the types and `RefreshInv`:
  a refresh begins only when the one before has put all its events, so to list or
  subscribe loses none of them, and the tags with a value read are those about to
  become known. The step that takes an event from the queue needs that it makes the
  nodes it announces and unmakes none (`ProcessShows`).
- `NodesNeverGoBack`: what a node shows never gets older. Three invariants carry it.
  `LiveInv`, of the DA thread alone: every tag that is heard is mirrored, and what is
  mirrored is published. `SampleInv`: a tag's data change is on its way from one group
  only, its own, or, until the loop next sleeps, the one a refresh just dropped it
  from. `OrderInv`: what a node shows is no newer than what is queued for it, which is
  in order, and that is no newer than what the server has sampled, nor that than the
  plant. It assumes that no listing misses a tag, since a missed tag that comes back
  is in two groups and TLC then finds a node that goes back; and that no discovery
  outlasts a tick, since the next refresh would follow at once and subscribe a
  returned tag while its old group's data change is still on its way.
- `Startup_proofs!NodesComeFirst`: nothing is subscribed and no data change is on
  its way before the nodes exist. `Handshake` is what makes it inductive: until
  the main thread serves, its queue to the DA thread is empty, and the DA thread
  is not past the point where it waits for that queue.
- `StartupHandsOver`: the state startup ends in is an initial state of `DaThread`,
  so what is proved of the steady loop holds of a bridge that has started. `HandsInv`
  counts along: the numbers of groups used so far are exactly those of the tags tried
  (`Divided`), `next_group_id` never outgrows their number, and a session that lasts
  has lost none of what was listed (`Loaded`). It rests on facts about finite sets.
- `Subscriptions_proofs!HandlesAreUnique` and `ValuesKeepTheirTag`, for a client
  that connects once (`MaxConnects = 1`; with two sessions TLC refutes
  them). The inductive `TagInv` adds `Given`: every handle in an item
  of the server or in a queued value is below `next_handle`, so a new one is new
  to all that is on its way.
- `CallbacksTakeTurns` and `NoneIsCalledAfterClose`, for such a client too. `SessionInv`
  says that at most one thread runs, that it is the one the client knows while it is
  connected, and that after `close()` it can only be one that is inside a callback.
- `AsyncRead_proofs!NumbersAreDistinct` and `ReadsGetTheirAnswer`, for a client
  alone in its process (`Client = {c}`; two share the global `current_client`),
  and under `Fresh`. The inductive invariant measures every request on its way by
  `Behind`: the client's number is reached from it by at most as many refreshes as
  reads have begun since, which `Fresh` keeps below a full round, so only the
  request of the read under way can carry the number waited for.
- `ReadsReturnOwnTags`, with the same hypotheses and a finite set of tags: the
  values come with the handles of the client, which are looked up in the table of
  the group's name as it is then. `TagsInv` says that the items of every group there
  is, a left-over one included, are entered in its name's table under their own
  tags, that there is one group to a name, and that an answer to the read under way
  has the items of the tags it asks for. `ReadsGetTheirAnswer` does the rest: no
  other answer is taken.
- `SyncGroups_proofs!WritesTellTheTruth`: for any lists, sizes, refused items and
  failing calls. `WriteInv` says that what is reported so far is what was taken so
  far (`Truthful`). The step that extends it rests on a lemma about counting: if
  there are as many pairs whose tag has an item as there are items, those are the
  same pairs, so the n-th result is the n-th such pair's own (`OwnResult`); and on
  `NthOfRank`, that a member of a finite set of numbers is told by how many members
  are not above it.
- `SyncGroups_proofs!ReadsReturnOwnTags`: for any names, lists, sizes, rebuilds,
  removals, refused tags and failures, unless a rebuild was cut short (`torn`) or the
  row was read with handles that are not its sub-group's (`borrowed`).
  `ReadInv` holds what the client notes of a sub-group against the server's items:
  - no two items of a group have one handle, and there is a highest (`ItemsOk`); two
    groups may use the same ones;
  - the items of a sub-group are those of its valid tags, in their order, and its
    table has their handles (`Matches`), but for a torn one and one in the middle of
    a rebuild, which has the old tags followed by new ones (`Amid`);
  - the handles a call holds are those of its sub-group's items from some place on
    (`From`), or too few, which raises, or, in a rebuild that adds nothing, of the
    sub-group before it: nothing is claimed of the rows read with these.

  Each step then needs what the filters `Select` and `Without` leave: the places they
  keep, in their order, so a rebuild that removes items and one that removes tags
  stay in step (`MatchesSelected`); and that a finite set of handles has a largest,
  so new ones are new (`AddedIsNew`).
- `Discovery_proofs!TagsFound`: for any tree of branches, any order in which the
  server tells them, and any failures. The tree must be one: finite, and with every
  branch also what leads to it (`TreeAssumption`). `ListInv` says of the branches still
  queued and the tags so far: whatever is looked for has been found or is behind a
  queued branch (`Covers`); and for iFIX, where tags go to a list that drops no double,
  no queued branch leads to another (`Apart`) or to a block already found (`Ahead`). A
  step takes a branch off the queue, and what was behind it is behind its sub-branches
  or is its own. The hypothesis `NamedApart` is about names: a block's tag leaves out
  the type of the block (`ItemID`), so two blocks of one name and different types would
  be one tag, listed twice. In iFIX a name is unique in a data base, whatever its type.
- `ReadInOrder`, with the same hypothesis. The lists still to be read are parts of the
  tags, each after the values read so far and before the lists behind it (`Sorted`).
  `PiecesAre` and `RetryIs` are about the code that cuts: its pieces are parts of what
  is cut, in their order, and all of it (`Cuts`), for any sizes.
- `OthersAreUnharmed`, without a hypothesis. `ReadInv` balances the account of a read
  that only tags or only one call make raise: values and lists still to be read
  together are the tags that can be read (`ReadSoFar`), for a list of one tag is given
  up only when it is that tag's fault or was tried a second time. `DescribeInv` counts:
  the tags that miss a description and are in no batch still to come are at most as
  many as a batch has, times the calls that failed.
- `LegacyBridge_proofs!NodesAreTags`: a tag's node exists, and a node is its tag's,
  unless its deletion failed or a refresh overtook the bootstrap. `NodeInv` adds why: what the poll thread
  is still to make has no node, and the refresh follows no listing until then
  (`Bootstrap`); what the refresh is still to make has no node and is not in its
  list twice (`NewIsNew`). That sequences of a set have no element twice, and that
  the filters only take away, are lemmas. It assumes a finite set of tags.
- `LegacyBridge_proofs!TypeCorrect`: of note is the energy map, which both threads
  empty and fill without the lock; it never names what is no tag (`MetersAreOfTags`).
- `NodesAreDescribed`: the refresh describes the first so many of its new tags, as
  many as it made nodes. `DescInv` has why that is right without a failure: then
  the nodes made are those of the first tags (`NoneSkipped`).

Each is laid out as Init, one step per action, and a temporal step. The inductive
invariants (`StartupInv`, `SoundInv`, `RefreshInv`, `TagInv`, `SessionInv`,
`HandsInv`, `AnswerInv`, `TagsInv`, `ClockInv`, `NodeInv`, `Types`, `DescInv`,
`LiveInv`, `SampleInv`, `OrderInv`, `ReadInv`, `DiscoveryTypes`,
`ListInv`, `ReadTypes`, `DescribeInv`) were model-checked before they were proved; no
run checks them any more.
`SUBSET S \ T` is written with parentheses throughout: the prover reads it as
`SUBSET (S \ T)`, TLC as `(SUBSET S) \ T`.

Only model-checked:

- the liveness properties, `Decides`, `Stops`, `Recovers`, `Follows` and the like, and
  the fairness in `WriteThrough`'s refinement: temporal reasoning with fairness is
  out of the prover's reach here;
- `Ends` of `Discovery`, that its recursions end: each is a loop over a stack here, and
  that it empties is a liveness property too.

Every safety invariant that a passing run checks is stated by a theorem.

## 7. What is not modelled, and the plan

Not modelled: item properties and the health tags of `OpcDaClient`, which keep no
state; `ilist` by itself (the walk of a server is in `Discovery`, as the bridge
uses it); the COM adapter, a thin layer over win32com whose failures are those of
the calls here; the gateway, a table of clients that no other part reads; command
line, configuration and logging, which hold no state of their own; generated code.

The modules were written in this order, the most important behaviour first:
write path, steady loop, startup, subscriptions, asynchronous reads, the legacy
bridge, discovery, synchronous reads and writes, and last the composition of the
steady loop with the nodes. Left:

1. `Gateway`: the registry of clients, their release and expiry.
2. The writes of UA clients in the composition: `Bridge` with the handler of
   `WriteBack`, instead of each by itself.
