-------------------------------- MODULE Startup --------------------------------
(***************************************************************************)
(* The bridge from start() to the steady loop, and stop(), in               *)
(* openopc2/ua_server.py.  Two threads exchange events over two queues:     *)
(* the DA thread connects, lists the tags with retries, reads them, waits   *)
(* for "ua_ready" and subscribes; the main thread waits for the tags, with  *)
(* a timeout that every event of progress resets, creates the nodes, and    *)
(* serves.  DaThread continues where this module's DA thread is "live".     *)
(*                                                                         *)
(* Time is counted in ticks of RETRY_SLEEP: what is not a sleep or a long   *)
(* COM call takes no time.                                                  *)
(***************************************************************************)
EXTENDS Naturals, Sequences, FiniteSets

CONSTANTS
    Tag,              \* the usable tags of the DA server
    MaxAttempts,      \* INITIAL_DISCOVERY_MAX_ATTEMPTS
    Timeout,          \* _discovery_timeout, in ticks
    ReadSize,         \* tags of a chunk of the initial read
    GroupSize,        \* tags of a subscribed group
    MaxFaults,        \* bound: failures of the DA server, of a call or of a node
    LongCalls,        \* TRUE: a COM call may be long, or never return
    Stoppable         \* TRUE: the operator may press Ctrl+C

ASSUME SizeAssumption ==
    /\ IsFiniteSet(Tag)
    /\ {MaxAttempts, ReadSize, GroupSize} \subseteq Nat \ {0}
ASSUME BoundAssumption == Timeout \in Nat /\ MaxFaults \in Nat
ASSUME SwitchAssumption == {LongCalls, Stoppable} \subseteq BOOLEAN

VARIABLES
    server,                 \* the DA server process: "up" or "down"
    published,              \* the tags in its address space
    session,                \* TRUE: da_client is connected to this server process
    ifix_optimized,         \* which discovery is used
    skip_initial_read,      \* TRUE: nodes start without a value
    da_pc,                  \* where the DA thread is
    attempt,                \* number of the discovery attempt
    todo,                   \* tags still to read, or to subscribe
    tag_values,             \* the tags announced to the main thread
    subscribed_tag_groups,  \* the groups subscribed, by number
    next_group_id,          \* number of the next group
    asked,                  \* groups asked for the values of all their tags
    reported,               \* tags whose first data change was put in the queue
    main_pc,                \* where the main thread is
    da_thread_active,       \* FALSE: the DA thread shall end
    since_activity,         \* ticks since last_activity
    found,                  \* the tags the main thread received
    ua_nodes,               \* the tags that have a node
    fed,                    \* the nodes that got a value from a data change
    da_to_main,             \* _da_to_main_queue
    main_to_da,             \* _main_to_da_queue
    faults                  \* number of faults so far

serverVars == <<server, published>>
configVars == <<ifix_optimized, skip_initial_read>>
groupVars  == <<subscribed_tag_groups, next_group_id, asked, reported>>
daVars     == <<session, da_pc, attempt, todo, tag_values, groupVars>>
mainVars   == <<main_pc, da_thread_active, found, ua_nodes, fed>>
queueVars  == <<da_to_main, main_to_da>>
vars == <<serverVars, configVars, daVars, mainVars, since_activity, queueVars, faults>>

-----------------------------------------------------------------------------

Group == 0 .. Cardinality(Tag) - 1

Progress      == [type |-> "progress"]
Error         == [type |-> "error"]
Discovered(S) == [type |-> "tags_discovered", tags |-> S]
DataChange(S) == [type |-> "data_change", tags |-> S]

Event == {Progress, Error} \cup {Discovered(S) : S \in SUBSET Tag}
                           \cup {DataChange(S) : S \in SUBSET Tag}

Put(events) == da_to_main' = da_to_main \o events

\* The next chunk of a list, whose order does not matter here.
Chunks(S, size) ==
    {C \in SUBSET S : Cardinality(C) = IF Cardinality(S) < size THEN Cardinality(S) ELSE size}

\* A call meets a fault.
Fault == faults < MaxFaults /\ faults' = faults + 1

\* A call fails: there is no session, or it meets a fault.
CallFails == (~session /\ UNCHANGED faults) \/ Fault

\* The steps in which the DA thread is inside a COM call.
Calls == {"connecting", "discovering", "reconnecting", "reading", "describing", "subscribing"}

\* The main thread is in start(), before it serves.
Starting == main_pc \in {"waiting", "creating", "ready"}

\* A tick passes.  The main thread empties its queue and looks at its clock
\* many times a tick.
TimePasses ==
    IF main_pc = "waiting"
    THEN /\ da_to_main = <<>>
         /\ since_activity <= Timeout
         /\ since_activity' = since_activity + 1
    ELSE UNCHANGED since_activity

-----------------------------------------------------------------------------

\* start() has set up the UA server and started the DA thread, whose first
\* events are on their way.
Init ==
    /\ server \in {"up", "down"}
    /\ published \in IF server = "up" THEN SUBSET Tag ELSE {{}}
    /\ session = FALSE
    /\ ifix_optimized \in BOOLEAN
    /\ skip_initial_read \in BOOLEAN
    /\ da_pc = "connecting"
    /\ attempt = 1
    /\ todo = {}
    /\ tag_values = {}
    /\ subscribed_tag_groups = [g \in Group |-> {}]
    /\ next_group_id = 0
    /\ asked = {}
    /\ reported = {}
    /\ main_pc = "waiting"
    /\ da_thread_active = TRUE
    /\ since_activity = 0
    /\ found = {}
    /\ ua_nodes = {}
    /\ fed = {}
    /\ da_to_main = <<Progress>>
    /\ main_to_da = <<>>
    /\ faults = 0

-----------------------------------------------------------------------------
(* The DA server.                                                           *)

\* The server stops, with the session and every subscription.
ServerStops ==
    /\ server = "up"
    /\ Fault
    /\ server' = "down"
    /\ published' = {}
    /\ session' = FALSE
    /\ UNCHANGED <<configVars, da_pc, attempt, todo, tag_values, groupVars, mainVars,
                   since_activity, queueVars>>

ServerStarts ==
    /\ server = "down"
    /\ server' = "up"
    /\ UNCHANGED <<published, configVars, daVars, mainVars, since_activity, queueVars, faults>>

\* The server publishes more of its tags.  A handle taken before that may be
\* dead afterwards.
ServerLoads ==
    /\ server = "up"
    /\ published # Tag
    /\ published' \in {P \in SUBSET Tag : published \subseteq P /\ P # published}
    /\ session' \in {session, FALSE}
    /\ UNCHANGED <<server, configVars, da_pc, attempt, todo, tag_values, groupVars, mainVars,
                   since_activity, queueVars, faults>>

\* A COM call takes a tick, or hangs for good.
CallTakesLong ==
    /\ LongCalls
    /\ da_pc \in Calls
    /\ Fault
    /\ \/ TimePasses /\ UNCHANGED da_pc
       \/ da_pc' = "hung" /\ UNCHANGED since_activity
    /\ UNCHANGED <<serverVars, configVars, session, attempt, todo, tag_values, groupVars,
                   mainVars, queueVars>>

\* Only time passes while the DA thread hangs.
Hangs ==
    /\ da_pc = "hung"
    /\ main_pc = "waiting"
    /\ TimePasses
    /\ UNCHANGED <<serverVars, configVars, daVars, mainVars, queueVars, faults>>

-----------------------------------------------------------------------------
(* The DA thread: _da_thread_main.                                          *)

\* finally: close the client.  events tells why the thread ends, if it says so.
End(events) ==
    /\ da_pc' = "ended"
    /\ session' = FALSE
    /\ Put(events)
    /\ UNCHANGED <<attempt, todo, tag_values, groupVars>>

\* The first connection; failing is fatal.
Connect ==
    /\ da_pc = "connecting"
    /\ \/ /\ server = "up"
          /\ session' = TRUE
          /\ da_pc' = "attempt"
          /\ Put(<<Progress>>)
          /\ UNCHANGED <<attempt, todo, tag_values, groupVars, faults>>
       \/ server = "down" /\ End(<<Error>>) /\ UNCHANGED faults
       \/ Fault /\ End(<<Error>>)
    /\ UNCHANGED <<serverVars, configVars, mainVars, since_activity, main_to_da>>

\* The next round of the discovery loop.  Only the iFIX discovery reports
\* progress when it starts.
Attempt ==
    /\ da_pc = "attempt"
    /\ IF da_thread_active
       THEN /\ da_pc' = "discovering"
            /\ Put(IF ifix_optimized THEN <<Progress>> ELSE <<>>)
            /\ UNCHANGED <<session, attempt, todo, tag_values, groupVars>>
       ELSE End(<<>>)
    /\ UNCHANGED <<serverVars, configVars, mainVars, since_activity, main_to_da, faults>>

\* The discovery listed tags; they are read next.
DiscoverySucceeds ==
    /\ da_pc = "discovering"
    /\ session
    /\ published # {}
    /\ da_pc' = "reading"
    /\ todo' = published
    /\ UNCHANGED <<serverVars, configVars, session, attempt, tag_values, groupVars, mainVars,
                   since_activity, queueVars, faults>>

LastAttempt == attempt >= MaxAttempts

\* It raised, which reports nothing, or listed nothing, which makes the standard
\* discovery report that it tries flat=False.  After the last attempt the thread
\* gives up; otherwise the client is closed before the sleep.
DiscoveryFails ==
    /\ da_pc = "discovering"
    /\ \E events \in {<<>>, <<Progress>>} :
         /\ \/ ~session /\ events = <<>> /\ UNCHANGED faults
            \/ /\ session /\ published = {} /\ UNCHANGED faults
               /\ events = IF ifix_optimized THEN <<>> ELSE <<Progress>>
            \/ Fault /\ events = <<>>
         /\ IF LastAttempt
            THEN End(events \o <<Error>>)
            ELSE /\ da_pc' = "sleeping"
                 /\ session' = FALSE
                 /\ Put(events)
                 /\ UNCHANGED <<attempt, todo, tag_values, groupVars>>
    /\ UNCHANGED <<serverVars, configVars, mainVars, since_activity, main_to_da>>

\* The sleep between two attempts; it looks at da_thread_active all the time.
Sleep ==
    /\ da_pc = "sleeping"
    /\ IF da_thread_active
       THEN /\ TimePasses
            /\ da_pc' = "reconnecting"
            /\ UNCHANGED <<session, attempt, todo, tag_values, groupVars, da_to_main>>
       ELSE End(<<>>) /\ UNCHANGED since_activity
    /\ UNCHANGED <<serverVars, configVars, mainVars, main_to_da, faults>>

\* Seeded fault: the new client is not connected.
Reconnect_Forgotten ==
    /\ da_pc = "reconnecting"
    /\ session' = FALSE
    /\ attempt' = attempt + 1
    /\ da_pc' = "attempt"
    /\ UNCHANGED <<serverVars, configVars, todo, tag_values, groupVars, mainVars,
                   since_activity, queueVars, faults>>

\* A new client.  If it cannot connect, the next discovery will raise.
Reconnect ==
    /\ da_pc = "reconnecting"
    /\ \/ session' = (server = "up") /\ UNCHANGED faults
       \/ Fault /\ session' = FALSE
    /\ attempt' = attempt + 1
    /\ da_pc' = "attempt"
    /\ UNCHANGED <<serverVars, configVars, todo, tag_values, groupVars, mainVars,
                   since_activity, queueVars>>

\* --skip-initial-read: every tag is announced without a value.
SkipRead ==
    /\ da_pc = "reading"
    /\ skip_initial_read
    /\ tag_values' = todo
    /\ todo' = {}
    /\ da_pc' = "describing"
    /\ Put(<<Progress>>)
    /\ UNCHANGED <<serverVars, configVars, session, attempt, groupVars, mainVars,
                   since_activity, main_to_da, faults>>

\* Read one chunk, in smaller pieces if that raises.  A tag whose read fails is
\* left out for good.
ReadChunk ==
    /\ da_pc = "reading"
    /\ ~skip_initial_read
    /\ \E chunk \in Chunks(todo, ReadSize) :
         /\ \/ session /\ tag_values' = tag_values \cup chunk /\ UNCHANGED faults
            \/ ~session /\ UNCHANGED <<tag_values, faults>>
            \/ Fault /\ \E ok \in (SUBSET chunk) \ {chunk} : tag_values' = tag_values \cup ok
         /\ todo' = todo \ chunk
    /\ da_pc' = IF todo' = {} THEN "describing" ELSE "reading"
    /\ Put(<<Progress>>)
    /\ UNCHANGED <<serverVars, configVars, session, attempt, groupVars, mainVars,
                   since_activity, main_to_da>>

\* Read the descriptions, where no failure is fatal, and announce the tags.
Describe ==
    /\ da_pc = "describing"
    /\ Put(<<Progress, Discovered(tag_values)>>)
    /\ da_pc' = "awaiting"
    /\ UNCHANGED <<serverVars, configVars, session, attempt, todo, tag_values, groupVars,
                   mainVars, since_activity, main_to_da, faults>>

\* Seeded faults: the wait does not look at da_thread_active; it gives up.
AwaitReady_Deaf ==
    /\ da_pc = "awaiting"
    /\ main_to_da # <<>>
    /\ main_to_da' = Tail(main_to_da)
    /\ IF da_thread_active
       THEN /\ da_pc' = "subscribing"
            /\ todo' = tag_values
            /\ UNCHANGED <<session, attempt, tag_values, groupVars, da_to_main>>
       ELSE End(<<>>)
    /\ UNCHANGED <<serverVars, configVars, mainVars, since_activity, faults>>

AwaitReady_Impatient ==
    /\ da_pc = "awaiting"
    /\ da_pc' = "subscribing"
    /\ todo' = tag_values
    /\ UNCHANGED <<serverVars, configVars, session, attempt, tag_values, groupVars, mainVars,
                   since_activity, queueVars, faults>>

\* Wait for "ua_ready", or for the order to stop.
AwaitReady ==
    /\ da_pc = "awaiting"
    /\ \/ /\ da_thread_active
          /\ main_to_da # <<>>
          /\ main_to_da' = Tail(main_to_da)
          /\ da_pc' = "subscribing"
          /\ todo' = tag_values
          /\ UNCHANGED <<session, attempt, tag_values, groupVars, da_to_main>>
       \/ ~da_thread_active /\ End(<<>>) /\ UNCHANGED main_to_da
    /\ UNCHANGED <<serverVars, configVars, mainVars, since_activity, faults>>

\* Seeded fault: a group that failed gives its number to the next one.
SubscribeGroup_Reused ==
    /\ da_pc = "subscribing"
    /\ \E chunk \in Chunks(todo, GroupSize) \ {{}} :
         /\ todo' = todo \ chunk
         /\ \/ /\ session
               /\ subscribed_tag_groups' = [subscribed_tag_groups EXCEPT ![next_group_id] = chunk]
               /\ next_group_id' = next_group_id + 1
               /\ asked' = asked \cup {next_group_id}
               /\ Put(<<Progress>>)
               /\ UNCHANGED faults
            \/ /\ CallFails
               /\ UNCHANGED <<subscribed_tag_groups, next_group_id, asked, da_to_main>>
    /\ UNCHANGED <<serverVars, configVars, session, da_pc, attempt, tag_values, reported,
                   mainVars, since_activity, main_to_da>>

\* Subscribe the next group and ask it for its values; if it cannot be asked, it is
\* subscribed all the same.  If subscribing raises, the group is logged and
\* skipped: it keeps its number and is not mirrored.
SubscribeGroup ==
    /\ da_pc = "subscribing"
    /\ \E chunk \in Chunks(todo, GroupSize) \ {{}} :
         /\ todo' = todo \ chunk
         /\ \/ /\ session
               /\ subscribed_tag_groups' = [subscribed_tag_groups EXCEPT ![next_group_id] = chunk]
               /\ \/ asked' = asked \cup {next_group_id} /\ UNCHANGED faults
                  \/ Fault /\ UNCHANGED asked
               /\ Put(<<Progress>>)
            \/ /\ CallFails
               /\ UNCHANGED <<subscribed_tag_groups, asked, da_to_main>>
    /\ next_group_id' = next_group_id + 1
    /\ UNCHANGED <<serverVars, configVars, session, da_pc, attempt, tag_values, reported,
                   mainVars, since_activity, main_to_da>>

\* All groups were tried: the steady loop begins.
GoLive ==
    /\ da_pc = "subscribing"
    /\ todo = {}
    /\ da_pc' = "live"
    /\ Put(<<Progress>>)
    /\ UNCHANGED <<serverVars, configVars, session, attempt, todo, tag_values, groupVars,
                   mainVars, since_activity, main_to_da, faults>>

\* The steady loop, of which only its first heartbeat, which asks every group again,
\* and its end are of interest here: that a heartbeat may fail, and what then, is
\* DaThread's.
Heartbeat ==
    /\ da_pc = "live"
    /\ da_thread_active
    /\ session
    /\ asked' = {g \in Group : subscribed_tag_groups[g] # {}}
    /\ UNCHANGED <<serverVars, configVars, session, da_pc, attempt, todo, tag_values,
                   subscribed_tag_groups, next_group_id, reported, mainVars, since_activity,
                   queueVars, faults>>

LeaveLoop ==
    /\ da_pc = "live"
    /\ ~da_thread_active
    /\ End(<<>>)
    /\ UNCHANGED <<serverVars, configVars, mainVars, since_activity, main_to_da, faults>>

\* Seeded fault: only the first group is asked for its values.
FirstValuesDue_FirstGroup(g) ==
    g = 0 /\ g \in asked /\ subscribed_tag_groups[g] # {} /\ subscribed_tag_groups[g] \cap reported = {}

\* The group was asked for its values, which have not come yet.
FirstValuesDue(g) ==
    g \in asked /\ subscribed_tag_groups[g] # {} /\ subscribed_tag_groups[g] \cap reported = {}

\* on_da_changes: the first values of a group arrive.
OnDaChanges(g) ==
    /\ session
    /\ da_pc \in {"subscribing", "live", "hung"}
    /\ FirstValuesDue(g)
    /\ Put(<<DataChange(subscribed_tag_groups[g])>>)
    /\ reported' = reported \cup subscribed_tag_groups[g]
    /\ UNCHANGED <<serverVars, configVars, session, da_pc, attempt, todo, tag_values,
                   subscribed_tag_groups, next_group_id, asked, mainVars, since_activity,
                   main_to_da, faults>>

-----------------------------------------------------------------------------
(* The main thread: start(), _process_da_events(), stop(), main().          *)

\* start() takes an event: progress restarts the clock, an error is raised,
\* the tags end the wait.
TakeEvent ==
    /\ main_pc = "waiting"
    /\ da_to_main # <<>>
    /\ LET event == Head(da_to_main)
       IN  \/ /\ event.type = "progress"
              /\ since_activity' = 0
              /\ UNCHANGED <<main_pc, found>>
           \/ /\ event.type = "error"
              /\ main_pc' = "failed"
              /\ UNCHANGED <<since_activity, found>>
           \/ /\ event.type = "tags_discovered"
              /\ main_pc' = "creating"
              /\ found' = event.tags
              /\ UNCHANGED since_activity
           \/ /\ event.type = "data_change"
              /\ UNCHANGED <<main_pc, since_activity, found>>
    /\ da_to_main' = Tail(da_to_main)
    /\ UNCHANGED <<serverVars, configVars, daVars, da_thread_active, ua_nodes, fed, main_to_da,
                   faults>>

\* Seeded fault: the timeout is not looked at.
GiveUp_Never == FALSE

\* No event for longer than the timeout: start() raises.
GiveUp ==
    /\ main_pc = "waiting"
    /\ da_to_main = <<>>
    /\ since_activity > Timeout
    /\ main_pc' = "failed"
    /\ UNCHANGED <<serverVars, configVars, daVars, da_thread_active, found, ua_nodes, fed,
                   since_activity, queueVars, faults>>

\* _create_ua_nodes: a tag whose node cannot be created is logged and skipped.
CreateNodes ==
    /\ main_pc = "creating"
    /\ \/ ua_nodes' = found /\ UNCHANGED faults
       \/ Fault /\ \E t \in found : ua_nodes' = found \ {t}
    /\ main_pc' = "ready"
    /\ UNCHANGED <<serverVars, configVars, daVars, da_thread_active, found, fed, since_activity,
                   queueVars>>

\* Subscribe the write handler, tell the DA thread, start the UA server.  Either
\* end of this may raise out of start(): before "ua_ready" or after it.
Serve ==
    /\ main_pc = "ready"
    /\ \/ main_pc' = "serving" /\ main_to_da' = Append(main_to_da, "ua_ready") /\ UNCHANGED faults
       \/ main_pc' = "failed" /\ main_to_da' \in {main_to_da, Append(main_to_da, "ua_ready")} /\ Fault
    /\ UNCHANGED <<serverVars, configVars, daVars, da_thread_active, found, ua_nodes, fed,
                   since_activity, da_to_main>>

\* _process_da_events: a data change goes to the nodes there are; progress has
\* no handler any more, and an error is only logged.
ProcessEvent ==
    /\ main_pc = "serving"
    /\ da_to_main # <<>>
    /\ LET event == Head(da_to_main)
       IN  fed' = IF event.type = "data_change" THEN fed \cup (event.tags \cap ua_nodes) ELSE fed
    /\ da_to_main' = Tail(da_to_main)
    /\ UNCHANGED <<serverVars, configVars, daVars, main_pc, da_thread_active, found, ua_nodes,
                   since_activity, main_to_da, faults>>

\* Ctrl+C: main() calls stop(), which waits for the DA thread.
Stop ==
    /\ Stoppable
    /\ Starting \/ main_pc = "serving"
    /\ main_pc' = "stopping"
    /\ da_thread_active' = FALSE
    /\ UNCHANGED <<serverVars, configVars, daVars, found, ua_nodes, fed, since_activity,
                   queueVars, faults>>

\* The process ends.  join() waits five seconds, longer than anything but a COM
\* call takes; an exception waits for nothing.  A thread still running is cut
\* off where it is, and its client with it.
Exit ==
    /\ \/ main_pc = "stopping" /\ da_pc \in Calls \cup {"hung", "ended"}
       \/ main_pc = "failed"
    /\ main_pc' = "exited"
    /\ da_pc' = IF da_pc = "ended" THEN "ended" ELSE "killed"
    /\ session' = FALSE
    /\ UNCHANGED <<serverVars, configVars, attempt, todo, tag_values, groupVars,
                   da_thread_active, found, ua_nodes, fed, since_activity, queueVars, faults>>

-----------------------------------------------------------------------------

DaThreadSteps ==
    \/ Connect \/ Attempt \/ DiscoverySucceeds \/ DiscoveryFails \/ Sleep \/ Reconnect
    \/ SkipRead \/ ReadChunk \/ Describe \/ AwaitReady \/ SubscribeGroup \/ GoLive \/ Heartbeat \/ LeaveLoop

MainSteps == TakeEvent \/ GiveUp \/ CreateNodes \/ Serve \/ ProcessEvent

Next ==
    \/ ServerStops \/ ServerStarts \/ ServerLoads \/ CallTakesLong \/ Hangs
    \/ Connect \/ Attempt \/ DiscoverySucceeds \/ DiscoveryFails \/ Sleep \/ Reconnect
    \/ SkipRead \/ ReadChunk \/ Describe \/ AwaitReady \/ SubscribeGroup \/ GoLive \/ Heartbeat \/ LeaveLoop
    \/ \E g \in Group : OnDaChanges(g)
    \/ TakeEvent \/ GiveUp \/ CreateNodes \/ Serve \/ ProcessEvent \/ Stop \/ Exit

\* Both threads run, time passes, a live group reports.  The server owes
\* nothing: it may never start, and never publish a tag.
Fairness ==
    /\ WF_vars(DaThreadSteps)
    /\ WF_vars(MainSteps)
    /\ WF_vars(Hangs)
    /\ WF_vars(Exit)
    /\ \A g \in Group : WF_vars(OnDaChanges(g))

Spec == Init /\ [][Next]_vars /\ Fairness

-----------------------------------------------------------------------------
(* Properties.                                                              *)

\* The values of the state variables.
TypeOK ==
    /\ server \in {"up", "down"}
    /\ published \subseteq Tag
    /\ session \in BOOLEAN
    /\ ifix_optimized \in BOOLEAN
    /\ skip_initial_read \in BOOLEAN
    /\ da_pc \in Calls \cup {"attempt", "sleeping", "awaiting", "live", "hung", "ended", "killed"}
    /\ attempt \in 1 .. MaxAttempts
    /\ todo \subseteq Tag
    /\ tag_values \subseteq Tag
    /\ subscribed_tag_groups \in [Group -> SUBSET Tag]
    /\ next_group_id \in 0 .. Cardinality(Tag)
    /\ asked \subseteq Group
    /\ reported \subseteq Tag
    /\ main_pc \in {"waiting", "creating", "ready", "serving", "stopping", "failed", "exited"}
    /\ da_thread_active \in BOOLEAN
    /\ since_activity \in 0 .. Timeout + 1
    /\ found \subseteq Tag
    /\ ua_nodes \subseteq Tag
    /\ fed \subseteq Tag
    /\ da_to_main \in Seq(Event)
    /\ main_to_da \in {<<>>, <<"ua_ready">>}
    /\ faults \in 0 .. MaxFaults

\* No group is subscribed, and no data change is on its way, before the nodes
\* were created and the write handler listens to them.
NodesFirst ==
    main_pc \in {"waiting", "creating", "ready"} =>
      /\ \A g \in Group : subscribed_tag_groups[g] = {}
      /\ \A i \in 1 .. Len(da_to_main) : da_to_main[i].type # "data_change"

Steady == INSTANCE DaThread WITH
    MaxGroup <- Cardinality(Tag), HeartbeatInterval <- 1, StaleThreshold <- 1,
    RefreshInterval <- 1, MaxChanges <- 0, StartsComplete <- FALSE,
    PartialFaults <- TRUE, GradualLoad <- TRUE,
    ListingFaults <- TRUE, SlowDiscovery <- TRUE,
    configured <- published,
    live <- [g \in 0 .. Cardinality(Tag) |-> IF g \in Group THEN subscribed_tag_groups[g] ELSE {}],
    arriving <- {g \in Group : FirstValuesDue(g)},
    subscribed_tag_groups <-
      [g \in 0 .. Cardinality(Tag) |-> IF g \in Group THEN subscribed_tag_groups[g] ELSE {}],
    current_tags <- tag_values,
    since_data_change <- 0, since_heartbeat <- 0, since_refresh <- 0,
    pc <- "sleep", new_tags <- {}, faults <- 0, changes <- 0,
    starved <- FALSE, overlooked <- tag_values \ UNION {subscribed_tag_groups[g] : g \in Group}

\* The steady loop starts in a state DaThread starts in: what that module
\* assumes of the groups, their numbers and the known tags, the startup brings
\* about.
HandsOver == da_pc = "live" /\ session => Steady!Init

\* start() never waits for ever, not even for a COM call that hangs.
Decides == main_pc = "waiting" ~> main_pc # "waiting"

\* Once told to stop, the DA thread closes its client and ends, unless the
\* process had to leave it in a COM call.
Stops == ~da_thread_active ~> da_pc \in {"ended", "killed"} /\ ~session

\* If the server has published its tags before the last attempt, and nothing
\* fails any more, the bridge serves all of them.
GoesLive ==
    /\ main_pc = "waiting" /\ since_activity < Timeout
    /\ da_pc \in {"attempt", "discovering"} /\ attempt < MaxAttempts
    /\ published = Tag /\ server = "up" /\ faults = MaxFaults
    ~> (main_pc = "serving" /\ ua_nodes = Tag) \/ ~da_thread_active

\* The first values of a group reach every node of it; when the group could not be
\* asked for them, once the bridge is live.
NodesGetValues ==
    \A t \in Tag :
      (\E g \in Group : t \in subscribed_tag_groups[g] /\ (g \in asked \/ da_pc = "live")) /\ t \in ua_nodes
        ~> t \in fed \/ ~session

\* start() gives up only when the DA thread is inside a call, never between two
\* attempts of the discovery it keeps retrying.
RetriesFit ==
    [][GiveUp => da_pc \notin {"attempt", "sleeping"}]_vars

\* The bridge never serves an address space without tags.
LiveHasTags == main_pc = "serving" => ua_nodes # {}
=============================================================================
