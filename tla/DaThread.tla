------------------------------- MODULE DaThread -------------------------------
(***************************************************************************)
(* The DA thread of the OPC UA bridge once it is live: the loop at the end *)
(* of _da_thread_main in openopc2/ua_server.py.  It keeps one OPC DA       *)
(* subscription per group of tags, asks every group for its cached values  *)
(* (heartbeat), rebuilds the client when no data change was heard for too  *)
(* long (watchdog), and now and then lists the server's tags again to find *)
(* those added and removed (refresh).                                       *)
(*                                                                         *)
(* Time is counted in ticks, the shortest interval of the code.  A tick    *)
(* passes while the loop sleeps, and one iteration follows; what the       *)
(* heartbeat asked for arrives well before the next tick.  The one step    *)
(* that can take ticks itself is the discovery.  The code's clocks are     *)
(* kept as the time since each, up to the threshold it is compared with.   *)
(***************************************************************************)
EXTENDS Naturals, FiniteSets

CONSTANTS
    Tag,                   \* the tags the DA server may be configured with
    MaxGroup,              \* bound: the last group number
    HeartbeatInterval,     \* ticks between two AsyncRefresh of all groups
    StaleThreshold,        \* ticks without a data change: the sink is dead
    RefreshInterval,       \* ticks between two discoveries
    MaxFaults,             \* bound: failures of the DA server or of a call
    MaxChanges,            \* bound: changes of the server's configuration
    StartsComplete,        \* TRUE: all tags could be read, subscribed and asked for at start
    PartialFaults,         \* TRUE: a fault may hit some groups only
    GradualLoad,           \* TRUE: a restarted server publishes tags gradually
    ListingFaults,         \* TRUE: a discovery may raise, or miss tags silently
    SlowDiscovery          \* TRUE: a discovery may last several ticks

Group == 0 .. MaxGroup

ASSUME IntervalAssumption ==
    /\ HeartbeatInterval \in Nat \ {0}
    /\ StaleThreshold \in Nat \ {0}
    /\ RefreshInterval \in Nat \ {0}
ASSUME BoundAssumption == MaxGroup \in Nat /\ MaxFaults \in Nat /\ MaxChanges \in Nat
ASSUME SwitchAssumption ==
    {StartsComplete, PartialFaults, GradualLoad, ListingFaults, SlowDiscovery}
      \subseteq BOOLEAN

VARIABLES
    server,                  \* the DA server process: "up" or "down"
    configured,              \* the tags in the server's configuration
    published,               \* those it publishes now
    session,                 \* TRUE: da_client is connected to this server process
    live,                    \* per group, the tags whose data changes reach the sink
    arriving,                \* groups with a data change on its way to on_da_changes
    subscribed_tag_groups,   \* the mirror: per group, the tags to re-subscribe
    current_tags,            \* the tags known from the last discovery
    next_group_id,           \* number of the next group
    since_data_change,       \* ticks since _last_data_change_time
    since_heartbeat,         \* ticks since last_heartbeat
    since_refresh,           \* ticks since last_refresh_time
    pc,                      \* where the loop is
    new_tags,                \* what the discovery under way returned
    faults, changes,         \* number of faults and changes so far
    starved,                 \* history: an AsyncRefresh failed, or time passed in a
                             \* discovery, and no data change was heard since
    overlooked               \* history: tags gone silent in a way that a clock for
                             \* all groups together does not show

serverVars == <<server, configured, published>>
clientVars == <<session, live, arriving>>
mirrorVars == <<subscribed_tag_groups, current_tags, next_group_id>>
clockVars  == <<since_data_change, since_heartbeat, since_refresh>>
envVars    == <<faults, changes>>
historyVars == <<starved, overlooked>>
vars == <<serverVars, clientVars, mirrorVars, clockVars, pc, new_tags, envVars, historyVars>>

-----------------------------------------------------------------------------

Silent == [g \in Group |-> {}]

Heard == {g \in Group : live[g] # {}}

Live == UNION {live[g] : g \in Group}

Tracked == UNION {subscribed_tag_groups[g] : g \in Group}

\* Seeded fault: a clock is not capped.
Older_Uncapped(age, limit) == age + 1

Older(age, limit) == IF age < limit THEN age + 1 ELSE limit

\* Every clock is a tick older.
TimePasses ==
    /\ since_data_change' = Older(since_data_change, StaleThreshold)
    /\ since_heartbeat' = Older(since_heartbeat, HeartbeatInterval)
    /\ since_refresh' = Older(since_refresh, RefreshInterval)

-----------------------------------------------------------------------------

\* The discovered tags were subscribed in groups, which were asked for their values
\* if that did not fail; a group whose subscribe failed is not mirrored, but its
\* tags are current all the same.
Init ==
    /\ server = "up"
    /\ configured \in (SUBSET Tag) \ {{}}
    /\ published = configured
    /\ session = TRUE
    /\ current_tags \in IF StartsComplete THEN {published} ELSE SUBSET published
    /\ next_group_id \in 0 .. MaxGroup
    /\ \E group_of \in [current_tags -> Group] :
         /\ {group_of[t] : t \in current_tags} = 0 .. next_group_id - 1
         /\ \E failed \in IF StartsComplete THEN {{}} ELSE SUBSET Group :
              subscribed_tag_groups =
                [g \in Group |-> {t \in current_tags : group_of[t] = g /\ g \notin failed}]
    /\ live = subscribed_tag_groups
    /\ arriving \in IF StartsComplete THEN {Heard} ELSE SUBSET Heard
    /\ since_data_change = 0
    /\ since_heartbeat = 0
    /\ since_refresh = 0
    /\ pc = "sleep"
    /\ new_tags = {}
    /\ faults = 0
    /\ changes = 0
    /\ starved = FALSE
    /\ overlooked = current_tags \ Tracked

-----------------------------------------------------------------------------
(* The environment: the DA server and its configuration.                    *)

\* A fault, which may fall anywhere in the loop.
Fault ==
    /\ faults < MaxFaults
    /\ faults' = faults + 1
    /\ UNCHANGED changes

\* The server stops: every subscription and the session go with it.
ServerStops ==
    /\ server = "up"
    /\ Fault
    /\ server' = "down"
    /\ published' = {}
    /\ session' = FALSE
    /\ live' = Silent
    /\ UNCHANGED <<configured, arriving, mirrorVars, clockVars, pc, new_tags, historyVars>>

\* It comes back; it may not have published its address space yet.
ServerStarts ==
    /\ server = "down"
    /\ server' = "up"
    /\ published' \in IF GradualLoad THEN SUBSET configured ELSE {configured}
    /\ UNCHANGED <<configured, clientVars, mirrorVars, clockVars, pc, new_tags, envVars, historyVars>>

ServerLoads ==
    /\ server = "up"
    /\ published # configured
    /\ published' = configured
    /\ UNCHANGED <<server, configured, clientVars, mirrorVars, clockVars, pc, new_tags, envVars,
                   historyVars>>

\* The advise sinks die silently: the session still answers calls.  Those of some
\* groups go unnoticed as long as another group is heard.
SinksDie ==
    /\ Fault
    /\ \E S \in IF PartialFaults THEN SUBSET Group ELSE {Group} :
         /\ live' = [g \in Group |-> IF g \in S THEN {} ELSE live[g]]
         /\ overlooked' = IF Heard \subseteq S THEN overlooked
                          ELSE overlooked \cup UNION {live[g] : g \in S}
    /\ UNCHANGED <<serverVars, session, arriving, mirrorVars, clockVars, pc, new_tags, starved>>

\* A tag is added to the server or removed from it, never the last one.  One that
\* is back before a refresh missed it is still known, but not subscribed any more.
Reconfigure(t) ==
    /\ changes < MaxChanges
    /\ configured' = IF t \in configured THEN configured \ {t} ELSE configured \cup {t}
    /\ configured' # {}
    /\ published' = IF server = "up" /\ t \notin configured THEN published \cup {t}
                    ELSE published \ {t}
    /\ live' = [g \in Group |-> live[g] \cap configured']
    /\ changes' = changes + 1
    /\ overlooked' = IF t \in current_tags \ configured THEN overlooked \cup {t} ELSE overlooked
    /\ UNCHANGED <<server, session, arriving, mirrorVars, clockVars, pc, new_tags, faults, starved>>

\* A value changes in the plant.  While a data change is on its way another one
\* makes no difference to the clock they reset.
PlantChanges(g) ==
    /\ g \in Heard
    /\ arriving = {}
    /\ arriving' = {g}
    /\ UNCHANGED <<serverVars, session, live, mirrorVars, clockVars, pc, new_tags, envVars,
                   historyVars>>

-----------------------------------------------------------------------------
(* The subscription thread.                                                 *)

\* on_da_changes: any data change, of any group, proves the sink alive.
OnDaChanges(g) ==
    /\ g \in arriving
    /\ arriving' = arriving \ {g}
    /\ since_data_change' = 0
    /\ starved' = FALSE
    /\ UNCHANGED <<serverVars, session, live, mirrorVars, since_heartbeat, since_refresh,
                   pc, new_tags, envVars, overlooked>>

-----------------------------------------------------------------------------
(* The loop.                                                                *)

\* The loop sleeps; time passes; the next iteration starts.
Tick ==
    /\ pc = "sleep"
    /\ arriving = {}
    /\ TimePasses
    /\ pc' = "heartbeat"
    /\ UNCHANGED <<serverVars, clientVars, mirrorVars, new_tags, envVars, historyVars>>

\* Seeded fault: the heartbeat is never sent.
HeartbeatDue_Never == FALSE

HeartbeatDue == since_heartbeat >= HeartbeatInterval

\* Seeded fault: only the first group is asked.
Heartbeat_FirstGroup(asked) ==
    /\ pc = "heartbeat"
    /\ pc' = "watchdog"
    /\ asked = (IF HeartbeatDue THEN Heard \cap {0} ELSE {})
    /\ since_heartbeat' = IF HeartbeatDue THEN 0 ELSE since_heartbeat
    /\ arriving' = arriving \cup asked
    /\ UNCHANGED <<serverVars, session, live, mirrorVars, since_data_change, since_refresh,
                   new_tags, envVars, historyVars>>

\* AsyncRefresh(cache) on every group of the client, when due.  A group it fails
\* for is skipped, or all are, and the heartbeat counts as sent.
Heartbeat(asked) ==
    /\ pc = "heartbeat"
    /\ pc' = "watchdog"
    /\ since_heartbeat' = IF HeartbeatDue THEN 0 ELSE since_heartbeat
    /\ \/ /\ asked = (IF HeartbeatDue THEN Heard ELSE {})
          /\ UNCHANGED <<faults, starved>>
       \/ /\ HeartbeatDue
          /\ asked \subseteq Heard
          /\ PartialFaults /\ faults < MaxFaults /\ faults' = faults + 1
          /\ starved' = TRUE
    /\ arriving' = arriving \cup asked
    /\ UNCHANGED <<serverVars, session, live, mirrorVars, since_data_change, since_refresh,
                   new_tags, changes, overlooked>>

\* Seeded fault: only the first group is subscribed again.
ResubscribeAll_First(glitches) ==
    /\ session' = (server = "up")
    /\ live' = [g \in Group |-> IF server = "up" /\ g = 0 THEN subscribed_tag_groups[g] \cap published
                                ELSE {}]
    /\ overlooked' = IF server = "up" THEN (overlooked \ Tracked) \cup (Tracked \ published) ELSE overlooked
    /\ arriving' = {g \in Group : live'[g] # {}}
    /\ faults' = faults + glitches

\* _resubscribe_all: close the client, connect a new one, subscribe every
\* mirrored group again.  A group that fails is logged and skipped; a tag the
\* server does not publish is left out of its group: both are overlooked as soon
\* as others are heard.  A group may be subscribed and not be asked for its values,
\* as in every subscribe().  Callbacks of the old client that were not delivered are
\* gone with it.  On a server that is down connecting raises.  glitches counts the
\* fault, if any, that led here.
ResubscribeAll(glitches) ==
    \/ /\ server = "up"
       /\ session' = TRUE
       /\ \/ /\ live' = [g \in Group |-> subscribed_tag_groups[g] \cap published]
             /\ overlooked' = (overlooked \ Tracked) \cup (Tracked \ published)
             /\ faults' = faults + glitches
             /\ arriving' = Heard'
          \/ /\ PartialFaults
             /\ faults + glitches < MaxFaults
             /\ \E g \in Group :
                  \/ /\ live' = [h \in Group |-> IF h = g THEN {} ELSE subscribed_tag_groups[h] \cap published]
                     /\ overlooked' = (overlooked \ Tracked) \cup (Tracked \ published)
                                         \cup subscribed_tag_groups[g]
                     /\ arriving' = Heard'
                  \/ /\ live' = [h \in Group |-> subscribed_tag_groups[h] \cap published]
                     /\ overlooked' = (overlooked \ Tracked) \cup (Tracked \ published)
                     /\ arriving' = Heard' \ {g}
             /\ faults' = faults + glitches + 1
    \/ /\ server = "down"
       /\ session' = FALSE
       /\ live' = Silent
       /\ arriving' = {}
       /\ faults' = faults + glitches
       /\ UNCHANGED overlooked

\* Seeded fault: the watchdog is not armed.
Stale_Never == FALSE

Stale == since_data_change >= StaleThreshold

\* No data change for StaleThreshold: rebuild.  The clocks restart whether or
\* not that worked.
Watchdog ==
    /\ pc = "watchdog"
    /\ pc' = "refresh"
    /\ IF Stale
       THEN ResubscribeAll(0) /\ since_data_change' = 0 /\ since_heartbeat' = 0 /\ starved' = FALSE
       ELSE UNCHANGED <<clientVars, since_data_change, since_heartbeat, faults, historyVars>>
    /\ UNCHANGED <<serverVars, mirrorVars, since_refresh, new_tags, changes>>

\* Is it time to refresh the tag list?
Refresh ==
    /\ pc = "refresh"
    /\ IF since_refresh >= RefreshInterval
       THEN since_refresh' = 0 /\ pc' = "discovering"
       ELSE UNCHANGED since_refresh /\ pc' = "sleep"
    /\ UNCHANGED <<serverVars, clientVars, mirrorVars, since_data_change, since_heartbeat,
                   new_tags, envVars, historyVars>>

\* The discovery goes on; no heartbeat is sent meanwhile.
DiscoveryTakesLong ==
    /\ pc = "discovering"
    /\ SlowDiscovery
    /\ TimePasses
    /\ starved' = TRUE
    /\ UNCHANGED <<serverVars, clientVars, mirrorVars, pc, new_tags, envVars, overlooked>>

\* Seeded faults: the mirror keeps the removed tags; every listing is believed.
Pruned_Kept(listing) == subscribed_tag_groups
Credible_Always(listing) == TRUE

\* The mirror without the tags the listing does not have any more.
Pruned(listing) ==
    [g \in Group |-> subscribed_tag_groups[g] \ (current_tags \ listing)]

\* An empty listing is not taken for the removal of every known tag.
Credible(listing) == listing # {} \/ current_tags = {}

\* The discovery returned tags: those added are read next; without any, the
\* removed ones are forgotten at once.
Discovered ==
    /\ pc = "discovering"
    /\ session
    /\ \E listing \in SUBSET published :
         /\ \/ listing = published /\ UNCHANGED faults
            \/ ListingFaults /\ faults < MaxFaults /\ faults' = faults + 1
         /\ Credible(listing)
         /\ IF listing \subseteq current_tags
            THEN /\ current_tags' = listing
                 /\ subscribed_tag_groups' = Pruned(listing)
                 /\ pc' = "heartbeat"
                 /\ UNCHANGED new_tags
            ELSE /\ new_tags' = listing
                 /\ pc' = "reading"
                 /\ UNCHANGED <<current_tags, subscribed_tag_groups>>
    /\ UNCHANGED <<serverVars, clientVars, next_group_id, clockVars, changes, historyVars>>

\* It raised, or returned nothing although tags were known: skip this refresh
\* and rebuild.  The clocks restart only if connecting worked.
DiscoveryFailed ==
    /\ pc = "discovering"
    /\ \/ ~session /\ ResubscribeAll(0)
       \/ ~Credible(published) /\ ResubscribeAll(0)
       \/ ListingFaults /\ faults < MaxFaults /\ ResubscribeAll(1)
    /\ IF server = "up"
       THEN since_data_change' = 0 /\ since_heartbeat' = 0 /\ starved' = FALSE
       ELSE UNCHANGED <<since_data_change, since_heartbeat, starved>>
    /\ pc' = "heartbeat"
    /\ UNCHANGED <<serverVars, mirrorVars, since_refresh, new_tags, changes>>

\* A call to the server fails: there is no session, or the call meets a fault.
CallFails ==
    \/ ~session /\ UNCHANGED faults
    \/ PartialFaults /\ faults < MaxFaults /\ faults' = faults + 1

\* Read the values of the added tags.  A read that raises ends the refresh,
\* the removals included; they are found again next time.
ReadAdded ==
    /\ pc = "reading"
    /\ \/ session /\ pc' = "subscribing" /\ UNCHANGED <<new_tags, faults>>
       \/ CallFails /\ pc' = "heartbeat" /\ new_tags' = {}
    /\ UNCHANGED <<serverVars, clientVars, mirrorVars, clockVars, changes, historyVars>>

\* Seeded fault: the added tags do not become current.
SubscribeAdded_Forgotten ==
    /\ pc = "subscribing"
    /\ LET added == new_tags \ current_tags
       IN  /\ session
           /\ next_group_id <= MaxGroup
           /\ live' = [live EXCEPT ![next_group_id] = added \cap published]
           /\ arriving' = arriving \cup {g \in Group : g = next_group_id /\ live'[g] # {}}
           /\ subscribed_tag_groups' = [Pruned(new_tags) EXCEPT ![next_group_id] = added]
           /\ next_group_id' = next_group_id + 1
    /\ current_tags' = current_tags \cap new_tags
    /\ new_tags' = {}
    /\ pc' = "heartbeat"
    /\ UNCHANGED <<serverVars, session, clockVars, envVars, historyVars>>

\* Subscribe the added tags as a group of their own.  They become current even
\* if that fails; only a group that was subscribed is mirrored and numbered.  Once
\* it is heard, no known tag that is silent by now is noticed any more.
SubscribeAdded ==
    /\ pc = "subscribing"
    /\ LET added == new_tags \ current_tags
       IN  \/ /\ session
              /\ next_group_id <= MaxGroup
              /\ live' = [live EXCEPT ![next_group_id] = added \cap published]
              /\ \/ /\ arriving' = arriving \cup {g \in Group : g = next_group_id /\ live'[g] # {}}
                    /\ UNCHANGED <<faults, starved>>
                 \/ /\ PartialFaults /\ faults < MaxFaults /\ faults' = faults + 1
                    /\ starved' = TRUE
                    /\ UNCHANGED arriving
              /\ subscribed_tag_groups' = [Pruned(new_tags) EXCEPT ![next_group_id] = added]
              /\ next_group_id' = next_group_id + 1
              /\ overlooked' = (overlooked \ added) \cup (new_tags \ Live')
           \/ /\ CallFails
              /\ subscribed_tag_groups' = Pruned(new_tags)
              /\ overlooked' = overlooked \cup added
              /\ UNCHANGED <<live, arriving, next_group_id, starved>>
    /\ current_tags' = new_tags
    /\ new_tags' = {}
    /\ pc' = "heartbeat"
    /\ UNCHANGED <<serverVars, session, clockVars, changes>>

-----------------------------------------------------------------------------

Next ==
    \/ ServerStops \/ ServerStarts \/ ServerLoads \/ SinksDie
    \/ \E t \in Tag : Reconfigure(t)
    \/ \E g \in Group : PlantChanges(g) \/ OnDaChanges(g)
    \/ Tick \/ \E asked \in SUBSET Group : Heartbeat(asked)
    \/ Watchdog \/ Refresh
    \/ DiscoveryTakesLong \/ Discovered \/ DiscoveryFailed \/ ReadAdded \/ SubscribeAdded

\* The threads run, COM calls return, time passes, a stopped server is started
\* and publishes all of its configuration.  Faults, changes and plant activity
\* are never owed.
Fairness ==
    /\ WF_vars(ServerStarts)
    /\ WF_vars(ServerLoads)
    /\ \A g \in Group : WF_vars(OnDaChanges(g))
    /\ SF_vars(Tick)
    /\ WF_vars(\E asked \in SUBSET Group : Heartbeat(asked))
    /\ WF_vars(Watchdog)
    /\ WF_vars(Refresh)
    /\ WF_vars(Discovered \/ DiscoveryFailed)
    /\ WF_vars(ReadAdded)
    /\ WF_vars(SubscribeAdded)

Spec == Init /\ [][Next]_vars /\ Fairness

-----------------------------------------------------------------------------
(* Properties.                                                              *)

\* The values of the state variables.
TypeOK ==
    /\ server \in {"up", "down"}
    /\ configured \subseteq Tag
    /\ published \subseteq Tag
    /\ session \in BOOLEAN
    /\ live \in [Group -> SUBSET Tag]
    /\ arriving \subseteq Group
    /\ subscribed_tag_groups \in [Group -> SUBSET Tag]
    /\ current_tags \subseteq Tag
    /\ next_group_id \in 0 .. MaxGroup + 1
    /\ since_data_change \in 0 .. StaleThreshold
    /\ since_heartbeat \in 0 .. HeartbeatInterval
    /\ since_refresh \in 0 .. RefreshInterval
    /\ pc \in {"sleep", "heartbeat", "watchdog", "refresh", "discovering", "reading", "subscribing"}
    /\ new_tags \subseteq Tag
    /\ faults \in 0 .. MaxFaults
    /\ changes \in 0 .. MaxChanges
    /\ starved \in BOOLEAN
    /\ overlooked \subseteq Tag

\* The mirror of the groups holds only current tags, each in one group, and
\* only in groups that exist: a re-subscribe adds no tag twice and none that
\* iFIX no longer publishes.
MirrorInv ==
    /\ Tracked \subseteq current_tags
    /\ \A g, h \in Group :
         g # h => subscribed_tag_groups[g] \cap subscribed_tag_groups[h] = {}
    /\ \A g \in Group : g >= next_group_id => subscribed_tag_groups[g] = {}

\* A refresh never flips every known tag to Bad: an empty or failed discovery
\* is not taken for "all tags removed".
NeverStranded == [][current_tags # {} => current_tags' # {}]_vars

\* When the watchdog declares the advise sink dead, no group hears anything; unless
\* a group could not be asked for its values, or a discovery kept the loop from
\* asking, and no data change was heard since.
WatchdogMeansDead ==
    pc = "watchdog" /\ Stale /\ ~starved => Heard = {}

\* "The sink is dead" is what it always says.
AlarmMeansDead ==
    pc = "watchdog" /\ Stale => Heard = {}

\* A tag is dropped only if the server no longer publishes it.
RemovalIsReal ==
    [][\A t \in current_tags : t \notin current_tags' => t \notin published]_vars

\* Once faults and changes stop, every known tag is subscribed for good, but for
\* those that one clock for all groups cannot show to be silent.
Recovers == <>[](current_tags \ overlooked \subseteq Live)

\* ... and the known tags are those the server is configured with.
Converges == <>[](current_tags = configured)

\* What the watchdog does guarantee whatever fails: as long as some group is
\* mirrored, some tag is heard in the end.
SomethingIsHeard == <>[](Tracked = {} \/ Live # {})
=============================================================================
