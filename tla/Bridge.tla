-------------------------------- MODULE Bridge --------------------------------
(***************************************************************************)
(* What a UA client sees while the bridge is live (openopc2/ua_server.py): *)
(* the steady loop of DaThread, every step of which is a step here, with   *)
(* the values it carries, the queue _da_to_main_queue and the UA nodes     *)
(* that _process_da_events makes and sets in the asyncio thread.           *)
(*                                                                         *)
(* The DA thread subscribes added tags before it announces them, and does  *)
(* not drop the subscription of removed ones: data changes of a tag cross  *)
(* the events that make its node and that mark it as removed.              *)
(*                                                                         *)
(* UA clients only read here: their writes are the subject of WriteBack.   *)
(***************************************************************************)
EXTENDS DaThread, Sequences

CONSTANTS
    Unshowable,       \* tags whose node cannot be created
    Refused,          \* tags with values their node refuses, as a string too
    Doubtful,         \* tags with values reported with a bad quality
    MaxValue,         \* bound: the last value a tag takes in the plant
    MaxQueue          \* bound: events the main thread may be behind

ASSUME NodeAssumption == Unshowable \subseteq Tag
ASSUME ValueAssumption ==
    /\ MaxValue \in Nat \ {0} /\ MaxQueue \in Nat \ {0}
    /\ Refused \subseteq Tag \X (1 .. MaxValue)
    /\ Doubtful \subseteq Tag \X (1 .. MaxValue)

VARIABLES
    plant,                   \* per tag, its value: the number of values it had so far
    sample,                  \* per group, the values of its data change on the way
    new_tag_values,          \* the values read for the added tags
    to_put,                  \* events the refresh under way has still to put
    da_to_main_queue,        \* events not yet processed by the main thread
    ua_nodes,                \* value and status each UA node shows, NoNode if none
    shown                    \* history: per tag, the newest value its node showed

queueVars == <<to_put, da_to_main_queue>>
nodeVars  == <<ua_nodes, shown>>
allVars   == <<vars, plant, sample, new_tag_values, queueVars, nodeVars>>

-----------------------------------------------------------------------------

\* The empty value of a tag that could not be read, or is gone.
NoValue == 0

Values(S) == [t \in S |-> plant[t]]

Nothing == Values({})

NoNode == [value |-> NoValue, status |-> "NoNode"]

HasNode == {t \in Tag : ua_nodes[t] # NoNode}

Value == 0 .. MaxValue

\* Values of some tags.
Changes == UNION {[S -> Value] : S \in SUBSET Tag}

Status(t, v) == IF <<t, v>> \in Doubtful THEN "Bad" ELSE "Good"

\* What a new node shows: an empty value waits for data.
InitialState(t, v) ==
    [value |-> v, status |-> IF v = NoValue THEN "BadWaitingForInitialData" ELSE Status(t, v)]

\* What a data change makes a node show.
UpdatedState(t, v) == [value |-> v, status |-> Status(t, v)]

DataChange(f)  == [type |-> "data_change", data |-> f]
NewTags(f)     == [type |-> "new_tags", data |-> f]
RemovedTags(S) == [type |-> "removed_tags", data |-> S]

Event ==      [type : {"data_change", "new_tags"}, data : Changes]
         \cup [type : {"removed_tags"}, data : SUBSET Tag]

\* The event about removed tags, if there are any.
Removal(S) == IF S = {} THEN <<>> ELSE <<RemovedTags(S)>>

-----------------------------------------------------------------------------

\* start() made the nodes with the values read, or without any when the initial
\* read is skipped; subscribing has asked the groups for their values.
BridgeInit ==
    /\ Init
    /\ plant = [t \in Tag |-> 1]
    /\ sample = [g \in Group |-> IF g \in arriving THEN Values(live[g]) ELSE Nothing]
    /\ new_tag_values = Nothing
    /\ to_put = <<>>
    /\ da_to_main_queue = <<>>
    /\ \E v \in {NoValue, 1} :
         /\ ua_nodes = [t \in Tag |-> IF t \in current_tags \ Unshowable
                                      THEN InitialState(t, v) ELSE NoNode]
         /\ shown = [t \in Tag |-> ua_nodes[t].value]

-----------------------------------------------------------------------------
(* The environment.                                                         *)

Environment ==
    /\ ServerStops \/ ServerStarts \/ ServerLoads \/ SinksDie \/ \E t \in Tag : Reconfigure(t)
    /\ UNCHANGED <<plant, sample, new_tag_values, queueVars, nodeVars>>

\* A tag takes a new value.
TakesValue(t) ==
    /\ plant[t] < MaxValue
    /\ plant' = [plant EXCEPT ![t] = @ + 1]

\* The server reports the value with its group ...
Reports(g) ==
    /\ PlantChanges(g)
    /\ \E t \in live[g] : TakesValue(t)
    /\ sample' = [sample EXCEPT ![g] = [t \in live[g] |-> plant'[t]]]
    /\ UNCHANGED <<new_tag_values, queueVars, nodeVars>>

\* ... or not: nobody is subscribed, or a data change is on its way already.
ChangesUnseen(t) ==
    /\ TakesValue(t)
    /\ UNCHANGED <<vars, sample, new_tag_values, queueVars, nodeVars>>

-----------------------------------------------------------------------------
(* The DA thread and the callback, with what they put in the queue.         *)

\* on_da_changes puts the values, which may be older than the plant's.
Delivers(g) ==
    /\ OnDaChanges(g)
    /\ Len(da_to_main_queue) < MaxQueue
    /\ da_to_main_queue' = Append(da_to_main_queue, DataChange(sample[g]))
    /\ sample' = [sample EXCEPT ![g] = Nothing]
    /\ UNCHANGED <<plant, new_tag_values, to_put, nodeVars>>

\* The steps that carry no value.
Idles ==
    /\ Tick \/ Refresh \/ DiscoveryTakesLong
    /\ UNCHANGED <<plant, sample, new_tag_values, queueVars, nodeVars>>

\* The groups asked answer with the present values of what they hear.
Asked(groups) ==
    sample' = [g \in Group |-> IF g \in groups THEN Values(live'[g]) ELSE sample[g]]

\* A rebuilt client has asked its groups anew, and knows nothing of the data
\* changes of the old one.
AskedAnew ==
    sample' = [g \in Group |-> IF g \in arriving' THEN Values(live'[g]) ELSE Nothing]

\* The loop goes on when the refresh has put all its events.
Beats ==
    /\ to_put = <<>>
    /\ \E asked \in SUBSET Group : Heartbeat(asked) /\ Asked(asked)
    /\ UNCHANGED <<plant, new_tag_values, queueVars, nodeVars>>

Watches ==
    /\ Watchdog
    /\ IF Stale THEN AskedAnew ELSE UNCHANGED sample
    /\ UNCHANGED <<plant, new_tag_values, queueVars, nodeVars>>

RefreshFails ==
    /\ DiscoveryFailed
    /\ AskedAnew
    /\ UNCHANGED <<plant, new_tag_values, queueVars, nodeVars>>

\* Without added tags, the removed ones are all there is to tell.
Lists ==
    /\ Discovered
    /\ to_put' = Removal(current_tags \ current_tags')
    /\ UNCHANGED <<plant, sample, new_tag_values, da_to_main_queue, nodeVars>>

\* A tag that is gone again by now is read without a value.
Reads ==
    /\ ReadAdded
    /\ new_tag_values' =
         [t \in IF pc' = "subscribing" THEN new_tags \ current_tags ELSE {} |->
            IF t \in published THEN plant[t] ELSE NoValue]
    /\ UNCHANGED <<plant, sample, queueVars, nodeVars>>

\* Seeded fault: tags whose subscription fails are not announced.
Subscribes_OrElse ==
    /\ SubscribeAdded
    /\ Asked(arriving' \ arriving)
    /\ to_put' = (IF next_group_id' = next_group_id THEN <<>> ELSE <<NewTags(new_tag_values)>>)
                   \o Removal(current_tags \ new_tags)
    /\ new_tag_values' = Nothing
    /\ UNCHANGED <<plant, da_to_main_queue, nodeVars>>

\* Subscribe first, then announce: the added tags, subscribed or not, and then
\* those removed.
Subscribes ==
    /\ SubscribeAdded
    /\ Asked(arriving' \ arriving)
    /\ to_put' = <<NewTags(new_tag_values)>> \o Removal(current_tags \ new_tags)
    /\ new_tag_values' = Nothing
    /\ UNCHANGED <<plant, da_to_main_queue, nodeVars>>

Puts ==
    /\ to_put # <<>>
    /\ Len(da_to_main_queue) < MaxQueue
    /\ da_to_main_queue' = Append(da_to_main_queue, Head(to_put))
    /\ to_put' = Tail(to_put)
    /\ UNCHANGED <<vars, plant, sample, new_tag_values, nodeVars>>

-----------------------------------------------------------------------------
(* The main thread: _process_da_events.                                     *)

SetValues(new) ==
    /\ ua_nodes' = [t \in Tag |-> IF t \in DOMAIN new THEN new[t] ELSE ua_nodes[t]]
    /\ shown' = [t \in Tag |-> IF ua_nodes'[t].value > shown[t] THEN ua_nodes'[t].value
                               ELSE shown[t]]

\* Tags without a node are ignored; a node that refuses the value, and its text if
\* it has one, stays as it is; one that was removed shows its value again.
OnDataChange(values) ==
    SetValues([t \in {u \in DOMAIN values \cap HasNode : <<u, values[u]>> \notin Refused}
                 |-> UpdatedState(t, values[t])])

\* Seeded fault: a tag that returns gets its node set again.
OnNewTags_Again(values) ==
    SetValues([t \in DOMAIN values \ Unshowable |-> InitialState(t, values[t])])

\* A tag that returns has a node, which is left as it is.
OnNewTags(values) ==
    SetValues([t \in DOMAIN values \ (HasNode \cup Unshowable) |-> InitialState(t, values[t])])

OnRemovedTags(tags) ==
    SetValues([t \in tags \cap HasNode |-> [value |-> NoValue, status |-> "BadNodeIdUnknown"]])

ProcessDaEvent ==
    /\ da_to_main_queue # <<>>
    /\ da_to_main_queue' = Tail(da_to_main_queue)
    /\ LET event == Head(da_to_main_queue)
       IN  \/ event.type = "data_change"  /\ OnDataChange(event.data)
           \/ event.type = "new_tags"     /\ OnNewTags(event.data)
           \/ event.type = "removed_tags" /\ OnRemovedTags(event.data)
    /\ UNCHANGED <<vars, plant, sample, new_tag_values, to_put>>

-----------------------------------------------------------------------------

BridgeNext ==
    \/ Environment
    \/ \E t \in Tag : ChangesUnseen(t)
    \/ \E g \in Group : Reports(g) \/ Delivers(g)
    \/ Idles \/ Beats \/ Watches \/ RefreshFails
    \/ Lists \/ Reads \/ Subscribes \/ Puts
    \/ ProcessDaEvent

\* What the DA thread does once it is awake; one of these steps at a time.
Loop == (Idles /\ Refresh) \/ Beats \/ Watches \/ Lists \/ RefreshFails \/ Reads \/ Subscribes

\* The threads run, and time passes, as in DaThread; the event loop of the main
\* thread runs too.  A put never waits, only the bound on the queue makes it:
\* hence SF.  No value has to change, and no change has to be reported.
BridgeFairness ==
    /\ WF_allVars(Environment /\ (ServerStarts \/ ServerLoads))
    /\ SF_allVars(\E g \in Group : Delivers(g))
    /\ SF_allVars(Idles /\ Tick)
    /\ WF_allVars(Loop)
    /\ SF_allVars(Puts)
    /\ WF_allVars(ProcessDaEvent)

BridgeSpec == BridgeInit /\ [][BridgeNext]_allVars /\ BridgeFairness

-----------------------------------------------------------------------------
(* Properties.                                                              *)

\* The values of the variables added to those of DaThread.
BridgeTypeOK ==
    /\ plant \in [Tag -> Value]
    /\ sample \in [Group -> Changes]
    /\ new_tag_values \in Changes
    /\ to_put \in Seq(Event)
    /\ da_to_main_queue \in Seq(Event)
    /\ ua_nodes \in [Tag -> [value : Value, status : {"Good", "Bad", "BadWaitingForInitialData",
                                                     "BadNodeIdUnknown", "NoNode"}]]
    /\ shown \in [Tag -> Value]

\* Why every known tag is shown: the loop waits until a refresh has put all it
\* has to, and the tags read are those that will become known.
RefreshInv ==
    /\ to_put # <<>> => pc = "heartbeat"
    /\ pc = "subscribing" => DOMAIN new_tag_values = new_tags \ current_tags

\* Tags whose node is on its way: an event announces them.
AnnouncedIn(events) ==
    UNION {DOMAIN events[i].data : i \in {j \in DOMAIN events : events[j].type = "new_tags"}}

\* Every known tag has a node, or one on its way: no refresh makes a tag current
\* and leaves its node out, as it would never be announced again.
KnownAreShown ==
    current_tags \ Unshowable
      \subseteq HasNode \cup AnnouncedIn(to_put) \cup AnnouncedIn(da_to_main_queue)

\* A node never goes back to a value older than one it has shown: the value read
\* for a tag that returns is overtaken by the data changes of its subscription,
\* which come first in the queue.
NeverBack ==
    [][\A t \in Tag : ua_nodes'[t].value \in {NoValue} \cup shown[t] .. MaxValue]_nodeVars

\* In the end the node of every tag that is heard shows its present value, unless
\* it refuses that: what was dropped because the node did not exist, or was put in
\* the queue before the removal of the tag, is asked for again by the heartbeat.
Follows ==
    <>[](\A t \in (current_tags \cap Live) \ Unshowable :
           <<t, plant[t]>> \notin Refused => ua_nodes[t] = UpdatedState(t, plant[t]))

\* In the end the node of a tag that was removed is marked as such.
RemovedAreBad ==
    <>[](\A t \in HasNode \ configured : ua_nodes[t].status = "BadNodeIdUnknown")
=============================================================================
