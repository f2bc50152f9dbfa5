------------------------------ MODULE WriteBack ------------------------------
(***************************************************************************)
(* The write path of the OPC UA bridge (openopc2/ua_server.py), from the   *)
(* moment the UA nodes and the internal subscription exist.  The asyncio   *)
(* thread takes DA events and sets node values; every value or status      *)
(* change of a monitored node, whoever made it, is queued for the internal *)
(* subscription; WriteHandler must tell from those notifications alone     *)
(* which were made by UA clients, and forward only these to the DA thread. *)
(*                                                                         *)
(* Each DA event is handled without a suspension point between two tags    *)
(* that matters to another task, so an event is one action.  The           *)
(* notifications of one publishing cycle are handed to the handler in one  *)
(* go, so Publish(t) consumes all that are queued for the node.            *)
(***************************************************************************)
EXTENDS Integers, Sequences, Places

CONSTANTS
    Tag,              \* the DA tags
    Value,            \* the values a tag can have
    NoValue,          \* None: an empty (Null) variant
    Quality,          \* the quality strings the DA client reports
    Unwritable,       \* values set_value refuses, datetime fallback included
    Stringified,      \* datetimes refused as such and accepted as a string
    MaxReports,       \* bound: DA events put by the DA thread
    MaxAtOnce,        \* bound: tags in one of them
    MaxQueue,         \* bound: events in the queue
    MaxClientWrites   \* bound: writes made by UA clients

ASSUME NoValueAssumption == NoValue \notin Value
ASSUME ValueKindAssumption == Unwritable \subseteq Value /\ Stringified \subseteq Value
ASSUME BoundAssumption == {MaxReports, MaxAtOnce, MaxQueue} \subseteq Nat /\ MaxClientWrites \in Nat

VARIABLES
    enable_writes,        \* the --enable-writes switch, set before the bridge starts
    ua_nodes,             \* value and status each UA node shows, NoNode if none
    monitored,            \* tags whose node is in the internal subscription
    initialized_nodes,    \* WriteHandler._initialized_nodes
    pending_da_updates,   \* tags being updated from DA: a set, not a counter
    notifications,        \* per node, changes not yet given to WriteHandler
    da_to_main_queue,     \* events from the DA thread
    write_queue,          \* UA writes to be sent to DA
    offered,              \* history: the writes da_client.write was called with
    client_writes,        \* history: number of client writes made
    reports,              \* number of DA events put so far
    disturbed             \* history: nodes whose marks need not fit what is
                          \* queued for them

vars == <<enable_writes, ua_nodes, monitored, initialized_nodes, pending_da_updates, notifications,
          da_to_main_queue, write_queue, offered, client_writes, reports, disturbed>>

-----------------------------------------------------------------------------

\* The string a datetime is shown as when its node is not a DateTime node.
Text(v) == <<v>>

Shown == Value \cup {NoValue} \cup {Text(v) : v \in Value}

Reading == [value : Value \cup {NoValue}, quality : Quality]

UaStatus == {"Good", "Uncertain", "Bad", "BadUnknownResponse",
             "BadWaitingForInitialData", "BadNodeIdUnknown"}

\* Seeded fault: a quality that is not in the table is passed on as it is.
Quality_PassedOn(q) == IF q = "Unknown" THEN "BadUnknownResponse" ELSE q

da_quality_to_ua_status(q) ==
    CASE q = "Good"      -> "Good"
      [] q = "Uncertain" -> "Uncertain"
      [] q = "Unknown"   -> "BadUnknownResponse"
      [] OTHER           -> "Bad"

NoNode == [value |-> NoValue, status |-> "NoNode"]

NodeState == [value : Shown, status : UaStatus]

HasNode == {t \in Tag : ua_nodes[t] # NoNode}

TagSets == {S \in SUBSET Tag : Cardinality(S) \in 1 .. MaxAtOnce}

Changes == UNION {[S -> Reading] : S \in TagSets}

Event ==      [type : {"data_change", "new_tags"}, data : Changes]
         \cup [type : {"removed_tags"}, data : TagSets]

\* src is a history field: who made the change.  No guard of the code reads it.
Source == {"initial", "da", "bridge", "client"}

Notification == [value : Shown, src : Source]

\* disturbed is one too: whether its node was, when it was published.
Write == [tag : Tag, value : Shown, src : Source, disturbed : BOOLEAN]

WriteOf(t, n) == [tag |-> t, value |-> n.value, src |-> n.src, disturbed |-> t \in disturbed]

\* What a new node shows: an empty value waits for data, a bad one is marked.
InitialState(r) ==
    [value  |-> r.value,
     status |-> IF r.value = NoValue THEN "BadWaitingForInitialData"
                ELSE da_quality_to_ua_status(r.quality)]

\* What a data change makes a node show.
UpdatedState(r) ==
    [value  |-> IF r.value \in Stringified THEN Text(r.value) ELSE r.value,
     status |-> da_quality_to_ua_status(r.quality)]

\* node.set_value on the nodes DOMAIN new.  The UA server notifies a monitored
\* node only when its value or its status really changes.
SetValues(new, src) ==
    /\ ua_nodes' = [t \in Tag |-> IF t \in DOMAIN new THEN new[t] ELSE ua_nodes[t]]
    /\ notifications' =
         [t \in Tag |->
            IF t \in DOMAIN new /\ t \in monitored /\ new[t] # ua_nodes[t]
            THEN Append(notifications[t], [value |-> new[t].value, src |-> src])
            ELSE notifications[t]]

-----------------------------------------------------------------------------

\* _create_ua_nodes made a node for each discovered tag it could, then the
\* internal subscription was created on all of them: each owes its first
\* notification, the value the node has when the subscription starts.
Init ==
    \E S \in SUBSET Tag : \E r \in [S -> Reading] :
        /\ enable_writes \in BOOLEAN
        /\ ua_nodes = [t \in Tag |-> IF t \in S THEN InitialState(r[t]) ELSE NoNode]
        /\ monitored = S
        /\ notifications = [t \in Tag |->
               IF t \in S THEN <<[value |-> r[t].value, src |-> "initial"]>> ELSE <<>>]
        /\ initialized_nodes = {}
        /\ pending_da_updates = {}
        /\ da_to_main_queue = <<>>
        /\ write_queue = <<>>
        /\ offered = <<>>
        /\ client_writes = 0
        /\ reports = 0
        /\ disturbed = {}

-----------------------------------------------------------------------------
(* The environment: the DA thread, which puts events, and the UA clients.  *)

DaEvent(e) ==
    /\ reports < MaxReports
    /\ Len(da_to_main_queue) < MaxQueue
    /\ da_to_main_queue' = Append(da_to_main_queue, e)
    /\ reports' = reports + 1
    /\ UNCHANGED <<enable_writes, ua_nodes, monitored, initialized_nodes, pending_da_updates,
                   notifications, write_queue, offered, client_writes, disturbed>>

\* A UA client writes a node; only nodes made writable accept it.
ClientWrite(t, v) ==
    /\ client_writes < MaxClientWrites
    /\ enable_writes
    /\ t \in HasNode
    /\ SetValues([x \in {t} |-> [value |-> v, status |-> "Good"]], "client")
    /\ client_writes' = client_writes + 1
    /\ UNCHANGED <<enable_writes, monitored, initialized_nodes, pending_da_updates,
                   da_to_main_queue, write_queue, offered, reports, disturbed>>

-----------------------------------------------------------------------------
(* The main thread: _process_da_events and WriteHandler.                    *)

\* Seeded faults: no notification is skipped; the first of every publishing
\* cycle is skipped; marks are ignored.
First_NeverSkipped(t) == 0
First_AlwaysSkipped(t) == 1
TakesMark_Never(t) == FALSE

\* The node's very first notification is skipped ...
First(t) == IF t \in initialized_nodes THEN 0 ELSE 1

\* ... and the next one uses up the mark of the tag, if it has one.
TakesMark(t) == t \in pending_da_updates /\ Len(notifications[t]) > First(t)

Swallowed(t) == First(t) + IF TakesMark(t) THEN 1 ELSE 0

\* A data change disturbs its node if a change of it is still to be published, and
\* if it changes nothing: then it leaves its mark, but no notification to use it up.
Disturbs(t, r) ==
    \/ Len(notifications[t]) > First(t)
    \/ r.value \notin Unwritable /\ UpdatedState(r) = ua_nodes[t]

\* Seeded fault: the datetime fallback does not mark the tag again.
OnDataChange_FallbackUnmarked(changes) ==
    LET known == DOMAIN changes \cap HasNode
        taken == {t \in known : changes[t].value \notin Unwritable}
        typed == {t \in taken : changes[t].value \notin Stringified}
    IN  /\ SetValues([t \in taken |-> UpdatedState(changes[t])], "da")
        /\ pending_da_updates' = (pending_da_updates \ known) \cup typed
        /\ disturbed' = disturbed \cup {t \in known \cap monitored : Disturbs(t, changes[t])}
        /\ UNCHANGED monitored

\* A data change: mark the tag as updated from DA, then set the node.  A
\* refused value takes the mark back; unknown tags are ignored.
OnDataChange(changes) ==
    LET known == DOMAIN changes \cap HasNode
        taken == {t \in known : changes[t].value \notin Unwritable}
    IN  /\ SetValues([t \in taken |-> UpdatedState(changes[t])], "da")
        /\ pending_da_updates' = (pending_da_updates \ known) \cup taken
        /\ disturbed' = disturbed \cup {t \in known \cap monitored : Disturbs(t, changes[t])}
        /\ UNCHANGED monitored

\* New tags get a node unless they have one; creating one may fail.  The new
\* nodes are not added to the internal subscription.
OnNewTags(changes) ==
    /\ \E S \in SUBSET (DOMAIN changes \ HasNode) :
         SetValues([t \in S |-> InitialState(changes[t])], "bridge")
    /\ UNCHANGED <<pending_da_updates, monitored, disturbed>>

\* Removed tags keep their node, emptied and marked Bad.
OnRemovedTags(tags) ==
    /\ SetValues([t \in tags \cap HasNode |->
                    [value |-> NoValue, status |-> "BadNodeIdUnknown"]], "bridge")
    /\ disturbed' = disturbed \cup (tags \cap monitored)
    /\ UNCHANGED <<pending_da_updates, monitored>>

ProcessDaEvent ==
    /\ da_to_main_queue # <<>>
    /\ da_to_main_queue' = Tail(da_to_main_queue)
    /\ LET event == Head(da_to_main_queue)
       IN  \/ event.type = "data_change"  /\ OnDataChange(event.data)
           \/ event.type = "new_tags"     /\ OnNewTags(event.data)
           \/ event.type = "removed_tags" /\ OnRemovedTags(event.data)
    /\ UNCHANGED <<enable_writes, initialized_nodes, write_queue, offered, client_writes, reports>>

\* Seeded fault: without --enable-writes the handler keeps no marks, but it still
\* queues what it is notified of.
Publish_Unguarded(t) ==
    LET skipped   == IF enable_writes THEN Swallowed(t) ELSE 0
        forwarded == SubSeq(notifications[t], skipped + 1, Len(notifications[t]))
    IN  /\ notifications[t] # <<>>
        /\ notifications' = [notifications EXCEPT ![t] = <<>>]
        /\ initialized_nodes' = initialized_nodes \cup (IF enable_writes THEN {t} ELSE {})
        /\ pending_da_updates' = pending_da_updates \ (IF skipped > First(t) THEN {t} ELSE {})
        /\ write_queue' = write_queue \o [i \in DOMAIN forwarded |-> WriteOf(t, forwarded[i])]
        /\ UNCHANGED <<enable_writes, ua_nodes, monitored, da_to_main_queue, offered, client_writes, reports, disturbed>>

\* One publishing cycle of the node: WriteHandler.datachange_notification for
\* each queued notification, in order.
Publish(t) ==
    LET forwarded == SubSeq(notifications[t], Swallowed(t) + 1, Len(notifications[t]))
    IN  /\ notifications[t] # <<>>
        /\ notifications' = [notifications EXCEPT ![t] = <<>>]
        /\ IF enable_writes
           THEN /\ initialized_nodes' = initialized_nodes \cup {t}
                /\ pending_da_updates' = IF TakesMark(t) THEN pending_da_updates \ {t}
                                         ELSE pending_da_updates
                /\ write_queue' = write_queue \o [i \in DOMAIN forwarded |-> WriteOf(t, forwarded[i])]
           ELSE UNCHANGED <<initialized_nodes, pending_da_updates, write_queue>>
        /\ disturbed' = IF t \in pending_da_updates' THEN disturbed ELSE disturbed \ {t}
        /\ UNCHANGED <<enable_writes, ua_nodes, monitored, da_to_main_queue, offered,
                       client_writes, reports>>

-----------------------------------------------------------------------------
(* The DA thread's end of the write queue.                                  *)

\* The second guard, at the COM boundary: refuse when writes are disabled.  A
\* write that fails is logged and gone, so only the call itself is recorded.
DrainWrite ==
    /\ write_queue # <<>>
    /\ write_queue' = Tail(write_queue)
    /\ offered' = IF enable_writes THEN Append(offered, Head(write_queue)) ELSE offered
    /\ UNCHANGED <<enable_writes, ua_nodes, monitored, initialized_nodes, pending_da_updates,
                   notifications, da_to_main_queue, client_writes, reports, disturbed>>

-----------------------------------------------------------------------------

Next ==
    \/ \E e \in Event : DaEvent(e)
    \/ \E t \in Tag, v \in Value \ (Unwritable \cup Stringified) : ClientWrite(t, v)
    \/ ProcessDaEvent
    \/ \E t \in Tag : Publish(t)
    \/ DrainWrite

\* The event loop and the DA thread's loop run for ever; nothing obliges the
\* environment to act.
Fairness ==
    /\ WF_vars(ProcessDaEvent)
    /\ \A t \in Tag : WF_vars(Publish(t))
    /\ WF_vars(DrainWrite)

Spec == Init /\ [][Next]_vars /\ Fairness

-----------------------------------------------------------------------------
(* Properties.                                                              *)

\* The values of the state variables.
TypeOK ==
    /\ enable_writes \in BOOLEAN
    /\ ua_nodes \in [Tag -> NodeState \cup {NoNode}]
    /\ monitored \subseteq Tag
    /\ initialized_nodes \subseteq Tag
    /\ pending_da_updates \subseteq Tag
    /\ notifications \in [Tag -> Seq(Notification)]
    /\ da_to_main_queue \in Seq(Event)
    /\ write_queue \in Seq(Write)
    /\ offered \in Seq(Write)
    /\ client_writes \in 0 .. MaxClientWrites
    /\ reports \in 0 .. MaxReports
    /\ disturbed \subseteq Tag

\* With writes disabled nothing is ever queued for the DA server, let alone
\* written: not even the notifications of the bridge's own updates.
WritesDisabledSilent == ~enable_writes => write_queue = <<>> /\ offered = <<>>

\* The values the nodes had when the bridge started are never written back,
\* whatever DA updates or client writes come before the first publishing cycle.
StartupValuesNeverWritten ==
    \A q \in {write_queue, offered} : \A i \in DOMAIN q : q[i].src # "initial"

\* Why: the startup value of a node is its first notification, and stays queued
\* only as long as the handler still owes the node its one skipped notification.
StartupInv ==
    /\ \A t \in Tag : \A i \in DOMAIN notifications[t] :
         notifications[t][i].src = "initial" => i = 1 /\ t \notin initialized_nodes
    /\ StartupValuesNeverWritten

\* What the DA server is sent and no UA client wrote was mistaken for a client's
\* because its node was disturbed: by two changes in a publishing cycle of which one
\* but the first is the server's, by a data change that changed nothing, or by the
\* removal of its tag.  And what a client wrote is not taken for what it is not.
OnlyClientWrites ==
    \A q \in {write_queue, offered} : \A i \in DOMAIN q : q[i].src = "client" \/ q[i].disturbed

\* Why: a monitored node owes its startup value until it is initialised; and of a node
\* that is not disturbed, the next notification is the server's exactly if it is marked,
\* and all others are its clients'.
SoundInv ==
    /\ monitored \subseteq HasNode
    /\ \A t \in Tag \ monitored : notifications[t] = <<>>
    /\ enable_writes => \A t \in monitored \ initialized_nodes :
         notifications[t] # <<>> /\ notifications[t][1].src = "initial"
    /\ \A t \in Tag : \A i \in DOMAIN notifications[t] :
         notifications[t][i].src = "client" => enable_writes
    /\ enable_writes => \A t \in monitored \ disturbed :
         /\ t \in pending_da_updates => Len(notifications[t]) > First(t)
         /\ \A i \in First(t) + 1 .. Len(notifications[t]) :
              notifications[t][i].src = IF i = First(t) + 1 /\ t \in pending_da_updates
                                        THEN "da" ELSE "client"
    /\ OnlyClientWrites

\* A value that came from DA is never written back to DA.
NoDaUpdateWrittenBack ==
    \A q \in {write_queue, offered} : \A i \in DOMAIN q : q[i].src # "da"

\* Marking the node of a removed tag as Bad writes nothing to the DA server.
NoRemovalWrittenBack ==
    \A q \in {write_queue, offered} : \A i \in DOMAIN q : q[i].src # "bridge"

\* A client's write of an initialised node that is the only change of its cycle is
\* forwarded, "a client write - forward to DA".
LoneWriteIsForwarded ==
    [][\A t \in initialized_nodes :
         (\E n \in Notification : n.src = "client" /\ notifications[t] = <<n>>) /\ notifications'[t] = <<>>
           => write_queue' # write_queue]_vars

\* With writes enabled, a write to any node the bridge shows is detected.
EveryNodeIsDetected == enable_writes => HasNode \subseteq monitored

\* What the write path promises, of writes that change what their node shows, for
\* asyncua notifies of no other.
OfNode(queue, t) == Select(queue, {i \in DOMAIN queue : queue[i].tag = t})
OfClients(queue) == Select(queue, {i \in DOMAIN queue : queue[i].src = "client"})

Values(list) == [i \in DOMAIN list |-> list[i].value]

Promise == INSTANCE WriteThrough WITH
    Node    <- Tag,
    Content <- Shown,
    written <- [t \in Tag |-> Values(OfClients(notifications[t]))],
    taken   <- [t \in Tag |-> Values(OfNode(write_queue, t))],
    offered <- [i \in DOMAIN offered |-> [node |-> offered[i].tag, value |-> offered[i].value]]

\* Its safety: what was written is taken and offered once and in order, and nothing
\* else is; but a disturbed node may lose the oldest of a cycle, and echo.
WriteThroughSafely == Promise!Init /\ [][Promise!Next]_(Promise!vars)

ImplementsWriteThrough == Promise!Spec
=============================================================================
