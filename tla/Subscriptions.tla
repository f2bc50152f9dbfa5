----------------------------- MODULE Subscriptions -----------------------------
(***************************************************************************)
(* The persistent subscriptions of one OpcDaClient, openopc2/da_client.py:  *)
(* subscribe, refresh_subscriptions_cache, unsubscribe, connect and close,  *)
(* called from the client's own thread, and the event loop that hands data  *)
(* changes to the callbacks, in another.  Client handles tell the event     *)
(* loop which tag a value belongs to.                                       *)
(*                                                                         *)
(* A callback is known by the number of the subscribe() call that brought   *)
(* it.  An item of the OPC server remembers its tag and that number, so     *)
(* that a value can be compared with the tag and the callback it reaches.   *)
(***************************************************************************)
EXTENDS Naturals, Sequences, FiniteSets, Functions

CONSTANTS
    Name,            \* the names of groups, without a dot in them
    Tag,             \* the tags subscribed to
    Batch,           \* the lists of tags subscribe() is called with
    MaxSubscribes,   \* bound: calls of subscribe()
    MaxConnects,     \* bound: calls of connect()
    MaxQueue,        \* bound: events waiting for the event loop
    MaxFaults        \* bound: COM calls that fail

ASSUME BatchAssumption == Batch \subseteq SUBSET Tag /\ IsFiniteSet(Tag)
ASSUME BoundAssumption == {MaxSubscribes, MaxConnects, MaxQueue, MaxFaults} \subseteq Nat

VARIABLES
    pc,                    \* what the client's thread is doing
    connected,             \* TRUE: there is a session with the server
    subscription_groups,   \* the names with a group; their number of groups stays 1
    subscription_tags,     \* the groups refresh_subscriptions_cache knows
    handles_tag,           \* per group, its <<client handle, tag>> pairs
    callbacks,             \* per name, the callback, or 0
    hooks,                 \* the groups whose events are handled
    next_handle,           \* the next client handle
    server_groups,         \* the groups the server has
    items,                 \* the items of these groups
    owed,                  \* groups asked for all their values (AsyncRefresh)
    queue,                 \* _subscription_queue
    threads,               \* per thread, what the event loop it runs is doing
    thread,                \* _subscription_thread, or 0
    thread_active,         \* _subscription_thread_active
    subscribes, connects, faults   \* counted against their bounds

clientVars == <<subscription_groups, subscription_tags, handles_tag, callbacks, hooks, next_handle>>
serverVars == <<server_groups, items, owed>>
threadVars == <<threads, thread, thread_active>>
countVars  == <<subscribes, connects, faults>>
vars == <<pc, connected, clientVars, serverVars, queue, threadVars, countVars>>

-----------------------------------------------------------------------------

\* A name has group 0, and group 1 when it is used again.
SubGroup == Name \X {0, 1}
Callback == 1 .. MaxSubscribes
Handle   == 0 .. MaxSubscribes * Cardinality(Tag)
Thread   == 1 .. 2
Item     == [group : SubGroup, handle : Handle, tag : Tag, callback : Callback]

\* Where an event loop can be: not started, waiting, about to call back, or
\* inside a callback.
NoThread == [at |-> "none"]
Waiting  == [at |-> "waiting"]
Holding(changes, name) == [at |-> "holding", changes |-> changes, name |-> name]
Calling(callback)      == [at |-> "calling", callback |-> callback]

ItemsOf(g) == {i \in items : i.group = g}

\* Seeded fault: the callback is looked up by the name of the server's group.
GroupName_Full(g) == g

\* The loop takes what stands between "SUB_" and the first dot.
GroupName(g) == g[1]

\* Seeded fault: handles count from 0 in every group.
FirstHandle_PerGroup == 0

FirstHandle == next_handle

\* Client handles for the valid tags, counted through all groups.
Numbered(valid) ==
    LET last == FirstHandle + Cardinality(valid) - 1
    IN  {{<<h, order[h]>> : h \in FirstHandle .. last} :
           order \in Bijection(FirstHandle .. last, valid)}

\* A COM call that may raise does.
Fault == faults < MaxFaults /\ faults' = faults + 1

\* Is the event loop's thread alive?
Alive == thread # 0 /\ threads[thread] # NoThread

-----------------------------------------------------------------------------

Init ==
    /\ pc = [at |-> "idle"]
    /\ connected = FALSE
    /\ subscription_groups = {}
    /\ subscription_tags = {}
    /\ handles_tag = [g \in SubGroup |-> {}]
    /\ callbacks = [n \in Name |-> 0]
    /\ hooks = {}
    /\ next_handle = 0
    /\ server_groups = {}
    /\ items = {}
    /\ owed = {}
    /\ queue = <<>>
    /\ threads = [t \in Thread |-> NoThread]
    /\ thread = 0
    /\ thread_active = FALSE
    /\ subscribes = 0
    /\ connects = 0
    /\ faults = 0

-----------------------------------------------------------------------------
(* The client's thread.                                                     *)

Idle == pc.at = "idle"

\* connect(): a new session; everything known of the old one is forgotten, but
\* not the events it left in the queue.
Connect ==
    /\ Idle
    /\ connects < MaxConnects
    /\ connects' = connects + 1
    /\ connected' = TRUE
    /\ subscription_groups' = {}
    /\ subscription_tags' = {}
    /\ handles_tag' = [g \in SubGroup |-> {}]
    /\ callbacks' = [n \in Name |-> 0]
    /\ hooks' = {}
    /\ next_handle' = 0
    /\ server_groups' = {}
    /\ items' = {}
    /\ owed' = {}
    /\ UNCHANGED <<pc, queue, threadVars, subscribes, faults>>

\* The group a call of subscribe() creates.
NewGroup(name) == <<name, IF name \in subscription_groups THEN 1 ELSE 0>>

AddFails(g) == (g \in server_groups /\ UNCHANGED faults) \/ Fault

\* subscribe(), up to the moment the group is complete.  The name is entered
\* first, whatever follows.  Adding a group the server has already, or meeting
\* a fault, raises; so does validating the tags, before handles are given, or
\* adding the items, after that.
Subscribe(name, tags) ==
    LET g == NewGroup(name)
        number == subscribes + 1
    IN
    /\ Idle
    /\ connected
    /\ subscribes < MaxSubscribes
    /\ subscribes' = number
    /\ subscription_groups' = subscription_groups \cup {name}
    /\ \/ /\ AddFails(g)
          /\ UNCHANGED <<pc, subscription_tags, handles_tag, callbacks, next_handle,
                         server_groups, items>>
       \/ /\ g \notin server_groups
          /\ server_groups' = server_groups \cup {g}
          /\ \E valid \in SUBSET tags : \E numbered \in Numbered(valid) :
               /\ handles_tag' = [handles_tag EXCEPT ![g] = @ \cup numbered]
               /\ next_handle' = FirstHandle + Cardinality(valid)
               /\ \/ /\ IF valid = tags THEN UNCHANGED faults ELSE Fault
                     /\ items' = items \cup
                          {[group |-> g, handle |-> p[1], tag |-> p[2], callback |-> number] :
                             p \in numbered}
                     /\ subscription_tags' = subscription_tags \cup {g}
                     /\ callbacks' = [callbacks EXCEPT ![name] = number]
                     /\ pc' = [at |-> "hooking", group |-> g]
                  \/ /\ valid \in {tags, {}}
                     /\ Fault
                     /\ UNCHANGED <<pc, subscription_tags, callbacks, items>>
    /\ UNCHANGED <<connected, hooks, owed, queue, threadVars, connects>>

\* Seeded fault: a thread is started for every subscription.
NeedsThread_Always == TRUE

NeedsThread == ~Alive

\* _start_subscription_thread, unless one is running.
StartThread ==
    IF NeedsThread
    THEN \E t \in Thread :
           /\ threads[t] = NoThread
           /\ threads' = [threads EXCEPT ![t] = Waiting]
           /\ thread' = t
           /\ thread_active' = TRUE
    ELSE UNCHANGED threadVars

\* subscribe(), to its end: handle the group's events, start the event loop, ask
\* for all values.  Only the last may fail without raising.
Hook ==
    /\ pc.at = "hooking"
    /\ pc' = [at |-> "idle"]
    /\ \/ /\ hooks' = hooks \cup {pc.group}
          /\ StartThread
          /\ \/ /\ owed' = IF ItemsOf(pc.group) = {} THEN owed ELSE owed \cup {pc.group}
                /\ UNCHANGED faults
             \/ Fault /\ UNCHANGED owed
       \/ Fault /\ UNCHANGED <<hooks, threadVars, owed>>
    /\ UNCHANGED <<connected, subscription_groups, subscription_tags, handles_tag, callbacks,
                   next_handle, server_groups, items, queue, subscribes, connects>>

\* refresh_subscriptions_cache(): ask every group for all its values.  The last
\* request was answered long before.
RefreshSubscriptionsCache ==
    /\ Idle
    /\ connected
    /\ owed = {}
    /\ owed' = {g \in subscription_tags \cap server_groups : ItemsOf(g) # {}}
    /\ UNCHANGED <<pc, connected, clientVars, server_groups, items, queue, threadVars,
                   countVars>>

\* What unsubscribe() does for the names given: their group 0 is forgotten and
\* removed from the server.  Where the server refuses (stuck) that is swallowed:
\* the group stays there, and reports to nobody.
Drop(names, stuck) ==
    LET gone    == names \X {0}
        removed == gone \ stuck
    IN  /\ stuck \subseteq gone \cap server_groups
        /\ hooks' = hooks \ gone
        /\ server_groups' = server_groups \ removed
        /\ items' = {i \in items : i.group \notin removed}
        /\ owed' = owed \ gone
        /\ subscription_tags' = subscription_tags \ gone
        /\ handles_tag' = [g \in SubGroup |-> IF g \in gone THEN {} ELSE handles_tag[g]]
        /\ subscription_groups' = subscription_groups \ names
        /\ callbacks' = [n \in Name |-> IF n \in names THEN 0 ELSE callbacks[n]]

Unsubscribe(name) ==
    /\ Idle
    /\ connected
    /\ name \in subscription_groups
    /\ \E stuck \in SUBSET SubGroup :
         /\ Drop({name}, stuck)
         /\ IF stuck = {} THEN UNCHANGED faults ELSE Fault
    /\ UNCHANGED <<pc, connected, next_handle, queue, threadVars, subscribes, connects>>

\* close(): drop every group whose events let themselves be closed, tell the
\* event loop to end ...
Close ==
    /\ Idle
    /\ connected
    /\ \E kept \in SUBSET subscription_groups, stuck \in SUBSET SubGroup :
         /\ Drop(subscription_groups \ kept, stuck)
         /\ IF kept = {} /\ stuck = {} THEN UNCHANGED faults ELSE Fault
    /\ thread_active' = FALSE
    /\ pc' = [at |-> "closing"]
    /\ UNCHANGED <<connected, next_handle, queue, threads, thread, subscribes, connects>>

\* Seeded fault: close() does not wait for the event loop.
Joined_AtOnce == TRUE

\* join(timeout=2.0): the thread has ended, or is in a callback that takes longer.
Joined == Alive => threads[thread].at = "calling"

\* ... wait for it, forget it, and disconnect.
CloseEnds ==
    /\ pc.at = "closing"
    /\ Joined
    /\ thread' = 0
    /\ connected' = FALSE
    /\ server_groups' = {}
    /\ items' = {}
    /\ owed' = {}
    /\ pc' = [at |-> "idle"]
    /\ UNCHANGED <<clientVars, queue, threads, thread_active, countVars>>

-----------------------------------------------------------------------------
(* The OPC server.                                                          *)

\* OnDataChange: a group's items report, because they were asked or because
\* something changed.  Without a hook nobody hears it.
OnDataChange(g) ==
    /\ g \in server_groups
    /\ ItemsOf(g) # {}
    /\ Len(queue) < MaxQueue
    /\ owed' = owed \ {g}
    /\ queue' = IF g \in hooks THEN Append(queue, ItemsOf(g)) ELSE queue
    /\ UNCHANGED <<pc, connected, clientVars, server_groups, items, threadVars, countVars>>

-----------------------------------------------------------------------------
(* The event loop, once per thread that runs it.                            *)

\* The loop's condition, looked at before every event.
Again == IF thread_active THEN Waiting ELSE NoThread

\* Take an event and look up its handles.  The name comes from the last group
\* that has one of them; without any the event is dropped.
Pop(t) ==
    LET event   == Head(queue)
        matches == {m \in SubGroup \X event : \E tag \in Tag : <<m[2].handle, tag>> \in handles_tag[m[1]]}
        changes == UNION {{[tag |-> p[2], item |-> m[2]] : p \in {q \in handles_tag[m[1]] : q[1] = m[2].handle}} :
                            m \in matches}
    IN
    /\ threads[t] = Waiting
    /\ queue # <<>>
    /\ queue' = Tail(queue)
    /\ \/ matches = {} /\ threads' = [threads EXCEPT ![t] = Again]
       \/ \E m \in matches : threads' = [threads EXCEPT ![t] = Holding(changes, GroupName(m[1]))]
    /\ UNCHANGED <<pc, connected, clientVars, serverVars, thread, thread_active, countVars>>

\* Call the callback registered for the name, if any.
Call(t) ==
    /\ threads[t].at = "holding"
    /\ IF threads[t].name \in Name /\ callbacks[threads[t].name] # 0
       THEN threads' = [threads EXCEPT ![t] = Calling(callbacks[threads[t].name])]
       ELSE threads' = [threads EXCEPT ![t] = Again]
    /\ UNCHANGED <<pc, connected, clientVars, serverVars, queue, thread, thread_active, countVars>>

\* The callback returns; what it raises is logged.
Return(t) ==
    /\ threads[t].at = "calling"
    /\ threads' = [threads EXCEPT ![t] = Again]
    /\ UNCHANGED <<pc, connected, clientVars, serverVars, queue, thread, thread_active,
                   countVars>>

\* Nothing came for a moment, and the loop was told to end.
ThreadEnds(t) ==
    /\ threads[t] = Waiting
    /\ ~thread_active
    /\ threads' = [threads EXCEPT ![t] = NoThread]
    /\ UNCHANGED <<pc, connected, clientVars, serverVars, queue, thread, thread_active,
                   countVars>>

-----------------------------------------------------------------------------

Next ==
    \/ Connect \/ Hook \/ RefreshSubscriptionsCache \/ Close \/ CloseEnds
    \/ \E name \in Name, tags \in Batch : Subscribe(name, tags)
    \/ \E name \in Name : Unsubscribe(name)
    \/ \E g \in SubGroup : OnDataChange(g)
    \/ \E t \in Thread : Pop(t) \/ Call(t) \/ Return(t) \/ ThreadEnds(t)

\* Calls end, the client sends its heartbeats, the server answers them, the event
\* loop runs and callbacks return.
Fairness ==
    /\ WF_vars(Hook)
    /\ WF_vars(CloseEnds)
    /\ WF_vars(RefreshSubscriptionsCache)
    /\ SF_vars(\E g \in owed : OnDataChange(g))
    /\ \A t \in Thread : WF_vars(Pop(t) \/ Call(t) \/ Return(t) \/ ThreadEnds(t))

Spec == Init /\ [][Next]_vars /\ Fairness

-----------------------------------------------------------------------------
(* Properties.                                                              *)

\* The values of the state variables.
TypeOK ==
    /\ pc.at \in {"idle", "hooking", "closing"}
    /\ connected \in BOOLEAN
    /\ subscription_groups \subseteq Name
    /\ subscription_tags \subseteq SubGroup
    /\ handles_tag \in [SubGroup -> SUBSET (Handle \X Tag)]
    /\ callbacks \in [Name -> Callback \cup {0}]
    /\ hooks \subseteq SubGroup
    /\ next_handle \in Handle
    /\ server_groups \subseteq SubGroup
    /\ items \subseteq Item
    /\ owed \subseteq SubGroup
    /\ queue \in Seq(SUBSET Item)
    /\ thread \in Thread \cup {0}
    /\ thread_active \in BOOLEAN
    /\ subscribes \in 0 .. MaxSubscribes
    /\ connects \in 0 .. MaxConnects
    /\ faults \in 0 .. MaxFaults

\* Every value a callback gets is named after the tag whose item produced it,
\* also while groups are dropped and subscribed again.
RightTag ==
    \A t \in Thread : threads[t].at = "holding" =>
      \A c \in threads[t].changes : c.tag = c.item.tag

\* Why: a handle still known stands for the tag, and the group, of every item
\* and of every queued value that carries it.
Carried == items \cup UNION {queue[k] : k \in DOMAIN queue}

HandleInv ==
    \A g \in SubGroup : \A p \in handles_tag[g] :
      /\ p[1] < next_handle
      /\ \A i \in Carried : i.handle = p[1] => i.tag = p[2] /\ i.group = g

\* Callbacks of one client never run at the same time, in one session: a callback
\* that outlasts close() is met by the event loop of the next one.
OneAtATime ==
    \A t, u \in Thread : threads[t].at = "calling" /\ threads[u].at = "calling" => t = u

\* Once close() has returned no callback is called any more, though one that
\* was called before may still run.
Closed == Idle /\ ~connected

NoCallAfterClose ==
    [][Closed => \A t \in Thread :
         threads'[t].at = "calling" => threads[t].at = "calling"]_vars

\* The callback of a name gets the values of its group, even if the first
\* request for them was lost, unless the group is dropped or the name is given
\* another callback before.
Current(name, k) ==
    callbacks[name] = k /\ \E i \in items : i.callback = k /\ i.group \in hooks

EveryGroupHeard ==
    \A name \in Name, k \in Callback :
      Current(name, k) ~> (\E t \in Thread : threads[t] = Calling(k)) \/ ~Current(name, k)

\* A name that is not subscribed has no group on the server: unsubscribe() took
\* all of them away.
UnsubscribeIsComplete ==
    Idle => \A g \in server_groups : g[1] \in subscription_groups
=============================================================================
