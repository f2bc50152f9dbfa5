-------------------------- MODULE Subscriptions_proofs --------------------------
(***************************************************************************)
(* Theorems about the subscriptions of a client that connects once, for    *)
(* every set of names, tags and lists of tags, and any number of calls,    *)
(* events and faults: handles never mix up tags, so that every value a     *)
(* callback gets is named after the tag it came from; callbacks run one at *)
(* a time, and none is called after close().                               *)
(***************************************************************************)
EXTENDS Subscriptions, FiniteSetTheorems, SequenceTheorems, TLAPS

USE DEF clientVars, serverVars, threadVars, countVars, SubGroup, Thread

\* What an item has, whatever the bounds.
AnyItem == [group : SubGroup, handle : Nat, tag : Tag, callback : Nat]

\* The types the argument needs.
Types ==
    /\ next_handle \in Nat
    /\ subscribes \in Nat
    /\ connects \in Nat
    /\ handles_tag \in [SubGroup -> SUBSET (Nat \X Tag)]
    /\ items \subseteq AnyItem
    /\ queue \in Seq(SUBSET AnyItem)
    /\ threads = [t \in Thread |-> threads[t]]

\* A handle that is carried was given, so that the next ones are new.
Given == \A i \in Carried : i.handle < next_handle

\* Before the first connect() nothing is carried.
FirstConnect == connects = 0 => ~connected /\ items = {} /\ queue = <<>>

TagInv == Types /\ Given /\ FirstConnect /\ HandleInv /\ RightTag

-----------------------------------------------------------------------------

\* Handles given to tags count on from the first, one tag each.
LEMMA NumberedHandles ==
    ASSUME next_handle \in Nat, NEW valid \in SUBSET Tag, NEW numbered \in Numbered(valid)
    PROVE  /\ Cardinality(valid) \in Nat
           /\ numbered \subseteq Nat \X Tag
           /\ \A p \in numbered : next_handle <= p[1] /\ p[1] < next_handle + Cardinality(valid)
           /\ \A p, q \in numbered : p[1] = q[1] => p[2] = q[2]
<1>1. IsFiniteSet(valid) /\ Cardinality(valid) \in Nat
  BY BatchAssumption, FS_Subset, FS_CardinalityType
<1> DEFINE last == next_handle + Cardinality(valid) - 1
<1>2. PICK order \in [next_handle .. last -> valid] :
        numbered = {<<h, order[h]>> : h \in next_handle .. last}
  BY DEF Numbered, FirstHandle, Bijection, Injection
<1> QED BY <1>1, <1>2

\* The values on their way after an event was added, and after one was taken.
LEMMA CarriedAppend ==
    ASSUME Types, NEW S \in SUBSET items, queue' = Append(queue, S), items' = items
    PROVE  queue' \in Seq(SUBSET AnyItem) /\ Carried' = Carried
<1>1. /\ queue' \in Seq(SUBSET AnyItem)
      /\ DOMAIN queue' = 1 .. Len(queue) + 1
      /\ DOMAIN queue = 1 .. Len(queue)
      /\ \A k \in 1 .. Len(queue) : queue'[k] = queue[k]
      /\ queue'[Len(queue) + 1] = S
      /\ Len(queue) \in Nat
  BY DEF Types
<1> QED BY <1>1 DEF Carried

LEMMA CarriedTail ==
    ASSUME Types, queue # <<>>, queue' = Tail(queue), items' = items
    PROVE  queue' \in Seq(SUBSET AnyItem) /\ Carried' \subseteq Carried /\ Head(queue) \subseteq Carried
<1>1. /\ queue' \in Seq(SUBSET AnyItem)
      /\ Len(queue) \in Nat /\ 1 \in DOMAIN queue /\ Head(queue) = queue[1]
      /\ \A k \in DOMAIN queue' : k + 1 \in DOMAIN queue /\ queue'[k] = queue[k + 1]
  BY DEF Types
<1> QED BY <1>1 DEF Carried

\* What is carried has the type of an item.
LEMMA CarriedType == Types => Carried \subseteq AnyItem
BY DEF Types, Carried

\* A step that gives no handle, brings nothing new on its way and takes no event
\* keeps the invariant.
LEMMA Shrink ==
    ASSUME TagInv,
           next_handle' = next_handle, subscribes' = subscribes, connects' = connects,
           connects = 0 => ~connected' /\ queue' = <<>>,
           handles_tag' \in [SubGroup -> SUBSET (Nat \X Tag)],
           \A g \in SubGroup : handles_tag'[g] \subseteq handles_tag[g],
           items' \subseteq items,
           queue' \in Seq(SUBSET AnyItem),
           Carried' \subseteq Carried,
           threads' = [t \in Thread |-> threads'[t]],
           \A t \in Thread : threads'[t].at = "holding" => threads'[t] = threads[t]
    PROVE  TagInv'
<1>1. Types'
  BY DEF TagInv, Types
<1>2. Given'
  BY DEF TagInv, Given
<1>3. FirstConnect'
  BY DEF TagInv, FirstConnect
<1>4. HandleInv'
  BY DEF TagInv, HandleInv
<1>5. RightTag'
  BY DEF TagInv, RightTag
<1> QED BY <1>1, <1>2, <1>3, <1>4, <1>5 DEF TagInv

\* Fewer items, and the same queue: nothing new is carried.
LEMMA CarriedFewer ==
    ASSUME items' \subseteq items, queue' = queue
    PROVE  Carried' \subseteq Carried
BY DEF Carried

-----------------------------------------------------------------------------

LEMMA InitTag == Init => TagInv
BY DEF Init, TagInv, Types, Given, FirstConnect, HandleInv, RightTag, Carried, NoThread

\* connect() is called once: no event of an earlier session is in the queue.
LEMMA ConnectTag ==
    ASSUME MaxConnects = 1, TagInv, Connect
    PROVE  TagInv'
<1>1. connects = 0 /\ queue = <<>> /\ connects' = 1
  BY DEF Connect, TagInv, Types, FirstConnect
<1>2. Carried' = {}
  BY <1>1 DEF Connect, Carried
<1> QED BY <1>1, <1>2 DEF Connect, TagInv, Types, Given, FirstConnect, HandleInv, RightTag

\* subscribe() gives handles that are neither carried nor known so far.
LEMMA SubscribeTag ==
    ASSUME TagInv, NEW name \in Name, NEW tags \in Batch, Subscribe(name, tags)
    PROVE  TagInv'
<1> DEFINE g == NewGroup(name)
           number == subscribes + 1
<1>1. /\ g \in SubGroup
      /\ connected /\ subscribes' = number /\ number \in Nat
      /\ UNCHANGED <<connected, queue, connects, threads>>
  BY DEF Subscribe, NewGroup, TagInv, Types
<1>2. connects # 0
  BY <1>1 DEF TagInv, FirstConnect
<1>3. CASE UNCHANGED <<handles_tag, next_handle, items>>
  BY <1>1, <1>2, <1>3 DEF TagInv, Types, Given, FirstConnect, HandleInv, RightTag, Carried
<1>4. ASSUME NEW valid \in SUBSET tags, NEW numbered \in Numbered(valid),
             handles_tag' = [handles_tag EXCEPT ![g] = @ \cup numbered],
             next_handle' = next_handle + Cardinality(valid),
             \/ items' = items \cup
                  {[group |-> g, handle |-> p[1], tag |-> p[2], callback |-> number] : p \in numbered}
             \/ items' = items
      PROVE  TagInv'
  <2>1. /\ Cardinality(valid) \in Nat
        /\ numbered \subseteq Nat \X Tag
        /\ \A p \in numbered : next_handle <= p[1] /\ p[1] < next_handle + Cardinality(valid)
        /\ \A p, q \in numbered : p[1] = q[1] => p[2] = q[2]
    BY <1>4, BatchAssumption, NumberedHandles DEF TagInv, Types
  <2> DEFINE new == {[group |-> g, handle |-> p[1], tag |-> p[2], callback |-> number] : p \in numbered}
  <2>2. new \subseteq AnyItem
    BY <1>1, <2>1 DEF AnyItem
  <2>3. Carried' \subseteq Carried \cup new
    BY <1>1, <1>4 DEF Carried
  <2>4. \A i \in Carried : i.handle \in Nat /\ i.handle < next_handle
    BY CarriedType DEF TagInv, Given, AnyItem
  <2>5. Types'
    BY <1>1, <1>4, <2>1, <2>2 DEF TagInv, Types
  <2>6. next_handle \in Nat
    BY DEF TagInv, Types
  <2>7. \A i \in new : /\ i.handle \in Nat
                       /\ next_handle <= i.handle
                       /\ i.handle < next_handle + Cardinality(valid)
    BY <2>1
  <2>8. Given'
    BY <1>4, <2>1, <2>3, <2>4, <2>6, <2>7 DEF Given
  <2>9. HandleInv'
    <3> SUFFICES ASSUME NEW h \in SubGroup, NEW p \in handles_tag'[h]
                 PROVE  /\ p[1] < next_handle'
                        /\ \A i \in Carried' : i.handle = p[1] => i.tag = p[2] /\ i.group = h
      BY DEF HandleInv
    <3>1. CASE p \in handles_tag[h]
      <4>1. p[1] \in Nat /\ p[1] < next_handle
        BY <3>1 DEF TagInv, Types, HandleInv
      <4>2. \A i \in Carried : i.handle = p[1] => i.tag = p[2] /\ i.group = h
        BY <3>1 DEF TagInv, HandleInv
      <4>3. \A i \in new : i.handle # p[1]
        BY <4>1, <2>6, <2>7
      <4> QED BY <4>1, <4>2, <4>3, <1>4, <2>1, <2>3, <2>6
    <3>2. CASE p \notin handles_tag[h]
      <4>1. h = g /\ p \in numbered
        BY <3>2, <1>4 DEF TagInv, Types
      <4>2. \A i \in Carried : i.handle # p[1]
        BY <4>1, <2>1, <2>4, <2>6
      <4>3. \A i \in new : i.handle = p[1] => i.tag = p[2] /\ i.group = h
        BY <4>1, <2>1
      <4> QED BY <4>1, <4>2, <4>3, <1>4, <2>1, <2>3
    <3> QED BY <3>1, <3>2
  <2>10. FirstConnect' /\ RightTag'
    BY <1>1, <1>2 DEF TagInv, FirstConnect, RightTag
  <2> QED BY <2>5, <2>8, <2>9, <2>10 DEF TagInv
<1> QED BY <1>3, <1>4 DEF Subscribe, FirstHandle

\* What the client does to drop groups, and what the server reports.
LEMMA DropTag ==
    ASSUME TagInv, NEW names, NEW stuck, Drop(names, stuck),
           UNCHANGED <<connected, next_handle, queue, threads, subscribes, connects>>
    PROVE  TagInv'
<1>1. items' \subseteq items
  BY DEF Drop
<1>2. Carried' \subseteq Carried
  BY <1>1, CarriedFewer
<1>3. /\ handles_tag' \in [SubGroup -> SUBSET (Nat \X Tag)]
      /\ \A g \in SubGroup : handles_tag'[g] \subseteq handles_tag[g]
  BY DEF Drop, TagInv, Types
<1> QED BY <1>1, <1>2, <1>3, Shrink DEF TagInv, Types, FirstConnect

LEMMA ClientTag ==
    ASSUME TagInv,
           \/ Hook \/ RefreshSubscriptionsCache \/ Close \/ CloseEnds
           \/ \E name \in Name : Unsubscribe(name)
           \/ \E g \in SubGroup : OnDataChange(g)
    PROVE  TagInv'
<1>1. CASE Hook
  <2>1. /\ threads' = [t \in Thread |-> threads'[t]]
        /\ \A t \in Thread : threads'[t].at = "holding" => threads'[t] = threads[t]
    BY <1>1 DEF Hook, StartThread, Waiting, TagInv, Types
  <2> QED BY <1>1, <2>1, Shrink, CarriedFewer DEF Hook, TagInv, Types, FirstConnect
<1>2. CASE RefreshSubscriptionsCache
  BY <1>2, Shrink, CarriedFewer DEF RefreshSubscriptionsCache, TagInv, Types, FirstConnect
<1>3. CASE Close
  <2>1. PICK kept \in SUBSET subscription_groups, stuck \in SUBSET SubGroup :
          Drop(subscription_groups \ kept, stuck)
    BY <1>3 DEF Close
  <2>2. UNCHANGED <<connected, next_handle, queue, threads, subscribes, connects>>
    BY <1>3 DEF Close
  <2> QED BY <2>1, <2>2, DropTag
<1>4. CASE CloseEnds
  BY <1>4, Shrink, CarriedFewer DEF CloseEnds, TagInv, Types, FirstConnect
<1>5. ASSUME NEW name \in Name, Unsubscribe(name)
      PROVE  TagInv'
  BY <1>5, DropTag DEF Unsubscribe
<1>6. ASSUME NEW g \in SubGroup, OnDataChange(g)
      PROVE  TagInv'
  <2>1. connects # 0
    BY <1>6 DEF OnDataChange, ItemsOf, TagInv, FirstConnect
  <2>2. queue' \in Seq(SUBSET AnyItem) /\ Carried' \subseteq Carried
    <3>1. CASE queue' = queue
      BY <1>6, <3>1, CarriedFewer DEF OnDataChange, TagInv, Types
    <3>2. CASE queue' = Append(queue, ItemsOf(g))
      <4>1. ItemsOf(g) \in SUBSET items
        BY DEF ItemsOf
      <4>2. items' = items
        BY <1>6 DEF OnDataChange
      <4> QED BY <4>1, <4>2, <3>2, CarriedAppend DEF TagInv
    <3> QED BY <1>6, <3>1, <3>2 DEF OnDataChange
  <2> QED BY <1>6, <2>1, <2>2, Shrink DEF OnDataChange, TagInv, Types
<1> QED BY <1>1, <1>2, <1>3, <1>4, <1>5, <1>6

\* Taking an event: the handles found for it stand for its tags.
LEMMA PopTag ==
    ASSUME TagInv, NEW t \in Thread, Pop(t)
    PROVE  TagInv'
<1> DEFINE event   == Head(queue)
           matches == {m \in SubGroup \X event : \E tag \in Tag : <<m[2].handle, tag>> \in handles_tag[m[1]]}
           changes == UNION {{[tag |-> p[2], item |-> m[2]] : p \in {q \in handles_tag[m[1]] : q[1] = m[2].handle}} :
                               m \in matches}
<1>1. /\ queue' \in Seq(SUBSET AnyItem)
      /\ Carried' \subseteq Carried
      /\ event \subseteq Carried
  BY CarriedTail DEF Pop, TagInv
<1>2. \A c \in changes : c.tag = c.item.tag
  <2> SUFFICES ASSUME NEW m \in matches, NEW p \in handles_tag[m[1]], p[1] = m[2].handle
               PROVE  m[2].tag = p[2]
    OBVIOUS
  <2> QED BY <1>1 DEF TagInv, HandleInv
<1>3. /\ threads' = [u \in Thread |-> threads'[u]]
      /\ \A u \in Thread \ {t} : threads'[u] = threads[u]
      /\ threads'[t].at = "holding" => threads'[t].changes = changes
  <2>1. \/ threads' = [threads EXCEPT ![t] = Again]
        \/ \E name : threads' = [threads EXCEPT ![t] = Holding(changes, name)]
    BY DEF Pop
  <2>2. Again.at # "holding"
    BY DEF Again, Waiting, NoThread
  <2>3. \A name : Holding(changes, name).changes = changes
    BY DEF Holding
  <2> HIDE DEF changes
  <2> QED BY <2>1, <2>2, <2>3 DEF TagInv, Types
<1>4. Types' /\ Given' /\ HandleInv'
  BY <1>1, <1>3 DEF Pop, TagInv, Types, Given, HandleInv
<1>5. FirstConnect'
  BY DEF Pop, TagInv, FirstConnect
<1>6. RightTag'
  BY <1>2, <1>3 DEF TagInv, RightTag
<1> QED BY <1>4, <1>5, <1>6 DEF TagInv

\* The event loop's other steps hold nothing new.
LEMMA LoopTag ==
    ASSUME TagInv, NEW t \in Thread, Call(t) \/ Return(t) \/ ThreadEnds(t)
    PROVE  TagInv'
<1>1. /\ threads' = [u \in Thread |-> threads'[u]]
      /\ \A u \in Thread : threads'[u].at = "holding" => threads'[u] = threads[u]
  BY DEF Call, Return, ThreadEnds, Again, Waiting, NoThread, Calling, TagInv, Types
<1> QED BY <1>1, Shrink, CarriedFewer
        DEF Call, Return, ThreadEnds, TagInv, Types, FirstConnect

LEMMA NextTag == MaxConnects = 1 /\ TagInv /\ [Next]_vars => TagInv'
<1> SUFFICES ASSUME MaxConnects = 1, TagInv, [Next]_vars PROVE TagInv'
  OBVIOUS
<1>1. CASE UNCHANGED vars
  BY <1>1 DEF vars, TagInv, Types, Given, FirstConnect, HandleInv, RightTag, Carried
<1> QED BY <1>1, ConnectTag, SubscribeTag, ClientTag, PopTag, LoopTag DEF Next

\* In one session a handle that is known stands for the tag and the group of
\* whatever carries it: the handles subscribe() gives are never confused.
THEOREM HandlesAreUnique ==
    ASSUME MaxConnects = 1
    PROVE  Spec => []HandleInv
<1>1. Init => TagInv
  BY InitTag
<1>2. TagInv /\ [Next]_vars => TagInv'
  BY NextTag
<1>3. TagInv => HandleInv
  BY DEF TagInv
<1> QED BY <1>1, <1>2, <1>3, PTL DEF Spec

\* In one session every value a callback gets is named after its own tag, through
\* groups dropped and subscribed again while values are queued.
THEOREM ValuesKeepTheirTag ==
    ASSUME MaxConnects = 1
    PROVE  Spec => []RightTag
<1>1. Init => TagInv
  BY InitTag
<1>2. TagInv /\ [Next]_vars => TagInv'
  BY NextTag
<1>3. TagInv => RightTag
  BY DEF TagInv
<1> QED BY <1>1, <1>2, <1>3, PTL DEF Spec

-----------------------------------------------------------------------------
(* One event loop in a session, and none that calls back after it.          *)

\* Does a thread run the event loop?
Running(t) == threads[t] # NoThread

\* Why: in the session the only event loop there may be is the one the client
\* knows, and close() leaves none but one that is inside a callback and will end.
SessionInv ==
    /\ threads = [t \in Thread |-> threads[t]]
    /\ connects \in Nat
    /\ connects = 0 => ~connected /\ \A t \in Thread : ~Running(t)
    /\ pc.at = "hooking" => connected
    /\ pc.at = "closing" => connected /\ ~thread_active
    /\ \A t, u \in Thread : Running(t) /\ Running(u) => t = u
    /\ connected => \A t \in Thread : Running(t) => t = thread
    /\ ~connected => ~thread_active /\ \A t \in Thread : Running(t) => threads[t].at = "calling"

\* Before the first session there is no thread.
LEMMA InitSession == Init => SessionInv
BY DEF Init, SessionInv, Running, NoThread

\* Steps that touch neither the threads nor the session.
LEMMA SameSession ==
    ASSUME SessionInv, UNCHANGED <<connected, threads, thread, thread_active, connects>>,
           pc' = pc \/ pc'.at = "idle" \/ (pc'.at = "hooking" /\ connected)
    PROVE  SessionInv'
BY DEF SessionInv, Running

\* A thread is started only when none runs.
LEMMA HookSession ==
    ASSUME SessionInv, Hook
    PROVE  SessionInv'
<1>1. connected /\ UNCHANGED <<connected, connects>> /\ pc'.at = "idle"
  BY DEF Hook, SessionInv
<1>2. CASE UNCHANGED threadVars
  BY <1>1, <1>2 DEF SessionInv, Running
<1>3. CASE ~Alive /\ StartThread
  <2>1. \A u \in Thread : ~Running(u)
    BY <1>1, <1>3 DEF Alive, SessionInv, Running
  <2>2. PICK t \in Thread : threads' = [threads EXCEPT ![t] = Waiting] /\ thread' = t
    BY <1>3 DEF StartThread, NeedsThread
  <2>3. \A u \in Thread : Running(u)' => u = t
    BY <2>1, <2>2 DEF Running, SessionInv
  <2> QED BY <1>1, <2>2, <2>3 DEF SessionInv
<1> QED BY <1>2, <1>3 DEF Hook, StartThread, NeedsThread

\* close() waits for the thread, unless it is inside a callback.
LEMMA CloseSession ==
    ASSUME SessionInv, Close \/ CloseEnds
    PROVE  SessionInv'
<1>1. CASE Close
  BY <1>1 DEF Close, SessionInv, Running
<1>2. CASE CloseEnds
  <2>1. connected /\ ~thread_active
    BY <1>2 DEF CloseEnds, SessionInv
  <2>2. \A t \in Thread : Running(t) => threads[t].at = "calling"
    BY <1>2, <2>1 DEF CloseEnds, Joined, Alive, SessionInv, Running
  <2> QED BY <1>2, <2>1, <2>2 DEF CloseEnds, SessionInv, Running
<1> QED BY <1>1, <1>2

\* A thread that runs goes on, or ends; after close() it ends.
LEMMA ThreadSession ==
    ASSUME SessionInv, NEW t \in Thread, Pop(t) \/ Call(t) \/ Return(t) \/ ThreadEnds(t)
    PROVE  SessionInv'
<1>1. UNCHANGED <<pc, connected, connects, thread, thread_active>>
  BY DEF Pop, Call, Return, ThreadEnds, clientVars
<1>2. Running(t)
  BY DEF Pop, Call, Return, ThreadEnds, Running, NoThread, Waiting
<1>3. \E state : threads' = [threads EXCEPT ![t] = state]
  BY DEF Pop, Call, Return, ThreadEnds
<1>4. /\ threads' = [u \in Thread |-> threads'[u]]
      /\ \A u \in Thread \ {t} : threads'[u] = threads[u]
  BY <1>3 DEF SessionInv
<1>5. ~connected => threads'[t] = NoThread
  BY <1>2 DEF SessionInv, Pop, Call, Return, ThreadEnds, Again, NoThread, Waiting
<1> QED BY <1>1, <1>2, <1>4, <1>5 DEF SessionInv, Running

LEMMA NextSession == MaxConnects = 1 /\ SessionInv /\ [Next]_vars => SessionInv'
<1> SUFFICES ASSUME MaxConnects = 1, SessionInv, [Next]_vars PROVE SessionInv'
  OBVIOUS
<1>1. CASE Connect
  BY <1>1 DEF Connect, Idle, SessionInv, Running
<1>2. ASSUME NEW name \in Name, NEW tags \in Batch, Subscribe(name, tags)
      PROVE  SessionInv'
  BY <1>2, SameSession DEF Subscribe
<1>3. CASE RefreshSubscriptionsCache
  BY <1>3, SameSession DEF RefreshSubscriptionsCache
<1>4. ASSUME NEW name \in Name, Unsubscribe(name)
      PROVE  SessionInv'
  BY <1>4, SameSession DEF Unsubscribe
<1>5. ASSUME NEW g \in SubGroup, OnDataChange(g)
      PROVE  SessionInv'
  BY <1>5, SameSession DEF OnDataChange
<1>6. CASE UNCHANGED vars
  BY <1>6, SameSession DEF vars
<1> QED
  BY <1>1, <1>2, <1>3, <1>4, <1>5, <1>6, HookSession, CloseSession, ThreadSession DEF Next

\* In one session callbacks never run at the same time, however subscribe() finds
\* the thread, and whatever fails.
THEOREM CallbacksTakeTurns ==
    ASSUME MaxConnects = 1
    PROVE  Spec => []OneAtATime
<1>1. Init => SessionInv
  BY InitSession
<1>2. SessionInv /\ [Next]_vars => SessionInv'
  BY NextSession
<1>3. SessionInv => OneAtATime
  BY DEF SessionInv, OneAtATime, Running, NoThread
<1> QED BY <1>1, <1>2, <1>3, PTL DEF Spec

\* Once close() has returned no callback is called, though one that was called
\* before, and took longer than close() waits, may still run.
THEOREM NoneIsCalledAfterClose ==
    ASSUME MaxConnects = 1
    PROVE  Spec => NoCallAfterClose
<1>1. Init => SessionInv
  BY InitSession
<1>2. SessionInv /\ [Next]_vars => SessionInv'
  BY NextSession
<1>3. SessionInv /\ [Next]_vars =>
        [Closed => \A t \in Thread : threads'[t].at = "calling" => threads[t].at = "calling"]_vars
  <2> SUFFICES ASSUME SessionInv, [Next]_vars, Closed, NEW t \in Thread,
                      threads'[t].at = "calling"
               PROVE  threads[t].at = "calling"
    OBVIOUS
  <2>1. CASE UNCHANGED threads
    BY <2>1
  <2>2. ASSUME NEW u \in Thread, Pop(u) \/ Call(u) \/ Return(u) \/ ThreadEnds(u)
        PROVE  threads[t].at = "calling"
    <3>1. threads[u].at = "calling"
      BY <2>2 DEF Closed, SessionInv, Running, NoThread, Pop, Call, Return, ThreadEnds, Waiting
    <3>2. Return(u)
      BY <2>2, <3>1 DEF Pop, Call, Return, ThreadEnds, Waiting
    <3>3. threads' = [threads EXCEPT ![u] = Again]
      BY <3>2 DEF Return
    <3> QED BY <3>1, <3>3 DEF SessionInv
  <2> QED
    BY <2>1, <2>2
    DEF Next, vars, Closed, Idle, Connect, Subscribe, Hook, RefreshSubscriptionsCache,
        Unsubscribe, Close, CloseEnds, OnDataChange
<1> QED BY <1>1, <1>2, <1>3, PTL DEF Spec, NoCallAfterClose
=============================================================================
