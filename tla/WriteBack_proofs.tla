--------------------------- MODULE WriteBack_proofs ---------------------------
(***************************************************************************)
(* Proofs about WriteBack, for every set of tags and values and every      *)
(* bound: type correctness, that disabled writes are silent, that startup  *)
(* values are never written back, that of a node that is not disturbed      *)
(* only client writes are, and that the module implements the safety of     *)
(* WriteThrough.                                                            *)
(***************************************************************************)
EXTENDS WriteBack, SequenceTheorems, FiniteSetTheorems, Functions, TLAPS

-----------------------------------------------------------------------------
(* The helpers the handlers are built from.                                 *)

\* A data change and a new tag leave a node in a legal state.
LEMMA StateTypes ==
    ASSUME NEW r \in Reading
    PROVE  /\ InitialState(r) \in NodeState
           /\ UpdatedState(r) \in NodeState
BY ValueKindAssumption
   DEF Reading, NodeState, Shown, UaStatus, InitialState, UpdatedState, da_quality_to_ua_status

\* Setting nodes keeps the nodes and the notifications well typed.
LEMMA SetValuesType ==
    ASSUME TypeOK, NEW S \in SUBSET Tag, NEW new \in [S -> NodeState],
           NEW src \in Source, SetValues(new, src)
    PROVE  /\ ua_nodes' \in [Tag -> NodeState \cup {NoNode}]
           /\ notifications' \in [Tag -> Seq(Notification)]
<1>1. ua_nodes' \in [Tag -> NodeState \cup {NoNode}]
  BY DEF TypeOK, SetValues
<1>2. \A t \in S : [value |-> new[t].value, src |-> src] \in Notification
  BY DEF NodeState, Notification
<1>3. notifications' \in [Tag -> Seq(Notification)]
  BY <1>2 DEF TypeOK, SetValues
<1> QED BY <1>1, <1>3

\* The notifications the handler forwards become well-typed writes of the node.
LEMMA WritesType ==
    ASSUME NEW t \in Tag, NEW ns \in Seq(Notification)
    PROVE  [i \in DOMAIN ns |-> WriteOf(t, ns[i])] \in Seq(Write)
<1> DEFINE ws == [i \in 1 .. Len(ns) |-> WriteOf(t, ns[i])]
<1>1. \A n \in Notification : WriteOf(t, n) \in Write
  BY DEF WriteOf, Write, Notification
<1>2. ws \in [1 .. Len(ns) -> Write] /\ Len(ns) \in Nat
  BY <1>1
<1>3. ws \in Seq(Write)
  <2> HIDE DEF ws
  <2> QED BY <1>2
<1>4. DOMAIN ns = 1 .. Len(ns)
  OBVIOUS
<1> QED BY <1>3, <1>4

\* What a publishing cycle forwards is the tail of the node's notifications.
LEMMA ForwardedType ==
    ASSUME TypeOK, NEW t \in Tag, notifications[t] # <<>>
    PROVE  /\ Swallowed(t) \in 0 .. Len(notifications[t])
           /\ SubSeq(notifications[t], Swallowed(t) + 1, Len(notifications[t]))
                \in Seq(Notification)
           /\ \A i \in DOMAIN SubSeq(notifications[t], Swallowed(t) + 1, Len(notifications[t])) :
                /\ i + Swallowed(t) \in 1 .. Len(notifications[t])
                /\ SubSeq(notifications[t], Swallowed(t) + 1, Len(notifications[t]))[i]
                     = notifications[t][i + Swallowed(t)]
<1> DEFINE ns == notifications[t]
           k  == Swallowed(t)
<1>1. ns \in Seq(Notification) /\ ns # <<>>
  BY DEF TypeOK
<1>2. k \in 0 .. Len(ns)
  BY <1>1 DEF Swallowed, First, TakesMark
<1>3. \A i \in k + 1 .. Len(ns) : ns[i] \in Notification
  BY <1>1, <1>2
<1> HIDE DEF ns, k
<1>4. Len(ns) \in Int /\ k + 1 \in Int
  BY <1>1, <1>2
<1>5. /\ SubSeq(ns, k + 1, Len(ns)) \in Seq(Notification)
      /\ Len(SubSeq(ns, k + 1, Len(ns))) = IF k + 1 <= Len(ns) THEN Len(ns) - (k + 1) + 1 ELSE 0
      /\ \A i \in 1 .. Len(ns) - (k + 1) + 1 : SubSeq(ns, k + 1, Len(ns))[i] = ns[(k + 1) + i - 1]
  BY <1>3, <1>4, SubSeqProperties
<1>6. \A i \in DOMAIN SubSeq(ns, k + 1, Len(ns)) :
         /\ i + k \in 1 .. Len(ns)
         /\ SubSeq(ns, k + 1, Len(ns))[i] = ns[i + k]
  BY <1>1, <1>2, <1>5
<1> QED BY <1>2, <1>5, <1>6 DEF ns, k

-----------------------------------------------------------------------------
(* Type correctness.                                                        *)

\* The initial states are well typed.
LEMMA InitType == Init => TypeOK
<1> SUFFICES ASSUME NEW S \in SUBSET Tag, NEW r \in [S -> Reading],
                    enable_writes \in BOOLEAN,
                    ua_nodes = [t \in Tag |-> IF t \in S THEN InitialState(r[t]) ELSE NoNode],
                    monitored = S,
                    notifications = [t \in Tag |->
                       IF t \in S THEN <<[value |-> r[t].value, src |-> "initial"]>> ELSE <<>>],
                    initialized_nodes = {}, pending_da_updates = {},
                    da_to_main_queue = <<>>, write_queue = <<>>, offered = <<>>,
                    client_writes = 0, reports = 0, disturbed = {}
             PROVE  TypeOK
  BY DEF Init
<1>1. ua_nodes \in [Tag -> NodeState \cup {NoNode}]
  BY StateTypes
<1>2. \A t \in S : [value |-> r[t].value, src |-> "initial"] \in Notification
  BY DEF Reading, Notification, Shown, Source
<1>3. notifications \in [Tag -> Seq(Notification)]
  BY <1>2
<1> QED BY <1>1, <1>3, BoundAssumption DEF TypeOK

\* The tags of an event are tags.
LEMMA TagSetsAreSets == TagSets \subseteq SUBSET Tag
BY DEF TagSets

\* Every step keeps the types.
LEMMA NextType == TypeOK /\ [Next]_vars => TypeOK'
<1> SUFFICES ASSUME TypeOK, [Next]_vars PROVE TypeOK'
  OBVIOUS
<1>1. ASSUME NEW e \in Event, DaEvent(e) PROVE TypeOK'
  BY <1>1, BoundAssumption DEF TypeOK, DaEvent
<1>2. ASSUME NEW t \in Tag, NEW v \in Value \ (Unwritable \cup Stringified), ClientWrite(t, v)
      PROVE  TypeOK'
  <2>1. [x \in {t} |-> [value |-> v, status |-> "Good"]] \in [{t} -> NodeState]
    BY DEF NodeState, Shown, UaStatus
  <2>2. /\ ua_nodes' \in [Tag -> NodeState \cup {NoNode}]
        /\ notifications' \in [Tag -> Seq(Notification)]
    <3>1. "client" \in Source BY DEF Source
    <3>2. SetValues([x \in {t} |-> [value |-> v, status |-> "Good"]], "client")
      BY <1>2 DEF ClientWrite
    <3> QED BY <2>1, <3>1, <3>2, SetValuesType
  <2> QED BY <1>2, <2>2, BoundAssumption DEF TypeOK, ClientWrite
<1>3. CASE ProcessDaEvent
  <2> DEFINE event == Head(da_to_main_queue)
  <2>1. event \in Event /\ da_to_main_queue' \in Seq(Event)
    BY <1>3 DEF TypeOK, ProcessDaEvent
  <2>2. \/ event.type = "data_change" /\ event.data \in Changes
        \/ event.type = "new_tags" /\ event.data \in Changes
        \/ event.type = "removed_tags" /\ event.data \in SUBSET Tag
    BY <2>1, TagSetsAreSets DEF Event
  <2>3. "da" \in Source /\ "bridge" \in Source
    BY DEF Source
  <2>4. HasNode \subseteq Tag
    BY DEF HasNode
  <2>5. /\ ua_nodes' \in [Tag -> NodeState \cup {NoNode}]
        /\ notifications' \in [Tag -> Seq(Notification)]
        /\ pending_da_updates' \subseteq Tag /\ disturbed' \subseteq Tag
        /\ UNCHANGED monitored
    <3>1. CASE event.type = "data_change"
      <4>1. PICK S \in SUBSET Tag : event.data \in [S -> Reading]
        BY <2>2, <3>1, TagSetsAreSets DEF Changes
      <4> DEFINE taken == {t \in DOMAIN event.data \cap HasNode :
                             event.data[t].value \notin Unwritable}
                 new   == [t \in taken |-> UpdatedState(event.data[t])]
      <4>2. OnDataChange(event.data)
        BY <1>3, <3>1 DEF ProcessDaEvent
      <4>3. taken \in SUBSET Tag /\ new \in [taken -> NodeState]
        BY <4>1, StateTypes
      <4>4. SetValues(new, "da")
        BY <4>2 DEF OnDataChange
      <4>5. /\ ua_nodes' \in [Tag -> NodeState \cup {NoNode}]
            /\ notifications' \in [Tag -> Seq(Notification)]
        <5> HIDE DEF taken, new
        <5> QED BY <4>3, <4>4, <2>3, SetValuesType
      <4> QED BY <4>2, <4>3, <4>5 DEF OnDataChange, TypeOK
    <3>2. CASE event.type = "new_tags"
      <4>1. PICK D \in SUBSET Tag : event.data \in [D -> Reading]
        BY <2>2, <3>2, TagSetsAreSets DEF Changes
      <4>2. OnNewTags(event.data)
        BY <1>3, <3>2 DEF ProcessDaEvent
      <4>3. PICK S \in SUBSET (DOMAIN event.data \ HasNode) :
                SetValues([t \in S |-> InitialState(event.data[t])], "bridge")
        BY <4>2 DEF OnNewTags
      <4>4. S \in SUBSET Tag /\ [t \in S |-> InitialState(event.data[t])] \in [S -> NodeState]
        BY <4>1, <4>3, StateTypes
      <4>5. /\ ua_nodes' \in [Tag -> NodeState \cup {NoNode}]
            /\ notifications' \in [Tag -> Seq(Notification)]
        BY <4>3, <4>4, <2>3, SetValuesType
      <4> QED BY <4>2, <4>5 DEF OnNewTags, TypeOK
    <3>3. CASE event.type = "removed_tags"
      <4> DEFINE gone == event.data \cap HasNode
                 new  == [t \in gone |-> [value |-> NoValue, status |-> "BadNodeIdUnknown"]]
      <4>1. OnRemovedTags(event.data)
        BY <1>3, <3>3 DEF ProcessDaEvent
      <4>2. gone \in SUBSET Tag /\ new \in [gone -> NodeState]
        BY <2>4 DEF NodeState, Shown, UaStatus
      <4>3. SetValues(new, "bridge")
        BY <4>1 DEF OnRemovedTags
      <4>4. /\ ua_nodes' \in [Tag -> NodeState \cup {NoNode}]
            /\ notifications' \in [Tag -> Seq(Notification)]
        <5> HIDE DEF gone, new
        <5> QED BY <4>2, <4>3, <2>3, SetValuesType
      <4> QED BY <4>1, <4>4 DEF OnRemovedTags, TypeOK
    <3> QED BY <2>2, <3>1, <3>2, <3>3
  <2> QED BY <1>3, <2>1, <2>5 DEF TypeOK, ProcessDaEvent
<1>4. ASSUME NEW t \in Tag, Publish(t) PROVE TypeOK'
  <2> DEFINE forwarded == SubSeq(notifications[t], Swallowed(t) + 1, Len(notifications[t]))
             writes == [i \in DOMAIN forwarded |-> WriteOf(t, forwarded[i])]
  <2>1. forwarded \in Seq(Notification)
    BY <1>4, ForwardedType DEF Publish
  <2>2. writes \in Seq(Write)
    <3> HIDE DEF forwarded
    <3> QED BY <2>1, WritesType
  <2>3. write_queue' \in Seq(Write)
    <3>1. write_queue' = write_queue \/ write_queue' = write_queue \o writes
      BY <1>4 DEF Publish
    <3>2. write_queue \in Seq(Write)
      BY DEF TypeOK
    <3> HIDE DEF forwarded, writes
    <3> QED BY <2>2, <3>1, <3>2, ConcatProperties
  <2>4. notifications' \in [Tag -> Seq(Notification)]
    BY <1>4 DEF Publish, TypeOK
  <2>5. initialized_nodes' \subseteq Tag /\ pending_da_updates' \subseteq Tag /\ disturbed' \subseteq Tag
    BY <1>4 DEF Publish, TypeOK
  <2> QED BY <1>4, <2>3, <2>4, <2>5 DEF Publish, TypeOK
<1>5. CASE DrainWrite
  BY <1>5 DEF DrainWrite, TypeOK
<1>6. CASE UNCHANGED vars
  BY <1>6 DEF vars, TypeOK
<1> QED BY <1>1, <1>2, <1>3, <1>4, <1>5, <1>6 DEF Next

\* Every state variable keeps its type in every behaviour of the write path.
THEOREM TypeCorrect == Spec => []TypeOK
BY InitType, NextType, PTL DEF Spec

-----------------------------------------------------------------------------
(* Disabled writes are silent.                                              *)

\* With writes disabled, nothing is ever queued for DA or written to it: the
\* guard of WriteHandler alone suffices.
THEOREM DisabledIsSilent == Spec => []WritesDisabledSilent
<1>1. Init => WritesDisabledSilent
  BY DEF Init, WritesDisabledSilent
<1>2. WritesDisabledSilent /\ [Next]_vars => WritesDisabledSilent'
  <2> SUFFICES ASSUME WritesDisabledSilent, [Next]_vars, ~enable_writes'
               PROVE  write_queue' = <<>> /\ offered' = <<>>
    BY DEF WritesDisabledSilent
  <2>1. enable_writes' = enable_writes
    BY DEF Next, vars, DaEvent, ClientWrite, ProcessDaEvent, Publish, DrainWrite
  <2>2. ~enable_writes /\ write_queue = <<>> /\ offered = <<>>
    BY <2>1 DEF WritesDisabledSilent
  <2> QED BY <2>2 DEF Next, vars, DaEvent, ClientWrite, ProcessDaEvent, Publish, DrainWrite
<1> QED BY <1>1, <1>2, PTL DEF Spec

-----------------------------------------------------------------------------
(* What a step does to the notifications.                                   *)

\* At most one notification, made by src, is added to nodes of S.
Grows(S, src) ==
    \A t \in Tag :
        \/ notifications'[t] = notifications[t]
        \/ /\ t \in S \cap monitored
           /\ \E n \in Notification :
                n.src = src /\ notifications'[t] = Append(notifications[t], n)

\* Setting the nodes of S adds at most one notification to each.
LEMMA SetValuesGrows ==
    ASSUME TypeOK, NEW S \in SUBSET Tag, NEW new \in [S -> NodeState],
           NEW src \in Source, SetValues(new, src)
    PROVE  Grows(S, src)
<1>1. \A t \in S : [value |-> new[t].value, src |-> src] \in Notification
  BY DEF NodeState, Notification
<1>2. \A t \in Tag :
         notifications'[t] = IF t \in S /\ t \in monitored /\ new[t] # ua_nodes[t]
                             THEN Append(notifications[t], [value |-> new[t].value, src |-> src])
                             ELSE notifications[t]
  BY DEF SetValues
<1> QED BY <1>1, <1>2 DEF Grows

\* A client write adds at most one notification, to the node written.
LEMMA ClientWriteGrows ==
    ASSUME TypeOK, NEW t \in Tag, NEW v \in Value \ (Unwritable \cup Stringified),
           ClientWrite(t, v)
    PROVE  Grows({t}, "client")
<1>1. [x \in {t} |-> [value |-> v, status |-> "Good"]] \in [{t} -> NodeState]
  BY DEF NodeState, Shown, UaStatus
<1>2. SetValues([x \in {t} |-> [value |-> v, status |-> "Good"]], "client")
  BY DEF ClientWrite
<1>3. "client" \in Source /\ {t} \in SUBSET Tag
  BY DEF Source
<1> QED BY <1>1, <1>2, <1>3, SetValuesGrows

\* A DA event adds at most one notification to each node it names.
LEMMA EventGrows ==
    ASSUME TypeOK, ProcessDaEvent
    PROVE  LET event == Head(da_to_main_queue)
           IN  \/ event.type = "data_change" /\ Grows(DOMAIN event.data, "da")
               \/ event.type = "new_tags" /\ Grows(DOMAIN event.data \ HasNode, "bridge")
               \/ event.type = "removed_tags" /\ Grows(event.data, "bridge")
<1> DEFINE event == Head(da_to_main_queue)
<1>1. event \in Event
  BY DEF TypeOK, ProcessDaEvent
<1>2. \/ event.type = "data_change" /\ event.data \in Changes
      \/ event.type = "new_tags" /\ event.data \in Changes
      \/ event.type = "removed_tags" /\ event.data \in SUBSET Tag
  BY <1>1, TagSetsAreSets DEF Event
<1>3. "da" \in Source /\ "bridge" \in Source
  BY DEF Source
<1>4. CASE event.type = "data_change"
  <2>1. PICK S \in SUBSET Tag : event.data \in [S -> Reading]
    BY <1>2, <1>4, TagSetsAreSets DEF Changes
  <2> DEFINE taken == {t \in DOMAIN event.data \cap HasNode :
                         event.data[t].value \notin Unwritable}
             new   == [t \in taken |-> UpdatedState(event.data[t])]
  <2>2. OnDataChange(event.data)
    BY <1>4 DEF ProcessDaEvent
  <2>3. taken \in SUBSET Tag /\ new \in [taken -> NodeState]
    BY <2>1, StateTypes
  <2>4. SetValues(new, "da")
    BY <2>2 DEF OnDataChange
  <2>5. Grows(taken, "da")
    <3> HIDE DEF taken, new
    <3> QED BY <2>3, <2>4, <1>3, SetValuesGrows
  <2>6. taken \subseteq DOMAIN event.data
    OBVIOUS
  <2> HIDE DEF taken, event
  <2> QED BY <1>4, <2>5, <2>6 DEF Grows, event
<1>5. CASE event.type = "new_tags"
  <2>1. PICK D \in SUBSET Tag : event.data \in [D -> Reading]
    BY <1>2, <1>5, TagSetsAreSets DEF Changes
  <2>2. OnNewTags(event.data)
    BY <1>5 DEF ProcessDaEvent
  <2>3. PICK S \in SUBSET (DOMAIN event.data \ HasNode) :
            SetValues([t \in S |-> InitialState(event.data[t])], "bridge")
    BY <2>2 DEF OnNewTags
  <2>4. S \in SUBSET Tag /\ [t \in S |-> InitialState(event.data[t])] \in [S -> NodeState]
    BY <2>1, <2>3, StateTypes
  <2>5. Grows(S, "bridge")
    BY <2>3, <2>4, <1>3, SetValuesGrows
  <2> QED BY <1>5, <2>3, <2>5 DEF Grows
<1>6. CASE event.type = "removed_tags"
  <2> DEFINE gone == event.data \cap HasNode
             new  == [t \in gone |-> [value |-> NoValue, status |-> "BadNodeIdUnknown"]]
  <2>1. OnRemovedTags(event.data)
    BY <1>6 DEF ProcessDaEvent
  <2>2. gone \in SUBSET Tag /\ new \in [gone -> NodeState]
    BY DEF NodeState, Shown, UaStatus, HasNode
  <2>3. SetValues(new, "bridge")
    BY <2>1 DEF OnRemovedTags
  <2>4. Grows(gone, "bridge")
    <3> HIDE DEF gone, new
    <3> QED BY <2>2, <2>3, <1>3, SetValuesGrows
  <2>5. gone \subseteq event.data
    OBVIOUS
  <2> HIDE DEF gone, event
  <2> QED BY <1>6, <2>4, <2>5 DEF Grows, event
<1> QED BY <1>2, <1>4, <1>5, <1>6

-----------------------------------------------------------------------------
(* What a step does to the writes under way.                                *)

\* The writes that are queued for DA or were offered to it.
UnderWay == {write_queue[i] : i \in DOMAIN write_queue} \cup {offered[i] : i \in DOMAIN offered}

\* A publishing cycle queues only notifications beyond the swallowed ones.
LEMMA PublishQueues ==
    ASSUME TypeOK, NEW t \in Tag, Publish(t)
    PROVE  UnderWay' \subseteq UnderWay \cup
             {WriteOf(t, notifications[t][j]) :
                j \in {i \in DOMAIN notifications[t] : enable_writes /\ i > Swallowed(t)}}
<1> DEFINE forwarded == SubSeq(notifications[t], Swallowed(t) + 1, Len(notifications[t]))
           writes == [i \in DOMAIN forwarded |-> WriteOf(t, forwarded[i])]
<1>1. /\ Swallowed(t) \in 0 .. Len(notifications[t])
      /\ forwarded \in Seq(Notification)
      /\ \A i \in DOMAIN forwarded :
           /\ i + Swallowed(t) \in 1 .. Len(notifications[t])
           /\ forwarded[i] = notifications[t][i + Swallowed(t)]
  BY ForwardedType DEF Publish
<1>2. \/ write_queue' = write_queue
      \/ enable_writes /\ write_queue' = write_queue \o writes
  BY DEF Publish
<1>3. writes \in Seq(Write) /\ DOMAIN writes = DOMAIN forwarded
  <2> HIDE DEF forwarded
  <2> QED BY <1>1, WritesType
<1>4. \A i \in DOMAIN writes :
        \E j \in DOMAIN notifications[t] :
           j > Swallowed(t) /\ writes[i] = WriteOf(t, notifications[t][j])
  <2> SUFFICES ASSUME NEW i \in DOMAIN forwarded
               PROVE  \E j \in DOMAIN notifications[t] :
                        j > Swallowed(t) /\ writes[i] = WriteOf(t, notifications[t][j])
    BY <1>3
  <2>1. writes[i] = WriteOf(t, forwarded[i])
    OBVIOUS
  <2>2. DOMAIN notifications[t] = 1 .. Len(notifications[t])
    BY DEF TypeOK
  <2>3. i \in 1 .. Len(forwarded)
    BY <1>1
  <2> HIDE DEF forwarded, writes
  <2>4. /\ i + Swallowed(t) \in DOMAIN notifications[t]
        /\ i + Swallowed(t) > Swallowed(t)
    BY <1>1, <2>2, <2>3
  <2> QED BY <1>1, <2>1, <2>4
<1>5. write_queue \in Seq(Write) /\ UNCHANGED offered
  BY DEF TypeOK, Publish
<1> HIDE DEF forwarded, writes
<1>6. CASE enable_writes /\ write_queue' = write_queue \o writes
  <2>1. /\ write_queue' \in Seq(Write)
        /\ Len(write_queue') = Len(write_queue) + Len(writes)
        /\ \A i \in 1 .. Len(write_queue) + Len(writes) :
             write_queue'[i] = IF i <= Len(write_queue) THEN write_queue[i]
                               ELSE writes[i - Len(write_queue)]
    BY <1>3, <1>5, <1>6, ConcatProperties
  <2>2. \A i \in DOMAIN write_queue' :
           \/ i \in DOMAIN write_queue /\ write_queue'[i] = write_queue[i]
           \/ \E k \in DOMAIN writes : write_queue'[i] = writes[k]
    <3> SUFFICES ASSUME NEW i \in 1 .. Len(write_queue) + Len(writes)
                 PROVE  \/ i \in DOMAIN write_queue /\ write_queue'[i] = write_queue[i]
                        \/ \E k \in DOMAIN writes : write_queue'[i] = writes[k]
      BY <2>1
    <3>1. CASE i <= Len(write_queue)
      BY <2>1, <3>1, <1>5
    <3>2. CASE i > Len(write_queue)
      <4>1. i - Len(write_queue) \in DOMAIN writes
        BY <3>2, <1>3, <1>5
      <4> QED BY <2>1, <3>2, <4>1, <1>5
    <3> QED BY <3>1, <3>2, <1>5
  <2> QED BY <2>2, <1>4, <1>5, <1>6 DEF UnderWay
<1> QED BY <1>2, <1>5, <1>6 DEF UnderWay

\* The other steps queue nothing.
LEMMA OthersQueueNothing ==
    ASSUME TypeOK, [Next]_vars, ~ \E t \in Tag : Publish(t)
    PROVE  UnderWay' \subseteq UnderWay
<1>1. CASE DrainWrite
  <2>1. write_queue \in Seq(Write) /\ write_queue # <<>> /\ offered \in Seq(Write)
    BY <1>1 DEF TypeOK, DrainWrite
  <2>2. \A i \in DOMAIN write_queue' : i + 1 \in DOMAIN write_queue /\ write_queue'[i] = write_queue[i + 1]
    BY <1>1, <2>1, HeadTailProperties DEF DrainWrite
  <2>3. \A i \in DOMAIN offered' :
           \/ i \in DOMAIN offered /\ offered'[i] = offered[i]
           \/ offered'[i] = write_queue[1]
    BY <1>1, <2>1 DEF DrainWrite
  <2>4. 1 \in DOMAIN write_queue
    BY <2>1
  <2> QED BY <2>2, <2>3, <2>4 DEF UnderWay
<1>2. CASE UNCHANGED <<write_queue, offered>>
  BY <1>2 DEF UnderWay
<1> QED BY <1>1, <1>2 DEF Next, vars, DaEvent, ClientWrite, ProcessDaEvent

-----------------------------------------------------------------------------
(* Startup values are never written back.                                   *)

\* Every step keeps a startup value at the head of its node's notifications, and
\* the handler owing that node its skip.
LEMMA StartupNext == TypeOK /\ StartupInv /\ [Next]_vars => StartupInv'
<1> SUFFICES ASSUME TypeOK, StartupInv, [Next]_vars PROVE StartupInv'
  OBVIOUS
<1> DEFINE Kept == \A t \in Tag : \A i \in DOMAIN notifications[t] :
                     notifications[t][i].src = "initial" => i = 1 /\ t \notin initialized_nodes
<1>1. ASSUME NEW S, NEW src \in {"da", "bridge", "client"}, Grows(S, src),
             UNCHANGED <<initialized_nodes, write_queue, offered>>
      PROVE  StartupInv'
  <2>1. ASSUME NEW t \in Tag, NEW i \in DOMAIN notifications'[t],
               notifications'[t][i].src = "initial"
        PROVE  i = 1 /\ t \notin initialized_nodes
    <3>1. notifications[t] \in Seq(Notification)
      BY DEF TypeOK
    <3>2. CASE notifications'[t] = notifications[t]
      BY <2>1, <3>2 DEF StartupInv
    <3>3. CASE \E n \in Notification :
                 n.src = src /\ notifications'[t] = Append(notifications[t], n)
      <4>1. PICK n \in Notification :
                 n.src = src /\ notifications'[t] = Append(notifications[t], n)
        BY <3>3
      <4>2. i \in DOMAIN notifications[t] /\ notifications'[t][i] = notifications[t][i]
        BY <2>1, <3>1, <4>1
      <4> QED BY <2>1, <4>2 DEF StartupInv
    <3> QED BY <1>1, <3>2, <3>3 DEF Grows
  <2> QED BY <1>1, <2>1 DEF StartupInv, StartupValuesNeverWritten
<1>2. ASSUME NEW e \in Event, DaEvent(e) PROVE StartupInv'
  BY <1>2 DEF DaEvent, StartupInv, StartupValuesNeverWritten
<1>3. ASSUME NEW t \in Tag, NEW v \in Value \ (Unwritable \cup Stringified), ClientWrite(t, v)
      PROVE  StartupInv'
  BY <1>1, <1>3, ClientWriteGrows DEF ClientWrite
<1>4. CASE ProcessDaEvent
  <2>1. UNCHANGED <<initialized_nodes, write_queue, offered>>
    BY <1>4 DEF ProcessDaEvent
  <2> QED BY <1>1, <1>4, <2>1, EventGrows
<1>5. ASSUME NEW t \in Tag, Publish(t) PROVE StartupInv'
  <2>1. Kept'
    BY <1>5 DEF Publish, TypeOK, StartupInv
  <2>2. \A j \in DOMAIN notifications[t] :
           j > Swallowed(t) => notifications[t][j].src # "initial"
    BY DEF StartupInv, Swallowed, First, TypeOK
  <2>3. \A w \in UnderWay : w.src # "initial"
    BY DEF StartupInv, StartupValuesNeverWritten, UnderWay
  <2>4. \A n \in Notification : WriteOf(t, n).src = n.src
    BY DEF WriteOf
  <2>5. \A j \in DOMAIN notifications[t] : notifications[t][j] \in Notification
    BY DEF TypeOK
  <2>6. \A w \in UnderWay' : w.src # "initial"
    BY <1>5, <2>2, <2>3, <2>4, <2>5, PublishQueues
  <2> QED BY <2>1, <2>6 DEF StartupInv, StartupValuesNeverWritten, UnderWay
<1>6. CASE DrainWrite
  <2>1. ~ \E t \in Tag : Publish(t)
    BY <1>6 DEF DrainWrite, Publish, TypeOK
  <2>2. \A w \in UnderWay' : w.src # "initial"
    BY <2>1, OthersQueueNothing DEF StartupInv, StartupValuesNeverWritten, UnderWay
  <2> QED BY <1>6, <2>2 DEF DrainWrite, StartupInv, StartupValuesNeverWritten, UnderWay
<1>7. CASE UNCHANGED vars
  BY <1>7 DEF vars, StartupInv, StartupValuesNeverWritten
<1> QED BY <1>2, <1>3, <1>4, <1>5, <1>6, <1>7 DEF Next

\* Whatever the environment does, the values the nodes had when the bridge
\* started are never written back to the DA server.
THEOREM StartupIsNeverWritten == Spec => []StartupValuesNeverWritten
<1>1. Init => StartupInv
  BY DEF Init, StartupInv, StartupValuesNeverWritten
<1>2. StartupInv => StartupValuesNeverWritten
  BY DEF StartupInv
<1> QED BY <1>1, <1>2, StartupNext, TypeCorrect, PTL DEF Spec

-----------------------------------------------------------------------------
(* Of a node that is not disturbed, only client writes are written to DA.    *)

\* A DA event that leaves a node undisturbed either has nothing to do with it, or is
\* a data change its node refuses, or one that it shows and is marked for.
LEMMA QuietEvent ==
    ASSUME TypeOK, monitored \subseteq HasNode, ProcessDaEvent, NEW t \in monitored, t \notin disturbed'
    PROVE  /\ t \notin disturbed
           /\ \/ /\ notifications'[t] = notifications[t]
                 /\ t \in pending_da_updates' <=> t \in pending_da_updates
              \/ /\ Len(notifications[t]) <= First(t)
                 /\ notifications'[t] = notifications[t]
                 /\ t \notin pending_da_updates'
              \/ /\ Len(notifications[t]) <= First(t)
                 /\ t \in pending_da_updates'
                 /\ \E n \in Notification :
                      n.src = "da" /\ notifications'[t] = Append(notifications[t], n)
<1> DEFINE event == Head(da_to_main_queue)
<1>1. /\ event \in Event
      /\ \/ event.type = "data_change" /\ event.data \in Changes /\ OnDataChange(event.data)
         \/ event.type = "new_tags" /\ event.data \in Changes /\ OnNewTags(event.data)
         \/ event.type = "removed_tags" /\ event.data \in SUBSET Tag /\ OnRemovedTags(event.data)
  <2>1. event \in Event
    BY DEF TypeOK, ProcessDaEvent
  <2> QED BY <2>1, TagSetsAreSets DEF Event, ProcessDaEvent
<1>2. t \in Tag /\ t \in HasNode /\ notifications[t] \in Seq(Notification)
  BY DEF TypeOK
<1>3. CASE event.type = "data_change"
  <2>1. PICK S \in SUBSET Tag : event.data \in [S -> Reading]
    BY <1>1, <1>3, TagSetsAreSets DEF Changes
  <2>2. OnDataChange(event.data)
    BY <1>1, <1>3
  <2> DEFINE taken == {x \in DOMAIN event.data \cap HasNode : event.data[x].value \notin Unwritable}
             new   == [x \in taken |-> UpdatedState(event.data[x])]
  <2>3. /\ pending_da_updates' = (pending_da_updates \ (DOMAIN event.data \cap HasNode)) \cup taken
        /\ t \notin disturbed
        /\ t \in DOMAIN event.data => ~ Disturbs(t, event.data[t])
        /\ SetValues(new, "da")
    BY <1>2, <2>2 DEF OnDataChange
  <2>4. notifications'[t] = IF t \in taken /\ new[t] # ua_nodes[t]
                            THEN Append(notifications[t], [value |-> new[t].value, src |-> "da"])
                            ELSE notifications[t]
    BY <1>2, <2>3 DEF SetValues
  <2>5. CASE t \notin DOMAIN event.data
    BY <2>3, <2>4, <2>5
  <2>6. CASE t \in DOMAIN event.data
    <3>1. Len(notifications[t]) <= First(t)
      BY <1>2, <2>3, <2>6 DEF Disturbs, First
    <3>2. CASE t \notin taken
      BY <1>2, <2>3, <2>4, <2>6, <3>1, <3>2
    <3>3. CASE t \in taken
      <4>1. new[t] = UpdatedState(event.data[t]) /\ new[t] # ua_nodes[t]
        BY <2>3, <2>6, <3>3 DEF Disturbs
      <4>2. new[t] \in NodeState
        BY <2>1, <2>6, <4>1, StateTypes
      <4>3. [value |-> new[t].value, src |-> "da"] \in Notification
        BY <4>2 DEF NodeState, Notification, Source
      <4> QED BY <2>3, <2>4, <3>1, <3>3, <4>1, <4>3
    <3> QED BY <3>2, <3>3
  <2> QED BY <2>3, <2>5, <2>6
<1>4. CASE event.type = "new_tags"
  <2>1. OnNewTags(event.data)
    BY <1>1, <1>4
  <2>2. PICK S \in SUBSET (DOMAIN event.data \ HasNode) :
            SetValues([x \in S |-> InitialState(event.data[x])], "bridge")
    BY <2>1 DEF OnNewTags
  <2>3. notifications'[t] = notifications[t]
    BY <1>2, <2>2 DEF SetValues
  <2> QED BY <2>1, <2>3 DEF OnNewTags
<1>5. CASE event.type = "removed_tags"
  <2>1. OnRemovedTags(event.data)
    BY <1>1, <1>5
  <2>2. t \notin event.data /\ t \notin disturbed
    BY <2>1 DEF OnRemovedTags
  <2>3. notifications'[t] = notifications[t]
    BY <1>2, <2>1, <2>2 DEF OnRemovedTags, SetValues
  <2> QED BY <2>1, <2>2, <2>3 DEF OnRemovedTags
<1> QED BY <1>1, <1>3, <1>4, <1>5

\* What is queued or offered and is not to be explained.
Mistaken == {w \in UnderWay : w.src # "client" /\ ~ w.disturbed}

LEMMA NoneMistaken == OnlyClientWrites <=> Mistaken = {}
BY DEF OnlyClientWrites, Mistaken, UnderWay

\* Of an undisturbed node, all notifications beyond the swallowed ones are clients'.
LEMMA ForwardsClients ==
    ASSUME TypeOK, SoundInv, enable_writes, NEW t \in Tag \ disturbed, notifications[t] # <<>>
    PROVE  /\ \A j \in DOMAIN notifications[t] : j > Swallowed(t) => notifications[t][j].src = "client"
           /\ \A j \in DOMAIN notifications[t] : j <= Swallowed(t) => notifications[t][j].src # "client"
<1>1. t \in monitored
  BY DEF SoundInv
<1>2. PICK m \in Nat \ {0} : m = Len(notifications[t]) /\ DOMAIN notifications[t] = 1 .. m
  BY DEF TypeOK
<1>3. /\ t \in pending_da_updates => m > First(t)
      /\ \A i \in First(t) + 1 .. m :
           notifications[t][i].src = IF i = First(t) + 1 /\ t \in pending_da_updates
                                     THEN "da" ELSE "client"
      /\ t \notin initialized_nodes => notifications[t][1].src = "initial"
  BY <1>1, <1>2 DEF SoundInv
<1>4. Swallowed(t) = First(t) + IF t \in pending_da_updates THEN 1 ELSE 0
  BY <1>2, <1>3 DEF Swallowed, TakesMark
<1>5. First(t) \in 0 .. 1 /\ (First(t) = 1 <=> t \notin initialized_nodes)
  BY DEF First
<1>6. ASSUME NEW j \in 1 .. m, j > Swallowed(t) PROVE notifications[t][j].src = "client"
  <2>1. j \in First(t) + 1 .. m /\ (j = First(t) + 1 => t \notin pending_da_updates)
    BY <1>4, <1>5, <1>6
  <2> QED BY <1>3, <2>1
<1>7. ASSUME NEW j \in 1 .. m, j <= Swallowed(t) PROVE notifications[t][j].src # "client"
  <2>1. CASE j <= First(t)
    <3>1. j = 1 /\ t \notin initialized_nodes
      BY <1>5, <2>1
    <3> QED BY <1>3, <3>1
  <2>2. CASE j > First(t)
    <3>1. j = First(t) + 1 /\ t \in pending_da_updates /\ j \in First(t) + 1 .. m
      BY <1>4, <1>5, <1>7, <2>2
    <3> QED BY <1>3, <3>1
  <2> QED BY <1>5, <2>1, <2>2
<1> QED BY <1>2, <1>6, <1>7

\* A node's clients and the server add to its notifications what the handler expects.
LEMMA ChangeIsSound ==
    ASSUME TypeOK, SoundInv, monitored' = monitored, HasNode \subseteq HasNode',
           UNCHANGED <<enable_writes, initialized_nodes>>, Mistaken' = {},
           \A t \in Tag :
             \/ notifications'[t] = notifications[t]
             \/ t \in monitored /\ \E n \in Notification :
                  /\ n.src = "client" => enable_writes
                  /\ notifications'[t] = Append(notifications[t], n),
           \A t \in monitored \ disturbed' :
             /\ t \notin disturbed
             /\ \/ /\ notifications'[t] = notifications[t]
                   /\ t \in pending_da_updates' <=> t \in pending_da_updates
                \/ /\ Len(notifications[t]) <= First(t)
                   /\ notifications'[t] = notifications[t]
                   /\ t \notin pending_da_updates'
                \/ /\ Len(notifications[t]) <= First(t)
                   /\ t \in pending_da_updates'
                   /\ \E n \in Notification :
                        n.src = "da" /\ notifications'[t] = Append(notifications[t], n)
                \/ /\ t \in pending_da_updates' <=> t \in pending_da_updates
                   /\ \E n \in Notification :
                        n.src = "client" /\ notifications'[t] = Append(notifications[t], n)
    PROVE  SoundInv'
<1>1. \A t \in Tag : notifications[t] \in Seq(Notification)
  BY DEF TypeOK
<1>2. OnlyClientWrites'
  BY NoneMistaken DEF OnlyClientWrites, Mistaken, UnderWay
<1>3. monitored' \subseteq HasNode'
  BY DEF SoundInv
<1>4. \A t \in Tag \ monitored' : notifications'[t] = <<>>
  BY DEF SoundInv
<1>5. ASSUME enable_writes, NEW t \in monitored \ initialized_nodes
      PROVE  notifications'[t] # <<>> /\ notifications'[t][1].src = "initial"
  <2>1. /\ t \in Tag /\ notifications[t] \in Seq(Notification)
        /\ notifications[t] # <<>> /\ notifications[t][1].src = "initial"
    BY <1>1, <1>5 DEF SoundInv, TypeOK
  <2>2. CASE notifications'[t] = notifications[t]
    BY <2>1, <2>2
  <2>3. CASE \E n \in Notification : notifications'[t] = Append(notifications[t], n)
    <3>1. PICK n \in Notification : notifications'[t] = Append(notifications[t], n)
      BY <2>3
    <3>2. Append(notifications[t], n) # <<>> /\ Append(notifications[t], n)[1] = notifications[t][1]
      BY <2>1
    <3> QED BY <2>1, <3>1, <3>2
  <2> QED BY <2>1, <2>2, <2>3
<1>6. ASSUME NEW t \in Tag, NEW i \in DOMAIN notifications'[t], notifications'[t][i].src = "client"
      PROVE  enable_writes
  <2>1. notifications[t] \in Seq(Notification)
    BY <1>1
  <2>2. CASE notifications'[t] = notifications[t]
    BY <1>6, <2>2 DEF SoundInv
  <2>3. CASE \E n \in Notification : /\ n.src = "client" => enable_writes
                                     /\ notifications'[t] = Append(notifications[t], n)
    <3>1. PICK n \in Notification : /\ n.src = "client" => enable_writes
                                    /\ notifications'[t] = Append(notifications[t], n)
      BY <2>3
    <3>2. CASE i \in DOMAIN notifications[t]
      <4>1. notifications'[t][i] = notifications[t][i]
        BY <2>1, <3>1, <3>2
      <4> QED BY <1>6, <3>2, <4>1 DEF SoundInv
    <3>3. CASE i \notin DOMAIN notifications[t]
      <4>1. notifications'[t][i] = n
        BY <1>6, <2>1, <3>1, <3>3
      <4> QED BY <1>6, <3>1, <4>1
    <3> QED BY <3>2, <3>3
  <2> QED BY <2>2, <2>3
<1>7. ASSUME enable_writes, NEW t \in monitored \ disturbed'
      PROVE  /\ t \in pending_da_updates' => Len(notifications'[t]) > First(t)'
             /\ \A i \in First(t)' + 1 .. Len(notifications'[t]) :
                  notifications'[t][i].src = IF i = First(t)' + 1 /\ t \in pending_da_updates'
                                             THEN "da" ELSE "client"
  <2>1. PICK f \in 0 .. 1 : f = First(t) /\ f = First(t)'
    BY DEF First
  <2>2. t \in Tag /\ t \in monitored \ disturbed
    BY DEF TypeOK
  <2>3. PICK m \in Nat : /\ m = Len(notifications[t]) /\ DOMAIN notifications[t] = 1 .. m
                         /\ m >= f
    <3>1. PICK m \in Nat : m = Len(notifications[t]) /\ DOMAIN notifications[t] = 1 .. m
      BY <1>1, <2>2
    <3>2. f = 1 => notifications[t] # <<>>
      BY <1>7, <2>1, <2>2 DEF SoundInv, First
    <3>3. notifications[t] # <<>> => m # 0
      BY <1>1, <2>2, <3>1
    <3> QED BY <3>1, <3>2, <3>3
  <2>4. /\ t \in pending_da_updates => m > f
        /\ \A i \in f + 1 .. m :
             notifications[t][i].src = IF i = f + 1 /\ t \in pending_da_updates THEN "da" ELSE "client"
    <3>1. /\ t \in pending_da_updates => Len(notifications[t]) > First(t)
          /\ \A i \in First(t) + 1 .. Len(notifications[t]) :
               notifications[t][i].src = IF i = First(t) + 1 /\ t \in pending_da_updates
                                         THEN "da" ELSE "client"
      BY <1>7, <2>2 DEF SoundInv
    <3> QED BY <2>1, <2>3, <3>1
  <2>5. ASSUME NEW n \in Notification, notifications'[t] = Append(notifications[t], n)
        PROVE  /\ Len(notifications'[t]) = m + 1 /\ notifications'[t][m + 1] = n
               /\ \A i \in 1 .. m : notifications'[t][i] = notifications[t][i]
    BY <1>1, <2>2, <2>3, <2>5
  <2>6. CASE notifications'[t] = notifications[t] /\ (t \in pending_da_updates' <=> t \in pending_da_updates)
    BY <2>1, <2>3, <2>4, <2>6
  <2>7. CASE /\ m <= f /\ t \notin pending_da_updates' /\ notifications'[t] = notifications[t]
    BY <2>1, <2>3, <2>7
  <2>8. CASE /\ m <= f /\ t \in pending_da_updates'
             /\ \E n \in Notification :
                  n.src = "da" /\ notifications'[t] = Append(notifications[t], n)
    BY <2>1, <2>3, <2>5, <2>8
  <2>9. CASE /\ t \in pending_da_updates' <=> t \in pending_da_updates
             /\ \E n \in Notification :
                  n.src = "client" /\ notifications'[t] = Append(notifications[t], n)
    <3>1. PICK n \in Notification : n.src = "client" /\ notifications'[t] = Append(notifications[t], n)
      BY <2>9
    <3>2. /\ Len(notifications'[t]) = m + 1 /\ notifications'[t][m + 1].src = "client"
          /\ \A i \in f + 1 .. m : notifications'[t][i].src = notifications[t][i].src
      BY <2>1, <2>3, <2>5, <3>1
    <3>3. \A i \in f + 1 .. m + 1 : i \in f + 1 .. m \/ i = m + 1
      BY <2>1, <2>3
    <3>4. t \in pending_da_updates => m + 1 # f + 1
      BY <2>1, <2>3, <2>4
    <3> QED BY <2>1, <2>3, <2>4, <2>9, <3>2, <3>3, <3>4
  <2> QED BY <2>1, <2>3, <2>6, <2>7, <2>8, <2>9
<1> QED BY <1>2, <1>3, <1>4, <1>5, <1>6, <1>7 DEF SoundInv

\* The nodes set stay nodes.
LEMMA NodesStay ==
    ASSUME TypeOK, NEW S \in SUBSET Tag, NEW new \in [S -> NodeState], NEW src, SetValues(new, src)
    PROVE  HasNode \subseteq HasNode'
<1>1. \A t \in S : new[t] # NoNode
  BY DEF NodeState, NoNode, UaStatus
<1> QED BY <1>1 DEF HasNode, SetValues

LEMMA EventKeepsNodes ==
    ASSUME TypeOK, ProcessDaEvent PROVE HasNode \subseteq HasNode' /\ monitored' = monitored
<1> DEFINE event == Head(da_to_main_queue)
<1>1. \/ event.type = "data_change" /\ event.data \in Changes /\ OnDataChange(event.data)
      \/ event.type = "new_tags" /\ event.data \in Changes /\ OnNewTags(event.data)
      \/ event.type = "removed_tags" /\ event.data \in SUBSET Tag /\ OnRemovedTags(event.data)
  <2>1. event \in Event
    BY DEF TypeOK, ProcessDaEvent
  <2> QED BY <2>1, TagSetsAreSets DEF Event, ProcessDaEvent
<1>2. ASSUME event.data \in Changes, OnDataChange(event.data) PROVE HasNode \subseteq HasNode'
  <2>1. PICK S \in SUBSET Tag : event.data \in [S -> Reading]
    BY <1>2, TagSetsAreSets DEF Changes
  <2> DEFINE taken == {x \in DOMAIN event.data \cap HasNode : event.data[x].value \notin Unwritable}
             new   == [x \in taken |-> UpdatedState(event.data[x])]
  <2>2. taken \in SUBSET Tag /\ new \in [taken -> NodeState]
    BY <2>1, StateTypes
  <2>3. SetValues(new, "da")
    BY <1>2 DEF OnDataChange
  <2> HIDE DEF taken, new
  <2> QED BY <2>2, <2>3, NodesStay
<1>3. ASSUME event.data \in Changes, OnNewTags(event.data) PROVE HasNode \subseteq HasNode'
  <2>1. PICK D \in SUBSET Tag : event.data \in [D -> Reading]
    BY <1>3, TagSetsAreSets DEF Changes
  <2>2. PICK S \in SUBSET (DOMAIN event.data \ HasNode) :
            SetValues([x \in S |-> InitialState(event.data[x])], "bridge")
    BY <1>3 DEF OnNewTags
  <2>3. S \in SUBSET Tag /\ [x \in S |-> InitialState(event.data[x])] \in [S -> NodeState]
    BY <2>1, <2>2, StateTypes
  <2> QED BY <2>2, <2>3, NodesStay
<1>4. ASSUME OnRemovedTags(event.data) PROVE HasNode \subseteq HasNode'
  <2> DEFINE gone == event.data \cap HasNode
             new  == [t \in gone |-> [value |-> NoValue, status |-> "BadNodeIdUnknown"]]
  <2>1. gone \in SUBSET Tag /\ new \in [gone -> NodeState]
    BY DEF NodeState, Shown, UaStatus, HasNode
  <2>2. SetValues(new, "bridge")
    BY <1>4 DEF OnRemovedTags
  <2> HIDE DEF gone, new
  <2> QED BY <2>1, <2>2, NodesStay
<1> QED BY <1>1, <1>2, <1>3, <1>4 DEF OnDataChange, OnNewTags, OnRemovedTags

\* Every step keeps marks and notifications of an undisturbed node in step.
LEMMA SoundNext == TypeOK /\ SoundInv /\ [Next]_vars => SoundInv'
<1> SUFFICES ASSUME TypeOK, SoundInv, [Next]_vars PROVE SoundInv'
  OBVIOUS
<1>1. Mistaken = {}
  BY NoneMistaken DEF SoundInv
<1>2. CASE UNCHANGED <<enable_writes, ua_nodes, monitored, initialized_nodes, pending_da_updates,
                       notifications, disturbed>> /\ Mistaken' = {}
  <2>1. OnlyClientWrites'
    BY <1>2, NoneMistaken DEF OnlyClientWrites, Mistaken, UnderWay
  <2> QED BY <1>2, <2>1 DEF SoundInv, HasNode, First
<1>3. ASSUME NEW e \in Event, DaEvent(e) PROVE SoundInv'
  <2>1. Mistaken' = {}
    BY <1>1, <1>3 DEF DaEvent, Mistaken, UnderWay
  <2> QED BY <1>2, <1>3, <2>1 DEF DaEvent
<1>4. ASSUME NEW t \in Tag, NEW v \in Value \ (Unwritable \cup Stringified), ClientWrite(t, v)
      PROVE  SoundInv'
  <2>1. Grows({t}, "client")
    BY <1>4, ClientWriteGrows
  <2>2. Mistaken' = {}
    BY <1>1, <1>4 DEF ClientWrite, Mistaken, UnderWay
  <2>3. HasNode \subseteq HasNode'
    <3>1. [x \in {t} |-> [value |-> v, status |-> "Good"]] \in [{t} -> NodeState]
      BY DEF NodeState, Shown, UaStatus
    <3>2. SetValues([x \in {t} |-> [value |-> v, status |-> "Good"]], "client")
      BY <1>4 DEF ClientWrite
    <3> QED BY <3>1, <3>2, NodesStay
  <2>4. /\ enable_writes /\ monitored \subseteq Tag
        /\ UNCHANGED <<enable_writes, monitored, initialized_nodes, pending_da_updates, disturbed>>
    BY <1>4 DEF ClientWrite, TypeOK
  <2> QED BY <2>1, <2>2, <2>3, <2>4, ChangeIsSound DEF Grows
<1>5. CASE ProcessDaEvent
  <2>1. /\ UNCHANGED <<enable_writes, initialized_nodes, write_queue, offered>>
        /\ monitored \subseteq Tag /\ monitored \subseteq HasNode
    BY <1>5 DEF ProcessDaEvent, TypeOK, SoundInv
  <2>2. Mistaken' = {}
    BY <1>1, <2>1 DEF Mistaken, UnderWay
  <2>3. PICK S, src : src # "client" /\ Grows(S, src)
    BY <1>5, EventGrows
  <2>4. HasNode \subseteq HasNode' /\ monitored' = monitored
    BY <1>5, EventKeepsNodes
  <2>5. \A t \in Tag :
          \/ notifications'[t] = notifications[t]
          \/ t \in monitored /\ \E n \in Notification :
               /\ n.src = "client" => enable_writes
               /\ notifications'[t] = Append(notifications[t], n)
    BY <2>3 DEF Grows
  <2>6. \A t \in monitored \ disturbed' :
             /\ t \notin disturbed
             /\ \/ /\ notifications'[t] = notifications[t]
                   /\ t \in pending_da_updates' <=> t \in pending_da_updates
                \/ /\ Len(notifications[t]) <= First(t)
                   /\ notifications'[t] = notifications[t]
                   /\ t \notin pending_da_updates'
                \/ /\ Len(notifications[t]) <= First(t)
                   /\ t \in pending_da_updates'
                   /\ \E n \in Notification :
                        n.src = "da" /\ notifications'[t] = Append(notifications[t], n)
    <3> SUFFICES ASSUME NEW t \in monitored, t \notin disturbed'
                 PROVE  /\ t \notin disturbed
             /\ \/ /\ notifications'[t] = notifications[t]
                   /\ t \in pending_da_updates' <=> t \in pending_da_updates
                \/ /\ Len(notifications[t]) <= First(t)
                   /\ notifications'[t] = notifications[t]
                   /\ t \notin pending_da_updates'
                \/ /\ Len(notifications[t]) <= First(t)
                   /\ t \in pending_da_updates'
                   /\ \E n \in Notification :
                        n.src = "da" /\ notifications'[t] = Append(notifications[t], n)
      OBVIOUS
    <3> QED BY <1>5, <2>1, QuietEvent
  <2> QED BY <2>1, <2>2, <2>4, <2>5, <2>6, ChangeIsSound
<1>6. ASSUME NEW t \in Tag, Publish(t) PROVE SoundInv'
  <2>1. Mistaken' = {}
    <3>1. \A n \in Notification :
             /\ WriteOf(t, n).src = n.src
             /\ WriteOf(t, n).disturbed <=> t \in disturbed
      BY DEF WriteOf
    <3>2. \A j \in DOMAIN notifications[t] : notifications[t][j] \in Notification
      BY DEF TypeOK
    <3>3. enable_writes /\ t \notin disturbed =>
            \A j \in DOMAIN notifications[t] : j > Swallowed(t) => notifications[t][j].src = "client"
      BY <1>6, ForwardsClients DEF Publish
    <3> QED BY <1>1, <1>6, <3>1, <3>2, <3>3, PublishQueues DEF Mistaken
  <2>2. OnlyClientWrites'
    BY <2>1, NoneMistaken DEF OnlyClientWrites, Mistaken, UnderWay
  <2>3. notifications \in [Tag -> Seq(Notification)] /\ monitored \subseteq Tag
    BY DEF TypeOK
  <2>4. /\ notifications'[t] = <<>> /\ \A x \in Tag \ {t} : notifications'[x] = notifications[x]
        /\ UNCHANGED <<enable_writes, ua_nodes, monitored>>
        /\ t \in monitored
    BY <1>6, <2>3 DEF Publish, SoundInv
  <2>5. ASSUME enable_writes
        PROVE  /\ initialized_nodes' = initialized_nodes \cup {t}
               /\ pending_da_updates' = IF TakesMark(t) THEN pending_da_updates \ {t}
                                        ELSE pending_da_updates
               /\ disturbed' = IF t \in pending_da_updates' THEN disturbed ELSE disturbed \ {t}
    BY <1>6, <2>5 DEF Publish
  <2>6. ASSUME enable_writes, NEW x \in monitored \ disturbed'
        PROVE  /\ x \in pending_da_updates' => Len(notifications'[x]) > First(x)'
               /\ \A i \in First(x)' + 1 .. Len(notifications'[x]) :
                    notifications'[x][i].src = IF i = First(x)' + 1 /\ x \in pending_da_updates'
                                               THEN "da" ELSE "client"
    <3>1. CASE x = t
      <4>1. t \notin pending_da_updates'
        <5>1. CASE t \notin disturbed
          BY <2>4, <2>5, <2>6, <5>1 DEF SoundInv, TakesMark
        <5>2. CASE t \in disturbed
          BY <2>5, <2>6, <3>1, <5>2
        <5> QED BY <5>1, <5>2
      <4>2. First(t)' = 0
        BY <2>5, <2>6 DEF First
      <4>3. Len(notifications'[t]) = 0
        BY <2>4
      <4> QED BY <3>1, <4>1, <4>2, <4>3
    <3>2. CASE x # t
      <4>1. /\ x \in Tag /\ x \notin disturbed /\ notifications'[x] = notifications[x]
            /\ First(x)' = First(x) /\ (x \in pending_da_updates' <=> x \in pending_da_updates)
        BY <2>3, <2>4, <2>5, <2>6, <3>2 DEF First
      <4> QED BY <2>6, <4>1 DEF SoundInv
    <3> QED BY <3>1, <3>2
  <2>7. enable_writes => \A x \in monitored \ initialized_nodes' :
          notifications'[x] # <<>> /\ notifications'[x][1].src = "initial"
    <3> SUFFICES ASSUME enable_writes, NEW x \in monitored \ initialized_nodes'
                 PROVE  notifications'[x] # <<>> /\ notifications'[x][1].src = "initial"
      OBVIOUS
    <3>1. x \in Tag /\ x # t /\ x \in monitored \ initialized_nodes
      BY <2>3, <2>5
    <3> QED BY <2>4, <3>1 DEF SoundInv
  <2>8. \A x \in Tag : \A i \in DOMAIN notifications'[x] :
           notifications'[x][i].src = "client" => enable_writes
    BY <2>4 DEF SoundInv
  <2>9. monitored' \subseteq HasNode' /\ \A x \in Tag \ monitored' : notifications'[x] = <<>>
    BY <2>4 DEF SoundInv, HasNode
  <2> QED BY <2>2, <2>4, <2>6, <2>7, <2>8, <2>9 DEF SoundInv
<1>7. CASE DrainWrite
  <2>1. ~ \E t \in Tag : Publish(t)
    BY <1>7 DEF DrainWrite, Publish, TypeOK
  <2>2. Mistaken' = {}
    BY <1>1, <2>1, OthersQueueNothing DEF Mistaken
  <2> QED BY <1>2, <1>7, <2>2 DEF DrainWrite
<1>8. CASE UNCHANGED vars
  <2>1. Mistaken' = {}
    BY <1>1, <1>8 DEF vars, Mistaken, UnderWay
  <2> QED BY <1>2, <1>8, <2>1 DEF vars
<1> QED BY <1>3, <1>4, <1>5, <1>6, <1>7, <1>8 DEF Next

LEMMA SoundInit == Init => SoundInv
<1> SUFFICES ASSUME NEW S \in SUBSET Tag, NEW r \in [S -> Reading],
                    ua_nodes = [t \in Tag |-> IF t \in S THEN InitialState(r[t]) ELSE NoNode],
                    monitored = S,
                    notifications = [t \in Tag |->
                       IF t \in S THEN <<[value |-> r[t].value, src |-> "initial"]>> ELSE <<>>],
                    initialized_nodes = {}, pending_da_updates = {}, write_queue = <<>>, offered = <<>>
             PROVE  SoundInv
  BY DEF Init
<1>1. \A t \in S : InitialState(r[t]) # NoNode
  <2>1. \A t \in S : InitialState(r[t]) \in NodeState
    BY StateTypes
  <2> QED BY <2>1 DEF NodeState, NoNode, UaStatus
<1>2. monitored \subseteq HasNode
  BY <1>1 DEF HasNode
<1>3. OnlyClientWrites
  BY DEF OnlyClientWrites
<1>4. \A t \in S : /\ First(t) = 1 /\ Len(notifications[t]) = 1
                   /\ notifications[t] # <<>> /\ notifications[t][1].src = "initial"
  BY DEF First
<1>5. \A t \in Tag : \A i \in DOMAIN notifications[t] : notifications[t][i].src # "client"
  <2> SUFFICES ASSUME NEW t \in Tag, NEW i \in DOMAIN notifications[t]
               PROVE  notifications[t][i].src # "client"
    OBVIOUS
  <2>1. CASE t \notin S
    BY <2>1
  <2>2. CASE t \in S
    <3>1. i = 1
      BY <2>2
    <3> QED BY <1>4, <2>2, <3>1
  <2> QED BY <2>1, <2>2
<1>6. \A t \in monitored \ disturbed :
        /\ t \in pending_da_updates => Len(notifications[t]) > First(t)
        /\ \A i \in First(t) + 1 .. Len(notifications[t]) :
             notifications[t][i].src = IF i = First(t) + 1 /\ t \in pending_da_updates
                                       THEN "da" ELSE "client"
  <2>1. \A t \in monitored \ disturbed : First(t) = 1 /\ Len(notifications[t]) = 1
    BY <1>4
  <2>2. pending_da_updates = {} /\ \A i \in 1 + 1 .. 1 : FALSE
    OBVIOUS
  <2> QED BY <2>1, <2>2
<1>7. \A t \in monitored \ initialized_nodes :
         notifications[t] # <<>> /\ notifications[t][1].src = "initial"
  BY <1>4
<1>8. \A t \in Tag \ monitored : notifications[t] = <<>>
  OBVIOUS
<1> QED BY <1>2, <1>3, <1>5, <1>6, <1>7, <1>8 DEF SoundInv

\* What is sent to the DA server and is no client's write belongs to a node that was
\* disturbed when it was published: without a second change in the same publishing
\* cycle, a data change that changes nothing, or a removal, nothing is written back.
THEOREM OthersAreDisturbed == Spec => []OnlyClientWrites
<1>1. SoundInv => OnlyClientWrites
  BY DEF SoundInv
<1> QED BY <1>1, SoundInit, SoundNext, TypeCorrect, PTL DEF Spec
-----------------------------------------------------------------------------
(* Choosing from a list by places.  The n-th of a set of numbers is the one  *)
(* with n that are not above it.                                             *)

Rank(S, i) == Cardinality({j \in S : j <= i})

\* A member is told by its rank, every rank there can be is a member's, and so a
\* set of numbers is counted through.

LEMMA NthOfRank ==
    ASSUME NEW S \in SUBSET Nat, IsFiniteSet(S), NEW i \in S
    PROVE  Nth(S, Cardinality({j \in S : j <= i})) = i
<1> DEFINE upTo(k) == {j \in S : j <= k}
<1>0. ASSUME NEW A, NEW B, A \subseteq B, IsFiniteSet(B), Cardinality(A) = Cardinality(B)
      PROVE  A = B
  BY <1>0, FS_Subset
<1>1. \A k \in S : Cardinality(upTo(k)) = Cardinality(upTo(i)) => k = i
  <2> SUFFICES ASSUME NEW k \in S, Cardinality(upTo(k)) = Cardinality(upTo(i)) PROVE k = i
    OBVIOUS
  <2>1. IsFiniteSet(upTo(k)) /\ IsFiniteSet(upTo(i))
    <3>1. upTo(k) \subseteq S /\ upTo(i) \subseteq S
      OBVIOUS
    <3> QED BY <3>1, FS_Subset
  <2>2. CASE k <= i
    <3>1. ASSUME NEW j \in Nat, j <= k PROVE j <= i
      BY <2>2, <3>1, k \in Nat, i \in Nat
    <3>2. upTo(k) = upTo(i)
      <4>1. upTo(k) \subseteq upTo(i)
        BY <3>1
      <4> QED BY <1>0, <2>1, <4>1
    <3>3. i \in upTo(k)
      BY <3>2
    <3> QED BY <2>2, <3>3
  <2>3. CASE i <= k
    <3>1. ASSUME NEW j \in Nat, j <= i PROVE j <= k
      BY <2>3, <3>1, k \in Nat, i \in Nat
    <3>2. upTo(k) = upTo(i)
      <4>1. upTo(i) \subseteq upTo(k)
        BY <3>1
      <4> QED BY <1>0, <2>1, <4>1
    <3>3. k \in upTo(i)
      BY <3>2
    <3> QED BY <2>3, <3>3
  <2> QED BY <2>2, <2>3
<1> QED BY <1>1 DEF Nth

LEMMA EveryRank ==
    ASSUME NEW S \in SUBSET Nat, IsFiniteSet(S), NEW k \in 1 .. Cardinality(S)
    PROVE  \E i \in S : Rank(S, i) = k
<1> DEFINE n == Cardinality(S)
           f == [i \in S |-> Rank(S, i)]
<1>1. n \in Nat
  BY FS_CardinalityType
<1>2. \A i \in S : Rank(S, i) \in 1 .. n
  <2> SUFFICES ASSUME NEW i \in S PROVE Rank(S, i) \in 1 .. n
    OBVIOUS
  <2> DEFINE T == {j \in S : j <= i}
  <2>1. T \in SUBSET S /\ i \in T
    OBVIOUS
  <2>2. IsFiniteSet(T) /\ Cardinality(T) <= n
    BY <2>1, FS_Subset
  <2>3. Cardinality(T) \in Nat /\ Cardinality(T) # 0
    BY <2>1, <2>2, FS_CardinalityType, FS_EmptySet
  <2> QED BY <1>1, <2>2, <2>3 DEF Rank
<1>3. \A i, j \in S : Rank(S, i) = Rank(S, j) => i = j
  BY NthOfRank DEF Rank
<1>4. f \in Injection(S, 1 .. n)
  BY <1>2, <1>3 DEF Injection, IsInjective
<1>5. IsFiniteSet(1 .. n) /\ Cardinality(1 .. n) = n
  BY <1>1, FS_Interval
<1>6. f \in Surjection(S, 1 .. n)
  BY <1>4, <1>5, FS_Injection
<1> QED BY <1>6 DEF Surjection

LEMMA NthIsMember ==
    ASSUME NEW S \in SUBSET Nat, IsFiniteSet(S)
    PROVE  /\ Cardinality(S) \in Nat
           /\ \A k \in 1 .. Cardinality(S) : Nth(S, k) \in S /\ Rank(S, Nth(S, k)) = k
           /\ \A i \in S : \E k \in 1 .. Cardinality(S) : Nth(S, k) = i
           /\ \A k, l \in 1 .. Cardinality(S) : Nth(S, k) = Nth(S, l) => k = l
<1>1. Cardinality(S) \in Nat
  BY FS_CardinalityType
<1>2. ASSUME NEW k \in 1 .. Cardinality(S) PROVE Nth(S, k) \in S /\ Rank(S, Nth(S, k)) = k
  <2>1. PICK i \in S : Rank(S, i) = k
    BY EveryRank
  <2>2. Nth(S, Rank(S, i)) = i
    BY NthOfRank DEF Rank
  <2> QED BY <2>1, <2>2
<1>3. \A i \in S : Rank(S, i) \in 1 .. Cardinality(S)
  <2> SUFFICES ASSUME NEW i \in S PROVE Rank(S, i) \in 1 .. Cardinality(S)
    OBVIOUS
  <2> DEFINE T == {j \in S : j <= i}
  <2>1. T \in SUBSET S /\ i \in T
    OBVIOUS
  <2>2. IsFiniteSet(T) /\ Cardinality(T) <= Cardinality(S)
    BY <2>1, FS_Subset
  <2>3. Cardinality(T) \in Nat /\ Cardinality(T) # 0
    BY <2>1, <2>2, FS_CardinalityType, FS_EmptySet
  <2> QED BY <1>1, <2>2, <2>3 DEF Rank
<1>4. \A i \in S : \E k \in 1 .. Cardinality(S) : Nth(S, k) = i
  BY <1>3, NthOfRank DEF Rank
<1> QED BY <1>1, <1>2, <1>4

\* A number above all others is the last.
LEMMA NthAdded ==
    ASSUME NEW S \in SUBSET Nat, IsFiniteSet(S), NEW k \in Nat, \A j \in S : j < k
    PROVE  /\ IsFiniteSet(S \cup {k}) /\ Cardinality(S \cup {k}) = Cardinality(S) + 1
           /\ \A n \in 1 .. Cardinality(S) : Nth(S \cup {k}, n) = Nth(S, n)
           /\ Nth(S \cup {k}, Cardinality(S) + 1) = k
<1> DEFINE T == S \cup {k}
<1>1. T \in SUBSET Nat /\ k \notin S /\ k \in T
  OBVIOUS
<1>2. IsFiniteSet(T) /\ Cardinality(T) = Cardinality(S) + 1
  BY <1>1, FS_AddElement
<1>3. ASSUME NEW n \in 1 .. Cardinality(S) PROVE Nth(T, n) = Nth(S, n)
  <2>1. PICK i \in S : i = Nth(S, n) /\ Rank(S, i) = n
    BY <1>3, NthIsMember
  <2>2. {j \in T : j <= i} = {j \in S : j <= i}
    BY <2>1
  <2>3. Rank(T, i) = n /\ i \in T
    BY <2>1, <2>2 DEF Rank
  <2>4. Nth(T, Rank(T, i)) = i
    BY <1>1, <1>2, <2>3, NthOfRank DEF Rank
  <2> QED BY <2>1, <2>3, <2>4
<1>4. Nth(T, Cardinality(S) + 1) = k
  <2>1. \A j \in T : j <= k
    OBVIOUS
  <2>2. Rank(T, k) = Cardinality(S) + 1
    BY <1>2, <2>1, {j \in T : j <= k} = T DEF Rank
  <2>3. Nth(T, Rank(T, k)) = k
    BY <1>1, <1>2, NthOfRank DEF Rank
  <2> QED BY <2>2, <2>3
<1> QED BY <1>2, <1>3, <1>4

\* The numbers one less than those of S.
Shifted(S) == {i \in Nat \ {0} : i + 1 \in S}

\* As many numbers up to i, one less each, as there are of S from 2 to i + 1.
LEMMA ShiftedRank ==
    ASSUME NEW S \in SUBSET (Nat \ {0, 1}), IsFiniteSet(S)
    PROVE  /\ IsFiniteSet(Shifted(S)) /\ Cardinality(Shifted(S)) = Cardinality(S)
           /\ \A i \in Shifted(S) : Rank(Shifted(S), i) = Rank(S, i + 1)
<1>1. ASSUME NEW A \in SUBSET (Nat \ {0, 1}), IsFiniteSet(A)
      PROVE  IsFiniteSet(Shifted(A)) /\ Cardinality(Shifted(A)) = Cardinality(A)
  <2> DEFINE f == [j \in A |-> j - 1]
  <2>1. \A j \in A : j - 1 \in Shifted(A)
    BY DEF Shifted
  <2>2. \A i \in Shifted(A) : i + 1 \in A /\ f[i + 1] = i
    BY DEF Shifted
  <2>3. f \in [A -> Shifted(A)]
    BY <2>1
  <2>4. \A j, k \in A : f[j] = f[k] => j = k
    OBVIOUS
  <2> HIDE DEF f
  <2>5. f \in Bijection(A, Shifted(A))
    BY <2>2, <2>3, <2>4 DEF Bijection, Injection, Surjection, IsInjective
  <2>6. ExistsBijection(A, Shifted(A))
    BY <2>5 DEF ExistsBijection
  <2> QED BY <1>1, <2>6, FS_Bijection
<1>2. ASSUME NEW i \in Shifted(S) PROVE Rank(Shifted(S), i) = Rank(S, i + 1)
  <2> DEFINE A == {j \in S : j <= i + 1}
  <2>1. A \in SUBSET (Nat \ {0, 1}) /\ IsFiniteSet(A)
    BY FS_Subset
  <2>2. Shifted(A) = {j \in Shifted(S) : j <= i}
    BY DEF Shifted
  <2>3. Cardinality(Shifted(A)) = Cardinality(A)
    BY <1>1, <2>1
  <2> QED BY <2>2, <2>3 DEF Rank
<1> QED BY <1>1, <1>2

\* Without the 1, the n-th number moves down; with it, it also loses a place.
LEMMA NthShifted ==
    ASSUME NEW S \in SUBSET (Nat \ {0}), IsFiniteSet(S)
    PROVE  /\ IsFiniteSet(Shifted(S))
           /\ 1 \notin S => /\ Cardinality(Shifted(S)) = Cardinality(S)
                            /\ \A n \in 1 .. Cardinality(S) : Nth(S, n) = Nth(Shifted(S), n) + 1
           /\ 1 \in S => /\ Cardinality(S) = Cardinality(Shifted(S)) + 1
                         /\ Nth(S, 1) = 1
                         /\ \A n \in 1 .. Cardinality(Shifted(S)) :
                              Nth(S, n + 1) = Nth(Shifted(S), n) + 1
<1> DEFINE T == S \ {1}
<1>1. T \in SUBSET (Nat \ {0, 1}) /\ IsFiniteSet(T) /\ Shifted(T) = Shifted(S)
  BY FS_Subset DEF Shifted
<1>2. /\ IsFiniteSet(Shifted(S)) /\ Cardinality(Shifted(S)) = Cardinality(T)
      /\ \A i \in Shifted(S) : Rank(Shifted(S), i) = Rank(T, i + 1)
  <2> HIDE DEF T
  <2> QED BY <1>1, ShiftedRank
<1>3. Shifted(S) \in SUBSET Nat /\ Cardinality(Shifted(S)) \in Nat
  BY <1>2, FS_CardinalityType DEF Shifted
<1>4. ASSUME NEW n \in 1 .. Cardinality(Shifted(S))
      PROVE  \E i \in T : i = Nth(Shifted(S), n) + 1 /\ Rank(T, i) = n
  <2>1. Nth(Shifted(S), n) \in Shifted(S) /\ Rank(Shifted(S), Nth(Shifted(S), n)) = n
    BY <1>2, <1>3, <1>4, NthIsMember
  <2>2. PICK m \in Shifted(S) : m = Nth(Shifted(S), n)
    BY <2>1
  <2>3. m + 1 \in T /\ Rank(T, m + 1) = n
    BY <1>1, <1>2, <2>1, <2>2 DEF Shifted
  <2> QED BY <2>2, <2>3
<1>5. CASE 1 \notin S
  <2>1. T = S
    BY <1>5
  <2>2. ASSUME NEW n \in 1 .. Cardinality(S) PROVE Nth(S, n) = Nth(Shifted(S), n) + 1
    <3>1. PICK i \in S : i = Nth(Shifted(S), n) + 1 /\ Rank(S, i) = n
      BY <1>2, <1>4, <2>1, <2>2
    <3>2. Nth(S, Rank(S, i)) = i
      BY NthOfRank DEF Rank
    <3> QED BY <3>1, <3>2
  <2> QED BY <1>2, <1>5, <2>1, <2>2
<1>6. CASE 1 \in S
  <2>1. Cardinality(S) = Cardinality(T) + 1 /\ S = T \cup {1} /\ Cardinality(T) \in Nat
    <3>1. S = T \cup {1} /\ 1 \notin T
      BY <1>6
    <3> HIDE DEF T
    <3>2. Cardinality(T \cup {1}) = Cardinality(T) + 1
      BY <1>1, <3>1, FS_AddElement
    <3> QED BY <1>1, <3>1, <3>2, FS_CardinalityType
  <2>2. Nth(S, 1) = 1
    <3>1. {j \in S : j <= 1} = {1}
      <4>1. \A j \in S : j <= 1 => j = 1
        OBVIOUS
      <4>2. \A j \in {1} : j \in S /\ j <= 1
        BY <1>6
      <4> QED BY <4>1, <4>2
    <3>2. Rank(S, 1) = 1
      BY <3>1, FS_Singleton DEF Rank
    <3>3. Nth(S, Rank(S, 1)) = 1
      BY <1>6, NthOfRank DEF Rank
    <3> QED BY <3>2, <3>3
  <2>3. ASSUME NEW n \in 1 .. Cardinality(Shifted(S))
        PROVE  Nth(S, n + 1) = Nth(Shifted(S), n) + 1
    <3>1. PICK i \in T : i = Nth(Shifted(S), n) + 1 /\ Rank(T, i) = n
      BY <1>4, <2>3
    <3> DEFINE A == {j \in T : j <= i}
    <3>2. IsFiniteSet(A) /\ 1 \notin A /\ {j \in S : j <= i} = A \cup {1}
      BY <1>1, <2>1, FS_Subset
    <3>3. Cardinality(A \cup {1}) = Cardinality(A) + 1
      <4> HIDE DEF A
      <4> QED BY <3>2, FS_AddElement
    <3>4. Rank(S, i) = n + 1
      BY <3>1, <3>2, <3>3 DEF Rank
    <3>5. Nth(S, Rank(S, i)) = i
      BY NthOfRank DEF Rank
    <3> QED BY <3>1, <3>4, <3>5
  <2> QED BY <1>2, <1>6, <2>1, <2>2, <2>3
<1> QED BY <1>2, <1>5, <1>6

\* Choosing from a list with one more element.
LEMMA SelectAppended ==
    ASSUME NEW X, NEW list \in Seq(X), NEW x \in X, NEW places \in SUBSET DOMAIN list
    PROVE  /\ Select(Append(list, x), places) = Select(list, places)
           /\ Select(Append(list, x), places \cup {Len(list) + 1}) = Append(Select(list, places), x)
<1>1. PICK m \in Nat : m = Len(list) /\ DOMAIN list = 1 .. m
  OBVIOUS
<1>2. PICK more \in Seq(X) :
        /\ more = Append(list, x) /\ more[m + 1] = x
        /\ \A i \in 1 .. m : more[i] = list[i]
  <2>1. Append(list, x) \in Seq(X)
    OBVIOUS
  <2>2. Append(list, x)[m + 1] = x
    BY <1>1
  <2>3. \A i \in 1 .. m : Append(list, x)[i] = list[i]
    BY <1>1
  <2> QED BY <2>1, <2>2, <2>3
<1>3. places \in SUBSET Nat /\ IsFiniteSet(places) /\ \A j \in places : j < m + 1
  <2>1. IsFiniteSet(1 .. m)
    BY FS_Interval
  <2> QED BY <1>1, <2>1, FS_Subset
<1>4. PICK c \in Nat : c = Cardinality(places)
  BY <1>3, FS_CardinalityType
<1>5. \A n \in 1 .. c : Nth(places, n) \in 1 .. m
  BY <1>1, <1>3, <1>4, NthIsMember
<1>6. Select(more, places) = Select(list, places)
  BY <1>2, <1>4, <1>5 DEF Select
<1>7. PICK all : /\ all = places \cup {m + 1} /\ Cardinality(all) = c + 1
                 /\ \A n \in 1 .. c : Nth(all, n) = Nth(places, n)
                 /\ Nth(all, c + 1) = m + 1
  <2>1. m + 1 \in Nat
    OBVIOUS
  <2> QED BY <1>3, <1>4, <2>1, NthAdded
<1>8. Select(more, all) = Append(Select(list, places), x)
  <2>1. Select(list, places) = [n \in 1 .. c |-> list[Nth(places, n)]]
    BY <1>4 DEF Select
  <2>2. Select(more, all) = [n \in 1 .. c + 1 |-> more[Nth(all, n)]]
    BY <1>7 DEF Select
  <2>3. PICK s \in Seq(X) : s = Select(list, places) /\ Len(s) = c
    <3>1. \A n \in 1 .. c : list[Nth(places, n)] \in X
      BY <1>1, <1>5
    <3> QED BY <2>1, <3>1
  <2>4. \A n \in 1 .. c : s[n] = list[Nth(places, n)]
    BY <2>1, <2>3
  <2>5. /\ Append(s, x) = [n \in 1 .. c + 1 |-> Append(s, x)[n]] /\ Append(s, x)[c + 1] = x
        /\ \A n \in 1 .. c : Append(s, x)[n] = s[n]
    <3>1. Append(s, x) \in Seq(X) /\ Len(Append(s, x)) = c + 1
      BY <2>3
    <3>2. Append(s, x)[c + 1] = x /\ \A n \in 1 .. c : Append(s, x)[n] = s[n]
      BY <2>3
    <3>3. \A a \in Seq(X) : a \in [1 .. Len(a) -> X]
      OBVIOUS
    <3> QED BY <3>1, <3>2, <3>3
  <2>6. \A n \in 1 .. c + 1 : more[Nth(all, n)] = Append(s, x)[n]
    <3> SUFFICES ASSUME NEW n \in 1 .. c + 1 PROVE more[Nth(all, n)] = Append(s, x)[n]
      OBVIOUS
    <3>1. CASE n = c + 1
      BY <1>2, <1>7, <2>5, <3>1
    <3>2. CASE n \in 1 .. c
      BY <1>2, <1>5, <1>7, <2>4, <2>5, <3>2
    <3>3. n = c + 1 \/ n \in 1 .. c
      OBVIOUS
    <3> QED BY <3>1, <3>2, <3>3
  <2> QED BY <2>2, <2>3, <2>5, <2>6
<1> QED BY <1>1, <1>2, <1>6, <1>7, <1>8

\* Choosing from a list without its first element.
LEMMA SelectTail ==
    ASSUME NEW X, NEW list \in Seq(X), list # <<>>, NEW places \in SUBSET DOMAIN list
    PROVE  /\ 1 \notin places => Select(Tail(list), Shifted(places)) = Select(list, places)
           /\ 1 \in places =>
                /\ Select(list, places) # <<>> /\ Select(list, places)[1] = list[1]
                /\ Select(Tail(list), Shifted(places)) = Tail(Select(list, places))
<1>1. PICK m \in Nat : m = Len(list) /\ DOMAIN list = 1 .. m
  OBVIOUS
<1>2. PICK rest \in Seq(X) :
        rest = Tail(list) /\ \A i \in Nat \ {0} : i + 1 \in 1 .. m => rest[i] = list[i + 1]
  <2>1. Tail(list) \in Seq(X)
    OBVIOUS
  <2>2. \A i \in Nat \ {0} : i + 1 \in 1 .. m => Tail(list)[i] = list[i + 1]
    BY <1>1
  <2> QED BY <2>1, <2>2
<1>3. places \in SUBSET (Nat \ {0}) /\ IsFiniteSet(places)
  <2>1. IsFiniteSet(1 .. m)
    BY FS_Interval
  <2> QED BY <1>1, <2>1, FS_Subset
<1>4. PICK c \in Nat : c = Cardinality(Shifted(places))
  BY <1>3, NthShifted, FS_CardinalityType
<1>5. \A n \in 1 .. c : Nth(Shifted(places), n) \in Nat \ {0} /\ Nth(Shifted(places), n) + 1 \in 1 .. m
  <2>1. Shifted(places) \in SUBSET Nat /\ IsFiniteSet(Shifted(places))
    BY <1>3, NthShifted DEF Shifted
  <2>2. \A n \in 1 .. c : Nth(Shifted(places), n) \in Shifted(places)
    BY <1>4, <2>1, NthIsMember
  <2> QED BY <1>1, <2>2 DEF Shifted
<1>6. Select(rest, Shifted(places)) = [n \in 1 .. c |-> list[Nth(Shifted(places), n) + 1]]
  BY <1>2, <1>4, <1>5 DEF Select
<1>7. ASSUME 1 \notin places PROVE Select(rest, Shifted(places)) = Select(list, places)
  <2>1. Cardinality(places) = c /\ \A n \in 1 .. c : Nth(places, n) = Nth(Shifted(places), n) + 1
    BY <1>3, <1>4, <1>7, NthShifted
  <2> QED BY <1>6, <2>1 DEF Select
<1>8. ASSUME 1 \in places
      PROVE  /\ Select(list, places) # <<>> /\ Select(list, places)[1] = list[1]
             /\ Select(rest, Shifted(places)) = Tail(Select(list, places))
  <2>1. /\ Cardinality(places) = c + 1 /\ Nth(places, 1) = 1
        /\ \A n \in 1 .. c : Nth(places, n + 1) = Nth(Shifted(places), n) + 1
    BY <1>3, <1>4, <1>8, NthShifted
  <2>2. Select(list, places) = [n \in 1 .. c + 1 |-> list[Nth(places, n)]]
    BY <2>1 DEF Select
  <2>3. \A n \in 1 .. c + 1 : list[Nth(places, n)] \in X
    <3>1. places \in SUBSET Nat
      BY <1>3
    <3>2. \A n \in 1 .. c + 1 : Nth(places, n) \in places
      BY <1>3, <2>1, <3>1, NthIsMember
    <3> QED BY <1>1, <3>2
  <2>4. PICK s \in Seq(X) : /\ s = Select(list, places) /\ Len(s) = c + 1
                            /\ \A n \in 1 .. c + 1 : s[n] = list[Nth(places, n)]
    BY <2>2, <2>3
  <2>5. Tail(s) = [n \in 1 .. c |-> s[n + 1]] /\ s # <<>>
    <3>1. s # <<>> /\ Tail(s) \in Seq(X) /\ Len(Tail(s)) = c
      BY <2>4
    <3>2. \A n \in 1 .. c : Tail(s)[n] = s[n + 1]
      BY <2>4
    <3>3. \A a \in Seq(X) : a \in [1 .. Len(a) -> X]
      OBVIOUS
    <3> QED BY <3>1, <3>2, <3>3
  <2>6. \A n \in 1 .. c : s[n + 1] = list[Nth(Shifted(places), n) + 1]
    BY <2>1, <2>4
  <2>7. s[1] = list[1]
    BY <2>1, <2>4
  <2> QED BY <1>6, <2>4, <2>5, <2>6, <2>7
<1> QED BY <1>2, <1>7, <1>8


-----------------------------------------------------------------------------
(* The write path implements WriteThrough.                                  *)

LEMMA SelectType ==
    ASSUME NEW X, NEW list \in Seq(X), NEW places \in SUBSET DOMAIN list
    PROVE  Select(list, places) \in Seq(X)
<1>1. PICK m \in Nat : m = Len(list) /\ DOMAIN list = 1 .. m
  OBVIOUS
<1>2. places \in SUBSET Nat /\ IsFiniteSet(places)
  <2>1. IsFiniteSet(1 .. m)
    BY FS_Interval
  <2> QED BY <1>1, <2>1, FS_Subset
<1>3. PICK c \in Nat : c = Cardinality(places)
  BY <1>2, FS_CardinalityType
<1>4. \A n \in 1 .. c : list[Nth(places, n)] \in X
  <2>1. \A n \in 1 .. c : Nth(places, n) \in places
    BY <1>2, <1>3, NthIsMember
  <2> QED BY <1>1, <2>1
<1> QED BY <1>3, <1>4 DEF Select

\* One more in the queue is one more of its node.
LEMMA OfNodeAppended ==
    ASSUME NEW queue \in Seq(Write), NEW w \in Write, NEW t \in Tag
    PROVE  OfNode(Append(queue, w), t) =
             IF w.tag = t THEN Append(OfNode(queue, t), w) ELSE OfNode(queue, t)
<1> DEFINE places == {i \in DOMAIN queue : queue[i].tag = t}
<1>1. PICK m \in Nat, more \in Seq(Write) :
        /\ m = Len(queue) /\ DOMAIN queue = 1 .. m /\ more = Append(queue, w)
        /\ DOMAIN more = 1 .. m + 1 /\ more[m + 1] = w
        /\ \A i \in 1 .. m : more[i] = queue[i]
  <2>1. PICK m \in Nat : m = Len(queue) /\ DOMAIN queue = 1 .. m
    OBVIOUS
  <2>2. Append(queue, w) \in Seq(Write) /\ DOMAIN Append(queue, w) = 1 .. m + 1
    BY <2>1
  <2>3. Append(queue, w)[m + 1] = w
    BY <2>1
  <2>4. \A i \in 1 .. m : Append(queue, w)[i] = queue[i]
    BY <2>1
  <2> QED BY <2>1, <2>2, <2>3, <2>4
<1>2. /\ Select(more, places) = OfNode(queue, t)
      /\ Select(more, places \cup {m + 1}) = Append(OfNode(queue, t), w)
  <2>1. places \in SUBSET DOMAIN queue
    OBVIOUS
  <2>2. OfNode(queue, t) = Select(queue, places)
    BY DEF OfNode
  <2> HIDE DEF places
  <2>3. Select(Append(queue, w), places) = Select(queue, places)
    BY <2>1, SelectAppended
  <2>4. Select(Append(queue, w), places \cup {Len(queue) + 1}) = Append(Select(queue, places), w)
    BY <2>1, SelectAppended
  <2> QED BY <1>1, <2>2, <2>3, <2>4
<1>3. {i \in DOMAIN more : more[i].tag = t} =
        IF w.tag = t THEN places \cup {m + 1} ELSE places
  <2>1. \A i \in 1 .. m + 1 : i \in 1 .. m \/ i = m + 1
    OBVIOUS
  <2>2. \A i \in 1 .. m : i \in 1 .. m + 1 /\ i # m + 1
    OBVIOUS
  <2>3. m + 1 \in 1 .. m + 1
    OBVIOUS
  <2> QED BY <1>1, <2>1, <2>2, <2>3
<1> QED BY <1>1, <1>2, <1>3 DEF OfNode

\* And one less, the first, one less of its node.
LEMMA OfNodeTail ==
    ASSUME NEW queue \in Seq(Write), queue # <<>>, NEW t \in Tag
    PROVE  /\ queue[1].tag # t => OfNode(Tail(queue), t) = OfNode(queue, t)
           /\ queue[1].tag = t => /\ OfNode(queue, t) # <<>> /\ OfNode(queue, t)[1] = queue[1]
                                  /\ OfNode(Tail(queue), t) = Tail(OfNode(queue, t))
<1> DEFINE places == {i \in DOMAIN queue : queue[i].tag = t}
<1>1. PICK m \in Nat, rest \in Seq(Write) :
        /\ DOMAIN queue = 1 .. m + 1 /\ rest = Tail(queue)
        /\ DOMAIN rest = 1 .. m /\ \A i \in 1 .. m : rest[i] = queue[i + 1]
  <2>1. PICK m \in Nat : m = Len(queue) - 1 /\ DOMAIN queue = 1 .. m + 1
    OBVIOUS
  <2>2. Tail(queue) \in Seq(Write) /\ DOMAIN Tail(queue) = 1 .. m
    BY <2>1
  <2>3. \A i \in 1 .. m : Tail(queue)[i] = queue[i + 1]
    BY <2>1
  <2> QED BY <2>1, <2>2, <2>3
<1>2. {i \in DOMAIN rest : rest[i].tag = t} = Shifted(places)
  <2>1. \A i \in Nat \ {0} : i + 1 \in 1 .. m + 1 <=> i \in 1 .. m
    OBVIOUS
  <2>2. \A i \in 1 .. m : i \in Nat \ {0}
    OBVIOUS
  <2> QED BY <1>1, <2>1, <2>2 DEF Shifted
<1>3. 1 \in places <=> queue[1].tag = t
  BY <1>1
<1>4. /\ 1 \notin places => Select(rest, Shifted(places)) = Select(queue, places)
      /\ 1 \in places => /\ Select(queue, places) # <<>> /\ Select(queue, places)[1] = queue[1]
                         /\ Select(rest, Shifted(places)) = Tail(Select(queue, places))
  BY <1>1, SelectTail
<1> QED BY <1>1, <1>2, <1>3, <1>4 DEF OfNode

LEMMA OfClientsAppended ==
    ASSUME NEW queue \in Seq(Notification), NEW n \in Notification
    PROVE  OfClients(Append(queue, n)) =
             IF n.src = "client" THEN Append(OfClients(queue), n) ELSE OfClients(queue)
<1> DEFINE places == {i \in DOMAIN queue : queue[i].src = "client"}
<1>1. PICK m \in Nat, more \in Seq(Notification) :
        /\ m = Len(queue) /\ DOMAIN queue = 1 .. m /\ more = Append(queue, n)
        /\ DOMAIN more = 1 .. m + 1 /\ more[m + 1] = n
        /\ \A i \in 1 .. m : more[i] = queue[i]
  <2>1. PICK m \in Nat : m = Len(queue) /\ DOMAIN queue = 1 .. m
    OBVIOUS
  <2>2. Append(queue, n) \in Seq(Notification) /\ DOMAIN Append(queue, n) = 1 .. m + 1
    BY <2>1
  <2>3. Append(queue, n)[m + 1] = n
    BY <2>1
  <2>4. \A i \in 1 .. m : Append(queue, n)[i] = queue[i]
    BY <2>1
  <2> QED BY <2>1, <2>2, <2>3, <2>4
<1>2. /\ Select(more, places) = OfClients(queue)
      /\ Select(more, places \cup {m + 1}) = Append(OfClients(queue), n)
  <2>1. places \in SUBSET DOMAIN queue
    OBVIOUS
  <2>2. OfClients(queue) = Select(queue, places)
    BY DEF OfClients
  <2> HIDE DEF places
  <2>3. Select(Append(queue, n), places) = Select(queue, places)
    BY <2>1, SelectAppended
  <2>4. Select(Append(queue, n), places \cup {Len(queue) + 1}) = Append(Select(queue, places), n)
    BY <2>1, SelectAppended
  <2> QED BY <1>1, <2>2, <2>3, <2>4
<1>3. {i \in DOMAIN more : more[i].src = "client"} =
        IF n.src = "client" THEN places \cup {m + 1} ELSE places
  <2>1. \A i \in 1 .. m + 1 : i \in 1 .. m \/ i = m + 1
    OBVIOUS
  <2>2. \A i \in 1 .. m : i \in 1 .. m + 1 /\ i # m + 1
    OBVIOUS
  <2>3. m + 1 \in 1 .. m + 1
    OBVIOUS
  <2> QED BY <1>1, <2>1, <2>2, <2>3
<1> QED BY <1>1, <1>2, <1>3 DEF OfClients

\* Values of a queue, of one with one more, and without the first.
LEMMA ValueType ==
    ASSUME NEW X \in {Write, Notification}, NEW x \in X PROVE x.value \in Shown
<1>1. CASE X = Write
  BY <1>1 DEF Write
<1>2. CASE X = Notification
  BY <1>2 DEF Notification
<1> QED BY <1>1, <1>2

LEMMA ValuesType ==
    ASSUME NEW X \in {Write, Notification}, NEW list \in Seq(X)
    PROVE  /\ Values(list) \in Seq(Shown) /\ Len(Values(list)) = Len(list)
           /\ \A i \in DOMAIN list : Values(list)[i] = list[i].value
<1>1. \A i \in 1 .. Len(list) : list[i].value \in Shown
  BY ValueType
<1>2. DOMAIN list = 1 .. Len(list) /\ Len(list) \in Nat
  OBVIOUS
<1>3. PICK m \in Nat : m = Len(list)
  BY <1>2
<1>4. Values(list) = [i \in 1 .. m |-> list[i].value]
  BY <1>2, <1>3 DEF Values
<1> QED BY <1>1, <1>2, <1>3, <1>4

LEMMA ValuesAppended ==
    ASSUME NEW X \in {Write, Notification}, NEW list \in Seq(X), NEW x \in X
    PROVE  Values(Append(list, x)) = Append(Values(list), x.value)
<1>1. PICK v \in Seq(Shown) : v = Values(list) /\ Len(v) = Len(list)
                              /\ \A i \in DOMAIN list : v[i] = list[i].value
  BY ValuesType
<1>2. PICK m \in Nat : m = Len(list) /\ DOMAIN list = 1 .. m
  OBVIOUS
<1>3. PICK more \in Seq(X) : /\ more = Append(list, x) /\ Len(more) = m + 1 /\ more[m + 1] = x
                             /\ \A i \in 1 .. m : more[i] = list[i]
  <2>1. Append(list, x) \in Seq(X) /\ Len(Append(list, x)) = m + 1
    BY <1>2
  <2>2. Append(list, x)[m + 1] = x
    BY <1>2
  <2>3. \A i \in 1 .. m : Append(list, x)[i] = list[i]
    BY <1>2
  <2> QED BY <2>1, <2>2, <2>3
<1>4. PICK w \in Seq(Shown) : w = Values(more) /\ Len(w) = m + 1
                              /\ \A i \in 1 .. m + 1 : w[i] = more[i].value
  <2>1. DOMAIN more = 1 .. m + 1
    BY <1>3
  <2> QED BY <1>3, <2>1, ValuesType
<1>5. PICK y \in Shown : y = x.value
  BY ValueType
<1>6. PICK u \in Seq(Shown) : /\ u = Append(v, y) /\ Len(u) = m + 1 /\ u[m + 1] = y
                              /\ \A i \in 1 .. m : u[i] = v[i]
  <2>1. Append(v, y) \in Seq(Shown) /\ Len(Append(v, y)) = m + 1
    BY <1>1, <1>2, <1>5
  <2>2. Append(v, y)[m + 1] = y
    <3>1. Append(v, y)[Len(v) + 1] = y
      OBVIOUS
    <3> QED BY <1>1, <1>2, <3>1
  <2>3. \A i \in 1 .. m : Append(v, y)[i] = v[i]
    BY <1>1, <1>2, <1>5
  <2> QED BY <2>1, <2>2, <2>3
<1>7. \A i \in 1 .. m + 1 : u[i] = w[i]
  <2>1. \A i \in 1 .. m + 1 : i \in 1 .. m \/ i = m + 1
    OBVIOUS
  <2>2. \A i \in 1 .. m : u[i] = w[i]
    <3>1. \A i \in 1 .. m : u[i] = list[i].value
      BY <1>1, <1>2, <1>6
    <3>2. \A i \in 1 .. m : w[i] = list[i].value /\ i \in 1 .. m + 1
      BY <1>3, <1>4
    <3> QED BY <3>1, <3>2
  <2>3. u[m + 1] = w[m + 1]
    <3>1. m + 1 \in 1 .. m + 1
      OBVIOUS
    <3> QED BY <1>3, <1>4, <1>5, <1>6, <3>1
  <2> QED BY <2>1, <2>2, <2>3
<1>8. u = w
  BY <1>4, <1>6, <1>7
<1> QED BY <1>1, <1>3, <1>4, <1>5, <1>6, <1>8

LEMMA ValuesTail ==
    ASSUME NEW list \in Seq(Write), list # <<>>
    PROVE  Values(list) # <<>> /\ Values(list)[1] = list[1].value
           /\ Values(Tail(list)) = Tail(Values(list))
<1>1. PICK m \in Nat : m = Len(list) - 1 /\ DOMAIN list = 1 .. m + 1
  OBVIOUS
<1>2. PICK v \in Seq(Shown) : v = Values(list) /\ Len(v) = m + 1
                              /\ \A i \in 1 .. m + 1 : v[i] = list[i].value
  BY <1>1, ValuesType
<1>3. PICK rest \in Seq(Write) : /\ rest = Tail(list) /\ Len(rest) = m
                                 /\ \A i \in 1 .. m : rest[i] = list[i + 1]
  <2>1. Tail(list) \in Seq(Write) /\ Len(Tail(list)) = m
    BY <1>1
  <2>2. \A i \in 1 .. m : Tail(list)[i] = list[i + 1]
    BY <1>1
  <2> QED BY <2>1, <2>2
<1>4. PICK w \in Seq(Shown) : w = Values(rest) /\ Len(w) = m
                              /\ \A i \in 1 .. m : w[i] = rest[i].value
  <2>1. DOMAIN rest = 1 .. m
    BY <1>3
  <2> QED BY <1>3, <2>1, ValuesType
<1>5. PICK u \in Seq(Shown) : u = Tail(v) /\ Len(u) = m /\ \A i \in 1 .. m : u[i] = v[i + 1]
  <2>1. Tail(v) \in Seq(Shown) /\ Len(Tail(v)) = m
    BY <1>2
  <2>2. \A i \in 1 .. m : Tail(v)[i] = v[i + 1]
    BY <1>2
  <2> QED BY <2>1, <2>2
<1>6. u = w
  BY <1>2, <1>3, <1>4, <1>5
<1>7. v # <<>> /\ v[1] = list[1].value
  BY <1>2
<1> QED BY <1>2, <1>3, <1>4, <1>5, <1>6, <1>7

\* What is queued for a node, and what its clients are still to be heard of.
LEMMA AcceptedType ==
    ASSUME TypeOK, NEW t \in Tag
    PROVE  /\ OfNode(write_queue, t) \in Seq(Write)
           /\ OfClients(notifications[t]) \in Seq(Notification)
           /\ Values(OfNode(write_queue, t)) \in Seq(Shown)
           /\ Values(OfClients(notifications[t])) \in Seq(Shown)
<1>1. write_queue \in Seq(Write) /\ notifications[t] \in Seq(Notification)
  BY DEF TypeOK
<1>2. OfNode(write_queue, t) \in Seq(Write) /\ OfClients(notifications[t]) \in Seq(Notification)
  BY <1>1, SelectType DEF OfNode, OfClients
<1> QED BY <1>2, ValuesType

\* A list after another: nothing of the second, or all of it.
Behind(list, more) == Len(list) + 1 .. Len(list) + Len(more)

LEMMA SelectOfFirst ==
    \A X : \A list, more \in Seq(X) : \A places \in SUBSET DOMAIN list :
        Select(list \o more, places) = Select(list, places)
<1> SUFFICES ASSUME NEW X, NEW list \in Seq(X), NEW more \in Seq(X), NEW places \in SUBSET DOMAIN list
             PROVE  Select(list \o more, places) = Select(list, places)
  OBVIOUS
<1>1. PICK m \in Nat, k \in Nat : /\ m = Len(list) /\ DOMAIN list = 1 .. m
                                  /\ k = Len(more) /\ DOMAIN more = 1 .. k
  OBVIOUS
<1>2. PICK joined \in Seq(X) :
        /\ joined = list \o more /\ Len(joined) = m + k
        /\ \A i \in 1 .. m : joined[i] = list[i]
        /\ \A i \in 1 .. k : joined[m + i] = more[i]
  <2>1. /\ list \o more \in Seq(X) /\ Len(list \o more) = m + k
        /\ \A i \in 1 .. m + k : (list \o more)[i] = IF i <= m THEN list[i] ELSE more[i - m]
    BY <1>1, ConcatProperties
  <2>2. \A i \in 1 .. m : i \in 1 .. m + k /\ i <= m
    OBVIOUS
  <2>3. \A i \in 1 .. k : m + i \in 1 .. m + k /\ ~ (m + i <= m) /\ (m + i) - m = i
    OBVIOUS
  <2>4. \A i \in 1 .. m : (list \o more)[i] = list[i]
    BY <2>1, <2>2
  <2>5. \A i \in 1 .. k : (list \o more)[m + i] = more[i]
    BY <2>1, <2>3
  <2> QED BY <2>1, <2>4, <2>5
<1>3. places \in SUBSET Nat /\ IsFiniteSet(places)
  <2>1. IsFiniteSet(1 .. m)
    BY FS_Interval
  <2> QED BY <1>1, <2>1, FS_Subset
<1>4. PICK c \in Nat : c = Cardinality(places)
  BY <1>3, FS_CardinalityType
<1>5. \A n \in 1 .. c : Nth(places, n) \in places /\ Rank(places, Nth(places, n)) = n
  BY <1>3, <1>4, NthIsMember
<1>6. Select(joined, places) = Select(list, places)
  BY <1>1, <1>2, <1>4, <1>5 DEF Select
<1> QED BY <1>2, <1>6

LEMMA SelectWithAll ==
    \A X : \A list, more \in Seq(X) : \A places \in SUBSET DOMAIN list :
        Select(list \o more, places \cup Behind(list, more)) = Select(list, places) \o more
<1> SUFFICES ASSUME NEW X, NEW list \in Seq(X), NEW more \in Seq(X), NEW places \in SUBSET DOMAIN list
             PROVE  Select(list \o more, places \cup Behind(list, more)) = Select(list, places) \o more
  OBVIOUS
<1>1. PICK m \in Nat, k \in Nat : /\ m = Len(list) /\ DOMAIN list = 1 .. m
                                  /\ k = Len(more) /\ DOMAIN more = 1 .. k
  OBVIOUS
<1>2. PICK joined \in Seq(X) :
        /\ joined = list \o more /\ Len(joined) = m + k
        /\ \A i \in 1 .. m : joined[i] = list[i]
        /\ \A i \in 1 .. k : joined[m + i] = more[i]
  <2>1. /\ list \o more \in Seq(X) /\ Len(list \o more) = m + k
        /\ \A i \in 1 .. m + k : (list \o more)[i] = IF i <= m THEN list[i] ELSE more[i - m]
    BY <1>1, ConcatProperties
  <2>2. \A i \in 1 .. m : i \in 1 .. m + k /\ i <= m
    OBVIOUS
  <2>3. \A i \in 1 .. k : m + i \in 1 .. m + k /\ ~ (m + i <= m) /\ (m + i) - m = i
    OBVIOUS
  <2>4. \A i \in 1 .. m : (list \o more)[i] = list[i]
    BY <2>1, <2>2
  <2>5. \A i \in 1 .. k : (list \o more)[m + i] = more[i]
    BY <2>1, <2>3
  <2> QED BY <2>1, <2>4, <2>5
<1>3. places \in SUBSET Nat /\ IsFiniteSet(places)
  <2>1. IsFiniteSet(1 .. m)
    BY FS_Interval
  <2> QED BY <1>1, <2>1, FS_Subset
<1>4. PICK c \in Nat : c = Cardinality(places)
  BY <1>3, FS_CardinalityType
<1>5. \A n \in 1 .. c : Nth(places, n) \in places /\ Rank(places, Nth(places, n)) = n
  BY <1>3, <1>4, NthIsMember
<1> DEFINE S == places \cup (m + 1 .. m + k)
<1>6. S \in SUBSET Nat /\ IsFiniteSet(S) /\ Cardinality(S) = c + k
  <2>1. IsFiniteSet(m + 1 .. m + k) /\ Cardinality(m + 1 .. m + k) = k
    BY FS_Interval
  <2>2. places \cap (m + 1 .. m + k) = {}
    BY <1>1
  <2>3. IsFiniteSet(S) /\ Cardinality(S) = c + k - Cardinality({})
    BY <1>3, <1>4, <2>1, <2>2, FS_Union
  <2>4. Cardinality({}) = 0
    BY FS_EmptySet
  <2> QED BY <1>3, <2>3, <2>4
<1>7. ASSUME NEW n \in 1 .. c PROVE Nth(S, n) = Nth(places, n)
  <2>1. PICK i \in places : i = Nth(places, n) /\ Rank(places, i) = n
    BY <1>5
  <2>2. i \in 1 .. m
    BY <1>1, <2>1
  <2>3. {j \in S : j <= i} = {j \in places : j <= i}
    BY <2>2
  <2>4. Nth(S, Cardinality({j \in S : j <= i})) = i
    BY <1>6, <2>1, NthOfRank
  <2> QED BY <2>1, <2>3, <2>4 DEF Rank
<1>8. ASSUME NEW n \in 1 .. k PROVE Nth(S, c + n) = m + n
  <2>1. {j \in S : j <= m + n} = places \cup (m + 1 .. m + n)
    BY <1>1
  <2>2. IsFiniteSet(m + 1 .. m + n) /\ Cardinality(m + 1 .. m + n) = n
    BY FS_Interval
  <2>3. places \cap (m + 1 .. m + n) = {}
    BY <1>1
  <2>4. Cardinality(places \cup (m + 1 .. m + n)) = c + n - Cardinality({})
    BY <1>3, <1>4, <2>2, <2>3, FS_Union
  <2>5. Cardinality({}) = 0
    BY FS_EmptySet
  <2>6. Nth(S, Cardinality({j \in S : j <= m + n})) = m + n
    <3>1. m + n \in S
      OBVIOUS
    <3> HIDE DEF S
    <3> QED BY <1>6, <3>1, NthOfRank
  <2>7. Cardinality(places \cup (m + 1 .. m + n)) = c + n
    BY <2>4, <2>5
  <2> HIDE DEF S
  <2> QED BY <2>1, <2>6, <2>7
<1>9. PICK a \in Seq(X) : /\ a = Select(list, places) /\ Len(a) = c
                           /\ \A n \in 1 .. c : a[n] = list[Nth(places, n)]
  <2>1. \A n \in 1 .. c : list[Nth(places, n)] \in X
    BY <1>1, <1>5
  <2>2. Select(list, places) = [n \in 1 .. c |-> list[Nth(places, n)]]
    BY <1>4 DEF Select
  <2> QED BY <2>1, <2>2
<1>10. PICK b \in Seq(X) : /\ b = a \o more /\ Len(b) = c + k
                           /\ \A n \in 1 .. c : b[n] = a[n]
                           /\ \A n \in 1 .. k : b[c + n] = more[n]
  <2>1. /\ a \o more \in Seq(X) /\ Len(a \o more) = c + k
        /\ \A i \in 1 .. c + k : (a \o more)[i] = IF i <= c THEN a[i] ELSE more[i - c]
    BY <1>1, <1>9, ConcatProperties
  <2>2. \A i \in 1 .. c : i \in 1 .. c + k /\ i <= c
    OBVIOUS
  <2>3. \A i \in 1 .. k : c + i \in 1 .. c + k /\ ~ (c + i <= c) /\ (c + i) - c = i
    OBVIOUS
  <2>4. \A i \in 1 .. c : (a \o more)[i] = a[i]
    BY <2>1, <2>2
  <2>5. \A i \in 1 .. k : (a \o more)[c + i] = more[i]
    BY <2>1, <2>3
  <2> QED BY <2>1, <2>4, <2>5
<1>11. Select(joined, S) = b
  <2>1. \A n \in 1 .. c : joined[Nth(S, n)] = b[n]
    <3> SUFFICES ASSUME NEW n \in 1 .. c PROVE joined[Nth(S, n)] = b[n]
      OBVIOUS
    <3>1. Nth(places, n) \in 1 .. m
      BY <1>1, <1>5
    <3>2. Nth(S, n) = Nth(places, n)
      BY <1>7
    <3> HIDE DEF S
    <3> QED BY <1>2, <1>9, <1>10, <3>1, <3>2
  <2>2. \A n \in 1 .. k : joined[Nth(S, c + n)] = b[c + n]
    <3> SUFFICES ASSUME NEW n \in 1 .. k PROVE joined[Nth(S, c + n)] = b[c + n]
      OBVIOUS
    <3>1. Nth(S, c + n) = m + n
      BY <1>8
    <3>2. joined[m + n] = more[n]
      BY <1>2
    <3>3. \A i \in 1 .. k : b[c + i] = more[i]
      BY <1>10
    <3>4. b[c + n] = more[n]
      BY <3>3
    <3> HIDE DEF S
    <3> QED BY <3>1, <3>2, <3>4
  <2> HIDE DEF S
  <2>3. \A i \in 1 .. c + k : joined[Nth(S, i)] = b[i]
    <3> SUFFICES ASSUME NEW i \in 1 .. c + k PROVE joined[Nth(S, i)] = b[i]
      OBVIOUS
    <3>1. CASE i <= c
      BY <2>1, <3>1
    <3>2. CASE i > c
      <4>1. i - c \in 1 .. k /\ c + (i - c) = i
        BY <3>2
      <4> QED BY <2>2, <4>1
    <3> QED BY <3>1, <3>2
  <2>4. Select(joined, S) = [n \in 1 .. c + k |-> joined[Nth(S, n)]]
    BY <1>6 DEF Select
  <2>5. Select(joined, S) = [n \in 1 .. c + k |-> b[n]]
    BY <2>3, <2>4
  <2>6. b = [n \in 1 .. c + k |-> b[n]]
    <3>1. \A z \in Seq(X) : z \in [1 .. Len(z) -> X]
      OBVIOUS
    <3>2. b \in [1 .. c + k -> X]
      BY <1>10, <3>1
    <3> QED BY <3>2
  <2> QED BY <2>5, <2>6
<1> HIDE DEF S
<1>12. Select(list \o more, places \cup Behind(list, more)) = Select(list, places) \o more
  BY <1>1, <1>2, <1>9, <1>10, <1>11 DEF S, Behind
<1> QED BY <1>12

\* All of a list.
LEMMA SelectAll ==
    ASSUME NEW X, NEW list \in Seq(X)
    PROVE  Select(list, DOMAIN list) = list
<1>1. PICK m \in Nat : m = Len(list) /\ DOMAIN list = 1 .. m
  OBVIOUS
<1>2. 1 .. m \in SUBSET Nat /\ IsFiniteSet(1 .. m) /\ Cardinality(1 .. m) = m
  BY FS_Interval
<1>3. ASSUME NEW i \in 1 .. m PROVE Nth(1 .. m, i) = i
  <2>1. {j \in 1 .. m : j <= i} = 1 .. i
    OBVIOUS
  <2>2. Cardinality(1 .. i) = i
    BY FS_Interval
  <2>3. Nth(1 .. m, Cardinality({j \in 1 .. m : j <= i})) = i
    BY <1>2, NthOfRank
  <2> QED BY <2>1, <2>2, <2>3
<1>4. Select(list, 1 .. m) = [i \in 1 .. m |-> list[i]]
  BY <1>2, <1>3 DEF Select
<1>5. list = [i \in 1 .. m |-> list[i]]
  BY <1>1
<1> QED BY <1>1, <1>4, <1>5

\* Writes of one node joined to the queue are joined to what is queued for it.
LEMMA OfNodeJoined ==
    ASSUME NEW queue \in Seq(Write), NEW t \in Tag, NEW ws \in Seq(Write),
           \A i \in DOMAIN ws : ws[i].tag = t
    PROVE  /\ OfNode(queue \o ws, t) = OfNode(queue, t) \o ws
           /\ \A x \in Tag \ {t} : OfNode(queue \o ws, x) = OfNode(queue, x)
<1> DEFINE places(x) == {i \in DOMAIN queue : queue[i].tag = x}
<1>1. PICK m \in Nat, k \in Nat : /\ m = Len(queue) /\ DOMAIN queue = 1 .. m
                                  /\ k = Len(ws) /\ DOMAIN ws = 1 .. k
  OBVIOUS
<1>2. PICK joined \in Seq(Write) :
        /\ joined = queue \o ws /\ DOMAIN joined = 1 .. m + k
        /\ \A i \in 1 .. m + k : joined[i] = IF i <= m THEN queue[i] ELSE ws[i - m]
  <2>1. /\ queue \o ws \in Seq(Write) /\ Len(queue \o ws) = m + k
        /\ \A i \in 1 .. m + k : (queue \o ws)[i] = IF i <= m THEN queue[i] ELSE ws[i - m]
    BY <1>1, ConcatProperties
  <2>2. DOMAIN (queue \o ws) = 1 .. m + k
    BY <2>1
  <2> QED BY <2>1, <2>2
<1>3. \A i \in 1 .. m : i \in 1 .. m + k /\ joined[i] = queue[i]
  <2>1. \A i \in 1 .. m : i \in 1 .. m + k /\ i <= m
    OBVIOUS
  <2> QED BY <1>2, <2>1
<1>4. \A i \in m + 1 .. m + k : i \in 1 .. m + k /\ joined[i].tag = t
  <2>1. \A i \in m + 1 .. m + k : i \in 1 .. m + k /\ ~ (i <= m) /\ i - m \in 1 .. k
    OBVIOUS
  <2> QED BY <1>1, <1>2, <2>1
<1>5. \A i \in 1 .. m + k : i \in 1 .. m \/ i \in m + 1 .. m + k
  OBVIOUS
<1>6. {i \in DOMAIN joined : joined[i].tag = t} = places(t) \cup (m + 1 .. m + k)
  BY <1>1, <1>2, <1>3, <1>4, <1>5
<1>7. \A x \in Tag \ {t} : {i \in DOMAIN joined : joined[i].tag = x} = places(x)
  BY <1>1, <1>2, <1>3, <1>4, <1>5
<1>8. \A x \in Tag : places(x) \in SUBSET DOMAIN queue
  OBVIOUS
<1>9. ASSUME NEW x \in Tag
      PROVE  /\ Select(queue \o ws, places(x)) = Select(queue, places(x))
             /\ Select(queue \o ws, places(x) \cup Behind(queue, ws))
                  = Select(queue, places(x)) \o ws
  <2>1. PICK p \in SUBSET DOMAIN queue : p = places(x)
    BY <1>8
  <2> HIDE DEF places
  <2>2. /\ Select(queue \o ws, p) = Select(queue, p)
        /\ Select(queue \o ws, p \cup Behind(queue, ws)) = Select(queue, p) \o ws
    <3>1. Select(queue \o ws, p) = Select(queue, p)
      BY SelectOfFirst, Zenon
    <3>2. Select(queue \o ws, p \cup Behind(queue, ws)) = Select(queue, p) \o ws
      BY SelectWithAll, Zenon
    <3> QED BY <3>1, <3>2
  <2> QED BY <2>1, <2>2
<1>10. Select(queue \o ws, places(t) \cup (m + 1 .. m + k)) = Select(queue, places(t)) \o ws
  BY <1>1, <1>9 DEF Behind
<1>11. \A x \in Tag : OfNode(queue, x) = Select(queue, places(x))
  BY DEF OfNode
<1>12. \A x \in Tag : OfNode(joined, x) = Select(joined, {i \in DOMAIN joined : joined[i].tag = x})
  BY DEF OfNode
<1> HIDE DEF places
<1>13. OfNode(joined, t) = OfNode(queue, t) \o ws
  BY <1>2, <1>6, <1>10, <1>11, <1>12
<1>14. \A x \in Tag \ {t} : OfNode(joined, x) = OfNode(queue, x)
  BY <1>2, <1>7, <1>9, <1>11, <1>12
<1> QED BY <1>2, <1>13, <1>14

\* The clients of a list without its first.
LEMMA OfClientsTail ==
    ASSUME NEW queue \in Seq(Notification), queue # <<>>
    PROVE  /\ queue[1].src # "client" => OfClients(Tail(queue)) = OfClients(queue)
           /\ queue[1].src = "client" => /\ OfClients(queue) # <<>>
                                         /\ OfClients(Tail(queue)) = Tail(OfClients(queue))
<1> DEFINE places == {i \in DOMAIN queue : queue[i].src = "client"}
<1>1. PICK m \in Nat, rest \in Seq(Notification) :
        /\ DOMAIN queue = 1 .. m + 1 /\ rest = Tail(queue)
        /\ DOMAIN rest = 1 .. m /\ \A i \in 1 .. m : rest[i] = queue[i + 1]
  <2>1. PICK m \in Nat : m = Len(queue) - 1 /\ DOMAIN queue = 1 .. m + 1
    OBVIOUS
  <2>2. Tail(queue) \in Seq(Notification) /\ DOMAIN Tail(queue) = 1 .. m
    BY <2>1
  <2>3. \A i \in 1 .. m : Tail(queue)[i] = queue[i + 1]
    BY <2>1
  <2> QED BY <2>1, <2>2, <2>3
<1>2. {i \in DOMAIN rest : rest[i].src = "client"} = Shifted(places)
  <2>1. \A i \in Nat \ {0} : i + 1 \in 1 .. m + 1 <=> i \in 1 .. m
    OBVIOUS
  <2>2. \A i \in 1 .. m : i \in Nat \ {0}
    OBVIOUS
  <2> QED BY <1>1, <2>1, <2>2 DEF Shifted
<1>3. 1 \in places <=> queue[1].src = "client"
  BY <1>1
<1>4. /\ 1 \notin places => Select(rest, Shifted(places)) = Select(queue, places)
      /\ 1 \in places => /\ Select(queue, places) # <<>>
                         /\ Select(rest, Shifted(places)) = Tail(Select(queue, places))
  BY <1>1, SelectTail
<1> QED BY <1>1, <1>2, <1>3, <1>4 DEF OfClients

\* The clients of a list of clients, and of one without any.
LEMMA OfClientsAll ==
    ASSUME NEW queue \in Seq(Notification)
    PROVE  /\ (\A i \in DOMAIN queue : queue[i].src = "client") => OfClients(queue) = queue
           /\ (\A i \in DOMAIN queue : queue[i].src # "client") => OfClients(queue) = <<>>
<1>1. ASSUME \A i \in DOMAIN queue : queue[i].src = "client" PROVE OfClients(queue) = queue
  <2>1. {i \in DOMAIN queue : queue[i].src = "client"} = DOMAIN queue
    BY <1>1
  <2>2. Select(queue, DOMAIN queue) = queue
    BY SelectAll
  <2> QED BY <2>1, <2>2 DEF OfClients
<1>2. ASSUME \A i \in DOMAIN queue : queue[i].src # "client" PROVE OfClients(queue) = <<>>
  <2>1. {i \in DOMAIN queue : queue[i].src = "client"} = {}
    BY <1>2
  <2>2. Select(queue, {}) = <<>>
    <3>1. Cardinality({}) = 0
      BY FS_EmptySet
    <3> QED BY <3>1 DEF Select
  <2> QED BY <2>1, <2>2 DEF OfClients
<1> QED BY <1>1, <1>2

\* Values of the part of a list beyond a place.
LEMMA ValuesBeyond ==
    ASSUME NEW list \in Seq(Notification), NEW s \in 0 .. 1
    PROVE  Values(SubSeq(list, s + 1, Len(list))) = SubSeq(Values(list), s + 1, Len(Values(list)))
<1>1. Values(list) \in Seq(Shown) /\ Len(Values(list)) = Len(list)
  BY ValuesType
<1>2. CASE s = 0
  <2>1. SubSeq(list, 1, Len(list)) = list
    BY SubSeqFull
  <2>2. SubSeq(Values(list), 1, Len(Values(list))) = Values(list)
    BY <1>1, SubSeqFull
  <2>3. s + 1 = 1
    BY <1>2
  <2> QED BY <2>1, <2>2, <2>3
<1>3. CASE s = 1
  <2>1. CASE list = <<>>
    <3>1. Values(<<>>) = <<>> /\ Len(<<>>) = 0
      BY DEF Values
    <3>2. SubSeq(<<>>, 2, 0) = <<>>
      BY SubSeqEmpty
    <3>3. s + 1 = 2
      BY <1>3
    <3> QED BY <2>1, <3>1, <3>2, <3>3
  <2>2. CASE list # <<>>
    <3>1. PICK m \in Nat : Len(list) = m + 1 /\ DOMAIN list = 1 .. m + 1
      <4>1. PICK l \in Nat : l = Len(list) /\ DOMAIN list = 1 .. l
        OBVIOUS
      <4>2. l # 0
        BY <2>2, <4>1
      <4>3. l - 1 \in Nat /\ l = (l - 1) + 1
        BY <4>1, <4>2
      <4> QED BY <4>1, <4>3
    <3>2. PICK a \in Seq(Notification) :
            /\ a = SubSeq(list, 2, m + 1) /\ Len(a) = m
            /\ \A i \in 1 .. m : a[i] = list[i + 1]
      <4>1. \A i \in 2 .. m + 1 : list[i] \in Notification
        BY <3>1
      <4>2. /\ SubSeq(list, 2, m + 1) \in Seq(Notification)
            /\ Len(SubSeq(list, 2, m + 1)) = IF 2 <= m + 1 THEN m + 1 - 2 + 1 ELSE 0
            /\ \A i \in 1 .. m + 1 - 2 + 1 : SubSeq(list, 2, m + 1)[i] = list[2 + i - 1]
        BY <3>1, <4>1, SubSeqProperties
      <4>3. \A i \in 1 .. m : i \in 1 .. m + 1 - 2 + 1 /\ 2 + i - 1 = i + 1
        BY <3>1
      <4>4. \A i \in 1 .. m : SubSeq(list, 2, m + 1)[i] = list[i + 1]
        BY <4>2, <4>3
      <4>5. (IF 2 <= m + 1 THEN m + 1 - 2 + 1 ELSE 0) = m
        BY <3>1
      <4> QED BY <4>2, <4>4, <4>5
    <3>3. PICK b \in Seq(Shown) :
            /\ b = SubSeq(Values(list), 2, m + 1) /\ Len(b) = m
            /\ \A i \in 1 .. m : b[i] = Values(list)[i + 1]
      <4>1. \A i \in 2 .. m + 1 : Values(list)[i] \in Shown
        BY <1>1, <3>1
      <4>2. /\ SubSeq(Values(list), 2, m + 1) \in Seq(Shown)
            /\ Len(SubSeq(Values(list), 2, m + 1)) = IF 2 <= m + 1 THEN m + 1 - 2 + 1 ELSE 0
            /\ \A i \in 1 .. m + 1 - 2 + 1 : SubSeq(Values(list), 2, m + 1)[i] = Values(list)[2 + i - 1]
        BY <3>1, <4>1, SubSeqProperties
      <4>3. \A i \in 1 .. m : i \in 1 .. m + 1 - 2 + 1 /\ 2 + i - 1 = i + 1
        BY <3>1
      <4>4. \A i \in 1 .. m : SubSeq(Values(list), 2, m + 1)[i] = Values(list)[i + 1]
        BY <4>2, <4>3
      <4>5. (IF 2 <= m + 1 THEN m + 1 - 2 + 1 ELSE 0) = m
        BY <3>1
      <4> QED BY <4>2, <4>4, <4>5
    <3>4. \A i \in 1 .. m : i + 1 \in DOMAIN list
      BY <3>1
    <3>5. \A i \in 1 .. m : b[i] = a[i].value
      BY <3>2, <3>3, <3>4, ValuesType
    <3>6. Values(a) = [i \in 1 .. m |-> a[i].value]
      <4>1. DOMAIN a = 1 .. m
        BY <3>2
      <4> QED BY <4>1 DEF Values
    <3>7. b = [i \in 1 .. m |-> b[i]]
      BY <3>3
    <3>8. b = Values(a)
      BY <3>5, <3>6, <3>7
    <3> QED BY <1>1, <1>3, <3>1, <3>2, <3>3, <3>8
  <2> QED BY <2>1, <2>2
<1> QED BY <1>2, <1>3

LEMMA ValuesJoined ==
    ASSUME NEW a \in Seq(Write), NEW b \in Seq(Write)
    PROVE  Values(a \o b) = Values(a) \o Values(b)
<1>1. PICK m \in Nat, k \in Nat : /\ m = Len(a) /\ DOMAIN a = 1 .. m
                                  /\ k = Len(b) /\ DOMAIN b = 1 .. k
  OBVIOUS
<1>2. PICK c \in Seq(Write) :
        /\ c = a \o b /\ Len(c) = m + k
        /\ \A i \in 1 .. m + k : c[i] = IF i <= m THEN a[i] ELSE b[i - m]
  <2>1. /\ a \o b \in Seq(Write) /\ Len(a \o b) = Len(a) + Len(b)
        /\ \A i \in 1 .. Len(a) + Len(b) : (a \o b)[i] = IF i <= Len(a) THEN a[i] ELSE b[i - Len(a)]
    BY ConcatProperties
  <2> QED BY <1>1, <2>1
<1>3. PICK va \in Seq(Shown), vb \in Seq(Shown), vc \in Seq(Shown) :
        /\ va = Values(a) /\ Len(va) = m /\ (\A i \in 1 .. m : va[i] = a[i].value)
        /\ vb = Values(b) /\ Len(vb) = k /\ (\A i \in 1 .. k : vb[i] = b[i].value)
        /\ vc = Values(c) /\ Len(vc) = m + k /\ (\A i \in 1 .. m + k : vc[i] = c[i].value)
  <2>1. DOMAIN c = 1 .. m + k
    BY <1>2
  <2>2. Values(a) \in Seq(Shown) /\ Len(Values(a)) = m /\ \A i \in 1 .. m : Values(a)[i] = a[i].value
    BY <1>1, ValuesType
  <2>3. Values(b) \in Seq(Shown) /\ Len(Values(b)) = k /\ \A i \in 1 .. k : Values(b)[i] = b[i].value
    BY <1>1, ValuesType
  <2>4. /\ Values(c) \in Seq(Shown) /\ Len(Values(c)) = m + k
        /\ \A i \in 1 .. m + k : Values(c)[i] = c[i].value
    BY <1>2, <2>1, ValuesType
  <2> QED BY <2>2, <2>3, <2>4
<1>4. PICK d \in Seq(Shown) :
        /\ d = va \o vb /\ Len(d) = m + k
        /\ \A i \in 1 .. m + k : d[i] = IF i <= m THEN va[i] ELSE vb[i - m]
  <2>1. /\ va \o vb \in Seq(Shown) /\ Len(va \o vb) = Len(va) + Len(vb)
        /\ \A i \in 1 .. Len(va) + Len(vb) :
             (va \o vb)[i] = IF i <= Len(va) THEN va[i] ELSE vb[i - Len(va)]
    BY ConcatProperties
  <2>2. Len(va) = m /\ Len(vb) = k
    BY <1>3
  <2> QED BY <2>1, <2>2
<1>5. \A i \in 1 .. m + k : d[i] = vc[i]
  <2> SUFFICES ASSUME NEW i \in 1 .. m + k PROVE d[i] = vc[i]
    OBVIOUS
  <2>1. CASE i <= m
    <3>1. i \in 1 .. m
      BY <2>1
    <3>2. d[i] = va[i] /\ c[i] = a[i] /\ vc[i] = c[i].value
      BY <1>2, <1>3, <1>4, <2>1
    <3> QED BY <1>3, <3>1, <3>2
  <2>2. CASE ~ (i <= m)
    <3>1. i - m \in 1 .. k
      BY <2>2
    <3>2. d[i] = vb[i - m] /\ c[i] = b[i - m] /\ vc[i] = c[i].value
      BY <1>2, <1>3, <1>4, <2>2
    <3> QED BY <1>3, <3>1, <3>2
  <2> QED BY <2>1, <2>2
<1>6. d = vc
  <2>1. d = [i \in 1 .. m + k |-> d[i]] /\ vc = [i \in 1 .. m + k |-> vc[i]]
    <3>1. \A z \in Seq(Shown) : z \in [1 .. Len(z) -> Shown]
      OBVIOUS
    <3>2. Len(d) = m + k /\ Len(vc) = m + k
      BY <1>3, <1>4
    <3> QED BY <3>1, <3>2
  <2> QED BY <1>5, <2>1
<1> QED BY <1>2, <1>3, <1>4, <1>6

-----------------------------------------------------------------------------
(* The steps of the promise.                                                 *)

Given(list) == [i \in DOMAIN list |-> [node |-> list[i].tag, value |-> list[i].value]]

\* What is written and not yet taken, and taken and not yet offered.
Written(list) == Values(OfClients(list))
Taken(queue, t) == Values(OfNode(queue, t))

LEMMA WrittenNone == Written(<<>>) = <<>>
<1>1. <<>> \in Seq(Notification) /\ \A i \in DOMAIN <<>> : (<<>>)[i].src = "client"
  OBVIOUS
<1>2. OfClients(<<>>) = <<>>
  BY <1>1, OfClientsAll
<1> QED BY <1>2 DEF Written, Values

\* A change that is no client's leaves what is written.
LEMMA ForeignGrowth ==
    ASSUME TypeOK, NEW t \in Tag, NEW list,
           \/ list = notifications[t]
           \/ \E n \in Notification : n.src # "client" /\ list = Append(notifications[t], n)
    PROVE  Written(list) = Written(notifications[t])
<1>1. notifications[t] \in Seq(Notification)
  BY DEF TypeOK
<1>2. OfClients(list) = OfClients(notifications[t])
  BY <1>1, OfClientsAppended
<1> QED BY <1>2 DEF Written

\* A client's change is one write more.
LEMMA ClientGrowth ==
    ASSUME TypeOK, NEW t \in Tag, NEW n \in Notification, n.src = "client"
    PROVE  Written(Append(notifications[t], n)) = Append(Written(notifications[t]), n.value)
<1>1. notifications[t] \in Seq(Notification)
  BY DEF TypeOK
<1>2. OfClients(Append(notifications[t], n)) = Append(OfClients(notifications[t]), n)
  BY <1>1, OfClientsAppended
<1>3. OfClients(notifications[t]) \in Seq(Notification)
  BY AcceptedType
<1> QED BY <1>2, <1>3, ValuesAppended DEF Written

LEMMA PromiseStutters ==
    ASSUME \A t \in Tag : Written(notifications'[t]) = Written(notifications[t]),
           UNCHANGED <<write_queue, offered, disturbed>>
    PROVE  UNCHANGED Promise!vars
BY DEF Promise!vars, Written

LEMMA PromiseDisturbs ==
    ASSUME \A t \in Tag : Written(notifications'[t]) = Written(notifications[t]),
           UNCHANGED <<write_queue, offered>>,
           disturbed \subseteq disturbed', disturbed' \subseteq Tag
    PROVE  Promise!Next
<1>1. Promise!Disturb
  BY DEF Promise!Disturb, Written
<1> QED BY <1>1 DEF Promise!Next

LEMMA PromiseAccepts ==
    ASSUME NEW t \in Tag, NEW v \in Shown,
           Written(notifications'[t]) = Append(Written(notifications[t]), v),
           \A x \in Tag \ {t} : notifications'[x] = notifications[x],
           UNCHANGED <<write_queue, offered, disturbed>>
    PROVE  Promise!Next
<1>1. Promise!Accept(t, v)
  BY DEF Promise!Accept, Written
<1> QED BY <1>1 DEF Promise!Next

LEMMA PromiseTakes ==
    ASSUME NEW t \in Tag, t \notin disturbed, disturbed' = disturbed, offered' = offered,
           Written(notifications'[t]) = <<>>,
           \A x \in Tag \ {t} : notifications'[x] = notifications[x],
           Taken(write_queue', t) = Taken(write_queue, t) \o Written(notifications[t]),
           \A x \in Tag \ {t} : Taken(write_queue', x) = Taken(write_queue, x)
    PROVE  Promise!Next
<1>1. Promise!Take(t)
  BY DEF Promise!Take, Written, Taken
<1> QED BY <1>1 DEF Promise!Next

\* What is chosen from a list is within it, in its order.
LEMMA SelectedIsWithin ==
    ASSUME NEW X, NEW list \in Seq(X), NEW places \in SUBSET DOMAIN list
    PROVE  Promise!Within(Select(list, places), list)
<1>1. PICK m \in Nat : m = Len(list) /\ DOMAIN list = 1 .. m
  OBVIOUS
<1>2. places \in SUBSET Nat /\ IsFiniteSet(places)
  <2>1. IsFiniteSet(1 .. m)
    BY FS_Interval
  <2> QED BY <1>1, <2>1, FS_Subset
<1>3. PICK c \in Nat : c = Cardinality(places)
  BY <1>2, FS_CardinalityType
<1>4. \A n \in 1 .. c : Nth(places, n) \in places /\ Rank(places, Nth(places, n)) = n
  BY <1>2, <1>3, NthIsMember
<1>5. ASSUME NEW i \in 1 .. c, NEW j \in 1 .. c, i < j PROVE Nth(places, i) < Nth(places, j)
  <2>1. PICK a \in places, b \in places :
          a = Nth(places, i) /\ b = Nth(places, j) /\ Rank(places, a) = i /\ Rank(places, b) = j
    BY <1>4
  <2>2. a \in Nat /\ b \in Nat
    BY <1>2
  <2>3. CASE b <= a
    <3>1. {k \in places : k <= b} \subseteq {k \in places : k <= a}
      <4>1. \A k \in Nat : k <= b => k <= a
        BY <2>2, <2>3
      <4> QED BY <1>2, <4>1
    <3>2. IsFiniteSet({k \in places : k <= a})
      <4>1. {k \in places : k <= a} \subseteq places
        OBVIOUS
      <4> QED BY <1>2, <4>1, FS_Subset
    <3>3. Cardinality({k \in places : k <= b}) <= Cardinality({k \in places : k <= a})
      BY <3>1, <3>2, FS_Subset
    <3>4. j <= i
      BY <2>1, <3>3 DEF Rank
    <3> QED BY <1>5, <3>4
  <2>4. CASE a < b
    BY <2>1, <2>4
  <2> QED BY <2>2, <2>3, <2>4
<1> DEFINE part  == Select(list, places)
           place == [n \in 1 .. c |-> Nth(places, n)]
<1>6. part = [n \in 1 .. c |-> list[Nth(places, n)]] /\ DOMAIN part = 1 .. c
  BY <1>3 DEF Select
<1>7. place \in [1 .. c -> DOMAIN list]
  BY <1>4
<1>8. \A i, j \in 1 .. c : i < j => place[i] < place[j]
  BY <1>5
<1>9. \A i \in 1 .. c : part[i] = list[place[i]]
  BY <1>6
<1> HIDE DEF part, place
<1>10. Promise!Within(part, list)
  BY <1>6, <1>7, <1>8, <1>9 DEF Promise!Within
<1> QED BY <1>10 DEF part

LEMMA PromiseTakesDisturbed ==
    ASSUME NEW t \in Tag, t \in disturbed, disturbed' \in {disturbed, disturbed \ {t}}, offered' = offered,
           Written(notifications'[t]) = <<>>,
           \A x \in Tag \ {t} : notifications'[x] = notifications[x],
           Taken(write_queue, t) \in Seq(Shown), NEW more \in Seq(Shown),
           Taken(write_queue', t) = Taken(write_queue, t) \o more,
           \A x \in Tag \ {t} : Taken(write_queue', x) = Taken(write_queue, x),
           NEW lost \in 0 .. 1, NEW places \in SUBSET DOMAIN more,
           SubSeq(Written(notifications[t]), lost + 1, Len(Written(notifications[t]))) = Select(more, places)
    PROVE  Promise!Next
<1>1. PICK a \in Seq(Shown), b \in Seq(Shown) :
        a = Taken(write_queue, t) /\ b = Taken(write_queue', t) /\ b = a \o more
  <2>1. Taken(write_queue, t) \o more \in Seq(Shown)
    BY ConcatProperties
  <2> QED BY <2>1
<1>2. SubSeq(b, Len(a) + 1, Len(b)) = more
  <2>1. PICK m \in Nat, k \in Nat : m = Len(a) /\ k = Len(more)
    OBVIOUS
  <2>2. /\ b \in Seq(Shown) /\ Len(b) = m + k
        /\ \A i \in 1 .. m + k : b[i] = IF i <= m THEN a[i] ELSE more[i - m]
    <3>1. /\ a \o more \in Seq(Shown) /\ Len(a \o more) = Len(a) + Len(more)
          /\ \A i \in 1 .. Len(a) + Len(more) :
               (a \o more)[i] = IF i <= Len(a) THEN a[i] ELSE more[i - Len(a)]
      BY ConcatProperties
    <3> QED BY <1>1, <2>1, <3>1
  <2>3. \A i \in m + 1 .. m + k : b[i] \in Shown
    BY <2>1, <2>2
  <2>4. /\ SubSeq(b, m + 1, m + k) \in Seq(Shown)
        /\ Len(SubSeq(b, m + 1, m + k)) = IF m + 1 <= m + k THEN m + k - (m + 1) + 1 ELSE 0
        /\ \A i \in 1 .. m + k - (m + 1) + 1 : SubSeq(b, m + 1, m + k)[i] = b[m + 1 + i - 1]
    BY <2>1, <2>3, SubSeqProperties
  <2>5. (IF m + 1 <= m + k THEN m + k - (m + 1) + 1 ELSE 0) = k
    BY <2>1
  <2>6. \A i \in 1 .. k : SubSeq(b, m + 1, m + k)[i] = more[i]
    <3> SUFFICES ASSUME NEW i \in 1 .. k PROVE SubSeq(b, m + 1, m + k)[i] = more[i]
      OBVIOUS
    <3>1. i \in 1 .. m + k - (m + 1) + 1 /\ m + 1 + i - 1 = m + i
      BY <2>1
    <3>2. m + i \in 1 .. m + k /\ ~ (m + i <= m) /\ (m + i) - m = i
      BY <2>1
    <3>3. b[m + i] = more[i]
      BY <2>2, <3>2
    <3> QED BY <2>4, <3>1, <3>3
  <2>7. \A z \in Seq(Shown) : z \in [1 .. Len(z) -> Shown]
    OBVIOUS
  <2>8. Len(SubSeq(b, m + 1, m + k)) = k /\ SubSeq(b, m + 1, m + k) \in Seq(Shown)
    BY <2>4, <2>5
  <2>9. SubSeq(b, m + 1, m + k) = more
    <3>1. PICK d \in Seq(Shown) : /\ d = SubSeq(b, m + 1, m + k) /\ Len(d) = k
                                  /\ \A i \in 1 .. k : d[i] = more[i]
      BY <2>6, <2>8
    <3>2. d \in [1 .. k -> Shown] /\ more \in [1 .. k -> Shown]
      BY <2>1, <2>7, <3>1
    <3>3. d = [i \in 1 .. k |-> d[i]] /\ more = [i \in 1 .. k |-> more[i]]
      BY <3>2
    <3>4. [i \in 1 .. k |-> d[i]] = [i \in 1 .. k |-> more[i]]
      BY <3>1
    <3> QED BY <3>1, <3>3, <3>4
  <2> QED BY <2>1, <2>2, <2>9
<1>3. Promise!TakeDisturbed(t)
  <2>1. Promise!Within(SubSeq(Written(notifications[t]), lost + 1, Len(Written(notifications[t]))), more)
    BY SelectedIsWithin
  <2>2. SubSeq(Taken(write_queue', t), Len(Taken(write_queue, t)) + 1, Len(Taken(write_queue', t))) = more
    BY <1>1, <1>2
  <2> QED BY <2>1, <2>2 DEF Promise!TakeDisturbed, Written, Taken
<1> QED BY <1>3 DEF Promise!Next

LEMMA PromiseOffers ==
    ASSUME NEW t \in Tag, UNCHANGED <<notifications, disturbed>>,
           Taken(write_queue, t) # <<>>,
           Taken(write_queue', t) = Tail(Taken(write_queue, t)),
           \A x \in Tag \ {t} : Taken(write_queue', x) = Taken(write_queue, x),
           Given(offered') = Append(Given(offered), [node |-> t, value |-> Head(Taken(write_queue, t))])
    PROVE  Promise!Next
<1>1. Promise!Offer(t)
  BY DEF Promise!Offer, Taken, Given
<1> QED BY <1>1 DEF Promise!Next

\* The DA thread takes the oldest write of the queue: the oldest of its node.
LEMMA DrainOffers ==
    ASSUME TypeOK, WritesDisabledSilent, DrainWrite PROVE Promise!Next
<1>1. /\ write_queue \in Seq(Write) /\ write_queue # <<>> /\ offered \in Seq(Write)
      /\ write_queue' = Tail(write_queue) /\ offered' = Append(offered, write_queue[1])
      /\ UNCHANGED <<notifications, disturbed>>
  BY DEF DrainWrite, WritesDisabledSilent, TypeOK
<1>2. PICK w \in Write : w = write_queue[1]
  BY <1>1
<1>3. PICK t \in Tag : t = w.tag
  BY DEF Write
<1>4. \A x \in Tag \ {t} : Taken(write_queue', x) = Taken(write_queue, x)
  BY <1>1, <1>2, <1>3, OfNodeTail DEF Taken
<1>5. PICK q \in Seq(Write) : /\ q = OfNode(write_queue, t) /\ q # <<>> /\ q[1] = w
                              /\ OfNode(write_queue', t) = Tail(q)
  BY <1>1, <1>2, <1>3, AcceptedType, OfNodeTail
<1>6. PICK a \in Seq(Shown) : /\ a = Values(q) /\ a # <<>> /\ a[1] = w.value
                              /\ Values(OfNode(write_queue', t)) = Tail(a)
  BY <1>5, ValuesTail, AcceptedType
<1>7. Given(offered') = Append(Given(offered), [node |-> t, value |-> w.value])
  <2> DEFINE Offers == [node : Tag, value : Shown]
  <2>1. \A x \in Write : [node |-> x.tag, value |-> x.value] \in Offers
    BY DEF Write
  <2>2. PICK m \in Nat : m = Len(offered) /\ DOMAIN offered = 1 .. m
    BY <1>1
  <2>3. PICK g \in Seq(Offers) : /\ g = Given(offered) /\ Len(g) = m
             /\ \A i \in 1 .. m : g[i] = [node |-> offered[i].tag, value |-> offered[i].value]
    <3>1. Given(offered) = [i \in 1 .. m |-> [node |-> offered[i].tag, value |-> offered[i].value]]
      BY <2>2 DEF Given
    <3>2. \A i \in 1 .. m : [node |-> offered[i].tag, value |-> offered[i].value] \in Offers
      BY <1>1, <2>1, <2>2
    <3> HIDE DEF Offers
    <3> QED BY <3>1, <3>2
  <2>4. PICK o \in Offers : o = [node |-> t, value |-> w.value]
    BY <1>3, <2>1
  <2>5. PICK more \in Seq(Write) : /\ more = Append(offered, w) /\ DOMAIN more = 1 .. m + 1
                                   /\ more[m + 1] = w /\ \A i \in 1 .. m : more[i] = offered[i]
    <3>1. Append(offered, w) \in Seq(Write) /\ DOMAIN Append(offered, w) = 1 .. m + 1
      BY <1>1, <2>2
    <3>2. Append(offered, w)[m + 1] = w
      BY <1>1, <2>2
    <3>3. \A i \in 1 .. m : Append(offered, w)[i] = offered[i]
      BY <1>1, <2>2
    <3> QED BY <3>1, <3>2, <3>3
  <2>6. Given(more) = [i \in 1 .. m + 1 |-> [node |-> more[i].tag, value |-> more[i].value]]
    BY <2>5 DEF Given
  <2>7. \A i \in 1 .. m + 1 : [node |-> more[i].tag, value |-> more[i].value]
                                = IF i = m + 1 THEN o ELSE g[i]
    <3>1. \A i \in 1 .. m + 1 : i \in 1 .. m \/ i = m + 1
      OBVIOUS
    <3> QED BY <1>3, <2>3, <2>4, <2>5, <3>1
  <2> HIDE DEF Offers
  <2>8. Append(g, o) = [i \in 1 .. m + 1 |-> IF i = m + 1 THEN o ELSE g[i]]
    <3>1. Append(g, o) \in Seq(Offers) /\ Len(Append(g, o)) = m + 1
      BY <2>3
    <3>2. Append(g, o)[m + 1] = o /\ \A i \in 1 .. m : Append(g, o)[i] = g[i]
      BY <2>3
    <3>3. \A z \in Seq(Offers) : z \in [1 .. Len(z) -> Offers]
      OBVIOUS
    <3>4. \A i \in 1 .. m + 1 : i \in 1 .. m \/ i = m + 1
      OBVIOUS
    <3> QED BY <3>1, <3>2, <3>3, <3>4
  <2>9. Given(more) = Append(g, o)
    BY <2>6, <2>7, <2>8
  <2> QED BY <1>1, <1>2, <2>3, <2>4, <2>5, <2>9
<1>8. Taken(write_queue, t) = a /\ Taken(write_queue', t) = Tail(a) /\ Head(a) = w.value
  BY <1>5, <1>6 DEF Taken
<1> QED BY <1>1, <1>4, <1>6, <1>7, <1>8, PromiseOffers

\* What a publishing cycle forwards, all of it or all but the first two, and what
\* the clients wrote of it: at most the oldest is missing.
LEMMA LosesOldest ==
    ASSUME NEW ns \in Seq(Notification), NEW s \in 0 .. 2, s <= Len(ns),
           s = 2 => ns[1].src # "client"
    PROVE  \E lost \in 0 .. 1 :
             /\ (\A j \in DOMAIN ns : j <= s => ns[j].src # "client") => lost = 0
             /\ OfClients(SubSeq(ns, s + 1, Len(ns)))
                  = SubSeq(OfClients(ns), lost + 1, Len(OfClients(ns)))
<1>1. PICK m \in Nat : m = Len(ns) /\ DOMAIN ns = 1 .. m
  OBVIOUS
<1>2. OfClients(ns) \in Seq(Notification) /\ SubSeq(OfClients(ns), 1, Len(OfClients(ns))) = OfClients(ns)
  <2>1. OfClients(ns) \in Seq(Notification)
    <3>1. {i \in DOMAIN ns : ns[i].src = "client"} \in SUBSET DOMAIN ns
      OBVIOUS
    <3> QED BY <3>1, SelectType DEF OfClients
  <2> QED BY <2>1, SubSeqFull
<1>3. SubSeq(ns, 1, m) = ns
  BY <1>1, SubSeqFull
<1>4. ASSUME ns # <<>> PROVE SubSeq(ns, 2, m) = Tail(ns)
  <2>1. 1 \in 1 .. Len(ns) /\ Len(ns) \in 1 .. Len(ns)
    BY <1>1, <1>4
  <2>2. Tail(SubSeq(ns, 1, Len(ns))) = SubSeq(ns, 1 + 1, Len(ns))
    BY <2>1, HeadTailOfSubSeq
  <2> QED BY <1>1, <1>3, <2>2
<1>5. ASSUME NEW list \in Seq(Notification), list # <<>>
      PROVE  SubSeq(list, 2, Len(list)) = Tail(list)
  <2>1. 1 \in 1 .. Len(list) /\ Len(list) \in 1 .. Len(list)
    BY <1>5
  <2>2. Tail(SubSeq(list, 1, Len(list))) = SubSeq(list, 1 + 1, Len(list))
    BY <2>1, HeadTailOfSubSeq
  <2>3. SubSeq(list, 1, Len(list)) = list
    BY SubSeqFull
  <2> QED BY <2>2, <2>3
<1>6. CASE s = 0
  <2>1. SubSeq(ns, s + 1, Len(ns)) = ns
    BY <1>1, <1>3, <1>6
  <2>2. 0 \in 0 .. 1 /\ 0 + 1 = 1
    OBVIOUS
  <2> QED BY <1>2, <2>1, <2>2
<1>7. ASSUME NEW list \in Seq(Notification), list # <<>>, OfClients(list) = OfClients(ns)
      PROVE  \E lost \in 0 .. 1 :
               /\ list[1].src # "client" => lost = 0
               /\ OfClients(Tail(list)) = SubSeq(OfClients(ns), lost + 1, Len(OfClients(ns)))
  <2>1. CASE list[1].src # "client"
    <3>1. OfClients(Tail(list)) = OfClients(ns)
      BY <1>7, <2>1, OfClientsTail
    <3>2. 0 \in 0 .. 1 /\ 0 + 1 = 1
      OBVIOUS
    <3> QED BY <1>2, <3>1, <3>2
  <2>2. CASE list[1].src = "client"
    <3>1. OfClients(ns) # <<>> /\ OfClients(Tail(list)) = Tail(OfClients(ns))
      BY <1>7, <2>2, OfClientsTail
    <3>2. SubSeq(OfClients(ns), 2, Len(OfClients(ns))) = Tail(OfClients(ns))
      BY <1>2, <1>5, <3>1
    <3>3. 1 \in 0 .. 1 /\ 1 + 1 = 2
      OBVIOUS
    <3> QED BY <2>2, <3>1, <3>2, <3>3
  <2> QED BY <2>1, <2>2
<1>8. CASE s = 1
  <2>1. ns # <<>> /\ 1 \in DOMAIN ns
    BY <1>1, <1>8
  <2>2. SubSeq(ns, s + 1, Len(ns)) = Tail(ns)
    BY <1>1, <1>4, <1>8, <2>1
  <2>3. PICK lost \in 0 .. 1 :
          /\ ns[1].src # "client" => lost = 0
          /\ OfClients(Tail(ns)) = SubSeq(OfClients(ns), lost + 1, Len(OfClients(ns)))
    BY <1>7, <2>1
  <2>4. (\A j \in DOMAIN ns : j <= s => ns[j].src # "client") => ns[1].src # "client"
    BY <1>8, <2>1
  <2> QED BY <2>2, <2>3, <2>4
<1>9. CASE s = 2
  <2>1. ns # <<>> /\ 2 \in DOMAIN ns /\ m >= 2 /\ ns[1].src # "client"
    BY <1>1, <1>9
  <2>2. PICK list \in Seq(Notification) : list = Tail(ns) /\ list # <<>> /\ list[1] = ns[2]
    <3>1. Tail(ns) \in Seq(Notification) /\ Len(Tail(ns)) = m - 1
      BY <1>1, <2>1
    <3>2. \A i \in 1 .. m - 1 : Tail(ns)[i] = ns[i + 1]
      BY <1>1, <2>1, HeadTailProperties
    <3>3. 1 \in 1 .. m - 1 /\ 1 + 1 = 2 /\ m - 1 # 0
      BY <2>1
    <3>4. Tail(ns)[1] = ns[2]
      BY <3>2, <3>3
    <3>5. Tail(ns) # <<>>
      BY <3>1, <3>3
    <3> QED BY <3>1, <3>4, <3>5
  <2>3. OfClients(list) = OfClients(ns)
    BY <2>1, <2>2, OfClientsTail
  <2>4. SubSeq(ns, s + 1, Len(ns)) = Tail(list)
    <3>1. 2 \in 1 .. Len(ns) /\ Len(ns) \in 2 .. Len(ns)
      BY <1>1, <2>1
    <3>2. Tail(SubSeq(ns, 2, Len(ns))) = SubSeq(ns, 2 + 1, Len(ns))
      BY <3>1, HeadTailOfSubSeq
    <3>3. SubSeq(ns, 2, Len(ns)) = list
      BY <1>1, <1>4, <2>1, <2>2
    <3> QED BY <1>9, <3>2, <3>3
  <2>5. PICK lost \in 0 .. 1 :
          /\ list[1].src # "client" => lost = 0
          /\ OfClients(Tail(list)) = SubSeq(OfClients(ns), lost + 1, Len(OfClients(ns)))
    BY <1>7, <2>2, <2>3
  <2>6. (\A j \in DOMAIN ns : j <= s => ns[j].src # "client") => list[1].src # "client"
    BY <1>9, <2>1, <2>2
  <2> QED BY <2>4, <2>5, <2>6
<1>10. s = 0 \/ s = 1 \/ s = 2
  OBVIOUS
<1> QED BY <1>6, <1>8, <1>9, <1>10

\* A publishing cycle takes all that is written to its node; of a disturbed one it
\* may lose the oldest write, and take what nobody wrote.
LEMMA PublishTakes ==
    ASSUME TypeOK, SoundInv, NEW t \in Tag, Publish(t)
    PROVE  [Promise!Next]_(Promise!vars)
<1> DEFINE ns == notifications[t]
           forwarded == SubSeq(ns, Swallowed(t) + 1, Len(ns))
           writes == [i \in DOMAIN forwarded |-> WriteOf(t, forwarded[i])]
<1>1. /\ notifications'[t] = <<>> /\ \A x \in Tag \ {t} : notifications'[x] = notifications[x]
      /\ ns \in Seq(Notification) /\ ns # <<>> /\ write_queue \in Seq(Write) /\ offered' = offered
      /\ disturbed' \in {disturbed, disturbed \ {t}}
      /\ t \notin disturbed => disturbed' = disturbed
  BY DEF Publish, TypeOK
<1>2. Written(notifications'[t]) = <<>>
  BY <1>1, WrittenNone
<1>3. Taken(write_queue, t) \in Seq(Shown) /\ Written(ns) \in Seq(Shown) /\ OfClients(ns) \in Seq(Notification)
  BY AcceptedType DEF Taken, Written
<1>4. CASE ~ enable_writes
  <2>1. write_queue' = write_queue
    BY <1>4 DEF Publish
  <2>2. \A i \in DOMAIN ns : ns[i].src # "client"
    BY <1>4 DEF SoundInv
  <2>3. Written(ns) = <<>>
    <3>1. OfClients(ns) = <<>>
      BY <1>1, <2>2, OfClientsAll
    <3> QED BY <3>1 DEF Written, Values
  <2>4. Taken(write_queue', t) = Taken(write_queue, t) \o <<>>
    <3>1. Taken(write_queue, t) \o <<>> = Taken(write_queue, t)
      BY <1>3, ConcatEmptySeq
    <3> QED BY <2>1, <3>1
  <2>5. CASE t \notin disturbed
    <3>1. disturbed' = disturbed
      BY <1>1, <2>5
    <3> QED BY <1>1, <1>2, <2>1, <2>3, <2>4, <2>5, <3>1, PromiseTakes
  <2>6. CASE t \in disturbed
    <3>1. PICK more \in Seq(Shown) : more = <<>> /\ DOMAIN more = {}
      <4>1. <<>> \in Seq(Shown) /\ DOMAIN <<>> = {}
        OBVIOUS
      <4> QED BY <4>1
    <3>2. Select(more, {}) = <<>>
      <4>1. Cardinality({}) = 0
        BY FS_EmptySet
      <4> QED BY <4>1 DEF Select
    <3>3. SubSeq(Written(ns), 0 + 1, Len(Written(ns))) = Select(more, {})
      <4>1. SubSeq(<<>>, 0 + 1, Len(<<>>)) = <<>>
        BY SubSeqEmpty
      <4> QED BY <2>3, <3>2, <4>1
    <3>4. {} \in SUBSET DOMAIN more /\ 0 \in 0 .. 1
      OBVIOUS
    <3>5. Taken(write_queue', t) = Taken(write_queue, t) \o more
      BY <2>4, <3>1
    <3>6. \A x \in Tag \ {t} : Taken(write_queue', x) = Taken(write_queue, x)
      BY <2>1
    <3> QED BY <1>1, <1>2, <1>3, <2>6, <3>3, <3>4, <3>5, <3>6, PromiseTakesDisturbed
  <2> QED BY <2>5, <2>6
<1>5. CASE enable_writes
  <2>1. /\ Swallowed(t) \in 0 .. Len(ns) /\ forwarded \in Seq(Notification)
    BY <1>1, ForwardedType
  <2>2. writes \in Seq(Write) /\ \A i \in DOMAIN writes : writes[i].tag = t
    <3>1. writes \in Seq(Write)
      <4> HIDE DEF forwarded
      <4> QED BY <2>1, WritesType
    <3>2. \A i \in DOMAIN writes : writes[i].tag = t
      BY DEF WriteOf
    <3> QED BY <3>1, <3>2
  <2>3. write_queue' = write_queue \o writes
    BY <1>5 DEF Publish
  <2>4. Values(writes) = Values(forwarded)
    <3>1. PICK m \in Nat : DOMAIN forwarded = 1 .. m /\ DOMAIN writes = 1 .. m
      <4>1. PICK m \in Nat : DOMAIN forwarded = 1 .. m
        <5> HIDE DEF forwarded
        <5> QED BY <2>1
      <4> QED BY <4>1
    <3>2. \A i \in 1 .. m : writes[i].value = forwarded[i].value
      BY <3>1 DEF WriteOf
    <3> HIDE DEF forwarded, writes
    <3> QED BY <3>1, <3>2 DEF Values
  <2>5. Swallowed(t) \in 0 .. 2 /\ (Swallowed(t) = 2 => ns[1].src # "client")
    <3>1. Swallowed(t) \in 0 .. 2 /\ (Swallowed(t) = 2 => t \notin initialized_nodes)
      BY DEF Swallowed, First
    <3>2. t \in monitored
      BY <1>1 DEF SoundInv
    <3>3. t \notin initialized_nodes => ns[1].src = "initial"
      BY <1>5, <3>2 DEF SoundInv
    <3> QED BY <3>1, <3>3
  <2>6. t \notin disturbed => \A j \in DOMAIN ns : j <= Swallowed(t) => ns[j].src # "client"
    BY <1>1, <1>5, ForwardsClients
  <2>7. PICK lost \in 0 .. 1 :
          /\ t \notin disturbed => lost = 0
          /\ OfClients(forwarded) = SubSeq(OfClients(ns), lost + 1, Len(OfClients(ns)))
    <3>1. PICK s \in 0 .. 2 : s = Swallowed(t) /\ s <= Len(ns)
      BY <1>1, <2>1, <2>5
    <3>2. PICK lost \in 0 .. 1 :
             /\ (\A j \in DOMAIN ns : j <= s => ns[j].src # "client") => lost = 0
             /\ OfClients(SubSeq(ns, s + 1, Len(ns)))
                  = SubSeq(OfClients(ns), lost + 1, Len(OfClients(ns)))
      BY <1>1, <2>5, <3>1, LosesOldest
    <3> QED BY <2>6, <3>1, <3>2
  <2> HIDE DEF forwarded, writes
  <2>8. PICK more \in Seq(Shown) : more = Values(forwarded)
    BY <2>1, ValuesType
  <2>9. Taken(write_queue', t) = Taken(write_queue, t) \o more
    <3>1. OfNode(write_queue', t) = OfNode(write_queue, t) \o writes
      BY <1>1, <2>2, <2>3, OfNodeJoined
    <3>2. Values(OfNode(write_queue, t) \o writes) = Values(OfNode(write_queue, t)) \o Values(writes)
      BY <2>2, AcceptedType, ValuesJoined
    <3> QED BY <2>4, <2>8, <3>1, <3>2 DEF Taken
  <2>10. \A x \in Tag \ {t} : Taken(write_queue', x) = Taken(write_queue, x)
    BY <1>1, <2>2, <2>3, OfNodeJoined DEF Taken
  <2>11. Values(OfClients(forwarded)) = SubSeq(Written(ns), lost + 1, Len(Written(ns)))
    BY <1>3, <2>7, ValuesBeyond DEF Written
  <2>12. CASE t \notin disturbed
    <3>1. SubSeq(OfClients(ns), lost + 1, Len(OfClients(ns))) = OfClients(ns)
      <4>1. lost + 1 = 1
        BY <2>7, <2>12
      <4>2. SubSeq(OfClients(ns), 1, Len(OfClients(ns))) = OfClients(ns)
        BY <1>3, SubSeqFull
      <4> QED BY <4>1, <4>2
    <3>2. OfClients(forwarded) = forwarded
      <4>1. \A i \in DOMAIN forwarded : forwarded[i].src = "client"
        <5>1. \A i \in DOMAIN forwarded : /\ i + Swallowed(t) \in 1 .. Len(ns)
                                          /\ forwarded[i] = ns[i + Swallowed(t)]
          BY <1>1, ForwardedType DEF forwarded
        <5>2. \A j \in DOMAIN ns : j > Swallowed(t) => ns[j].src = "client"
          BY <1>1, <1>5, <2>12, ForwardsClients
        <5>3. \A i \in DOMAIN forwarded : i \in Nat \ {0}
          BY <2>1
        <5>4. \A i \in Nat \ {0} : i + Swallowed(t) > Swallowed(t)
          BY <2>5
        <5>5. DOMAIN ns = 1 .. Len(ns)
          BY <1>1
        <5> QED BY <5>1, <5>2, <5>3, <5>4, <5>5
      <4> QED BY <2>1, <4>1, OfClientsAll
    <3>3. more = Written(ns)
      BY <2>7, <2>8, <3>1, <3>2 DEF Written
    <3>4. disturbed' = disturbed
      BY <1>1, <2>12
    <3> QED BY <1>1, <1>2, <2>9, <2>10, <2>12, <3>3, <3>4, PromiseTakes
  <2>13. CASE t \in disturbed
    <3> DEFINE places == {i \in DOMAIN forwarded : forwarded[i].src = "client"}
    <3>1. places \in SUBSET DOMAIN more /\ Values(OfClients(forwarded)) = Select(more, places)
      <4>1. PICK m \in Nat : DOMAIN forwarded = 1 .. m
        BY <2>1
      <4>2. DOMAIN more = 1 .. m /\ \A i \in 1 .. m : more[i] = forwarded[i].value
        BY <2>8, <4>1 DEF Values
      <4>3. places \in SUBSET Nat /\ IsFiniteSet(places)
        <5>1. IsFiniteSet(1 .. m)
          BY FS_Interval
        <5> QED BY <4>1, <5>1, FS_Subset
      <4>4. PICK c \in Nat : c = Cardinality(places)
        BY <4>3, FS_CardinalityType
      <4>5. \A n \in 1 .. c : Nth(places, n) \in 1 .. m
        <5>1. \A n \in 1 .. c : Nth(places, n) \in places
          BY <4>3, <4>4, NthIsMember
        <5> QED BY <4>1, <5>1
      <4>6. OfClients(forwarded) = [n \in 1 .. c |-> forwarded[Nth(places, n)]]
        BY <4>4 DEF OfClients, Select
      <4>7. Values(OfClients(forwarded)) = [n \in 1 .. c |-> forwarded[Nth(places, n)].value]
        BY <4>6 DEF Values
      <4>8. Select(more, places) = [n \in 1 .. c |-> more[Nth(places, n)]]
        BY <4>4 DEF Select
      <4>9. places \in SUBSET DOMAIN more
        BY <4>1, <4>2
      <4> HIDE DEF places
      <4>10. \A n \in 1 .. c : more[Nth(places, n)] = forwarded[Nth(places, n)].value
        BY <4>2, <4>5
      <4> QED BY <4>7, <4>8, <4>9, <4>10
    <3>2. PICK p \in SUBSET DOMAIN more :
            SubSeq(Written(ns), lost + 1, Len(Written(ns))) = Select(more, p)
      BY <2>11, <3>1
    <3>3. disturbed' \in {disturbed, disturbed \ {t}}
      BY <1>1
    <3> QED BY <1>1, <1>2, <1>3, <2>9, <2>10, <2>13, <3>2, <3>3, PromiseTakesDisturbed
  <2> QED BY <2>12, <2>13
<1> QED BY <1>4, <1>5

\* Every step of the write path is one of the promise, or none.
LEMMA PromiseNext ==
    ASSUME TypeOK, TypeOK', SoundInv, WritesDisabledSilent, [Next]_vars
    PROVE  [Promise!Next]_(Promise!vars)
<1>1. CASE UNCHANGED <<write_queue, notifications, offered, disturbed>>
  BY <1>1, PromiseStutters
<1>2. ASSUME NEW t \in Tag, NEW v \in Value \ (Unwritable \cup Stringified), ClientWrite(t, v)
      PROVE  [Promise!Next]_(Promise!vars)
  <2>1. UNCHANGED <<write_queue, offered, disturbed>> /\ Grows({t}, "client")
    BY <1>2, ClientWriteGrows DEF ClientWrite
  <2>2. \A x \in Tag \ {t} : notifications'[x] = notifications[x]
    BY <2>1 DEF Grows
  <2>3. CASE notifications'[t] = notifications[t]
    <3>1. \A x \in Tag : Written(notifications'[x]) = Written(notifications[x])
      BY <2>2, <2>3
    <3> QED BY <2>1, <3>1, PromiseStutters
  <2>4. CASE notifications'[t] # notifications[t]
    <3>1. PICK n \in Notification :
             n.src = "client" /\ notifications'[t] = Append(notifications[t], n)
      BY <2>1, <2>4 DEF Grows
    <3>2. n.value \in Shown
      BY ValueType
    <3>3. Written(notifications'[t]) = Append(Written(notifications[t]), n.value)
      BY <3>1, ClientGrowth
    <3> QED BY <2>1, <2>2, <3>2, <3>3, PromiseAccepts
  <2> QED BY <2>3, <2>4
<1>3. CASE ProcessDaEvent
  <2>1. UNCHANGED <<write_queue, offered>>
    BY <1>3 DEF ProcessDaEvent
  <2>2. PICK S, src : src # "client" /\ Grows(S, src)
    BY <1>3, EventGrows
  <2>3. \A t \in Tag : Written(notifications'[t]) = Written(notifications[t])
    BY <2>2, ForeignGrowth DEF Grows
  <2>4. disturbed \subseteq disturbed'
    BY <1>3 DEF ProcessDaEvent, OnDataChange, OnNewTags, OnRemovedTags
  <2>5. disturbed' \subseteq Tag
    BY DEF TypeOK
  <2> QED BY <2>1, <2>3, <2>4, <2>5, PromiseDisturbs
<1>4. ASSUME NEW t \in Tag, Publish(t) PROVE [Promise!Next]_(Promise!vars)
  BY <1>4, PublishTakes
<1>5. CASE DrainWrite
  BY <1>5, DrainOffers
<1> QED BY <1>1, <1>2, <1>3, <1>4, <1>5 DEF Next, vars, DaEvent

LEMMA PromiseInit == Init => Promise!Init
<1> SUFFICES ASSUME Init PROVE Promise!Init
  OBVIOUS
<1>1. write_queue = <<>> /\ offered = <<>> /\ disturbed = {} /\ TypeOK
  BY InitType DEF Init
<1>2. ASSUME NEW t \in Tag PROVE Values(OfClients(notifications[t])) = <<>>
  <2>1. notifications[t] \in Seq(Notification)
    BY <1>1 DEF TypeOK
  <2>2. \A i \in DOMAIN notifications[t] : notifications[t][i].src # "client"
    <3>1. CASE t \notin monitored
      BY <3>1 DEF Init
    <3>2. CASE t \in monitored
      <4>1. PICK n : notifications[t] = <<n>> /\ n.src = "initial"
        BY <3>2 DEF Init
      <4> QED BY <4>1
    <3> QED BY <3>1, <3>2
  <2>3. OfClients(notifications[t]) = <<>>
    BY <2>1, <2>2, OfClientsAll
  <2> QED BY <2>3 DEF Values
<1>3. ASSUME NEW t \in Tag PROVE Values(OfNode(write_queue, t)) = <<>>
  <2>1. {i \in DOMAIN <<>> : (<<>>)[i].tag = t} = {}
    OBVIOUS
  <2>2. Cardinality({}) = 0
    BY FS_EmptySet
  <2>3. OfNode(<<>>, t) = <<>>
    BY <2>1, <2>2 DEF OfNode, Select
  <2> QED BY <1>1, <2>3 DEF Values
<1>4. [i \in DOMAIN offered |-> [node |-> offered[i].tag, value |-> offered[i].value]] = <<>>
  BY <1>1
<1> QED BY <1>1, <1>2, <1>3, <1>4 DEF Promise!Init

\* The write path does what it promises, whatever the DA server and the clients do: a
\* client write that changes what its node shows is taken, and offered to the DA server
\* once and in the order of its node's writes, with nothing else among them.  Of a node
\* that is disturbed it may lose the oldest write of a publishing cycle, and no other,
\* and values nobody wrote may come among them.
THEOREM WritesGoThrough == Spec => WriteThroughSafely
<1>1. TypeOK /\ SoundInv /\ [Next]_vars => SoundInv'
  BY SoundNext
<1>2. TypeOK /\ TypeOK' /\ SoundInv /\ WritesDisabledSilent /\ [Next]_vars
        => [Promise!Next]_(Promise!vars)
  BY PromiseNext
<1> QED BY <1>1, <1>2, SoundInit, PromiseInit, TypeCorrect, DisabledIsSilent, PTL
        DEF Spec, WriteThroughSafely
=============================================================================
