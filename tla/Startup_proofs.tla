---------------------------- MODULE Startup_proofs ----------------------------
(***************************************************************************)
(* Theorems about startup, for every set of tags, every size of a chunk and*)
(* of a group, every timeout and any number of faults: nothing is subscribed*)
(* before the nodes exist, and what is handed over to the steady loop is a *)
(* state its model starts from.                                            *)
(***************************************************************************)
EXTENDS Startup, SequenceTheorems, FiniteSetTheorems, TLAPS

USE DEF Group, serverVars, configVars, groupVars, daVars, mainVars, queueVars

\* What the queue of events is made of.
Types ==
    /\ published \subseteq Tag
    /\ todo \subseteq Tag
    /\ tag_values \subseteq Tag
    /\ subscribed_tag_groups \in [Group -> SUBSET Tag]
    /\ da_to_main \in Seq(Event)

\* Why no group can be subscribed too early: until the main thread serves it has
\* said nothing to the DA thread, which waits for that.
Handshake ==
    main_pc \in {"waiting", "creating", "ready"} =>
      main_to_da = <<>> /\ da_pc \notin {"subscribing", "live"}

NodesInv == Types /\ Handshake /\ NodesFirst

-----------------------------------------------------------------------------

\* The events are told apart by their type.
LEMMA EventTypes ==
    /\ Progress \in Event /\ Progress.type # "data_change"
    /\ Error \in Event /\ Error.type # "data_change"
    /\ \A S \in SUBSET Tag : Discovered(S) \in Event /\ Discovered(S).type # "data_change"
    /\ \A S \in SUBSET Tag : DataChange(S) \in Event
BY DEF Event, Progress, Error, Discovered, DataChange

\* A queue without a data change.
Quiet(q) == \A i \in 1 .. Len(q) : q[i].type # "data_change"

\* Putting events keeps the queue well typed, and without data changes if the
\* new events are none.
LEMMA PutEvents ==
    ASSUME da_to_main \in Seq(Event), NEW events \in Seq(Event), Put(events)
    PROVE  /\ da_to_main' \in Seq(Event)
           /\ Quiet(da_to_main) /\ Quiet(events) => Quiet(da_to_main')
<1>1. da_to_main' = da_to_main \o events
  BY DEF Put
<1>2. da_to_main' \in Seq(Event) /\ Len(da_to_main') = Len(da_to_main) + Len(events)
  BY <1>1
<1>3. \A i \in 1 .. Len(da_to_main') :
        da_to_main'[i] = IF i <= Len(da_to_main) THEN da_to_main[i] ELSE events[i - Len(da_to_main)]
  BY <1>1
<1>4. ASSUME Quiet(da_to_main), Quiet(events), NEW i \in 1 .. Len(da_to_main')
      PROVE  da_to_main'[i].type # "data_change"
  <2>1. CASE i <= Len(da_to_main)
    BY <2>1, <1>2, <1>3, <1>4 DEF Quiet
  <2>2. CASE i > Len(da_to_main)
    <3>1. i - Len(da_to_main) \in 1 .. Len(events)
      BY <2>2, <1>2
    <3> QED BY <3>1, <2>2, <1>2, <1>3, <1>4 DEF Quiet
  <2> QED BY <2>1, <2>2, <1>2
<1> QED BY <1>2, <1>4 DEF Quiet

\* What the DA thread puts, other than data changes.
LEMMA QuietEvents ==
    /\ <<>> \in Seq(Event) /\ Quiet(<<>>)
    /\ <<Progress>> \in Seq(Event) /\ Quiet(<<Progress>>)
    /\ <<Error>> \in Seq(Event) /\ Quiet(<<Error>>)
    /\ <<>> \o <<Error>> \in Seq(Event) /\ Quiet(<<>> \o <<Error>>)
    /\ <<Progress>> \o <<Error>> \in Seq(Event) /\ Quiet(<<Progress>> \o <<Error>>)
    /\ \A S \in SUBSET Tag : /\ <<Progress, Discovered(S)>> \in Seq(Event)
                             /\ Quiet(<<Progress, Discovered(S)>>)
BY EventTypes DEF Quiet

\* A queue that is taken from stays well typed and gets no data change.
LEMMA TakeEvents ==
    ASSUME da_to_main \in Seq(Event), da_to_main # <<>>, da_to_main' = Tail(da_to_main)
    PROVE  /\ da_to_main' \in Seq(Event)
           /\ Quiet(da_to_main) => Quiet(da_to_main')
BY DEF Quiet

-----------------------------------------------------------------------------

LEMMA InitNodes == Init => NodesInv
BY QuietEvents DEF Init, NodesInv, Types, Handshake, NodesFirst, Quiet

\* The server and the clock change neither the groups nor the queues.
LEMMA EnvironmentNodes ==
    ASSUME NodesInv, ServerStops \/ ServerStarts \/ ServerLoads \/ CallTakesLong \/ Hangs
    PROVE  NodesInv'
<1>1. CASE ServerStops
  BY <1>1 DEF NodesInv, Types, Handshake, NodesFirst, ServerStops
<1>2. CASE ServerStarts
  BY <1>2 DEF NodesInv, Types, Handshake, NodesFirst, ServerStarts
<1>3. CASE ServerLoads
  BY <1>3 DEF NodesInv, Types, Handshake, NodesFirst, ServerLoads
<1>4. CASE CallTakesLong
  BY <1>4 DEF NodesInv, Types, Handshake, NodesFirst, CallTakesLong
<1>5. CASE Hangs
  BY <1>5 DEF NodesInv, Types, Handshake, NodesFirst, Hangs
<1> QED BY <1>1, <1>2, <1>3, <1>4, <1>5

\* A step of the DA thread that leaves the groups alone, puts quiet events and
\* does not begin to subscribe.
LEMMA QuietStep ==
    ASSUME NodesInv, NEW events \in Seq(Event), Quiet(events), Put(events),
           UNCHANGED <<published, subscribed_tag_groups, main_pc, main_to_da>>,
           todo' \subseteq Tag, tag_values' \subseteq Tag,
           da_pc' \in {"subscribing", "live"} => da_pc \in {"subscribing", "live"}
    PROVE  NodesInv'
<1>1. /\ da_to_main' \in Seq(Event)
      /\ Quiet(da_to_main) => Quiet(da_to_main')
  BY PutEvents DEF NodesInv, Types
<1> QED BY <1>1 DEF NodesInv, Types, Handshake, NodesFirst, Quiet

\* The same for a step that puts nothing.
LEMMA SilentStep ==
    ASSUME NodesInv,
           UNCHANGED <<published, subscribed_tag_groups, main_pc, main_to_da, da_to_main>>,
           todo' \subseteq Tag, tag_values' \subseteq Tag,
           da_pc' \in {"subscribing", "live"} => da_pc \in {"subscribing", "live"}
    PROVE  NodesInv'
BY DEF NodesInv, Types, Handshake, NodesFirst

\* The steps of the DA thread up to the handshake, and its end.
LEMMA DaThreadNodes ==
    ASSUME NodesInv,
           \/ Connect \/ Attempt \/ DiscoverySucceeds \/ DiscoveryFails \/ Sleep \/ Reconnect
           \/ SkipRead \/ ReadChunk \/ Describe \/ GoLive \/ Heartbeat \/ LeaveLoop
    PROVE  NodesInv'
<1> USE DEF NodesInv, Types
<1>1. CASE Connect
  BY <1>1, QuietStep, QuietEvents DEF Connect, End
<1>2. CASE Attempt
  BY <1>2, QuietStep, QuietEvents DEF Attempt, End
<1>3. CASE DiscoverySucceeds
  BY <1>3, SilentStep DEF DiscoverySucceeds
<1>4. CASE DiscoveryFails
  BY <1>4, QuietStep, QuietEvents DEF DiscoveryFails, End
<1>5. CASE Sleep
  <2>1. CASE da_thread_active
    BY <1>5, <2>1, SilentStep DEF Sleep
  <2>2. CASE ~da_thread_active
    BY <1>5, <2>2, QuietStep, QuietEvents DEF Sleep, End
  <2> QED BY <2>1, <2>2
<1>6. CASE Reconnect
  BY <1>6, SilentStep DEF Reconnect
<1>7. CASE SkipRead
  BY <1>7, QuietStep, QuietEvents DEF SkipRead
<1>8. CASE ReadChunk
  <2>1. PICK chunk \in Chunks(todo, ReadSize) :
          /\ \/ tag_values' = tag_values \cup chunk
             \/ tag_values' = tag_values
             \/ \E ok \in (SUBSET chunk) \ {chunk} : tag_values' = tag_values \cup ok
          /\ todo' = todo \ chunk
    BY <1>8 DEF ReadChunk
  <2>2. chunk \subseteq Tag
    BY DEF Chunks
  <2>3. tag_values' \subseteq Tag /\ todo' \subseteq Tag
    BY <2>1, <2>2
  <2> QED BY <1>8, <2>3, QuietStep, QuietEvents DEF ReadChunk
<1>9. CASE Describe
  BY <1>9, QuietStep, QuietEvents DEF Describe
<1>10. CASE GoLive
  BY <1>10, QuietStep, QuietEvents DEF GoLive
<1>11. CASE LeaveLoop
  BY <1>11, QuietStep, QuietEvents DEF LeaveLoop, End
<1>12. CASE Heartbeat
  BY <1>12, SilentStep DEF Heartbeat
<1> QED BY <1>1, <1>2, <1>3, <1>4, <1>5, <1>6, <1>7, <1>8, <1>9, <1>10, <1>11, <1>12

\* The handshake itself, and what comes after it: the main thread serves, or has
\* stopped.
LEMMA SubscribingNodes ==
    ASSUME NodesInv, AwaitReady \/ SubscribeGroup \/ \E g \in Group : OnDaChanges(g)
    PROVE  NodesInv'
<1>1. CASE AwaitReady
  <2>1. CASE da_thread_active
    BY <1>1, <2>1 DEF AwaitReady, NodesInv, Types, Handshake, NodesFirst
  <2>2. CASE ~da_thread_active
    BY <1>1, <2>2, QuietStep, QuietEvents DEF AwaitReady, End, NodesInv, Types
  <2> QED BY <2>1, <2>2
<1>2. CASE SubscribeGroup
  <2>1. PICK chunk \in Chunks(todo, GroupSize) \ {{}} :
          /\ todo' = todo \ chunk
          /\ \/ /\ subscribed_tag_groups' = [subscribed_tag_groups EXCEPT ![next_group_id] = chunk]
                /\ Put(<<Progress>>)
             \/ UNCHANGED <<subscribed_tag_groups, da_to_main>>
    BY <1>2 DEF SubscribeGroup
  <2>2. chunk \subseteq Tag
    BY DEF Chunks, NodesInv, Types
  <2>3. da_to_main' \in Seq(Event)
    BY <2>1, PutEvents, QuietEvents DEF NodesInv, Types
  <2>4. Types'
    BY <1>2, <2>1, <2>2, <2>3 DEF SubscribeGroup, NodesInv, Types
  <2>5. main_pc' \notin {"waiting", "creating", "ready"}
    BY <1>2 DEF SubscribeGroup, NodesInv, Handshake
  <2> QED BY <2>4, <2>5 DEF NodesInv, Handshake, NodesFirst
<1>3. ASSUME NEW g \in Group, OnDaChanges(g)
      PROVE  NodesInv'
  <2>1. main_pc' \notin {"waiting", "creating", "ready"}
    BY <1>3 DEF OnDaChanges, FirstValuesDue, NodesInv, NodesFirst
  <2>2. <<DataChange(subscribed_tag_groups[g])>> \in Seq(Event)
    BY EventTypes DEF NodesInv, Types
  <2>3. da_to_main' \in Seq(Event)
    BY <1>3, <2>2, PutEvents DEF OnDaChanges, NodesInv, Types
  <2> QED BY <1>3, <2>1, <2>3 DEF OnDaChanges, NodesInv, Types, Handshake, NodesFirst
<1> QED BY <1>1, <1>2, <1>3

\* The main thread speaks to the DA thread only as it leaves start().
LEMMA MainNodes ==
    ASSUME NodesInv, TakeEvent \/ GiveUp \/ CreateNodes \/ Serve \/ ProcessEvent \/ Stop \/ Exit
    PROVE  NodesInv'
<1> USE DEF NodesInv, Types, Handshake, NodesFirst
<1>1. CASE TakeEvent
  BY <1>1, TakeEvents DEF TakeEvent, Quiet
<1>2. CASE GiveUp
  BY <1>2 DEF GiveUp
<1>3. CASE CreateNodes
  BY <1>3 DEF CreateNodes
<1>4. CASE Serve
  BY <1>4 DEF Serve
<1>5. CASE ProcessEvent
  BY <1>5, TakeEvents DEF ProcessEvent
<1>6. CASE Stop
  BY <1>6 DEF Stop
<1>7. CASE Exit
  BY <1>7 DEF Exit
<1> QED BY <1>1, <1>2, <1>3, <1>4, <1>5, <1>6, <1>7

LEMMA NextNodes == NodesInv /\ [Next]_vars => NodesInv'
<1> SUFFICES ASSUME NodesInv, [Next]_vars PROVE NodesInv'
  OBVIOUS
<1>1. CASE UNCHANGED vars
  BY <1>1 DEF vars, NodesInv, Types, Handshake, NodesFirst
<1> QED BY <1>1, EnvironmentNodes, DaThreadNodes, SubscribingNodes, MainNodes DEF Next

\* Nothing is subscribed and no data change is on its way before the nodes exist
\* and the write handler listens (start() and _da_thread_main, ua_server.py).
THEOREM NodesComeFirst == Spec => []NodesFirst
<1>1. NodesInv => NodesFirst
  BY DEF NodesInv
<1> QED BY <1>1, InitNodes, NextNodes, PTL DEF Spec

-----------------------------------------------------------------------------
(* What the startup hands over to the steady loop.                          *)

\* The DA thread has not begun to subscribe, and may still.
Before == {"connecting", "attempt", "discovering", "sleeping", "reconnecting",
           "reading", "describing", "awaiting"}

\* It has listed the tags and goes on with the client it listed them with.
Listed == {"reading", "describing", "awaiting", "subscribing", "live"}

\* A session that lasts sees no tag disappear: what was listed is published.
Loaded ==
    /\ session \in BOOLEAN
    /\ session => server = "up"
    /\ session /\ da_pc \in Listed =>
         published # {} /\ todo \subseteq published /\ tag_values \subseteq published

\* The progress of the DA thread in its tables.
Progresses ==
    /\ da_pc \in Before => next_group_id = 0 /\ subscribed_tag_groups = [g \in Group |-> {}]
    /\ da_pc \in Before \ {"reading", "describing", "awaiting"} => tag_values = {}
    /\ da_pc \in {"describing", "awaiting", "live"} => todo = {}
    /\ da_pc = "subscribing" => todo \subseteq tag_values

\* The tags whose group was tried are divided among the numbers below n, of
\* which some failed.
Divided(done, n, groups) ==
    /\ n \in 0 .. Cardinality(done)
    /\ \E group_of \in [done -> Group], failed \in SUBSET (0 .. n - 1) :
         /\ {group_of[t] : t \in done} = 0 .. n - 1
         /\ groups = [g \in Group |-> {t \in done : group_of[t] = g /\ g \notin failed}]

HandsInv ==
    /\ NodesInv
    /\ Loaded
    /\ Progresses
    /\ da_pc \in {"subscribing", "live"} =>
         Divided(tag_values \ todo, next_group_id, subscribed_tag_groups)

LEMMA InitHands == Init => HandsInv
BY InitNodes DEF Init, HandsInv, Loaded, Progresses, Before, Listed

\* The invariant is the loop's starting point.
LEMMA HandsHandOver == HandsInv => HandsOver
<1> SUFFICES ASSUME HandsInv, da_pc = "live", session PROVE Steady!Init
  BY DEF HandsOver
<1>1. /\ server = "up" /\ session = TRUE
      /\ published # {} /\ published \subseteq Tag /\ tag_values \subseteq published
      /\ Divided(tag_values, next_group_id, subscribed_tag_groups)
  <2>1. todo = {} /\ tag_values \ todo = tag_values
    BY DEF HandsInv, Progresses
  <2> QED BY <2>1 DEF HandsInv, NodesInv, Types, Loaded, Listed
<1>3. PICK group_of \in [tag_values -> Group], failed \in SUBSET (0 .. next_group_id - 1) :
        /\ {group_of[t] : t \in tag_values} = 0 .. next_group_id - 1
        /\ subscribed_tag_groups =
             [g \in Group |-> {t \in tag_values : group_of[t] = g /\ g \notin failed}]
  BY <1>1 DEF Divided
<1>4. /\ Cardinality(tag_values) \in Nat /\ Cardinality(Tag) \in Nat
      /\ Cardinality(tag_values) <= Cardinality(Tag)
  <2>1. IsFiniteSet(Tag) /\ tag_values \subseteq Tag
    BY <1>1, SizeAssumption
  <2> QED BY <2>1, FS_Subset, FS_CardinalityType
<1>5. next_group_id \in 0 .. Cardinality(Tag)
  BY <1>1, <1>4 DEF Divided
<1> DEFINE mirror == [g \in 0 .. Cardinality(Tag) |-> IF g \in Group THEN subscribed_tag_groups[g] ELSE {}]
           tags_of(g) == {t \in tag_values : group_of[t] = g /\ g \notin failed}
<1>6. group_of \in [tag_values -> 0 .. Cardinality(Tag)] /\ failed \in SUBSET (0 .. Cardinality(Tag))
  BY <1>4, <1>5
<1>7. mirror = [g \in 0 .. Cardinality(Tag) |-> tags_of(g)]
  <2>1. ASSUME NEW g \in 0 .. Cardinality(Tag)
        PROVE  (IF g \in Group THEN subscribed_tag_groups[g] ELSE {}) = tags_of(g)
    <3>1. CASE g \in Group
      BY <1>3, <3>1
    <3>2. CASE g \notin Group
      <4>1. \A t \in tag_values : group_of[t] # g
        BY <3>2, <1>3
      <4> QED BY <3>2, <4>1
    <3> QED BY <3>1, <3>2
  <2> QED BY <2>1
<1>8. /\ {g \in Group : FirstValuesDue(g)} \in SUBSET {g \in 0 .. Cardinality(Tag) : mirror[g] # {}}
      /\ UNION {subscribed_tag_groups[g] : g \in Group} = UNION {mirror[g] : g \in 0 .. Cardinality(Tag)}
  <2>1. \A g \in Group : g \in 0 .. Cardinality(Tag) /\ mirror[g] = subscribed_tag_groups[g]
    BY <1>4
  <2>2. \A g \in 0 .. Cardinality(Tag) : g \notin Group => mirror[g] = {}
    OBVIOUS
  <2> HIDE DEF mirror
  <2>3. {g \in Group : FirstValuesDue(g)} \in SUBSET {g \in 0 .. Cardinality(Tag) : mirror[g] # {}}
    BY <2>1 DEF FirstValuesDue
  <2>4. UNION {subscribed_tag_groups[g] : g \in Group} = UNION {mirror[g] : g \in 0 .. Cardinality(Tag)}
    BY <2>1, <2>2
  <2> QED BY <2>3, <2>4
<1>9. published \in (SUBSET Tag) \ {{}} /\ tag_values \in SUBSET published
  BY <1>1
<1> HIDE DEF mirror, tags_of
<1>10. \E G \in [tag_values -> 0 .. Cardinality(Tag)] :
         /\ {G[t] : t \in tag_values} = 0 .. next_group_id - 1
         /\ \E F \in SUBSET (0 .. Cardinality(Tag)) :
              mirror = [g \in 0 .. Cardinality(Tag) |-> {t \in tag_values : G[t] = g /\ g \notin F}]
  BY <1>3, <1>6, <1>7 DEF tags_of
<1> QED BY <1>1, <1>5, <1>8, <1>9, <1>10
        DEF Steady!Init, Steady!Group, Steady!Heard, Steady!Tracked, mirror

\* A step that leaves the tables of the DA thread alone, and at most ends its
\* session or cuts it off.
LEMMA SameHands ==
    ASSUME HandsInv, NodesInv', UNCHANGED <<todo, tag_values, subscribed_tag_groups, next_group_id>>,
           da_pc' = da_pc \/ da_pc' \in {"hung", "ended", "killed"},
           session' = session \/ session' = FALSE,
           session' => server' = server /\ published \subseteq published'
    PROVE  HandsInv'
<1>1. Loaded'
  <2>1. CASE session' = FALSE
    BY <2>1 DEF Loaded
  <2>2. CASE session' = session
    BY <2>2 DEF HandsInv, Loaded, Listed
  <2> QED BY <2>1, <2>2
<1>2. Progresses'
  BY DEF HandsInv, Progresses, Before
<1>3. da_pc' \in {"subscribing", "live"} =>
        Divided(tag_values' \ todo', next_group_id', subscribed_tag_groups')
  BY DEF HandsInv
<1> QED BY <1>1, <1>2, <1>3 DEF HandsInv

\* The same for the steps of the server, the clock and the main thread, and for
\* the data changes.
LEMMA OthersHands ==
    ASSUME HandsInv, NodesInv',
           \/ ServerStops \/ ServerStarts \/ ServerLoads \/ CallTakesLong \/ Hangs
           \/ Heartbeat \/ \E g \in Group : OnDaChanges(g)
           \/ TakeEvent \/ GiveUp \/ CreateNodes \/ Serve \/ ProcessEvent \/ Stop \/ Exit
    PROVE  HandsInv'
<1>1. CASE ServerStops
  BY <1>1, SameHands DEF ServerStops
<1>2. CASE ServerStarts
  <2>1. ~session
    BY <1>2 DEF ServerStarts, HandsInv, Loaded
  <2> QED BY <1>2, <2>1, SameHands DEF ServerStarts
<1>3. CASE ServerLoads
  BY <1>3, SameHands DEF ServerLoads
<1>4. CASE CallTakesLong
  BY <1>4, SameHands DEF CallTakesLong
<1>5. CASE Hangs
  BY <1>5, SameHands DEF Hangs
<1>6. ASSUME NEW g \in Group, OnDaChanges(g) PROVE HandsInv'
  BY <1>6, SameHands DEF OnDaChanges
<1>7. CASE TakeEvent
  BY <1>7, SameHands DEF TakeEvent
<1>8. CASE GiveUp
  BY <1>8, SameHands DEF GiveUp
<1>9. CASE CreateNodes
  BY <1>9, SameHands DEF CreateNodes
<1>10. CASE Serve
  BY <1>10, SameHands DEF Serve
<1>11. CASE ProcessEvent
  BY <1>11, SameHands DEF ProcessEvent
<1>12. CASE Stop
  BY <1>12, SameHands DEF Stop
<1>13. CASE Exit
  BY <1>13, SameHands DEF Exit
<1>14. CASE Heartbeat
  BY <1>14, SameHands DEF Heartbeat
<1> QED
  BY <1>1, <1>2, <1>3, <1>4, <1>5, <1>6, <1>7, <1>8, <1>9, <1>10, <1>11, <1>12, <1>13, <1>14

\* The DA thread ends, having closed its client.
LEMMA EndHands ==
    ASSUME HandsInv, NodesInv', NEW events, End(events)
    PROVE  HandsInv'
BY SameHands DEF End

\* Before it subscribes, a step that numbers no group.
LEMMA BeforeHands ==
    ASSUME HandsInv, NodesInv', UNCHANGED <<subscribed_tag_groups, next_group_id>>,
           da_pc \in Before, da_pc' \in Before, Progresses', Loaded'
    PROVE  HandsInv'
BY DEF HandsInv, Before

LEMMA DiscoveryHands ==
    ASSUME HandsInv, NodesInv',
           \/ Connect \/ Attempt \/ DiscoverySucceeds \/ DiscoveryFails \/ Sleep \/ Reconnect
    PROVE  HandsInv'
<1> USE DEF HandsInv, Progresses, Loaded, Before, Listed
<1>1. CASE Connect
  <2>1. CASE da_pc' = "ended"
    BY <1>1, <2>1, EndHands DEF Connect
  <2>2. CASE da_pc' # "ended"
    BY <1>1, <2>2, BeforeHands DEF Connect, End
  <2> QED BY <2>1, <2>2
<1>2. CASE Attempt
  <2>1. CASE da_thread_active
    BY <1>2, <2>1, BeforeHands DEF Attempt
  <2>2. CASE ~da_thread_active
    BY <1>2, <2>2, EndHands DEF Attempt
  <2> QED BY <2>1, <2>2
<1>3. CASE DiscoverySucceeds
  BY <1>3, BeforeHands DEF DiscoverySucceeds
<1>4. CASE DiscoveryFails
  <2>1. CASE LastAttempt
    BY <1>4, <2>1, EndHands DEF DiscoveryFails
  <2>2. CASE ~LastAttempt
    BY <1>4, <2>2, BeforeHands DEF DiscoveryFails
  <2> QED BY <2>1, <2>2
<1>5. CASE Sleep
  <2>1. CASE da_thread_active
    BY <1>5, <2>1, BeforeHands DEF Sleep
  <2>2. CASE ~da_thread_active
    BY <1>5, <2>2, EndHands DEF Sleep
  <2> QED BY <2>1, <2>2
<1>6. CASE Reconnect
  BY <1>6, BeforeHands DEF Reconnect
<1> QED BY <1>1, <1>2, <1>3, <1>4, <1>5, <1>6

LEMMA ReadingHands ==
    ASSUME HandsInv, NodesInv', SkipRead \/ ReadChunk \/ Describe
    PROVE  HandsInv'
<1> USE DEF HandsInv, Progresses, Loaded, Before, Listed
<1>1. CASE SkipRead
  BY <1>1, BeforeHands DEF SkipRead
<1>2. CASE ReadChunk
  <2>1. PICK chunk \in Chunks(todo, ReadSize) :
          /\ \/ tag_values' = tag_values \cup chunk
             \/ tag_values' = tag_values
             \/ \E ok \in (SUBSET chunk) \ {chunk} : tag_values' = tag_values \cup ok
          /\ todo' = todo \ chunk
    BY <1>2 DEF ReadChunk
  <2>2. chunk \subseteq todo
    BY DEF Chunks
  <2>3. tag_values' \subseteq tag_values \cup todo /\ todo' \subseteq todo
    BY <2>1, <2>2
  <2> QED BY <1>2, <2>3, BeforeHands DEF ReadChunk
<1>3. CASE Describe
  BY <1>3, BeforeHands DEF Describe
<1> QED BY <1>1, <1>2, <1>3

\* How such a division is shown.
LEMMA ShowDivided ==
    ASSUME NEW done, NEW n \in 0 .. Cardinality(done), NEW groups,
           NEW group_of \in [done -> Group], NEW failed \in SUBSET (0 .. n - 1),
           \A t \in done : group_of[t] \in 0 .. n - 1,
           \A i \in 0 .. n - 1 : \E t \in done : group_of[t] = i,
           groups = [g \in Group |-> groups[g]],
           \A g \in Group : \A t :
             t \in groups[g] <=> t \in done /\ group_of[t] = g /\ g \notin failed
    PROVE  Divided(done, n, groups)
<1>1. {group_of[t] : t \in done} = 0 .. n - 1
  OBVIOUS
<1>2. \A g \in Group : groups[g] = {t \in done : group_of[t] = g /\ g \notin failed}
  OBVIOUS
<1>3. groups = [g \in Group |-> {t \in done : group_of[t] = g /\ g \notin failed}]
  BY <1>2
<1> QED BY <1>1, <1>3 DEF Divided

\* "ua_ready" is there: all tags are to be subscribed, and no number is given.
LEMMA AwaitHands ==
    ASSUME HandsInv, NodesInv', AwaitReady
    PROVE  HandsInv'
<1>1. CASE da_thread_active
  <2>1. Loaded' /\ Progresses'
    BY <1>1 DEF AwaitReady, HandsInv, Loaded, Progresses, Before, Listed
  <2>2. /\ tag_values' \ todo' = {}
        /\ next_group_id' = 0 /\ subscribed_tag_groups' = [g \in Group |-> {}]
    BY <1>1 DEF AwaitReady, HandsInv, Progresses, Before
  <2>3. Divided({}, 0, [g \in Group |-> {}])
    <3>1. Cardinality({}) = 0
      BY FS_EmptySet
    <3>2. PICK nowhere : nowhere = [t \in {} |-> 0]
      OBVIOUS
    <3>3. nowhere \in [{} -> Group] /\ 0 .. 0 - 1 = {}
      BY <3>2
    <3>4. 0 \in 0 .. Cardinality({}) /\ {} \in SUBSET (0 .. 0 - 1)
      BY <3>1
    <3> QED BY <3>3, <3>4, ShowDivided
  <2> QED BY <2>1, <2>2, <2>3 DEF HandsInv
<1>2. CASE ~da_thread_active
  BY <1>2, EndHands DEF AwaitReady
<1> QED BY <1>1, <1>2

\* The next chunk is tried under the next number.
LEMMA DividesMore ==
    ASSUME NEW done, NEW chunk, NEW n, NEW groups, Divided(done, n, groups),
           chunk # {}, chunk \cap done = {},
           NEW all \in SUBSET Tag, all = done \cup chunk, NEW m, m = n + 1, NEW more,
           more = [groups EXCEPT ![n] = chunk] \/ more = groups
    PROVE  Divided(all, m, more)
<1>1. PICK group_of \in [done -> Group], failed \in SUBSET (0 .. n - 1) :
        /\ {group_of[t] : t \in done} = 0 .. n - 1
        /\ groups = [g \in Group |-> {t \in done : group_of[t] = g /\ g \notin failed}]
  BY DEF Divided
<1>2. /\ Cardinality(done) \in Nat /\ Cardinality(all) \in Nat /\ Cardinality(Tag) \in Nat
      /\ Cardinality(done) < Cardinality(all) /\ Cardinality(all) <= Cardinality(Tag)
  <2>1. IsFiniteSet(Tag) /\ done \in SUBSET all /\ done # all
    BY SizeAssumption
  <2>2. IsFiniteSet(all) /\ Cardinality(all) <= Cardinality(Tag)
    BY <2>1, FS_Subset
  <2>3. /\ IsFiniteSet(done) /\ Cardinality(done) <= Cardinality(all)
        /\ Cardinality(all) # Cardinality(done)
    BY <2>1, <2>2, FS_Subset
  <2> QED BY <2>1, <2>2, <2>3, FS_CardinalityType
<1>3. n \in Group /\ m \in 0 .. Cardinality(all)
  BY <1>2 DEF Divided
<1>4. PICK new_of : new_of = [t \in all |-> IF t \in chunk THEN n ELSE group_of[t]]
  OBVIOUS
<1>5. /\ new_of \in [all -> Group]
      /\ \A t \in chunk : t \in all /\ new_of[t] = n
      /\ \A t \in done : t \in all /\ new_of[t] = group_of[t] /\ group_of[t] # n
  BY <1>1, <1>3, <1>4
<1>6. /\ \A t \in all : new_of[t] \in 0 .. m - 1
      /\ \A i \in 0 .. m - 1 : \E t \in all : new_of[t] = i
  <2>1. \A t \in done : group_of[t] \in 0 .. n - 1
    BY <1>1
  <2>2. \A i \in 0 .. n - 1 : \E t \in done : group_of[t] = i
    BY <1>1
  <2>3. \A i \in 0 .. m - 1 : i = n \/ i \in 0 .. n - 1
    BY <1>3
  <2> QED BY <1>3, <1>5, <2>1, <2>2, <2>3
<1>7. more = [g \in Group |-> more[g]]
  BY <1>1
<1>8. CASE more = [groups EXCEPT ![n] = chunk]
  <2>1. ASSUME NEW g \in Group, NEW t
        PROVE  t \in more[g] <=> t \in all /\ new_of[t] = g /\ g \notin failed
    <3>1. CASE g = n
      BY <1>1, <1>3, <1>5, <1>8, <3>1
    <3>2. CASE g # n
      BY <1>1, <1>5, <1>8, <3>2
    <3> QED BY <3>1, <3>2
  <2>2. failed \in SUBSET (0 .. m - 1)
    BY <1>3
  <2> QED BY <1>3, <1>5, <1>6, <1>7, <2>1, <2>2, ShowDivided
<1>9. CASE more = groups
  <2>1. PICK bad : bad = failed \cup {n}
    OBVIOUS
  <2>2. ASSUME NEW g \in Group, NEW t
        PROVE  t \in more[g] <=> t \in all /\ new_of[t] = g /\ g \notin bad
    <3>1. CASE g = n
      BY <1>1, <1>5, <1>9, <2>1, <3>1
    <3>2. CASE g # n
      BY <1>1, <1>5, <1>9, <2>1, <3>2
    <3> QED BY <3>1, <3>2
  <2>3. bad \in SUBSET (0 .. m - 1)
    BY <1>3, <2>1
  <2> QED BY <1>3, <1>5, <1>6, <1>7, <2>2, <2>3, ShowDivided
<1> QED BY <1>8, <1>9

LEMMA SubscribingHands ==
    ASSUME HandsInv, NodesInv', SubscribeGroup \/ GoLive \/ LeaveLoop
    PROVE  HandsInv'
<1>1. CASE SubscribeGroup
  <2>1. PICK chunk \in Chunks(todo, GroupSize) \ {{}} :
          /\ todo' = todo \ chunk
          /\ \/ subscribed_tag_groups' = [subscribed_tag_groups EXCEPT ![next_group_id] = chunk]
             \/ subscribed_tag_groups' = subscribed_tag_groups
    BY <1>1 DEF SubscribeGroup
  <2>2. chunk \subseteq todo /\ chunk # {} /\ todo \subseteq tag_values /\ tag_values \subseteq Tag
    BY <1>1 DEF Chunks, SubscribeGroup, HandsInv, Progresses, NodesInv, Types
  <2>3. tag_values' \ todo' = (tag_values \ todo) \cup chunk
    BY <1>1, <2>1, <2>2 DEF SubscribeGroup
  <2>4. Divided(tag_values' \ todo', next_group_id', subscribed_tag_groups')
    <3>1. Divided(tag_values \ todo, next_group_id, subscribed_tag_groups)
          /\ next_group_id' = next_group_id + 1
      BY <1>1 DEF SubscribeGroup, HandsInv
    <3>2. tag_values' \ todo' \in SUBSET Tag /\ chunk \cap (tag_values \ todo) = {}
      BY <2>2, <2>3
    <3> QED BY <2>1, <2>2, <2>3, <3>1, <3>2, DividesMore
  <2>5. Loaded' /\ Progresses'
    BY <1>1, <2>1, <2>2 DEF SubscribeGroup, HandsInv, Loaded, Progresses, Before, Listed
  <2> QED BY <2>4, <2>5 DEF HandsInv
<1>2. CASE GoLive
  <2>1. Loaded' /\ Progresses'
    BY <1>2 DEF GoLive, HandsInv, Loaded, Progresses, Before, Listed
  <2>2. Divided(tag_values' \ todo', next_group_id', subscribed_tag_groups')
    BY <1>2 DEF GoLive, HandsInv
  <2> QED BY <2>1, <2>2 DEF HandsInv
<1>3. CASE LeaveLoop
  BY <1>3, EndHands DEF LeaveLoop
<1> QED BY <1>1, <1>2, <1>3

LEMMA NextHands == HandsInv /\ [Next]_vars => HandsInv'
<1> SUFFICES ASSUME HandsInv, [Next]_vars PROVE HandsInv'
  OBVIOUS
<1>1. NodesInv'
  BY NextNodes DEF HandsInv
<1>2. CASE UNCHANGED vars
  BY <1>1, <1>2, SameHands DEF vars
<1> QED BY <1>1, <1>2, OthersHands, DiscoveryHands, ReadingHands, AwaitHands, SubscribingHands DEF Next

\* The state the startup hands over is one the steady loop's model starts from:
\* every announced tag was tried in exactly one group, the groups have the numbers
\* 0 .. next_group_id - 1, those that failed are empty, and nothing is known that
\* the server does not publish (_da_thread_main, ua_server.py).
THEOREM StartupHandsOver == Spec => []HandsOver
<1> QED BY HandsHandOver, InitHands, NextHands, PTL DEF Spec
=============================================================================
