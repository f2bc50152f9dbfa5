----------------------------- MODULE Bridge_proofs -----------------------------
(***************************************************************************)
(* Theorems about the steady loop of the DA thread, then about the bridge  *)
(* while it is live.                                                       *)
(*                                                                         *)
(* Of the loop: its types, the consistency of the mirror a rebuild         *)
(* subscribes from, that no refresh drops every known tag, and that the    *)
(* watchdog acts on living sinks only when it could not ask them.  They    *)
(* hold for all sets of tags, all intervals and any number and kind of     *)
(* faults; the last where the heartbeat comes before the threshold.        *)
(*                                                                         *)
(* Of the bridge: the composition takes only steps of the loop, so what    *)
(* is shown of that holds here; its own variables keep their types; every  *)
(* known tag has a node, or one on its way; and no node goes back to an    *)
(* older value.                                                            *)
(***************************************************************************)
EXTENDS Bridge, TLAPS

-----------------------------------------------------------------------------
(* The steady loop of the DA thread.                                        *)


USE DEF Group

\* A clock that gets older stays within the threshold it is compared with.
LEMMA OlderType ==
    ASSUME NEW limit \in Nat, NEW age \in 0 .. limit
    PROVE  Older(age, limit) \in 0 .. limit
BY DEF Older

\* Time leaves every clock within its threshold.
LEMMA TimeType ==
    ASSUME TypeOK, TimePasses
    PROVE  /\ since_data_change' \in 0 .. StaleThreshold
           /\ since_heartbeat' \in 0 .. HeartbeatInterval
           /\ since_refresh' \in 0 .. RefreshInterval
BY OlderType, IntervalAssumption DEF TypeOK, TimePasses

\* A rebuild leaves the client and the number of faults well typed, if the
\* fault that led to it, if any, was one still allowed.
LEMMA ResubscribeType ==
    ASSUME TypeOK, NEW glitches \in {0, 1}, faults + glitches <= MaxFaults,
           ResubscribeAll(glitches)
    PROVE  /\ session' \in BOOLEAN
           /\ live' \in [Group -> SUBSET Tag]
           /\ arriving' \subseteq Group
           /\ faults' \in 0 .. MaxFaults
           /\ overlooked' \subseteq Tag
<1>1. [g \in Group |-> subscribed_tag_groups[g] \cap published] \in [Group -> SUBSET Tag]
  BY DEF TypeOK
<1>2. \A g \in Group :
        [h \in Group |-> IF h = g THEN {} ELSE subscribed_tag_groups[h] \cap published]
          \in [Group -> SUBSET Tag]
  BY DEF TypeOK
<1>3. Silent \in [Group -> SUBSET Tag]
  BY DEF Silent
<1>4. live' \in [Group -> SUBSET Tag]
  BY <1>1, <1>2, <1>3 DEF ResubscribeAll
<1>5. session' \in BOOLEAN /\ arriving' \subseteq Group
  BY DEF ResubscribeAll, Heard
<1>6. faults' \in 0 .. MaxFaults
  BY BoundAssumption DEF ResubscribeAll, TypeOK
<1>7. overlooked' \subseteq Tag
  BY DEF ResubscribeAll, TypeOK, Tracked
<1> QED BY <1>4, <1>5, <1>6, <1>7

\* Pruning keeps the mirror a mirror.
LEMMA PrunedType ==
    ASSUME TypeOK, NEW listing
    PROVE  Pruned(listing) \in [Group -> SUBSET Tag]
BY DEF TypeOK, Pruned

-----------------------------------------------------------------------------
(* Type correctness.                                                        *)

\* The initial states are well typed.
LEMMA InitType == Init => TypeOK
<1> SUFFICES ASSUME Init PROVE TypeOK
  OBVIOUS
<1>1. configured \subseteq Tag /\ published \subseteq Tag /\ current_tags \subseteq Tag
  BY DEF Init
<1>2. next_group_id \in 0 .. MaxGroup + 1
  BY BoundAssumption DEF Init
<1>3. subscribed_tag_groups \in [Group -> SUBSET Tag]
  BY <1>1 DEF Init
<1>4. live \in [Group -> SUBSET Tag] /\ arriving \subseteq Group
  BY <1>3 DEF Init, Heard
<1>5. starved \in BOOLEAN /\ overlooked \subseteq Tag
  BY <1>1 DEF Init
<1> QED BY <1>1, <1>2, <1>3, <1>4, <1>5, IntervalAssumption, BoundAssumption DEF Init, TypeOK

\* Every step of the DA server keeps the types.
LEMMA EnvironmentType ==
    ASSUME TypeOK,
           \/ ServerStops \/ ServerStarts \/ ServerLoads \/ SinksDie
           \/ \E t \in Tag : Reconfigure(t)
           \/ \E g \in Group : PlantChanges(g)
    PROVE  TypeOK'
<1> USE DEF serverVars, clientVars, mirrorVars, clockVars, envVars, historyVars
<1>1. CASE ServerStops
  <2>1. live' \in [Group -> SUBSET Tag] /\ published' \subseteq Tag
    BY <1>1 DEF ServerStops, Silent
  <2>2. faults' \in 0 .. MaxFaults /\ changes' = changes
    BY <1>1, BoundAssumption DEF ServerStops, Fault, TypeOK
  <2> QED BY <1>1, <2>1, <2>2 DEF ServerStops, TypeOK
<1>2. CASE ServerStarts
  BY <1>2 DEF ServerStarts, TypeOK
<1>3. CASE ServerLoads
  BY <1>3 DEF ServerLoads, TypeOK
<1>4. CASE SinksDie
  <2>1. live' \in [Group -> SUBSET Tag]
    BY <1>4 DEF SinksDie, TypeOK
  <2>2. faults' \in 0 .. MaxFaults /\ changes' = changes
    BY <1>4, BoundAssumption DEF SinksDie, Fault, TypeOK
  <2>3. overlooked' \subseteq Tag
    <3>1. \A S \in SUBSET Group : overlooked \cup UNION {live[g] : g \in S} \subseteq Tag
      BY DEF TypeOK
    <3>2. PICK S \in SUBSET Group : overlooked' = IF Heard \subseteq S THEN overlooked
                                      ELSE overlooked \cup UNION {live[g] : g \in S}
      BY <1>4 DEF SinksDie
    <3> QED BY <3>1, <3>2 DEF TypeOK
  <2> QED BY <1>4, <2>1, <2>2, <2>3 DEF SinksDie, TypeOK
<1>5. ASSUME NEW t \in Tag, Reconfigure(t) PROVE TypeOK'
  <2>1. configured' \subseteq Tag /\ published' \subseteq Tag
    BY <1>5 DEF Reconfigure, TypeOK
  <2>2. live' \in [Group -> SUBSET Tag]
    BY <1>5, <2>1 DEF Reconfigure, TypeOK
  <2>3. changes' \in 0 .. MaxChanges
    BY <1>5, BoundAssumption DEF Reconfigure, TypeOK
  <2>4. overlooked' \subseteq Tag
    BY <1>5 DEF Reconfigure, TypeOK
  <2> QED BY <1>5, <2>1, <2>2, <2>3, <2>4 DEF Reconfigure, TypeOK
<1>6. ASSUME NEW g \in Group, PlantChanges(g) PROVE TypeOK'
  BY <1>6 DEF PlantChanges, TypeOK
<1> QED BY <1>1, <1>2, <1>3, <1>4, <1>5, <1>6

\* Every step of the two threads keeps the types.
LEMMA LoopType ==
    ASSUME TypeOK,
           \/ \E g \in Group : OnDaChanges(g)
           \/ Tick \/ (\E asked \in SUBSET Group : Heartbeat(asked)) \/ Watchdog \/ Refresh
           \/ DiscoveryTakesLong \/ Discovered \/ DiscoveryFailed \/ ReadAdded \/ SubscribeAdded
    PROVE  TypeOK'
<1> USE DEF serverVars, clientVars, mirrorVars, clockVars, envVars, historyVars
<1>1. ASSUME NEW g \in Group, OnDaChanges(g) PROVE TypeOK'
  <2>1. starved' \in BOOLEAN
    BY <1>1, Zenon DEF OnDaChanges
  <2>2. arriving' \subseteq Group /\ since_data_change' \in 0 .. StaleThreshold
    BY <1>1, IntervalAssumption DEF OnDaChanges, TypeOK
  <2> QED BY <1>1, <2>1, <2>2 DEF OnDaChanges, TypeOK
<1>2. CASE Tick
  BY <1>2, TimeType DEF Tick, TypeOK
<1>3. ASSUME NEW asked \in SUBSET Group, Heartbeat(asked) PROVE TypeOK'
  <2>1. since_heartbeat' \in 0 .. HeartbeatInterval
    BY <1>3, IntervalAssumption DEF Heartbeat, TypeOK
  <2>2. arriving' \subseteq Group /\ starved' \in BOOLEAN
    BY <1>3 DEF Heartbeat, TypeOK
  <2>3. faults' \in 0 .. MaxFaults
    BY <1>3, BoundAssumption DEF Heartbeat, TypeOK
  <2> QED BY <1>3, <2>1, <2>2, <2>3 DEF Heartbeat, TypeOK
<1>4. CASE Watchdog
  <2>1. faults + 0 <= MaxFaults
    BY BoundAssumption DEF TypeOK
  <2>2. /\ session' \in BOOLEAN
        /\ live' \in [Group -> SUBSET Tag]
        /\ arriving' \subseteq Group
        /\ faults' \in 0 .. MaxFaults
        /\ overlooked' \subseteq Tag
    BY <1>4, <2>1, ResubscribeType DEF Watchdog, TypeOK
  <2>3. /\ since_data_change' \in 0 .. StaleThreshold
        /\ since_heartbeat' \in 0 .. HeartbeatInterval
    BY <1>4, IntervalAssumption DEF Watchdog, TypeOK
  <2>4. starved' \in BOOLEAN
    <3>1. starved' = FALSE \/ starved' = starved
      BY <1>4, Zenon DEF Watchdog
    <3> QED BY <3>1 DEF TypeOK
  <2> QED BY <1>4, <2>2, <2>3, <2>4 DEF Watchdog, TypeOK
<1>5. CASE Refresh
  BY <1>5, IntervalAssumption DEF Refresh, TypeOK
<1>6. CASE DiscoveryTakesLong
  BY <1>6, TimeType DEF DiscoveryTakesLong, TypeOK
<1>7. CASE Discovered
  <2>1. PICK listing \in SUBSET published :
          /\ faults' = faults \/ (faults < MaxFaults /\ faults' = faults + 1)
          /\ \/ /\ current_tags' = listing
                /\ subscribed_tag_groups' = Pruned(listing)
                /\ pc' = "heartbeat"
                /\ UNCHANGED new_tags
             \/ /\ new_tags' = listing
                /\ pc' = "reading"
                /\ UNCHANGED <<current_tags, subscribed_tag_groups>>
    BY <1>7 DEF Discovered
  <2>2. listing \subseteq Tag /\ Pruned(listing) \in [Group -> SUBSET Tag]
    BY PrunedType DEF TypeOK
  <2>3. /\ current_tags' \subseteq Tag
        /\ subscribed_tag_groups' \in [Group -> SUBSET Tag]
        /\ new_tags' \subseteq Tag
        /\ pc' \in {"heartbeat", "reading"}
    BY <2>1, <2>2 DEF TypeOK
  <2>4. faults' \in 0 .. MaxFaults
    BY <2>1, BoundAssumption DEF TypeOK
  <2> QED BY <1>7, <2>3, <2>4 DEF Discovered, TypeOK
<1>8. CASE DiscoveryFailed
  <2>1. /\ session' \in BOOLEAN
        /\ live' \in [Group -> SUBSET Tag]
        /\ arriving' \subseteq Group
        /\ faults' \in 0 .. MaxFaults
        /\ overlooked' \subseteq Tag
    <3>1. faults + 0 <= MaxFaults /\ (faults < MaxFaults => faults + 1 <= MaxFaults)
      BY BoundAssumption DEF TypeOK
    <3> QED BY <1>8, <3>1, ResubscribeType DEF DiscoveryFailed
  <2>2. /\ since_data_change' \in 0 .. StaleThreshold
        /\ since_heartbeat' \in 0 .. HeartbeatInterval
    BY <1>8, IntervalAssumption DEF DiscoveryFailed, TypeOK
  <2>3. starved' \in BOOLEAN
    <3>1. starved' = FALSE \/ starved' = starved
      BY <1>8, Zenon DEF DiscoveryFailed
    <3> QED BY <3>1 DEF TypeOK
  <2> QED BY <1>8, <2>1, <2>2, <2>3 DEF DiscoveryFailed, TypeOK
<1>9. CASE ReadAdded
  BY <1>9, BoundAssumption DEF ReadAdded, CallFails, TypeOK
<1>10. CASE SubscribeAdded
  <2> DEFINE added == new_tags \ current_tags
  <2>1. Pruned(new_tags) \in [Group -> SUBSET Tag]
    BY PrunedType
  <2>2. /\ live' \in [Group -> SUBSET Tag]
        /\ subscribed_tag_groups' \in [Group -> SUBSET Tag]
        /\ arriving' \subseteq Group
    BY <1>10, <2>1 DEF SubscribeAdded, TypeOK
  <2>3. next_group_id' \in 0 .. MaxGroup + 1
    BY <1>10, BoundAssumption DEF SubscribeAdded, TypeOK
  <2>4. faults' \in 0 .. MaxFaults
    BY <1>10, BoundAssumption DEF SubscribeAdded, CallFails, TypeOK
  <2>5. starved' \in BOOLEAN /\ overlooked' \subseteq Tag
    BY <1>10 DEF SubscribeAdded, TypeOK
  <2> QED BY <1>10, <2>2, <2>3, <2>4, <2>5 DEF SubscribeAdded, TypeOK
<1> QED BY <1>1, <1>2, <1>3, <1>4, <1>5, <1>6, <1>7, <1>8, <1>9, <1>10

\* Every step keeps the types.
LEMMA NextType == TypeOK /\ [Next]_vars => TypeOK'
<1>1. TypeOK /\ UNCHANGED vars => TypeOK'
  BY DEF vars, serverVars, clientVars, mirrorVars, clockVars, envVars, historyVars, TypeOK
<1> QED BY <1>1, EnvironmentType, LoopType DEF Next

\* Every state variable of the DA thread keeps its type in every behaviour.
THEOREM TypeCorrect == Spec => []TypeOK
BY InitType, NextType, PTL DEF Spec

-----------------------------------------------------------------------------
(* The mirror a rebuild subscribes from.                                    *)

\* The groups of the startup are disjoint, and numbered below the next one.
LEMMA InitMirror == Init => MirrorInv
<1> SUFFICES ASSUME Init PROVE MirrorInv
  OBVIOUS
<1>1. PICK group_of \in [current_tags -> Group], failed \in SUBSET Group :
        /\ {group_of[t] : t \in current_tags} = 0 .. next_group_id - 1
        /\ subscribed_tag_groups =
             [g \in Group |-> {t \in current_tags : group_of[t] = g /\ g \notin failed}]
  BY DEF Init
<1>2. Tracked \subseteq current_tags
  BY <1>1 DEF Tracked
<1>3. \A g, h \in Group :
        g # h => subscribed_tag_groups[g] \cap subscribed_tag_groups[h] = {}
  BY <1>1
<1>4. ASSUME NEW g \in Group, g >= next_group_id PROVE subscribed_tag_groups[g] = {}
  <2>1. next_group_id \in Nat
    BY DEF Init
  <2>2. g \notin 0 .. next_group_id - 1
    BY <1>4, <2>1
  <2> QED BY <1>1, <2>2
<1> QED BY <1>2, <1>3, <1>4 DEF MirrorInv

\* Pruning by a listing leaves only current tags that are in the listing, each
\* where it was.
LEMMA PrunedMirror ==
    ASSUME MirrorInv, NEW listing
    PROVE  /\ \A g \in Group : Pruned(listing)[g] \subseteq listing \cap current_tags
           /\ \A g \in Group : Pruned(listing)[g] \subseteq subscribed_tag_groups[g]
BY DEF MirrorInv, Tracked, Pruned

\* Every step keeps the mirror consistent.
LEMMA NextMirror == TypeOK /\ MirrorInv /\ [Next]_vars => MirrorInv'
<1> SUFFICES ASSUME TypeOK, MirrorInv, [Next]_vars PROVE MirrorInv'
  OBVIOUS
<1>1. CASE UNCHANGED mirrorVars
  BY <1>1 DEF mirrorVars, MirrorInv, Tracked
<1>2. ASSUME NEW listing,
             current_tags' = listing, next_group_id' = next_group_id,
             subscribed_tag_groups' = Pruned(listing)
      PROVE  MirrorInv'
  <2>1. \A g \in Group : /\ subscribed_tag_groups'[g] \subseteq current_tags'
                         /\ subscribed_tag_groups'[g] \subseteq subscribed_tag_groups[g]
    BY <1>2, PrunedMirror
  <2>2. Tracked' \subseteq current_tags'
    BY <2>1 DEF Tracked
  <2> QED BY <1>2, <2>1, <2>2 DEF MirrorInv
<1>3. CASE Discovered
  <2>1. CASE UNCHANGED <<current_tags, subscribed_tag_groups>>
    BY <1>1, <1>3, <2>1 DEF Discovered, mirrorVars
  <2>2. CASE ~UNCHANGED <<current_tags, subscribed_tag_groups>>
    <3>1. subscribed_tag_groups' = Pruned(current_tags') /\ next_group_id' = next_group_id
      BY <1>3, <2>2 DEF Discovered
    <3> QED BY <1>2, <3>1
  <2> QED BY <2>1, <2>2
<1>4. CASE SubscribeAdded
  <2> DEFINE added == new_tags \ current_tags
  <2>1. current_tags' = new_tags
    BY <1>4 DEF SubscribeAdded
  <2>2. CASE /\ subscribed_tag_groups' = Pruned(new_tags)
             /\ next_group_id' = next_group_id
    BY <1>2, <2>1, <2>2
  <2>3. CASE /\ next_group_id <= MaxGroup
             /\ subscribed_tag_groups' = [Pruned(new_tags) EXCEPT ![next_group_id] = added]
             /\ next_group_id' = next_group_id + 1
    <3>1. next_group_id \in Group
      BY <2>3, BoundAssumption DEF TypeOK
    <3>2. \A g \in Group : g # next_group_id =>
             /\ subscribed_tag_groups'[g] \subseteq new_tags \cap current_tags
             /\ subscribed_tag_groups'[g] \subseteq subscribed_tag_groups[g]
      BY <2>3, PrunedMirror DEF Pruned
    <3>3. subscribed_tag_groups'[next_group_id] = added
      BY <2>3, <3>1 DEF Pruned
    <3>4. Tracked' \subseteq current_tags'
      BY <2>1, <3>2, <3>3 DEF Tracked
    <3>5. \A g, h \in Group :
            g # h => subscribed_tag_groups'[g] \cap subscribed_tag_groups'[h] = {}
      BY <3>2, <3>3 DEF MirrorInv
    <3>6. ASSUME NEW g \in Group, g >= next_group_id' PROVE subscribed_tag_groups'[g] = {}
      <4>1. g >= next_group_id /\ g # next_group_id
        BY <2>3, <3>1, <3>6, BoundAssumption
      <4> QED BY <3>2, <4>1 DEF MirrorInv
    <3> QED BY <3>4, <3>5, <3>6 DEF MirrorInv
  <2> QED BY <1>4, <2>2, <2>3 DEF SubscribeAdded
<1>5. CASE ~Discovered /\ ~SubscribeAdded
  <2>1. UNCHANGED mirrorVars
    BY <1>5 DEF Next, vars, ServerStops, ServerStarts, ServerLoads, SinksDie, Reconfigure,
                PlantChanges, OnDaChanges, Tick, Heartbeat, Watchdog, Refresh,
                DiscoveryTakesLong, DiscoveryFailed, ReadAdded
  <2> QED BY <1>1, <2>1
<1> QED BY <1>3, <1>4, <1>5

\* Whatever fails and whatever the listings miss, the mirror holds only current
\* tags, each in one group: a rebuild adds no tag twice and none that was removed.
THEOREM MirrorConsistent == Spec => []MirrorInv
BY InitType, NextType, InitMirror, NextMirror, PTL DEF Spec

-----------------------------------------------------------------------------
(* No refresh drops every known tag.                                        *)

\* A listing under way that found added tags still has tags that are not known.
FoundInv == pc \in {"reading", "subscribing"} => ~(new_tags \subseteq current_tags)

\* The loop starts asleep.
LEMMA InitFound == Init => FoundInv
BY DEF Init, FoundInv

\* Every step keeps what a listing found until the refresh ends.
LEMMA NextFound == FoundInv /\ [Next]_vars => FoundInv'
<1> SUFFICES ASSUME FoundInv, [Next]_vars PROVE FoundInv'
  OBVIOUS
<1>1. CASE UNCHANGED <<pc, new_tags, current_tags>>
  BY <1>1 DEF FoundInv
<1>2. CASE pc' \notin {"reading", "subscribing"}
  BY <1>2 DEF FoundInv
<1>3. CASE Discovered
  BY <1>3 DEF Discovered, FoundInv, mirrorVars
<1>4. CASE ReadAdded
  BY <1>4 DEF ReadAdded, FoundInv, mirrorVars
<1> QED
  BY <1>1, <1>2, <1>3, <1>4
  DEF Next, vars, mirrorVars, ServerStops, ServerStarts, ServerLoads, SinksDie, Reconfigure,
      PlantChanges, OnDaChanges, Tick, Heartbeat, Watchdog, Refresh,
      DiscoveryTakesLong, DiscoveryFailed, SubscribeAdded

\* A step that changes the known tags leaves some.
LEMMA StepStranded == FoundInv /\ [Next]_vars => [current_tags # {} => current_tags' # {}]_vars
<1> SUFFICES ASSUME FoundInv, [Next]_vars, current_tags # {} PROVE current_tags' # {}
  OBVIOUS
<1>1. CASE UNCHANGED current_tags
  BY <1>1
<1>2. CASE Discovered
  BY <1>2 DEF Discovered, Credible
<1>3. CASE SubscribeAdded
  BY <1>3 DEF SubscribeAdded, FoundInv
<1> QED
  BY <1>1, <1>2, <1>3
  DEF Next, vars, mirrorVars, ServerStops, ServerStarts, ServerLoads, SinksDie, Reconfigure,
      PlantChanges, OnDaChanges, Tick, Heartbeat, Watchdog, Refresh,
      DiscoveryTakesLong, DiscoveryFailed, ReadAdded

\* No refresh forgets every tag: not one that raises, returns nothing, misses
\* tags, or fails half-way.
THEOREM NoRefreshStrands == Spec => NeverStranded
BY InitFound, NextFound, StepStranded, PTL DEF Spec, NeverStranded

-----------------------------------------------------------------------------
(* The watchdog rebuilds only a client that hears nothing.                  *)

\* Why: the heartbeat is sent in time, unless a discovery is in the way; a group that
\* is heard was heard after the last heartbeat, or is about to be, unless it could not
\* be asked; and the watchdog looks at the clock of data changes in every iteration,
\* before a refresh makes new groups.
ClockInv ==
    /\ pc \in {"sleep", "watchdog", "refresh"} => since_heartbeat < HeartbeatInterval
    /\ ~starved =>
         /\ Heard # {} => arriving # {} \/ since_data_change <= since_heartbeat
         /\ pc \notin {"heartbeat", "watchdog"} => since_data_change < StaleThreshold
         /\ Heard # {} => since_data_change < StaleThreshold

\* At the start nothing is old.
LEMMA InitClock == Init => ClockInv
BY IntervalAssumption DEF Init, ClockInv

\* Fewer tags are heard, and the clocks stay.
LEMMA FewerHeard ==
    ASSUME ClockInv, UNCHANGED <<clockVars, pc, arriving, starved>>,
           \A g \in Group : live'[g] \subseteq live[g]
    PROVE  ClockInv'
<1>1. Heard' # {} => Heard # {}
  BY DEF Heard
<1> QED BY <1>1 DEF ClockInv, clockVars

\* A client is rebuilt on a server that is up, or hears nothing.
LEMMA RebuiltHeard ==
    ASSUME NEW glitches, ResubscribeAll(glitches)
    PROVE  Heard' # {} => server = "up"
BY DEF ResubscribeAll, Heard, Silent

\* Every step keeps the clocks in order, when the heartbeat comes before the data
\* changes are old.
LEMMA NextClock ==
    ASSUME HeartbeatInterval < StaleThreshold,
           TypeOK, ClockInv, [Next]_vars
    PROVE  ClockInv'
<1> USE IntervalAssumption DEF serverVars, clientVars, mirrorVars, clockVars, envVars, historyVars
<1>1. CASE \/ ServerStops \/ ServerStarts \/ ServerLoads \/ SinksDie
           \/ \E t \in Tag : Reconfigure(t)
  <2>1. \A g \in Group : live'[g] \subseteq live[g]
    BY <1>1 DEF ServerStops, ServerStarts, ServerLoads, SinksDie, Reconfigure, Silent
  <2> QED BY <1>1, <2>1, FewerHeard
          DEF ServerStops, ServerStarts, ServerLoads, SinksDie, Reconfigure
<1>2. ASSUME NEW g \in Group, PlantChanges(g) PROVE ClockInv'
  BY <1>2 DEF PlantChanges, ClockInv, Heard
<1>3. ASSUME NEW g \in Group, OnDaChanges(g) PROVE ClockInv'
  BY <1>3 DEF OnDaChanges, ClockInv, TypeOK, Heard
<1>4. CASE Tick
  <2>1. since_heartbeat' = since_heartbeat + 1
    BY <1>4 DEF Tick, TimePasses, Older, ClockInv, TypeOK
  <2>2. since_data_change' <= since_data_change + 1
    BY <1>4 DEF Tick, TimePasses, Older, TypeOK
  <2> QED BY <1>4, <2>1, <2>2 DEF Tick, TimePasses, ClockInv, TypeOK, Heard
<1>5. ASSUME NEW asked \in SUBSET Group, Heartbeat(asked) PROVE ClockInv'
  BY <1>5 DEF Heartbeat, HeartbeatDue, ClockInv, TypeOK, Heard
<1>6. CASE Watchdog
  <2>1. CASE Stale
    BY <1>6, <2>1, RebuiltHeard DEF Watchdog, ClockInv, TypeOK
  <2>2. CASE ~Stale
    BY <1>6, <2>2 DEF Watchdog, Stale, ClockInv, TypeOK, Heard
  <2> QED BY <2>1, <2>2
<1>7. CASE Refresh \/ Discovered \/ ReadAdded
  BY <1>7 DEF Refresh, Discovered, ReadAdded, ClockInv, Heard
<1>8. CASE DiscoveryFailed
  BY <1>8, RebuiltHeard DEF DiscoveryFailed, ClockInv, TypeOK
<1>9. CASE SubscribeAdded
  BY <1>9 DEF SubscribeAdded, ClockInv, TypeOK, Heard
<1>10. CASE UNCHANGED vars
  BY <1>10 DEF vars, ClockInv, Heard
<1>11. CASE DiscoveryTakesLong
  BY <1>11 DEF DiscoveryTakesLong, ClockInv
<1> QED
  BY <1>1, <1>2, <1>3, <1>4, <1>5, <1>6, <1>7, <1>8, <1>9, <1>10, <1>11 DEF Next

\* The watchdog declares the advise sinks dead while one is alive only after an
\* AsyncRefresh failed, or a discovery lasted long, with no data change since:
\* whatever else fails, and with tags added and removed, if the heartbeat comes
\* before the threshold.
THEOREM WatchdogIsRight ==
    ASSUME HeartbeatInterval < StaleThreshold
    PROVE  Spec => []WatchdogMeansDead
<1>1. TypeOK /\ ClockInv /\ [Next]_vars => ClockInv'
  BY NextClock
<1>2. TypeOK /\ ClockInv => WatchdogMeansDead
  BY IntervalAssumption DEF TypeOK, ClockInv, WatchdogMeansDead, Stale
<1> QED BY <1>1, <1>2, InitType, NextType, InitClock, PTL DEF Spec
-----------------------------------------------------------------------------
(* Who is heard, when no listing misses a tag.                              *)

\* A group hears tags it is mirrored with and the server publishes; a refresh
\* that adds tags will not drop one that is heard.
LiveInv ==
    /\ published \subseteq configured
    /\ server = "down" => ~session /\ live = Silent
    /\ \A g \in Group : live[g] \subseteq subscribed_tag_groups[g] \cap published
    /\ pc \in {"reading", "subscribing"} => \A g \in Group : live[g] \subseteq new_tags

\* The startup subscribed what the server publishes.
LEMMA InitLive == Init => LiveInv
<1> SUFFICES ASSUME Init PROVE LiveInv
  OBVIOUS
<1>1. current_tags \subseteq published
  BY DEF Init
<1>2. \A g \in Group : subscribed_tag_groups[g] \subseteq current_tags
  BY DEF Init
<1> QED BY <1>1, <1>2 DEF Init, LiveInv

\* A rebuilt client hears no more than the mirror has and the server publishes.
LEMMA RebuiltLive ==
    ASSUME TypeOK, LiveInv, NEW glitches, ResubscribeAll(glitches),
           UNCHANGED <<serverVars, mirrorVars>>, pc' \notin {"reading", "subscribing"}
    PROVE  LiveInv'
<1>1. \A g \in Group : live'[g] \subseteq subscribed_tag_groups[g] \cap published
  BY DEF ResubscribeAll, Silent
<1>2. server = "down" => ~session' /\ live' = Silent
  BY DEF ResubscribeAll
<1> QED BY <1>1, <1>2 DEF LiveInv, serverVars, mirrorVars, Silent

\* The server and its configuration.
LEMMA EnvironmentLive ==
    ASSUME TypeOK, LiveInv,
           ServerStops \/ ServerStarts \/ ServerLoads \/ SinksDie \/ \E t \in Tag : Reconfigure(t)
    PROVE  LiveInv'
<1>1. CASE ServerStops
  BY <1>1 DEF ServerStops, LiveInv, Silent, mirrorVars
<1>2. CASE ServerStarts
  <2>1. published' \subseteq configured /\ live = Silent
    BY <1>2 DEF ServerStarts, LiveInv
  <2> QED BY <1>2, <2>1 DEF ServerStarts, LiveInv, Silent, mirrorVars, clientVars
<1>3. CASE ServerLoads
  BY <1>3 DEF ServerLoads, LiveInv, mirrorVars, clientVars
<1>4. CASE SinksDie
  <2>1. \A g \in Group : live'[g] \subseteq live[g]
    BY <1>4 DEF SinksDie
  <2>2. live = Silent => live' = Silent
    BY <1>4 DEF SinksDie, Silent
  <2> QED BY <1>4, <2>1, <2>2 DEF SinksDie, LiveInv, Silent, mirrorVars, serverVars
<1>5. ASSUME NEW t \in Tag, Reconfigure(t) PROVE LiveInv'
  <2>1. \A g \in Group : live'[g] = live[g] \cap configured'
    BY <1>5 DEF Reconfigure
  <2>2. live = Silent => live' = Silent
    BY <1>5 DEF Reconfigure, Silent
  <2>3. published' \subseteq configured'
    BY <1>5 DEF Reconfigure, LiveInv
  <2>4. \A g \in Group : live'[g] \subseteq published'
    <3>1. CASE t \in configured
      BY <1>5, <2>1, <3>1 DEF Reconfigure, LiveInv
    <3>2. CASE t \notin configured
      <4>1. \A g \in Group : t \notin live[g]
        BY <3>2 DEF LiveInv
      <4> QED BY <1>5, <2>1, <3>2, <4>1 DEF Reconfigure, LiveInv
    <3> QED BY <3>1, <3>2
  <2> QED BY <1>5, <2>1, <2>2, <2>3, <2>4 DEF Reconfigure, LiveInv, Silent, mirrorVars
<1> QED BY <1>1, <1>2, <1>3, <1>4, <1>5

\* Every step keeps what is heard in the mirror.
LEMMA NextLive ==
    ASSUME ~ListingFaults, TypeOK, MirrorInv, LiveInv, [Next]_vars
    PROVE  LiveInv'
<1>1. CASE UNCHANGED <<server, configured, published, session, live, subscribed_tag_groups>>
           /\ (pc' \in {"reading", "subscribing"} =>
                 pc \in {"reading", "subscribing"} /\ new_tags' = new_tags)
  BY <1>1 DEF LiveInv, Silent
<1>2. CASE Discovered
  <2>1. /\ UNCHANGED <<serverVars, clientVars>>
        /\ pc' \in {"heartbeat", "reading"}
        /\ pc' = "reading" => new_tags' = published
        /\ \/ UNCHANGED subscribed_tag_groups
           \/ subscribed_tag_groups' = Pruned(published)
    BY <1>2 DEF Discovered
  <2>2. \A g \in Group : live[g] \subseteq subscribed_tag_groups'[g]
    BY <2>1 DEF Pruned, LiveInv
  <2> QED BY <2>1, <2>2 DEF LiveInv, serverVars, clientVars, Silent
<1>3. CASE SubscribeAdded
  <2> DEFINE added == new_tags \ current_tags
  <2>1. /\ UNCHANGED <<serverVars, session>> /\ pc' = "heartbeat"
        /\ \A g \in Group : live[g] \subseteq Pruned(new_tags)[g] \cap published
    BY <1>3 DEF SubscribeAdded, LiveInv, Pruned
  <2>2. CASE subscribed_tag_groups' = Pruned(new_tags) /\ UNCHANGED live
    BY <2>1, <2>2 DEF LiveInv, serverVars, Silent
  <2>3. CASE /\ session
             /\ live' = [live EXCEPT ![next_group_id] = added \cap published]
             /\ subscribed_tag_groups' = [Pruned(new_tags) EXCEPT ![next_group_id] = added]
    <3>1. \A g \in Group : live'[g] \subseteq subscribed_tag_groups'[g] \cap published
      BY <2>1, <2>3 DEF TypeOK, Pruned
    <3> QED BY <2>1, <2>3, <3>1 DEF LiveInv, serverVars
  <2> QED BY <1>3, <2>2, <2>3 DEF SubscribeAdded
<1>4. CASE Watchdog
  <2>1. CASE Stale
    BY <1>4, <2>1, RebuiltLive DEF Watchdog
  <2>2. CASE ~Stale
    BY <1>1, <1>4, <2>2 DEF Watchdog, clientVars, mirrorVars, serverVars
  <2> QED BY <2>1, <2>2
<1>5. CASE DiscoveryFailed
  <2>1. \E glitches \in {0, 1} : ResubscribeAll(glitches)
    BY <1>5 DEF DiscoveryFailed
  <2> QED BY <1>5, <2>1, RebuiltLive DEF DiscoveryFailed
<1>6. CASE ReadAdded
  BY <1>1, <1>6 DEF ReadAdded, serverVars, clientVars, mirrorVars
<1>7. CASE UNCHANGED vars
  BY <1>1, <1>7 DEF vars, serverVars, clientVars, mirrorVars
<1>8. CASE \/ \E g \in Group : PlantChanges(g) \/ OnDaChanges(g)
           \/ Tick \/ (\E asked \in SUBSET Group : Heartbeat(asked)) \/ Refresh \/ DiscoveryTakesLong
  BY <1>1, <1>8 DEF PlantChanges, OnDaChanges, Tick, Heartbeat, Refresh, DiscoveryTakesLong,
                    serverVars, clientVars, mirrorVars
<1> QED BY <1>2, <1>3, <1>4, <1>5, <1>6, <1>7, <1>8, EnvironmentLive DEF Next

-----------------------------------------------------------------------------
(* The steps of the composition are those of the loop.                      *)

\* A step of the bridge is a step of the DA thread and its server, or leaves
\* their variables alone.
LEMMA StepIsDaThreads == [BridgeNext]_allVars => [Next]_vars
<1> SUFFICES ASSUME [BridgeNext]_allVars PROVE [Next]_vars
  OBVIOUS
<1>1. CASE UNCHANGED vars
  BY <1>1
<1>2. CASE ~UNCHANGED vars
  <2>1. CASE Environment
    BY <2>1 DEF Environment, Next
  <2>2. CASE \E g \in Group : Reports(g) \/ Delivers(g)
    BY <2>2 DEF Reports, Delivers, Next
  <2>3. CASE Idles \/ Beats \/ Watches \/ RefreshFails
    BY <2>3 DEF Idles, Beats, Watches, RefreshFails, Next
  <2>4. CASE Lists \/ Reads \/ Subscribes
    BY <2>4 DEF Lists, Reads, Subscribes, Next
  <2>5. CASE (\E t \in Tag : ChangesUnseen(t)) \/ Puts \/ ProcessDaEvent \/ UNCHANGED allVars
    <3>1. UNCHANGED vars
      BY <2>5 DEF ChangesUnseen, Puts, ProcessDaEvent, allVars
    <3> QED BY <1>2, <3>1
  <2> QED BY <2>1, <2>2, <2>3, <2>4, <2>5 DEF BridgeNext
<1> QED BY <1>1, <1>2

\* The bridge starts as the loop does.
LEMMA StartIsDaThreads == BridgeInit => Init
BY DEF BridgeInit

\* The safety part of DaThread holds of the composition: every step maps to a
\* step of the loop or to a stutter.
THEOREM ImplementsDaThread == BridgeSpec => Init /\ [][Next]_vars
BY StartIsDaThreads, StepIsDaThreads, PTL DEF BridgeSpec

\* So the variables of the loop keep their types.
LEMMA LoopTyped == TypeOK /\ [BridgeNext]_allVars => TypeOK'
BY StepIsDaThreads, NextType

-----------------------------------------------------------------------------
(* Types.                                                                   *)

\* Values of tags are changes.
LEMMA ChangesType ==
    ASSUME NEW S \in SUBSET Tag, NEW f \in [S -> Value]
    PROVE  f \in Changes
BY DEF Changes

\* The present values of some tags.
LEMMA ValuesType ==
    ASSUME NEW S \in SUBSET Tag, plant \in [Tag -> Value]
    PROVE  Values(S) \in Changes
<1>1. Values(S) \in [S -> Value]
  BY DEF Values
<1> QED BY <1>1, ChangesType

\* Nothing is of every kind.
LEMMA NothingType == Nothing \in Changes
<1>1. Nothing \in [{} -> Value]
  BY DEF Nothing, Values
<1> QED BY <1>1, ChangesType

\* The numbers the model counts values with.
LEMMA ValueType == NoValue \in Value /\ 1 \in Value
BY ValueAssumption DEF Value, NoValue

\* The event about removed tags, if any.
LEMMA RemovalType ==
    ASSUME NEW S \in SUBSET Tag
    PROVE  Removal(S) \in Seq(Event)
<1>1. RemovedTags(S) \in Event
  BY DEF RemovedTags, Event
<1> QED BY <1>1 DEF Removal

\* What the groups are asked for leaves the samples well typed.
LEMMA AskedType ==
    ASSUME TypeOK', plant \in [Tag -> Value], sample \in [Group -> Changes],
           NEW groups, Asked(groups)
    PROVE  sample' \in [Group -> Changes]
<1>1. \A g \in Group : Values(live'[g]) \in Changes
  BY ValuesType DEF TypeOK
<1> QED BY <1>1 DEF Asked

\* So does what a rebuilt client is asked for.
LEMMA AnewType ==
    ASSUME TypeOK', plant \in [Tag -> Value], UNCHANGED plant, AskedAnew
    PROVE  sample' \in [Group -> Changes]
<1>1. \A g \in Group : Values(live'[g]) \in Changes
  BY ValuesType DEF TypeOK
<1> QED BY <1>1, NothingType DEF AskedAnew

\* A node as the type invariant knows it.
NodeState == [value : Value, status : {"Good", "Bad", "BadWaitingForInitialData",
                                       "BadNodeIdUnknown", "NoNode"}]

\* The initial states are well typed.
LEMMA BridgeInitType == BridgeInit => BridgeTypeOK
<1> SUFFICES ASSUME BridgeInit PROVE BridgeTypeOK
  OBVIOUS
<1>1. TypeOK
  BY InitType DEF BridgeInit
<1>2. plant \in [Tag -> Value]
  BY ValueType DEF BridgeInit
<1>3. sample \in [Group -> Changes]
  <2>1. \A g \in Group : Values(live[g]) \in Changes
    BY <1>1, <1>2, ValuesType DEF TypeOK
  <2> QED BY <2>1, NothingType DEF BridgeInit
<1>4. new_tag_values \in Changes
  BY NothingType DEF BridgeInit
<1>5. to_put \in Seq(Event) /\ da_to_main_queue \in Seq(Event)
  BY DEF BridgeInit
<1>6. ua_nodes \in [Tag -> NodeState] /\ shown \in [Tag -> Value]
  <2>1. PICK v \in {NoValue, 1} :
          /\ ua_nodes = [t \in Tag |-> IF t \in current_tags \ Unshowable
                                       THEN InitialState(t, v) ELSE NoNode]
          /\ shown = [t \in Tag |-> ua_nodes[t].value]
    BY DEF BridgeInit
  <2>2. (\A t \in Tag : InitialState(t, v) \in NodeState) /\ NoNode \in NodeState
    BY ValueType DEF InitialState, Status, NoNode, NodeState
  <2>3. ua_nodes \in [Tag -> NodeState]
    BY <2>1, <2>2
  <2> QED BY <2>1, <2>3 DEF NodeState
<1> QED BY <1>2, <1>3, <1>4, <1>5, <1>6 DEF BridgeTypeOK, NodeState

\* Setting nodes to well-typed states keeps nodes and history well typed.
LEMMA SetValuesType ==
    ASSUME BridgeTypeOK, NEW new, SetValues(new),
           \A t \in DOMAIN new : new[t] \in NodeState
    PROVE  ua_nodes' \in [Tag -> NodeState] /\ shown' \in [Tag -> Value]
<1>1. ua_nodes' \in [Tag -> NodeState]
  BY DEF SetValues, BridgeTypeOK, NodeState
<1>2. \A t \in Tag : ua_nodes'[t].value \in Value
  BY <1>1 DEF NodeState
<1> QED BY <1>1, <1>2 DEF SetValues, BridgeTypeOK

\* Every event leaves the nodes well typed.
LEMMA ProcessType ==
    ASSUME BridgeTypeOK, ProcessDaEvent
    PROVE  BridgeTypeOK'
<1> DEFINE event == Head(da_to_main_queue)
<1>1. event \in Event /\ da_to_main_queue' \in Seq(Event)
  BY DEF ProcessDaEvent, BridgeTypeOK
<1>2. ASSUME NEW f \in Changes, NEW t \in DOMAIN f PROVE f[t] \in Value
  BY <1>2 DEF Changes
<1>3. CASE event.type = "data_change" /\ OnDataChange(event.data)
  <2>1. event.data \in Changes
    BY <1>1, <1>3 DEF Event
  <2>2. \A t \in DOMAIN event.data : UpdatedState(t, event.data[t]) \in NodeState
    BY <1>2, <2>1 DEF NodeState, UpdatedState, Status
  <2> QED BY <1>1, <1>3, <2>2, SetValuesType DEF OnDataChange, ProcessDaEvent, BridgeTypeOK, NodeState
<1>4. CASE event.type = "new_tags" /\ OnNewTags(event.data)
  <2>1. event.data \in Changes
    BY <1>1, <1>4 DEF Event
  <2>2. \A t \in DOMAIN event.data : InitialState(t, event.data[t]) \in NodeState
    BY <1>2, <2>1 DEF NodeState, InitialState, Status
  <2> QED BY <1>1, <1>4, <2>2, SetValuesType DEF OnNewTags, ProcessDaEvent, BridgeTypeOK, NodeState
<1>5. CASE event.type = "removed_tags" /\ OnRemovedTags(event.data)
  <2>1. [value |-> NoValue, status |-> "BadNodeIdUnknown"] \in NodeState
    BY ValueType DEF NodeState
  <2> QED BY <1>1, <1>5, <2>1, SetValuesType DEF OnRemovedTags, ProcessDaEvent, BridgeTypeOK, NodeState
<1> QED BY <1>3, <1>4, <1>5 DEF ProcessDaEvent

\* Every step keeps the types.
LEMMA BridgeNextType ==
    ASSUME TypeOK, TypeOK', BridgeTypeOK, [BridgeNext]_allVars
    PROVE  BridgeTypeOK'
<1> USE DEF queueVars, nodeVars
<1>1. CASE Environment
  BY <1>1 DEF Environment, BridgeTypeOK
<1>2. ASSUME NEW t \in Tag, ChangesUnseen(t) PROVE BridgeTypeOK'
  <2>1. plant' \in [Tag -> Value]
    BY <1>2, ValueAssumption DEF ChangesUnseen, TakesValue, BridgeTypeOK, Value
  <2> QED BY <1>2, <2>1 DEF ChangesUnseen, BridgeTypeOK
<1>3. ASSUME NEW g \in Group, Reports(g) PROVE BridgeTypeOK'
  <2>1. plant' \in [Tag -> Value]
    <3>1. PICK t \in live[g] : TakesValue(t)
      BY <1>3 DEF Reports
    <3>2. t \in Tag
      BY <3>1 DEF TypeOK
    <3> QED BY <3>1, <3>2, ValueAssumption DEF TakesValue, BridgeTypeOK, Value
  <2>2. [t \in live[g] |-> plant'[t]] \in Changes
    <3>1. [t \in live[g] |-> plant'[t]] \in [live[g] -> Value] /\ live[g] \in SUBSET Tag
      BY <2>1 DEF TypeOK
    <3> QED BY <3>1, ChangesType
  <2> QED BY <1>3, <2>1, <2>2 DEF Reports, BridgeTypeOK
<1>4. ASSUME NEW g \in Group, Delivers(g) PROVE BridgeTypeOK'
  <2>1. DataChange(sample[g]) \in Event
    BY DEF BridgeTypeOK, DataChange, Event
  <2>2. sample' \in [Group -> Changes]
    BY <1>4, NothingType DEF Delivers, BridgeTypeOK
  <2> QED BY <1>4, <2>1, <2>2 DEF Delivers, BridgeTypeOK
<1>5. CASE Idles
  BY <1>5 DEF Idles, BridgeTypeOK
<1>6. CASE Beats
  BY <1>6, AskedType DEF Beats, BridgeTypeOK
<1>7. CASE Watches
  BY <1>7, AnewType DEF Watches, BridgeTypeOK
<1>8. CASE RefreshFails
  BY <1>8, AnewType DEF RefreshFails, BridgeTypeOK
<1>9. CASE Lists
  <2>1. to_put' \in Seq(Event)
    BY <1>9, RemovalType DEF Lists, TypeOK
  <2> QED BY <1>9, <2>1 DEF Lists, BridgeTypeOK
<1>10. CASE Reads
  <2> DEFINE added == IF pc' = "subscribing" THEN new_tags \ current_tags ELSE {}
  <2>1. new_tag_values' \in [added -> Value] /\ added \in SUBSET Tag
    BY <1>10, ValueType DEF Reads, BridgeTypeOK, TypeOK
  <2>2. new_tag_values' \in Changes
    BY <2>1, ChangesType
  <2> QED BY <1>10, <2>2 DEF Reads, BridgeTypeOK
<1>11. CASE Subscribes
  <2>1. NewTags(new_tag_values) \in Event
    BY DEF BridgeTypeOK, NewTags, Event
  <2>2. Removal(current_tags \ new_tags) \in Seq(Event)
    BY RemovalType DEF TypeOK
  <2>3. to_put' \in Seq(Event)
    BY <1>11, <2>1, <2>2 DEF Subscribes
  <2>4. sample' \in [Group -> Changes]
    BY <1>11, AskedType DEF Subscribes, BridgeTypeOK
  <2> QED BY <1>11, <2>3, <2>4, NothingType DEF Subscribes, BridgeTypeOK
<1>12. CASE Puts
  BY <1>12 DEF Puts, BridgeTypeOK
<1>13. CASE ProcessDaEvent
  BY <1>13, ProcessType
<1>14. CASE UNCHANGED allVars
  BY <1>14 DEF allVars, BridgeTypeOK
<1> QED
  BY <1>1, <1>2, <1>3, <1>4, <1>5, <1>6, <1>7, <1>8, <1>9, <1>10, <1>11, <1>12, <1>13, <1>14
  DEF BridgeNext

\* Every variable of the composition keeps its type, for all constants.
THEOREM BridgeTypeCorrect == BridgeSpec => [](TypeOK /\ BridgeTypeOK)
<1>1. BridgeInit => TypeOK /\ BridgeTypeOK
  BY StartIsDaThreads, InitType, BridgeInitType
<1>2. TypeOK /\ BridgeTypeOK /\ [BridgeNext]_allVars => (TypeOK /\ BridgeTypeOK)'
  BY LoopTyped, BridgeNextType
<1> QED BY <1>1, <1>2, PTL DEF BridgeSpec

-----------------------------------------------------------------------------
(* Every known tag is shown.                                                *)

\* Who is announced.
LEMMA AnnouncedDef ==
    ASSUME NEW events, NEW t
    PROVE  t \in AnnouncedIn(events) <=>
             \E i \in DOMAIN events : events[i].type = "new_tags" /\ t \in DOMAIN events[i].data
BY DEF AnnouncedIn

\* An event at the end of a queue announces its tags, and hides no others.
LEMMA AnnouncedAppend ==
    ASSUME NEW events \in Seq(Event), NEW e \in Event, NEW t,
           \/ t \in AnnouncedIn(events)
           \/ e.type = "new_tags" /\ t \in DOMAIN e.data
    PROVE  t \in AnnouncedIn(Append(events, e))
<1>1. CASE t \in AnnouncedIn(events)
  <2>1. PICK i \in DOMAIN events : events[i].type = "new_tags" /\ t \in DOMAIN events[i].data
    BY <1>1, AnnouncedDef
  <2>2. i \in DOMAIN Append(events, e) /\ Append(events, e)[i] = events[i]
    OBVIOUS
  <2> QED BY <2>1, <2>2, AnnouncedDef
<1>2. CASE e.type = "new_tags" /\ t \in DOMAIN e.data
  <2>1. /\ Len(events) + 1 \in DOMAIN Append(events, e)
        /\ Append(events, e)[Len(events) + 1] = e
    OBVIOUS
  <2> QED BY <1>2, <2>1, AnnouncedDef
<1> QED BY <1>1, <1>2

\* What the first event of a queue does not announce, the others do.
LEMMA AnnouncedTail ==
    ASSUME NEW events \in Seq(Event), events # <<>>, NEW t, t \in AnnouncedIn(events),
           ~(Head(events).type = "new_tags" /\ t \in DOMAIN Head(events).data)
    PROVE  t \in AnnouncedIn(Tail(events))
<1>1. PICK i \in DOMAIN events : events[i].type = "new_tags" /\ t \in DOMAIN events[i].data
  BY AnnouncedDef
<1>2. i # 1
  BY <1>1
<1>3. i - 1 \in DOMAIN Tail(events) /\ Tail(events)[i - 1] = events[i]
  BY <1>2
<1> QED BY <1>1, <1>3, AnnouncedDef

\* The first event of what a refresh puts announces the added tags.
LEMMA AnnouncedFirst ==
    ASSUME NEW f \in Changes, NEW rest \in Seq(Event)
    PROVE  DOMAIN f \subseteq AnnouncedIn(<<NewTags(f)>> \o rest)
<1> DEFINE events == <<NewTags(f)>> \o rest
<1>1. 1 \in DOMAIN events /\ events[1] = NewTags(f)
  OBVIOUS
<1>2. events[1].type = "new_tags" /\ events[1].data = f
  BY <1>1 DEF NewTags
<1> QED BY <1>1, <1>2, AnnouncedDef

\* The known tags are shown as long as they, the nodes and the queues stay.
LEMMA ShownStays ==
    ASSUME KnownAreShown, current_tags' \subseteq current_tags,
           UNCHANGED <<ua_nodes, da_to_main_queue>>, UNCHANGED to_put \/ to_put = <<>>
    PROVE  KnownAreShown'
<1>1. UNCHANGED HasNode /\ UNCHANGED AnnouncedIn(da_to_main_queue)
  BY DEF HasNode
<1>2. AnnouncedIn(to_put) \subseteq AnnouncedIn(to_put')
  BY AnnouncedDef
<1> QED BY <1>1, <1>2 DEF KnownAreShown

\* Nodes that are set are nodes, and the others stay.
LEMMA SetValuesKeeps ==
    ASSUME NEW new, SetValues(new), \A t \in DOMAIN new : new[t] # NoNode
    PROVE  HasNode' = HasNode \cup (DOMAIN new \cap Tag)
BY DEF SetValues, HasNode

\* Every event leaves the nodes there are, and makes those it announces.
LEMMA ProcessShows ==
    ASSUME BridgeTypeOK, ProcessDaEvent
    PROVE  /\ HasNode \subseteq HasNode'
           /\ Head(da_to_main_queue).type = "new_tags" =>
                (DOMAIN Head(da_to_main_queue).data \cap Tag) \ Unshowable \subseteq HasNode'
<1> DEFINE event == Head(da_to_main_queue)
<1>1. CASE event.type = "data_change" /\ OnDataChange(event.data)
  <2>1. \A t : UpdatedState(t, event.data[t]) # NoNode
    BY DEF NoNode, UpdatedState, Status
  <2> QED BY <1>1, <2>1, SetValuesKeeps DEF OnDataChange
<1>2. CASE event.type = "new_tags" /\ OnNewTags(event.data)
  <2>1. \A t : InitialState(t, event.data[t]) # NoNode
    BY DEF NoNode, InitialState, Status
  <2> QED BY <1>2, <2>1, SetValuesKeeps DEF OnNewTags
<1>3. CASE event.type = "removed_tags" /\ OnRemovedTags(event.data)
  <2>1. [value |-> NoValue, status |-> "BadNodeIdUnknown"] # NoNode
    BY DEF NoNode
  <2> QED BY <1>3, <2>1, SetValuesKeeps DEF OnRemovedTags
<1> QED BY <1>1, <1>2, <1>3 DEF ProcessDaEvent

\* What the loop waits for and what was read, in the initial states.
LEMMA InitRefresh == BridgeInit => RefreshInv /\ KnownAreShown
<1> SUFFICES ASSUME BridgeInit PROVE RefreshInv /\ KnownAreShown
  OBVIOUS
<1>1. RefreshInv
  BY DEF BridgeInit, Init, RefreshInv
<1>2. current_tags \ Unshowable \subseteq HasNode
  <2>1. current_tags \subseteq Tag
    BY InitType DEF BridgeInit, TypeOK
  <2>2. PICK v \in {NoValue, 1} :
          ua_nodes = [t \in Tag |-> IF t \in current_tags \ Unshowable
                                    THEN InitialState(t, v) ELSE NoNode]
    BY DEF BridgeInit
  <2>3. \A t : InitialState(t, v) # NoNode
    BY DEF InitialState, Status, NoNode
  <2> QED BY <2>1, <2>2, <2>3 DEF HasNode
<1> QED BY <1>1, <1>2 DEF KnownAreShown

\* Every step keeps them.
LEMMA NextRefresh ==
    ASSUME TypeOK, BridgeTypeOK, RefreshInv, [BridgeNext]_allVars
    PROVE  RefreshInv'
<1> USE DEF queueVars, RefreshInv
<1>1. CASE Environment
  BY <1>1 DEF Environment, ServerStops, ServerStarts, ServerLoads, SinksDie, Reconfigure, mirrorVars
<1>2. CASE (\E t \in Tag : ChangesUnseen(t)) \/ UNCHANGED allVars
  BY <1>2 DEF ChangesUnseen, vars, mirrorVars, allVars
<1>3. CASE \E g \in Group : Reports(g) \/ Delivers(g)
  BY <1>3 DEF Reports, Delivers, PlantChanges, OnDaChanges, mirrorVars
<1>4. CASE Idles \/ Beats \/ Watches \/ RefreshFails
  BY <1>4 DEF Idles, Beats, Watches, RefreshFails, Tick, Refresh, DiscoveryTakesLong, Heartbeat,
              Watchdog, DiscoveryFailed, mirrorVars
<1>5. CASE Lists
  <2>1. pc' = "heartbeat" \/ (pc' = "reading" /\ current_tags' = current_tags)
    BY <1>5 DEF Lists, Discovered
  <2>2. pc' = "reading" => to_put' = <<>>
    BY <1>5, <2>1 DEF Lists, Removal
  <2> QED BY <2>1, <2>2
<1>6. CASE Reads
  BY <1>6 DEF Reads, ReadAdded, mirrorVars
<1>7. CASE Subscribes
  BY <1>7 DEF Subscribes, SubscribeAdded
<1>8. CASE Puts
  BY <1>8 DEF Puts, vars, mirrorVars
<1>9. CASE ProcessDaEvent
  BY <1>9 DEF ProcessDaEvent, vars, mirrorVars
<1> QED BY <1>1, <1>2, <1>3, <1>4, <1>5, <1>6, <1>7, <1>8, <1>9 DEF BridgeNext

\* Every step leaves the known tags shown.
LEMMA NextShown ==
    ASSUME TypeOK, BridgeTypeOK, RefreshInv, KnownAreShown, [BridgeNext]_allVars
    PROVE  KnownAreShown'
<1> USE DEF queueVars, nodeVars
<1>1. CASE Environment
  BY <1>1, ShownStays DEF Environment, ServerStops, ServerStarts, ServerLoads, SinksDie,
                          Reconfigure, mirrorVars
<1>2. CASE (\E t \in Tag : ChangesUnseen(t)) \/ UNCHANGED allVars
  BY <1>2, ShownStays DEF ChangesUnseen, vars, mirrorVars, allVars
<1>3. CASE \E g \in Group : Reports(g)
  BY <1>3, ShownStays DEF Reports, PlantChanges, mirrorVars
<1>4. ASSUME NEW g \in Group, Delivers(g) PROVE KnownAreShown'
  <2>1. DataChange(sample[g]) \in Event
    BY DEF BridgeTypeOK, DataChange, Event
  <2>2. AnnouncedIn(da_to_main_queue) \subseteq AnnouncedIn(da_to_main_queue')
    BY <1>4, <2>1, AnnouncedAppend DEF Delivers, BridgeTypeOK
  <2> QED BY <1>4, <2>2 DEF KnownAreShown, HasNode, Delivers, OnDaChanges, mirrorVars
<1>5. CASE Idles \/ Beats \/ Watches \/ RefreshFails
  BY <1>5, ShownStays DEF Idles, Beats, Watches, RefreshFails, Tick, Refresh, DiscoveryTakesLong,
                          Heartbeat, Watchdog, DiscoveryFailed, mirrorVars
<1>6. CASE Lists
  <2>1. to_put = <<>> /\ current_tags' \subseteq current_tags
    BY <1>6 DEF Lists, Discovered, RefreshInv
  <2> QED BY <1>6, <2>1, ShownStays DEF Lists
<1>7. CASE Reads
  BY <1>7, ShownStays DEF Reads, ReadAdded, mirrorVars
<1>8. CASE Subscribes
  <2>1. to_put = <<>> /\ current_tags' = new_tags
    BY <1>8 DEF Subscribes, SubscribeAdded, RefreshInv
  <2>2. new_tags \ current_tags \subseteq AnnouncedIn(to_put')
    <3>1. Removal(current_tags \ new_tags) \in Seq(Event)
      BY RemovalType DEF TypeOK
    <3>2. DOMAIN new_tag_values = new_tags \ current_tags
      BY <1>8 DEF Subscribes, SubscribeAdded, RefreshInv
    <3> QED BY <1>8, <3>1, <3>2, AnnouncedFirst DEF Subscribes, BridgeTypeOK
  <2>3. AnnouncedIn(to_put) = {}
    BY <2>1, AnnouncedDef
  <2> QED BY <1>8, <2>1, <2>2, <2>3 DEF KnownAreShown, HasNode, Subscribes
<1>9. CASE Puts
  <2>1. Head(to_put) \in Event
    BY <1>9 DEF Puts, BridgeTypeOK
  <2>2. AnnouncedIn(to_put) \cup AnnouncedIn(da_to_main_queue)
          \subseteq AnnouncedIn(to_put') \cup AnnouncedIn(da_to_main_queue')
    BY <1>9, <2>1, AnnouncedAppend, AnnouncedTail DEF Puts, BridgeTypeOK
  <2> QED BY <1>9, <2>2 DEF KnownAreShown, HasNode, Puts, vars, mirrorVars
<1>10. CASE ProcessDaEvent
  <2>1. current_tags' = current_tags /\ to_put' = to_put /\ current_tags \subseteq Tag
    BY <1>10 DEF ProcessDaEvent, vars, mirrorVars, TypeOK
  <2>2. (AnnouncedIn(da_to_main_queue) \cap Tag) \ Unshowable
          \subseteq HasNode' \cup AnnouncedIn(da_to_main_queue')
    BY <1>10, AnnouncedTail, ProcessShows DEF ProcessDaEvent, BridgeTypeOK
  <2> QED BY <1>10, <2>1, <2>2, ProcessShows DEF KnownAreShown
<1> QED BY <1>1, <1>2, <1>3, <1>4, <1>5, <1>6, <1>7, <1>8, <1>9, <1>10 DEF BridgeNext

\* Whatever fails, and however the events of a refresh and the data changes cross,
\* every known tag whose node can be made has one, or is announced.
THEOREM KnownTagsAreShown == BridgeSpec => []KnownAreShown
<1> DEFINE Inv == TypeOK /\ BridgeTypeOK /\ RefreshInv /\ KnownAreShown
<1>1. BridgeInit => Inv
  BY StartIsDaThreads, InitType, BridgeInitType, InitRefresh
<1>2. Inv /\ [BridgeNext]_allVars => Inv'
  BY LoopTyped, BridgeNextType, NextRefresh, NextShown
<1> QED BY <1>1, <1>2, PTL DEF BridgeSpec
-----------------------------------------------------------------------------
(* A node never goes back: from which group a tag's data change may come.   *)

\* The loop is inside a refresh.
Refreshing == {"discovering", "reading", "subscribing"}

\* A tag has a data change on its way from one group only: its own, or, until the
\* loop sleeps again, the one a refresh has just dropped it from.
SampleInv ==
    /\ pc \in Refreshing => since_refresh = 0
    /\ \A g \in Group : DOMAIN sample[g] # {} => g \in arriving
    /\ \A g \in arriving : g < next_group_id
    /\ \A g \in Group : \A t \in DOMAIN sample[g] :
         t \in subscribed_tag_groups[g] \/ (since_refresh = 0 /\ pc \notin Refreshing)
    /\ \A g, h \in Group : DOMAIN sample[g] \cap subscribed_tag_groups[h] # {} => g = h
    /\ \A g, h \in Group : DOMAIN sample[g] \cap DOMAIN sample[h] # {} => g = h

\* The tags of some values.
LEMMA ValuesDomain == ASSUME NEW S PROVE DOMAIN Values(S) = S
BY DEF Values

\* Who has values to report is numbered.
LEMMA HeardAreNumbered ==
    ASSUME TypeOK, MirrorInv, LiveInv, NEW g \in Group, live[g] # {} PROVE g < next_group_id
<1>1. subscribed_tag_groups[g] # {}
  BY DEF LiveInv
<1> QED BY <1>1 DEF MirrorInv, TypeOK, Group

\* At the start the groups asked have what they hear on its way.
LEMMA InitSample == BridgeInit => SampleInv
<1> SUFFICES ASSUME BridgeInit PROVE SampleInv
  OBVIOUS
<1>1. TypeOK /\ MirrorInv /\ LiveInv
  BY InitType, InitMirror, InitLive DEF BridgeInit
<1>2. \A g \in Group : DOMAIN sample[g] \subseteq subscribed_tag_groups[g]
  BY ValuesDomain DEF BridgeInit, Init, Nothing
<1>3. \A g \in Group : DOMAIN sample[g] # {} => g \in arriving
  BY ValuesDomain DEF BridgeInit, Nothing
<1>4. \A g \in arriving : g < next_group_id
  BY <1>1, HeardAreNumbered DEF BridgeInit, Init, Heard
<1>5. \A g, h \in Group :
        subscribed_tag_groups[g] \cap subscribed_tag_groups[h] # {} => g = h
  BY <1>1 DEF MirrorInv
<1>6. pc \notin Refreshing
  BY DEF BridgeInit, Init, Refreshing
<1> QED BY <1>2, <1>3, <1>4, <1>5, <1>6 DEF SampleInv

\* Steps that leave what is on its way, and begin no refresh.
LEMMA SampleStays ==
    ASSUME SampleInv,
           UNCHANGED <<sample, arriving, subscribed_tag_groups, next_group_id, since_refresh>>,
           pc' \in Refreshing => pc \in Refreshing
    PROVE  SampleInv'
BY DEF SampleInv

\* Each group has what it had on its way, or some of what it hears now; groups hear
\* what is mirrored.
LEMMA SampleAsked ==
    ASSUME TypeOK, MirrorInv, SampleInv,
           UNCHANGED <<subscribed_tag_groups, next_group_id, since_refresh>>, pc' \notin Refreshing,
           \A g \in Group : live'[g] \subseteq subscribed_tag_groups[g],
           arriving' \subseteq arriving \cup {g \in Group : live'[g] # {}},
           \A g \in Group :
             \/ DOMAIN sample'[g] = DOMAIN sample[g] /\ (g \in arriving => g \in arriving')
             \/ DOMAIN sample'[g] \subseteq live'[g] /\ (DOMAIN sample'[g] # {} => g \in arriving')
    PROVE  SampleInv'
<1>1. \A g \in Group : \/ DOMAIN sample'[g] = DOMAIN sample[g]
                        \/ DOMAIN sample'[g] \subseteq subscribed_tag_groups[g]
  OBVIOUS
<1>2. \A g \in Group : DOMAIN sample'[g] # {} => g \in arriving'
  BY DEF SampleInv
<1>3. \A g \in arriving' : g < next_group_id'
  <2>1. \A g \in Group : live'[g] # {} => g < next_group_id
    BY DEF MirrorInv, TypeOK, Group
  <2> QED BY <2>1 DEF SampleInv
<1>4. \A g \in Group : \A t \in DOMAIN sample'[g] :
        t \in subscribed_tag_groups'[g] \/ since_refresh' = 0
  BY <1>1 DEF SampleInv
<1>5. \A g, h \in Group : subscribed_tag_groups[g] \cap subscribed_tag_groups[h] # {} => g = h
  BY DEF MirrorInv
<1>6. \A g, h \in Group : DOMAIN sample'[g] \cap subscribed_tag_groups'[h] # {} => g = h
  BY <1>1, <1>5 DEF SampleInv
<1>7. \A g, h \in Group : DOMAIN sample'[g] \cap DOMAIN sample'[h] # {} => g = h
  BY <1>1, <1>5 DEF SampleInv
<1> QED BY <1>2, <1>3, <1>4, <1>6, <1>7 DEF SampleInv

\* A refresh begins when the loop has slept, and then nothing was on its way.
LEMMA RefreshSample ==
    ASSUME TypeOK, SampleInv, Refresh, UNCHANGED sample PROVE SampleInv'
<1>1. CASE since_refresh >= RefreshInterval
  <2>1. since_refresh # 0 /\ since_refresh' = 0
    BY <1>1, IntervalAssumption DEF Refresh
  <2> QED BY <2>1 DEF Refresh, SampleInv, clientVars, mirrorVars
<1>2. CASE ~(since_refresh >= RefreshInterval)
  BY <1>2, SampleStays DEF Refresh, Refreshing, clientVars, mirrorVars
<1> QED BY <1>1, <1>2

\* A listing drops the tags that are gone.
LEMMA ListsSample ==
    ASSUME SampleInv, Discovered, UNCHANGED sample PROVE SampleInv'
<1>1. /\ pc = "discovering" /\ UNCHANGED <<arriving, next_group_id, since_refresh>>
      /\ \/ UNCHANGED subscribed_tag_groups
         \/ pc' = "heartbeat" /\ \E listing : subscribed_tag_groups' = Pruned(listing)
  BY DEF Discovered, clientVars, clockVars
<1>2. CASE UNCHANGED subscribed_tag_groups
  BY <1>1, <1>2, SampleStays DEF Refreshing
<1>3. CASE pc' = "heartbeat" /\ \E listing : subscribed_tag_groups' = Pruned(listing)
  <2>1. \A g \in Group : subscribed_tag_groups'[g] \subseteq subscribed_tag_groups[g]
    BY <1>3 DEF Pruned
  <2> QED BY <1>1, <1>3, <2>1 DEF SampleInv, Refreshing
<1> QED BY <1>1, <1>2, <1>3

\* The added tags were known to no group, and nothing of them was on its way.
LEMMA SubscribesSample ==
    ASSUME TypeOK, MirrorInv, SampleInv, SubscribeAdded, Asked(arriving' \ arriving)
    PROVE  SampleInv'
<1> DEFINE added == new_tags \ current_tags
           n == next_group_id
<1>1. /\ pc = "subscribing" /\ since_refresh = 0 /\ UNCHANGED since_refresh /\ pc' = "heartbeat"
      /\ \A g \in Group : DOMAIN sample[g] \subseteq subscribed_tag_groups[g]
  BY DEF SubscribeAdded, SampleInv, Refreshing, clockVars
<1>2. \A g \in Group : /\ Pruned(new_tags)[g] \subseteq subscribed_tag_groups[g]
                       /\ added \cap subscribed_tag_groups[g] = {}
  BY DEF Pruned, MirrorInv, Tracked
<1>3. CASE /\ subscribed_tag_groups' = Pruned(new_tags)
           /\ UNCHANGED <<live, arriving, next_group_id>>
  <2>1. \A g \in Group : DOMAIN sample'[g] = DOMAIN sample[g]
    BY <1>3 DEF Asked
  <2> QED BY <1>1, <1>2, <1>3, <2>1 DEF SampleInv, Refreshing
<1>4. CASE /\ n <= MaxGroup
           /\ live' = [live EXCEPT ![n] = added \cap published]
           /\ \/ arriving' = arriving \cup {g \in Group : g = n /\ live'[g] # {}}
              \/ UNCHANGED arriving
           /\ subscribed_tag_groups' = [Pruned(new_tags) EXCEPT ![n] = added]
           /\ next_group_id' = n + 1
  <2>1. n \in Group /\ n \notin arriving
    BY <1>4, BoundAssumption DEF TypeOK, SampleInv, Group
  <2>2. /\ subscribed_tag_groups'[n] = added
        /\ \A g \in Group : g # n => subscribed_tag_groups'[g] \subseteq subscribed_tag_groups[g]
    BY <1>2, <1>4, <2>1 DEF Pruned
  <2>3. /\ DOMAIN sample'[n] \subseteq added
        /\ DOMAIN sample'[n] # {} => n \in arriving'
    <3>1. live'[n] = added \cap published
      BY <1>4, <2>1 DEF TypeOK
    <3>2. CASE n \notin arriving'
      <4>1. sample'[n] = sample[n] /\ DOMAIN sample[n] = {}
        BY <2>1, <3>2 DEF Asked, SampleInv
      <4> QED BY <4>1
    <3>3. CASE n \in arriving'
      <4>1. n \in arriving' \ arriving
        BY <2>1, <3>3
      <4>2. DOMAIN sample'[n] = live'[n]
        BY <2>1, <4>1, ValuesDomain DEF Asked
      <4> QED BY <3>1, <4>1, <4>2
    <3> QED BY <3>2, <3>3
  <2>4. \A g \in Group : g # n => DOMAIN sample'[g] = DOMAIN sample[g]
    BY <1>4 DEF Asked
  <2>5. \A g \in Group : DOMAIN sample'[g] # {} => g \in arriving'
    BY <1>4, <2>3, <2>4 DEF SampleInv
  <2>6. \A g \in arriving' : g < next_group_id'
    <3>1. \A g \in arriving : g < n /\ g \in Nat
      BY DEF SampleInv, TypeOK, Group
    <3> QED BY <1>4, <2>1, <3>1 DEF Group
  <2>7. \A g, h \in Group : DOMAIN sample'[g] \cap subscribed_tag_groups'[h] # {} => g = h
    BY <1>1, <1>2, <2>2, <2>3, <2>4 DEF SampleInv
  <2>8. \A g, h \in Group : DOMAIN sample'[g] \cap DOMAIN sample'[h] # {} => g = h
    BY <1>1, <1>2, <2>3, <2>4 DEF SampleInv
  <2> HIDE DEF added
  <2> QED BY <1>1, <2>5, <2>6, <2>7, <2>8 DEF SampleInv, Refreshing
<1> QED BY <1>3, <1>4 DEF SubscribeAdded

\* A rebuilt client has nothing on its way but what it was asked for.
LEMMA RebuiltSample ==
    ASSUME TypeOK, MirrorInv, SampleInv, NEW glitches, ResubscribeAll(glitches), AskedAnew,
           UNCHANGED <<mirrorVars, since_refresh>>, pc' \notin Refreshing
    PROVE  SampleInv'
<1>1. \A g \in Group : live'[g] \subseteq subscribed_tag_groups[g]
  BY DEF ResubscribeAll, Silent
<1>2. \A g \in Group : /\ DOMAIN sample'[g] \subseteq live'[g]
                       /\ DOMAIN sample'[g] # {} => g \in arriving'
  BY ValuesDomain DEF AskedAnew, Nothing
<1>3. arriving' \subseteq {g \in Group : live'[g] # {}}
  BY DEF ResubscribeAll, Heard
<1> QED BY <1>1, <1>2, <1>3, SampleAsked DEF mirrorVars

\* Every step leaves a tag's data changes with one group.
LEMMA NextSample ==
    ASSUME ~ListingFaults, ~SlowDiscovery, TypeOK, BridgeTypeOK, MirrorInv, LiveInv, SampleInv,
           [BridgeNext]_allVars
    PROVE  SampleInv'
<1>1. CASE Environment
  BY <1>1, SampleStays DEF Environment, ServerStops, ServerStarts, ServerLoads, SinksDie,
                           Reconfigure, clientVars, mirrorVars, clockVars
<1>2. CASE (\E t \in Tag : ChangesUnseen(t)) \/ Puts \/ ProcessDaEvent \/ UNCHANGED allVars
  BY <1>2, SampleStays DEF ChangesUnseen, Puts, ProcessDaEvent, allVars, vars, clientVars,
                           mirrorVars, clockVars
<1>3. ASSUME NEW g \in Group, Reports(g) PROVE SampleInv'
  <2>1. /\ arriving = {} /\ arriving' = {g} /\ live[g] # {}
        /\ UNCHANGED <<subscribed_tag_groups, next_group_id, since_refresh, pc>>
        /\ live[g] \subseteq subscribed_tag_groups[g] /\ g < next_group_id
    BY <1>3, HeardAreNumbered DEF Reports, PlantChanges, Heard, mirrorVars, clockVars, LiveInv
  <2>2. \A h \in Group : DOMAIN sample'[h] = IF h = g THEN live[g] ELSE {}
    BY <1>3, <2>1 DEF Reports, SampleInv, BridgeTypeOK
  <2>3. \A h, k \in Group : subscribed_tag_groups[h] \cap subscribed_tag_groups[k] # {} => h = k
    BY DEF MirrorInv
  <2> QED BY <2>1, <2>2, <2>3 DEF SampleInv
<1>4. ASSUME NEW g \in Group, Delivers(g) PROVE SampleInv'
  <2>1. \A h \in Group : DOMAIN sample'[h] = IF h = g THEN {} ELSE DOMAIN sample[h]
    BY <1>4, ValuesDomain DEF Delivers, Nothing, BridgeTypeOK
  <2>2. arriving' = arriving \ {g}
        /\ UNCHANGED <<subscribed_tag_groups, next_group_id, since_refresh, pc>>
    BY <1>4 DEF Delivers, OnDaChanges, mirrorVars
  <2> QED BY <2>1, <2>2 DEF SampleInv
<1>5. CASE Idles
  <2>1. CASE Tick
    BY <1>5, <2>1 DEF Idles, Tick, SampleInv, Refreshing, clientVars, mirrorVars
  <2>2. CASE Refresh
    BY <1>5, <2>2, RefreshSample DEF Idles
  <2> QED BY <1>5, <2>1, <2>2 DEF Idles, DiscoveryTakesLong
<1>6. CASE Beats
  <2>1. PICK asked \in SUBSET Group : Heartbeat(asked) /\ Asked(asked)
    BY <1>6 DEF Beats
  <2>2. /\ asked \subseteq Heard /\ pc' = "watchdog"
        /\ UNCHANGED <<live, subscribed_tag_groups, next_group_id, since_refresh>>
        /\ arriving' = arriving \cup asked
    BY <2>1 DEF Heartbeat, mirrorVars
  <2>3. \A g \in Group : live'[g] \subseteq subscribed_tag_groups[g]
    BY <2>2 DEF LiveInv
  <2>4. \A g \in asked : live'[g] # {}
    BY <2>2 DEF Heard
  <2>5. \A g \in Group : DOMAIN sample'[g] = IF g \in asked THEN live'[g] ELSE DOMAIN sample[g]
    BY <2>1, ValuesDomain DEF Asked
  <2> QED BY <2>2, <2>3, <2>4, <2>5, SampleAsked DEF Refreshing
<1>7. CASE Watches
  <2>1. CASE Stale
    BY <1>7, <2>1, RebuiltSample DEF Watches, Watchdog, Refreshing
  <2>2. CASE ~Stale
    <3>1. \A g \in Group : sample'[g] = sample[g]
      BY <1>7, <2>2 DEF Watches
    <3> QED BY <1>7, <2>2, <3>1 DEF Watches, Watchdog, Refreshing, SampleInv, clientVars, mirrorVars
  <2> QED BY <2>1, <2>2
<1>8. CASE RefreshFails
  <2>1. \E glitches \in {0, 1} : ResubscribeAll(glitches)
    BY <1>8 DEF RefreshFails, DiscoveryFailed
  <2> QED BY <1>8, <2>1, RebuiltSample DEF RefreshFails, DiscoveryFailed, Refreshing
<1>9. CASE Lists
  BY <1>9, ListsSample DEF Lists
<1>10. CASE Reads
  BY <1>10, SampleStays DEF Reads, ReadAdded, Refreshing, clientVars, mirrorVars, clockVars
<1>11. CASE Subscribes
  BY <1>11, SubscribesSample DEF Subscribes
<1> QED
  BY <1>1, <1>2, <1>3, <1>4, <1>5, <1>6, <1>7, <1>8, <1>9, <1>10, <1>11 DEF BridgeNext
-----------------------------------------------------------------------------
(* A node never goes back: the order of the values on their way.            *)

\* What f has of a tag is not newer than what h has of it.
Before(f, h) == \A t \in DOMAIN f \cap DOMAIN h : f[t] <= h[t]

\* What f has is not newer than what is still to be delivered or read.
PastOf(f, values, samples) == Before(f, values) /\ \A g \in Group : Before(f, samples[g])

Past(f) == PastOf(f, plant, sample)

\* The event has values.
Carries(event) == event.type # "removed_tags"

\* What the refresh has to put is older than what is still to come.
PutsPast(events, values, samples) ==
    \A i \in DOMAIN events :
      /\ events[i].type # "data_change"
      /\ Carries(events[i]) => PastOf(events[i].data, values, samples)

\* A data change comes after what is shown, and after what the queue has before it.
Queued(events) ==
    \A j \in DOMAIN events : events[j].type = "data_change" =>
      /\ Before(shown, events[j].data)
      /\ \A i \in 1 .. j - 1 : Carries(events[i]) => Before(events[i].data, events[j].data)

OrderInv ==
    /\ \A t \in Tag \ HasNode : shown[t] = NoValue
    /\ \A t \in Tag : ua_nodes[t].value \in {NoValue, shown[t]}
    /\ Past(shown)
    /\ Before(new_tag_values, plant)
    /\ \A g \in Group : Before(sample[g], plant)
    /\ PutsPast(to_put, plant, sample)
    /\ \A i \in DOMAIN da_to_main_queue :
         Carries(da_to_main_queue[i]) => Past(da_to_main_queue[i].data)
    /\ Queued(da_to_main_queue)

\* Values are numbers.
LEMMA ValueOrder ==
    /\ Value \subseteq Nat
    /\ \A f \in Changes : \A t \in DOMAIN f : t \in Tag /\ f[t] \in Value
BY DEF Value, Changes

\* Each group is asked at most now.
LEMMA AskedNow ==
    ASSUME NEW groups, Asked(groups), UNCHANGED plant
    PROVE  \A g \in Group : \A t \in DOMAIN sample'[g] :
             \/ t \in DOMAIN sample[g] /\ sample'[g][t] = sample[g][t]
             \/ sample'[g][t] = plant'[t]
BY DEF Asked, Values

\* So is each group of a rebuilt client.
LEMMA AnewNow ==
    ASSUME AskedAnew, UNCHANGED plant
    PROVE  \A g \in Group : \A t \in DOMAIN sample'[g] : sample'[g][t] = plant'[t]
BY DEF AskedAnew, Nothing, Values

\* What is past stays past, when values and samples only get newer.
LEMMA PastStays ==
    ASSUME NEW p \in [Tag -> Value], NEW q \in [Tag -> Value],
           NEW s \in [Group -> Changes], NEW r \in [Group -> Changes],
           \A t \in Tag : p[t] <= q[t],
           \A g \in Group : \A t \in DOMAIN r[g] :
             \/ t \in DOMAIN s[g] /\ r[g][t] = s[g][t]
             \/ r[g][t] = q[t],
           NEW f, \A t \in DOMAIN f \cap Tag : f[t] \in Value, PastOf(f, p, s)
    PROVE  PastOf(f, q, r)
<1>1. \A t \in DOMAIN f \cap Tag : f[t] <= p[t] /\ f[t] <= q[t]
  <2> SUFFICES ASSUME NEW t \in DOMAIN f \cap Tag PROVE f[t] <= p[t] /\ f[t] <= q[t]
    OBVIOUS
  <2>1. f[t] <= p[t] /\ p[t] <= q[t]
    BY DEF PastOf, Before
  <2>2. f[t] \in Nat /\ p[t] \in Nat /\ q[t] \in Nat
    BY ValueOrder
  <2> QED BY <2>1, <2>2
<1>2. ASSUME NEW g \in Group PROVE Before(f, r[g])
  <2> SUFFICES ASSUME NEW t \in DOMAIN f \cap DOMAIN r[g] PROVE f[t] <= r[g][t]
    BY DEF Before
  <2>1. t \in Tag
    BY ValueOrder
  <2>2. CASE t \in DOMAIN s[g] /\ r[g][t] = s[g][t]
    BY <2>2 DEF PastOf, Before
  <2>3. CASE r[g][t] = q[t]
    BY <1>1, <2>1, <2>3
  <2> QED BY <2>2, <2>3
<1> QED BY <1>1, <1>2 DEF PastOf, Before

\* The data of an event has values.
LEMMA CarriedValues ==
    ASSUME NEW event \in Event, Carries(event)
    PROVE  event.data \in Changes /\ \A t \in DOMAIN event.data : event.data[t] \in Value
BY ValueOrder DEF Event, Carries

\* The main thread stands still; values and samples get newer.
LEMMA OrderStays ==
    ASSUME BridgeTypeOK, BridgeTypeOK', OrderInv,
           UNCHANGED <<ua_nodes, shown, da_to_main_queue>>,
           \A t \in Tag : plant[t] <= plant'[t],
           \A g \in Group : \A t \in DOMAIN sample'[g] :
             \/ t \in DOMAIN sample[g] /\ sample'[g][t] = sample[g][t]
             \/ sample'[g][t] = plant'[t],
           UNCHANGED to_put \/ PutsPast(to_put', plant', sample'),
           UNCHANGED new_tag_values \/ Before(new_tag_values', plant')
    PROVE  OrderInv'
<1>1. /\ plant \in [Tag -> Value] /\ plant' \in [Tag -> Value]
      /\ sample \in [Group -> Changes] /\ sample' \in [Group -> Changes]
  BY DEF BridgeTypeOK
<1>2. ASSUME NEW f, \A t \in DOMAIN f \cap Tag : f[t] \in Value, PastOf(f, plant, sample)
      PROVE  PastOf(f, plant', sample')
  BY <1>1, <1>2, PastStays
<1>3. PastOf(shown', plant', sample')
  <2>1. \A t \in DOMAIN shown \cap Tag : shown[t] \in Value
    BY DEF BridgeTypeOK
  <2> QED BY <1>2, <2>1 DEF OrderInv, Past
<1>4. ASSUME NEW event \in Event, Carries(event), PastOf(event.data, plant, sample)
      PROVE  PastOf(event.data, plant', sample')
  BY <1>2, <1>4, CarriedValues
<1>5. \A i \in DOMAIN da_to_main_queue' :
        Carries(da_to_main_queue'[i]) => PastOf(da_to_main_queue'[i].data, plant', sample')
  <2>1. \A i \in DOMAIN da_to_main_queue : da_to_main_queue[i] \in Event
    BY DEF BridgeTypeOK
  <2> QED BY <1>4, <2>1 DEF OrderInv, Past
<1>6. PutsPast(to_put', plant', sample')
  <2>1. \A i \in DOMAIN to_put : to_put[i] \in Event
    BY DEF BridgeTypeOK
  <2> QED BY <1>4, <2>1 DEF OrderInv, PutsPast
<1>7. ASSUME NEW f \in Changes, Before(f, plant) PROVE Before(f, plant')
  <2> SUFFICES ASSUME NEW t \in DOMAIN f \cap DOMAIN plant' PROVE f[t] <= plant'[t]
    BY DEF Before
  <2>1. t \in Tag /\ f[t] <= plant[t] /\ plant[t] <= plant'[t]
    BY <1>1, <1>7 DEF Before
  <2>2. f[t] \in Nat /\ plant[t] \in Nat /\ plant'[t] \in Nat
    BY <1>1, <2>1, ValueOrder
  <2> QED BY <2>1, <2>2
<1>8. Before(new_tag_values', plant')
  BY <1>7 DEF OrderInv, BridgeTypeOK
<1>9. ASSUME NEW g \in Group PROVE Before(sample'[g], plant')
  <2> SUFFICES ASSUME NEW t \in DOMAIN sample'[g] PROVE sample'[g][t] <= plant'[t]
    BY DEF Before
  <2>1. t \in Tag /\ plant'[t] \in Nat
    BY <1>1, ValueOrder
  <2>2. CASE t \in DOMAIN sample[g] /\ sample'[g][t] = sample[g][t]
    <3>1. Before(sample[g], plant')
      BY <1>1, <1>7 DEF OrderInv
    <3> QED BY <1>1, <2>1, <2>2, <3>1 DEF Before
  <2>3. CASE sample'[g][t] = plant'[t]
    BY <2>1, <2>3
  <2> QED BY <2>2, <2>3
<1>10. /\ \A t \in Tag \ HasNode' : shown'[t] = NoValue
       /\ \A t \in Tag : ua_nodes'[t].value \in {NoValue, shown'[t]}
  BY DEF OrderInv, HasNode
<1>11. Queued(da_to_main_queue)'
  BY DEF OrderInv, Queued
<1> QED BY <1>3, <1>5, <1>6, <1>8, <1>9, <1>10, <1>11 DEF OrderInv, Past

\* At the start the nodes show the first values, or none.
LEMMA InitOrder == BridgeInit => OrderInv
<1> SUFFICES ASSUME BridgeInit PROVE OrderInv
  OBVIOUS
<1>1. /\ plant = [t \in Tag |-> 1]
      /\ \A g \in Group : sample[g] \in {Values(live[g]), Values({})}
      /\ to_put = <<>> /\ da_to_main_queue = <<>> /\ new_tag_values = Values({})
  BY DEF BridgeInit, Nothing
<1>2. \A g \in Group : live[g] \subseteq Tag
  BY InitType DEF BridgeInit, TypeOK
<1>3. \A g \in Group : \A t \in DOMAIN sample[g] : t \in Tag /\ sample[g][t] = 1
  BY <1>1, <1>2 DEF Values
<1>4. PICK v \in {NoValue, 1} :
        /\ ua_nodes = [t \in Tag |-> IF t \in current_tags \ Unshowable
                                     THEN InitialState(t, v) ELSE NoNode]
        /\ shown = [t \in Tag |-> ua_nodes[t].value]
  BY DEF BridgeInit
<1>5. \A t \in Tag : /\ shown[t] <= 1 /\ (ua_nodes[t] = NoNode => shown[t] = NoValue)
                     /\ ua_nodes[t].value = shown[t]
  <2>1. (\A t : InitialState(t, v).value <= 1) /\ NoNode.value <= 1
    BY DEF InitialState, NoNode, NoValue
  <2> QED BY <1>4, <2>1 DEF NoNode
<1>6. Past(shown)
  BY <1>1, <1>3, <1>4, <1>5 DEF Past, PastOf, Before
<1>7. \A g \in Group : Before(sample[g], plant)
  BY <1>1, <1>3 DEF Before
<1>8. Before(new_tag_values, plant)
  BY <1>1 DEF Before, Values
<1> QED BY <1>1, <1>5, <1>6, <1>7, <1>8 DEF OrderInv, PutsPast, Queued, HasNode

\* The plant's values are numbers.
LEMMA PlantNumbers ==
    ASSUME BridgeTypeOK
    PROVE  \A t \in Tag : NoValue <= plant[t] /\ plant[t] <= plant[t] /\ plant[t] <= plant[t] + 1
<1>1. plant \in [Tag -> Value]
  BY DEF BridgeTypeOK
<1>2. \A t \in Tag : plant[t] \in Nat
  BY <1>1, ValueOrder
<1> QED BY <1>2 DEF NoValue

\* A refresh has the added tags to put, whose samples are all newer, and the
\* removed ones.
LEMMA SubscribesOrder ==
    ASSUME TypeOK, MirrorInv, SampleInv, BridgeTypeOK, BridgeTypeOK', RefreshInv, OrderInv,
           Subscribes
    PROVE  OrderInv'
<1> DEFINE f == new_tag_values
<1>1. /\ SubscribeAdded /\ Asked(arriving' \ arriving) /\ UNCHANGED plant
      /\ to_put' = <<NewTags(f)>> \o Removal(current_tags \ new_tags)
      /\ new_tag_values' = Nothing /\ UNCHANGED <<da_to_main_queue, ua_nodes, shown>>
  BY DEF Subscribes, nodeVars
<1>2. \A g \in Group : Before(f, sample'[g])
  <2> SUFFICES ASSUME NEW g \in Group, NEW t \in DOMAIN f \cap DOMAIN sample'[g]
               PROVE  f[t] <= sample'[g][t]
    BY DEF Before
  <2>1. t \notin current_tags
    BY <1>1 DEF RefreshInv, SubscribeAdded
  <2>2. \A h \in Group : DOMAIN sample[h] \subseteq current_tags
    BY <1>1 DEF SampleInv, Refreshing, SubscribeAdded, MirrorInv, Tracked
  <2>3. sample'[g][t] = plant[t]
    BY <1>1, <2>1, <2>2, AskedNow
  <2>4. t \in Tag
    BY ValueOrder DEF BridgeTypeOK
  <2> QED BY <2>3, <2>4 DEF OrderInv, Before, BridgeTypeOK
<1>3. PastOf(f, plant', sample')
  BY <1>1, <1>2 DEF OrderInv, PastOf
<1>4. PutsPast(to_put', plant', sample')
  <2> DEFINE removal == Removal(current_tags \ new_tags)
             head == NewTags(f)
             last == RemovedTags(current_tags \ new_tags)
  <2>1. head.type = "new_tags" /\ head.data = f
    BY DEF NewTags
  <2>2. last.type = "removed_tags"
    BY DEF RemovedTags
  <2>3. removal = <<>> \/ removal = <<last>>
    BY DEF Removal
  <2> HIDE DEF removal, head, last
  <2>4. \A i \in DOMAIN (<<head>> \o removal) : (<<head>> \o removal)[i] \in {head, last}
    <3>1. CASE removal = <<>>
      BY <3>1
    <3>2. CASE removal = <<last>>
      BY <3>2
    <3> QED BY <2>3, <3>1, <3>2
  <2>5. to_put' = <<head>> \o removal
    BY <1>1 DEF head, removal
  <2> QED BY <1>3, <2>1, <2>2, <2>4, <2>5 DEF PutsPast, Carries
<1>5. Before(new_tag_values', plant')
  BY <1>1 DEF Nothing, Values, Before
<1>6. \A t \in Tag : plant[t] <= plant'[t]
  BY <1>1, PlantNumbers
<1> QED BY <1>1, <1>4, <1>5, <1>6, AskedNow, OrderStays

\* Steps of the plant and of the loop.
LEMMA LoopOrder ==
    ASSUME TypeOK, MirrorInv, SampleInv, BridgeTypeOK, BridgeTypeOK', RefreshInv, OrderInv,
           \/ Environment \/ \E t \in Tag : ChangesUnseen(t)
           \/ \E g \in Group : Reports(g)
           \/ Idles \/ Beats \/ Watches \/ RefreshFails \/ Lists \/ Reads \/ Subscribes
           \/ UNCHANGED allVars
    PROVE  OrderInv'
<1> USE DEF queueVars, nodeVars
<1>1. \A t \in Tag : plant[t] <= plant[t] /\ plant[t] <= plant[t] + 1
  BY PlantNumbers
<1>2. CASE Environment \/ Idles \/ UNCHANGED allVars
  BY <1>1, <1>2, OrderStays DEF Environment, Idles, allVars
<1>3. ASSUME NEW t \in Tag, TakesValue(t) PROVE \A u \in Tag : plant[u] <= plant'[u]
  BY <1>1, <1>3 DEF TakesValue, BridgeTypeOK
<1>4. ASSUME NEW t \in Tag, ChangesUnseen(t) PROVE OrderInv'
  BY <1>3, <1>4, OrderStays DEF ChangesUnseen
<1>5. ASSUME NEW g \in Group, Reports(g) PROVE OrderInv'
  <2>1. \A u \in Tag : plant[u] <= plant'[u]
    BY <1>3, <1>5 DEF Reports, TypeOK
  <2>2. \A h \in Group : \A t \in DOMAIN sample'[h] :
          \/ t \in DOMAIN sample[h] /\ sample'[h][t] = sample[h][t]
          \/ sample'[h][t] = plant'[t]
    BY <1>5 DEF Reports, BridgeTypeOK
  <2> QED BY <1>5, <2>1, <2>2, OrderStays DEF Reports
<1>6. CASE Beats \/ Watches \/ RefreshFails
  <2>1. (\E groups : Asked(groups)) \/ AskedAnew \/ UNCHANGED sample
    BY <1>6 DEF Beats, Watches, RefreshFails
  <2>2. UNCHANGED <<plant, new_tag_values, queueVars, nodeVars>>
    BY <1>6 DEF Beats, Watches, RefreshFails
  <2> QED BY <1>1, <2>1, <2>2, AskedNow, AnewNow, OrderStays
<1>7. CASE Lists
  <2>1. PutsPast(to_put', plant', sample')
    BY <1>7 DEF Lists, Removal, RemovedTags, PutsPast, Carries
  <2> QED BY <1>1, <1>7, <2>1, OrderStays DEF Lists
<1>8. CASE Reads
  <2>1. Before(new_tag_values', plant')
    <3>1. \A t \in Tag : NoValue <= plant[t]
      BY PlantNumbers
    <3>2. \A t \in DOMAIN new_tag_values' : new_tag_values'[t] \in {plant[t], NoValue}
      BY <1>8 DEF Reads
    <3> QED BY <1>1, <1>8, <3>1, <3>2 DEF Reads, Before, BridgeTypeOK
  <2> QED BY <1>1, <1>8, <2>1, OrderStays DEF Reads
<1> QED BY <1>2, <1>4, <1>5, <1>6, <1>7, <1>8, SubscribesOrder

\* The queue with an event at its end.
LEMMA Appended ==
    ASSUME NEW q \in Seq(Event), NEW e \in Event
    PROVE  /\ DOMAIN Append(q, e) = DOMAIN q \cup {Len(q) + 1}
           /\ \A i \in DOMAIN q : Append(q, e)[i] = q[i] /\ i <= Len(q)
           /\ Append(q, e)[Len(q) + 1] = e
           /\ Len(q) \in Nat /\ DOMAIN q = 1 .. Len(q)
OBVIOUS

\* What a group delivers is the newest of its tags, which no other group has.
LEMMA DeliversOrder ==
    ASSUME SampleInv, BridgeTypeOK, OrderInv, NEW g \in Group, Delivers(g)
    PROVE  OrderInv'
<1> DEFINE q == da_to_main_queue
           e == DataChange(sample[g])
           n == Len(q) + 1
<1>1. /\ q' = Append(q, e) /\ sample' = [sample EXCEPT ![g] = Nothing]
      /\ UNCHANGED <<plant, new_tag_values, to_put, ua_nodes, shown>>
  BY DEF Delivers, nodeVars
<1>2. \A f, h \in Group : \A t \in DOMAIN sample'[f] :
        t \in DOMAIN sample[f] /\ sample'[f][t] = sample[f][t]
  BY <1>1, ValuesDomain DEF Nothing, BridgeTypeOK
<1>3. ASSUME NEW f, PastOf(f, plant, sample) PROVE PastOf(f, plant', sample')
  BY <1>1, <1>2, <1>3 DEF PastOf, Before
<1>4. PastOf(sample[g], plant', sample')
  <2>1. \A h \in Group : DOMAIN sample[g] \cap DOMAIN sample'[h] = {}
    BY <1>1, ValuesDomain DEF SampleInv, Nothing, BridgeTypeOK
  <2> QED BY <1>1, <2>1 DEF OrderInv, PastOf, Before
<1>5. e \in Event /\ e.type = "data_change" /\ e.data = sample[g]
  BY DEF DataChange, Event, BridgeTypeOK
<1> HIDE DEF e
<1>6. /\ DOMAIN q' = DOMAIN q \cup {n} /\ q'[n] = e
      /\ \A i \in DOMAIN q : q'[i] = q[i] /\ i <= Len(q)
      /\ n = Len(q) + 1 /\ Len(q) \in Nat /\ DOMAIN q = 1 .. Len(q)
  BY <1>1, <1>5, Appended DEF BridgeTypeOK
<1> HIDE DEF n, q
<1>7. \A i \in DOMAIN q' : Carries(q'[i]) => PastOf(q'[i].data, plant', sample')
  <2>1. \A i \in DOMAIN q : Carries(q[i]) => PastOf(q[i].data, plant, sample)
    BY DEF OrderInv, Past, q
  <2> QED BY <1>3, <1>4, <1>5, <1>6, <2>1
<1>8. Queued(q)'
  <2> SUFFICES ASSUME NEW j \in DOMAIN q', q'[j].type = "data_change"
               PROVE  /\ Before(shown, q'[j].data)
                      /\ \A i \in 1 .. j - 1 : Carries(q'[i]) => Before(q'[i].data, q'[j].data)
    BY <1>1 DEF Queued
  <2>1. CASE j \in DOMAIN q
    <3>1. \A i \in 1 .. j - 1 : i \in DOMAIN q
      BY <1>6, <2>1
    <3> QED BY <1>6, <2>1, <3>1 DEF OrderInv, Queued, q
  <2>2. CASE j = n
    <3>1. \A i \in 1 .. j - 1 : i \in DOMAIN q
      BY <1>6, <2>2
    <3>2. Before(shown, sample[g])
      BY DEF OrderInv, Past, PastOf
    <3>3. \A i \in DOMAIN q : Carries(q[i]) => Before(q[i].data, sample[g])
      BY DEF OrderInv, Past, PastOf, q
    <3> QED BY <1>5, <1>6, <2>2, <3>1, <3>2, <3>3
  <2> QED BY <1>6, <2>1, <2>2
<1>9. PutsPast(to_put', plant', sample') /\ PastOf(shown', plant', sample')
  BY <1>1, <1>3 DEF OrderInv, PutsPast, Past
<1>10. \A h \in Group : Before(sample'[h], plant')
  BY <1>1, <1>2 DEF OrderInv, Before
<1>11. /\ Before(new_tag_values', plant')
       /\ \A t \in Tag \ HasNode' : shown'[t] = NoValue
       /\ \A t \in Tag : ua_nodes'[t].value \in {NoValue, shown'[t]}
  BY <1>1 DEF OrderInv, HasNode
<1> QED BY <1>7, <1>8, <1>9, <1>10, <1>11 DEF OrderInv, Past, q

\* The refresh puts no data change, so nothing comes before one.
LEMMA PutsOrder ==
    ASSUME BridgeTypeOK, OrderInv, Puts PROVE OrderInv'
<1> DEFINE q == da_to_main_queue
           e == Head(to_put)
           n == Len(q) + 1
<1>1. /\ q' = Append(q, e) /\ to_put # <<>> /\ to_put' = Tail(to_put)
      /\ UNCHANGED <<plant, sample, new_tag_values, ua_nodes, shown>>
  BY DEF Puts, nodeVars
<1>2. /\ e = to_put[1] /\ 1 \in DOMAIN to_put /\ e \in Event
      /\ \A i \in DOMAIN to_put' : i + 1 \in DOMAIN to_put /\ to_put'[i] = to_put[i + 1]
  BY <1>1 DEF BridgeTypeOK
<1>3. e.type # "data_change" /\ (Carries(e) => Past(e.data))
  BY <1>2 DEF OrderInv, PutsPast, Past
<1> HIDE DEF e
<1>4. /\ DOMAIN q' = DOMAIN q \cup {n} /\ q'[n] = e
      /\ \A i \in DOMAIN q : q'[i] = q[i] /\ i <= Len(q)
      /\ n = Len(q) + 1 /\ Len(q) \in Nat /\ DOMAIN q = 1 .. Len(q)
  BY <1>1, <1>2, Appended DEF BridgeTypeOK
<1> HIDE DEF n, q
<1>5. PastOf(shown', plant', sample') /\ PutsPast(to_put', plant', sample')
  BY <1>1, <1>2 DEF OrderInv, PutsPast, Past
<1>6. \A i \in DOMAIN q' : Carries(q'[i]) => PastOf(q'[i].data, plant', sample')
  <2>1. \A i \in DOMAIN q : Carries(q[i]) => PastOf(q[i].data, plant, sample)
    BY DEF OrderInv, Past, q
  <2> QED BY <1>1, <1>3, <1>4, <2>1 DEF Past
<1>7. Queued(q)'
  <2> SUFFICES ASSUME NEW j \in DOMAIN q', q'[j].type = "data_change"
               PROVE  /\ Before(shown, q'[j].data)
                      /\ \A i \in 1 .. j - 1 : Carries(q'[i]) => Before(q'[i].data, q'[j].data)
    BY <1>1 DEF Queued
  <2>1. j \in DOMAIN q
    BY <1>3, <1>4
  <2>2. \A i \in 1 .. j - 1 : i \in DOMAIN q
    BY <1>4, <2>1
  <2> QED BY <1>4, <2>1, <2>2 DEF OrderInv, Queued, q
<1> QED BY <1>1, <1>5, <1>6, <1>7 DEF OrderInv, Past, HasNode, q

\* What a node shows is what it showed, nothing, or what the event has of its tag;
\* a tag without a node has shown nothing.
LEMMA ProcessValues ==
    ASSUME BridgeTypeOK, BridgeTypeOK', OrderInv, ProcessDaEvent
    PROVE  /\ \A t \in Tag \ HasNode' : shown'[t] = NoValue
           /\ \A t \in Tag :
                /\ shown[t] <= shown'[t]
                /\ ua_nodes'[t].value \in {NoValue, shown'[t]}
                /\ \/ shown'[t] = shown[t]
                   \/ /\ Carries(Head(da_to_main_queue)) /\ t \in DOMAIN Head(da_to_main_queue).data
                      /\ shown'[t] = Head(da_to_main_queue).data[t]
<1> DEFINE event == Head(da_to_main_queue)
<1>1. \A t \in Tag : /\ shown[t] \in Nat /\ NoValue <= shown[t] /\ shown[t] <= shown[t]
                     /\ ~(NoValue > shown[t])
  <2>1. shown \in [Tag -> Value]
    BY DEF BridgeTypeOK
  <2>2. \A t \in Tag : shown[t] \in Nat
    BY <2>1, ValueOrder
  <2> QED BY <2>2 DEF NoValue
<1>2. ASSUME NEW new, SetValues(new), NEW t \in Tag, t \notin DOMAIN new
      PROVE  ua_nodes'[t] = ua_nodes[t] /\ shown'[t] = shown[t]
  <2>1. ua_nodes'[t] = ua_nodes[t]
    BY <1>2 DEF SetValues
  <2>2. ~(ua_nodes[t].value > shown[t])
    BY <1>1 DEF OrderInv
  <2> QED BY <1>2, <2>1, <2>2 DEF SetValues
<1>3. ASSUME NEW new, SetValues(new), NEW t \in Tag, t \in DOMAIN new
      PROVE  /\ ua_nodes'[t] = new[t]
             /\ shown'[t] = IF new[t].value > shown[t] THEN new[t].value ELSE shown[t]
  BY <1>3 DEF SetValues
<1>4. \A t \in Tag \ HasNode : /\ ua_nodes[t] = NoNode
                               /\ ua_nodes[t].value \in {NoValue, shown[t]}
                               /\ shown[t] = NoValue
  BY DEF HasNode, OrderInv
<1>5. /\ event \in Event
      /\ event = da_to_main_queue[1] /\ 1 \in DOMAIN da_to_main_queue
  BY DEF ProcessDaEvent, BridgeTypeOK
<1>6. HasNode \subseteq HasNode' /\ \A t \in Tag : ua_nodes[t].value \in {NoValue, shown[t]}
  BY ProcessShows DEF OrderInv
<1>7. CASE event.type = "data_change" /\ OnDataChange(event.data)
  <2> DEFINE new == [t \in {u \in DOMAIN event.data \cap HasNode :
                                <<u, event.data[u]>> \notin Refused} |->
                       UpdatedState(t, event.data[t])]
  <2>1. SetValues(new) /\ Carries(event)
    BY <1>7 DEF OnDataChange, Carries
  <2>2. Before(shown, event.data)
    BY <1>5, <1>7 DEF OrderInv, Queued
  <2>3. ASSUME NEW t \in Tag, t \in DOMAIN new
        PROVE  shown'[t] = event.data[t] /\ ua_nodes'[t].value = event.data[t]
                 /\ shown[t] <= event.data[t]
    <3>1. new[t].value = event.data[t]
      BY <2>3 DEF UpdatedState
    <3>2. shown[t] <= event.data[t] /\ event.data[t] \in Nat
      <4>1. event.data[t] \in Value
        BY <1>5, <2>1, <2>3, CarriedValues
      <4>2. t \in DOMAIN shown
        BY DEF BridgeTypeOK
      <4> QED BY <2>2, <2>3, <4>1, <4>2, ValueOrder DEF Before
    <3> HIDE DEF new
    <3>3. ua_nodes'[t].value = event.data[t]
      BY <1>3, <2>1, <2>3, <3>1
    <3>4. shown'[t] = IF event.data[t] > shown[t] THEN event.data[t] ELSE shown[t]
      BY <1>3, <2>1, <2>3, <3>1
    <3> QED BY <1>1, <3>2, <3>3, <3>4
  <2>4. DOMAIN new \subseteq DOMAIN event.data \cap HasNode
    OBVIOUS
  <2> HIDE DEF new
  <2>5. \A t \in Tag \ HasNode' : shown'[t] = NoValue
    BY <1>2, <1>4, <1>6, <2>1, <2>4
  <2>6. ASSUME NEW t \in Tag
        PROVE  /\ shown[t] <= shown'[t]
               /\ ua_nodes'[t].value \in {NoValue, shown'[t]}
               /\ shown'[t] = shown[t] \/ (t \in DOMAIN event.data /\ shown'[t] = event.data[t])
    <3>1. CASE t \in DOMAIN new
      BY <2>3, <2>4, <3>1
    <3>2. CASE t \notin DOMAIN new
      <4>1. ua_nodes'[t] = ua_nodes[t] /\ shown'[t] = shown[t]
        BY <1>2, <2>1, <3>2
      <4> QED BY <1>1, <1>6, <4>1
    <3> QED BY <3>1, <3>2
  <2> QED BY <2>1, <2>5, <2>6
<1>8. CASE event.type = "new_tags" /\ OnNewTags(event.data)
  <2> DEFINE new == [t \in DOMAIN event.data \ (HasNode \cup Unshowable) |->
                       InitialState(t, event.data[t])]
  <2>1. SetValues(new) /\ Carries(event)
    BY <1>8 DEF OnNewTags, Carries
  <2>2. ASSUME NEW t \in Tag, t \in DOMAIN new
        PROVE  /\ shown'[t] = event.data[t] /\ ua_nodes'[t].value = event.data[t]
               /\ shown[t] <= event.data[t] /\ ua_nodes'[t] # NoNode
    <3>1. new[t].value = event.data[t] /\ new[t] # NoNode /\ t \notin HasNode
      BY <2>2 DEF InitialState, Status, NoNode
    <3>2. event.data[t] \in Nat
      <4>1. event.data[t] \in Value
        BY <1>5, <2>1, <2>2, CarriedValues
      <4> QED BY <4>1, ValueOrder
    <3> HIDE DEF new
    <3>3. ua_nodes'[t].value = event.data[t] /\ ua_nodes'[t] # NoNode
      BY <1>3, <2>1, <2>2, <3>1
    <3>4. shown'[t] = IF event.data[t] > shown[t] THEN event.data[t] ELSE shown[t]
      BY <1>3, <2>1, <2>2, <3>1
    <3>5. shown[t] = NoValue
      BY <1>4, <3>1
    <3> QED BY <3>2, <3>3, <3>4, <3>5 DEF NoValue
  <2>3. DOMAIN new \subseteq DOMAIN event.data
    OBVIOUS
  <2> HIDE DEF new
  <2>4. ASSUME NEW t \in Tag \ HasNode' PROVE shown'[t] = NoValue
    <3>1. t \notin DOMAIN new
      BY <2>2, <2>4 DEF HasNode
    <3> QED BY <1>2, <1>4, <1>6, <2>1, <2>4, <3>1
  <2>5. ASSUME NEW t \in Tag
        PROVE  /\ shown[t] <= shown'[t]
               /\ ua_nodes'[t].value \in {NoValue, shown'[t]}
               /\ shown'[t] = shown[t] \/ (t \in DOMAIN event.data /\ shown'[t] = event.data[t])
    <3>1. CASE t \in DOMAIN new
      BY <2>2, <2>3, <3>1
    <3>2. CASE t \notin DOMAIN new
      <4>1. ua_nodes'[t] = ua_nodes[t] /\ shown'[t] = shown[t]
        BY <1>2, <2>1, <3>2
      <4> QED BY <1>1, <1>6, <4>1
    <3> QED BY <3>1, <3>2
  <2> QED BY <2>1, <2>4, <2>5
<1>9. CASE event.type = "removed_tags" /\ OnRemovedTags(event.data)
  <2> DEFINE gone == [value |-> NoValue, status |-> "BadNodeIdUnknown"]
             new == [t \in event.data \cap HasNode |-> gone]
  <2>1. SetValues(new)
    BY <1>9 DEF OnRemovedTags
  <2>2. gone.value = NoValue /\ \A t \in DOMAIN new : new[t] = gone /\ t \in HasNode
    OBVIOUS
  <2> HIDE DEF new, gone
  <2>3. ASSUME NEW t \in Tag
        PROVE  shown'[t] = shown[t] /\ ua_nodes'[t].value \in {NoValue, shown[t]}
    <3>1. CASE t \in DOMAIN new
      BY <1>1, <1>3, <2>1, <2>2, <3>1
    <3>2. CASE t \notin DOMAIN new
      BY <1>2, <2>1, <3>2 DEF OrderInv
    <3> QED BY <3>1, <3>2
  <2>4. \A t \in Tag \ HasNode' : shown'[t] = NoValue
    BY <1>4, <1>6, <2>3
  <2> QED BY <1>1, <2>3, <2>4
<1> QED BY <1>7, <1>8, <1>9 DEF ProcessDaEvent

\* What was shown or taken from the queue is older than all that stays in it.
LEMMA ProcessOrder ==
    ASSUME BridgeTypeOK, BridgeTypeOK', OrderInv, ProcessDaEvent
    PROVE  OrderInv'
<1> DEFINE q == da_to_main_queue
           e == Head(q)
<1>1. /\ q # <<>> /\ q' = Tail(q) /\ UNCHANGED <<plant, sample, new_tag_values, to_put>>
  BY DEF ProcessDaEvent
<1>2. /\ e = q[1] /\ 1 \in DOMAIN q
      /\ \A i \in DOMAIN q' : i + 1 \in DOMAIN q /\ q'[i] = q[i + 1] /\ i \in Nat \ {0}
  BY <1>1 DEF BridgeTypeOK
<1>3. ASSUME NEW t \in Tag
      PROVE  \/ shown'[t] = shown[t]
             \/ Carries(e) /\ t \in DOMAIN e.data /\ shown'[t] = e.data[t]
  BY ProcessValues
<1>4. DOMAIN shown = Tag /\ DOMAIN shown' = Tag
  BY DEF BridgeTypeOK
<1> HIDE DEF e, q
<1>5. ASSUME NEW h, Before(shown, h), Carries(e) => Before(e.data, h) PROVE Before(shown', h)
  BY <1>3, <1>4, <1>5 DEF Before
<1>6. Past(shown) /\ (Carries(e) => Past(e.data))
  BY <1>2 DEF OrderInv, q
<1>7. PastOf(shown', plant, sample)
  BY <1>5, <1>6 DEF Past, PastOf
<1>8. \A i \in DOMAIN q' : Carries(q'[i]) => PastOf(q'[i].data, plant, sample)
  BY <1>2 DEF OrderInv, Past, q
<1>9. Queued(q)'
  <2> SUFFICES ASSUME NEW j \in DOMAIN q', q'[j].type = "data_change"
               PROVE  /\ Before(shown', q'[j].data)
                      /\ \A i \in 1 .. j - 1 : Carries(q'[i]) => Before(q'[i].data, q'[j].data)
    BY DEF Queued
  <2>1. /\ q'[j] = q[j + 1] /\ j + 1 \in DOMAIN q /\ q[j + 1].type = "data_change" /\ j \in Nat \ {0}
    BY <1>2
  <2>2. /\ Before(shown, q[j + 1].data)
        /\ \A i \in 1 .. j : Carries(q[i]) => Before(q[i].data, q[j + 1].data)
    BY <2>1 DEF OrderInv, Queued, q
  <2>3. 1 \in 1 .. j
    BY <2>1
  <2>4. Before(shown', q'[j].data)
    BY <1>2, <1>5, <2>1, <2>2, <2>3
  <2>5. ASSUME NEW i \in 1 .. j - 1, Carries(q'[i]) PROVE Before(q'[i].data, q'[j].data)
    <3>1. i \in DOMAIN q' /\ i + 1 \in 1 .. j
      <4>1. DOMAIN q' = 1 .. Len(q') /\ Len(q') \in Nat
        BY DEF BridgeTypeOK, q
      <4> QED BY <2>1, <4>1
    <3>2. q'[i] = q[i + 1]
      BY <1>2, <3>1
    <3> QED BY <2>1, <2>2, <2>5, <3>1, <3>2
  <2> QED BY <2>4, <2>5
<1>10. /\ \A t \in Tag \ HasNode' : shown'[t] = NoValue
       /\ \A t \in Tag : ua_nodes'[t].value \in {NoValue, shown'[t]}
  BY ProcessValues
<1> QED BY <1>1, <1>7, <1>8, <1>9, <1>10 DEF OrderInv, Past, q

LEMMA NextOrder ==
    ASSUME TypeOK, MirrorInv, SampleInv, BridgeTypeOK, BridgeTypeOK', RefreshInv, OrderInv,
           [BridgeNext]_allVars
    PROVE  OrderInv'
BY LoopOrder, DeliversOrder, PutsOrder, ProcessOrder DEF BridgeNext

\* Only the main thread sets nodes, and never to what is older than they have shown.
LEMMA StepIsNotBack ==
    ASSUME BridgeTypeOK, BridgeTypeOK', OrderInv, [BridgeNext]_allVars
    PROVE  [\A t \in Tag : ua_nodes'[t].value \in {NoValue} \cup shown[t] .. MaxValue]_nodeVars
<1>1. CASE ProcessDaEvent
  <2> SUFFICES ASSUME NEW t \in Tag
               PROVE  ua_nodes'[t].value \in {NoValue} \cup shown[t] .. MaxValue
    OBVIOUS
  <2>1. shown[t] <= shown'[t] /\ ua_nodes'[t].value \in {NoValue, shown'[t]}
    BY <1>1, ProcessValues
  <2>2. shown[t] \in 0 .. MaxValue /\ shown'[t] \in 0 .. MaxValue
    BY DEF BridgeTypeOK, Value
  <2> QED BY <2>1, <2>2
<1>2. CASE ~ProcessDaEvent
  BY <1>2 DEF BridgeNext, allVars, nodeVars, Environment, ChangesUnseen, Reports, Delivers, Idles,
              Beats, Watches, RefreshFails, Lists, Reads, Subscribes, Puts
<1> QED BY <1>1, <1>2

\* No node ever shows an older value than it has shown, though what a refresh has
\* read crosses the data changes, and tags come and go: if no listing misses a tag,
\* and no discovery outlasts a tick.
THEOREM NodesNeverGoBack ==
    ASSUME ~ListingFaults, ~SlowDiscovery
    PROVE  BridgeSpec => NeverBack
<1> DEFINE Inv == /\ TypeOK /\ BridgeTypeOK /\ RefreshInv /\ MirrorInv /\ LiveInv
                  /\ SampleInv /\ OrderInv
<1>1. BridgeInit => Inv
  BY StartIsDaThreads, InitType, BridgeInitType, InitRefresh, InitMirror, InitLive, InitSample,
     InitOrder
<1>2. Inv /\ [BridgeNext]_allVars => Inv'
  <2>1. ASSUME Inv, [BridgeNext]_allVars PROVE TypeOK' /\ BridgeTypeOK'
    BY <2>1, LoopTyped, BridgeNextType
  <2>2. ASSUME Inv, [BridgeNext]_allVars PROVE RefreshInv' /\ MirrorInv' /\ LiveInv'
    BY <2>2, StepIsDaThreads, NextRefresh, NextMirror, NextLive
  <2>3. ASSUME Inv, [BridgeNext]_allVars PROVE SampleInv' /\ OrderInv'
    BY <2>1, <2>3, NextSample, NextOrder
  <2> QED BY <2>1, <2>2, <2>3
<1>3. Inv /\ Inv' /\ [BridgeNext]_allVars =>
        [\A t \in Tag : ua_nodes'[t].value \in {NoValue} \cup shown[t] .. MaxValue]_nodeVars
  BY StepIsNotBack
<1> QED BY <1>1, <1>2, <1>3, PTL DEF BridgeSpec, NeverBack
=============================================================================
