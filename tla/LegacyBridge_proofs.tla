--------------------------- MODULE LegacyBridge_proofs ---------------------------
(***************************************************************************)
(* Theorems about the nodes of the legacy bridge, for every plant and batch*)
(* size: a tag's node exists, and a node is its tag's; the variables keep  *)
(* their types; and every node is described when no call fails.            *)
(***************************************************************************)
EXTENDS LegacyBridge, FiniteSetTheorems, TLAPS

USE DEF plant, nodes, history

-----------------------------------------------------------------------------
(* The inductive invariant.                                                 *)

HasNode == \A t \in DOMAIN ua_nodes : NodeOf(t) \in DOMAIN space

HasTag == \A n \in DOMAIN space \ undeleted : n[1] \in DOMAIN ua_nodes /\ n = NodeOf(n[1])

\* The poll thread has made no node yet.
BeforeBoot == poll.at \in {"start", "list", "meters", "filter"}

\* Where the refresh thread has taken no listing to follow.
Apart == {"start", "wait", "list", "ended"}

\* What the poll thread is still to make has no node, and it is alone until then.
Bootstrap ==
    /\ BeforeBoot => DOMAIN ua_nodes = {}
    /\ poll.at = "boot" => poll.left \cap DOMAIN ua_nodes = {}
    /\ Booting => refresh.at \in Apart

\* What the refresh is still to make has no node.
NewIsNew ==
    refresh.at \in {"remove", "add"} =>
      \A i \in refresh.done + 1 .. Len(refresh.new) : refresh.new[i] \notin DOMAIN ua_nodes

\* The parts of the threads' states that matter here.
PollType == {"at", "left", "tags", "results"} \subseteq DOMAIN poll

RefreshType ==
    /\ {"at", "current", "new", "removed", "done", "added"} \subseteq DOMAIN refresh
    /\ refresh.current \subseteq Tag
    /\ refresh.new \in Seq(Tag)
    /\ \A i, j \in 1 .. Len(refresh.new) : refresh.new[i] = refresh.new[j] => i = j
    /\ refresh.done \in Nat
    /\ refresh.at \notin {"add", "signal"} => refresh.done = 0

NodeInv ==
    /\ available \subseteq Tag /\ PollType /\ RefreshType
    /\ HasNode
    /\ "bootstrap" \notin overlaps => HasTag /\ Bootstrap /\ NewIsNew

-----------------------------------------------------------------------------
(* What is kept of a listing.                                               *)

\* A listing loses tags on its way, and gets none.
LEMMA CandidatesAreListed ==
    ASSUME NEW tags, NEW c \in Candidates(tags) PROVE c \subseteq tags
BY DEF Candidates, _deduplicate_tags

LEMMA FilteredAreCandidates ==
    ASSUME NEW candidates, NEW f PROVE _filter_tags(candidates, f) \subseteq candidates
<1>1. _filter_azucarlito(candidates, f) \subseteq candidates
  BY DEF _filter_azucarlito
<1>2. _filter_ifix(candidates) \subseteq candidates
  BY DEF _filter_ifix
<1>3. Standalone(candidates) \subseteq candidates
  BY DEF Standalone
<1> QED BY <1>1, <1>2, <1>3, ModeAssumption DEF _filter_tags

\* The sequences of a finite set of tags.
LEMMA Ordered ==
    ASSUME NEW S \in SUBSET Tag, NEW s \in SetToSeqs(S)
    PROVE  /\ s \in Seq(Tag)
           /\ \A i \in 1 .. Len(s) : s[i] \in S
           /\ \A i, j \in 1 .. Len(s) : s[i] = s[j] => i = j
<1>1. IsFiniteSet(S)
  BY FS_Subset, BridgeAssumption
<1>2. Cardinality(S) \in Nat
  BY <1>1, FS_CardinalityType
<1>3. s \in [1 .. Cardinality(S) -> S] /\ \A i, j \in 1 .. Cardinality(S) : i # j => s[i] # s[j]
  BY DEF SetToSeqs
<1>4. s \in Seq(S) /\ Len(s) = Cardinality(S)
  BY <1>2, <1>3
<1> QED BY <1>3, <1>4

-----------------------------------------------------------------------------
(* Steps that make or delete no node.                                       *)

\* The nodes there are, and whose.
SameNodes == UNCHANGED ua_nodes /\ DOMAIN space' = DOMAIN space

LEMMA SameNodesMatch ==
    ASSUME SameNodes, UNCHANGED undeleted PROVE (HasNode => HasNode') /\ (HasTag => HasTag')
BY DEF SameNodes, HasNode, HasTag, NodeOf

\* A step of the poll thread that does not lead back to the bootstrap.
LEMMA PollMoves ==
    ASSUME NodeInv, SameNodes, UNCHANGED <<available, refresh, history>>, PollType',
           BeforeBoot' => BeforeBoot, Booting' => Booting,
           poll'.at = "boot" => BeforeBoot \/ (poll.at = "boot" /\ poll'.left \subseteq poll.left)
    PROVE  NodeInv'
<1>1. RefreshType'
  BY DEF NodeInv, RefreshType
<1>2. ASSUME Bootstrap PROVE Bootstrap'
  BY <1>2 DEF Bootstrap, SameNodes
<1>3. ASSUME NewIsNew PROVE NewIsNew'
  BY <1>3 DEF NewIsNew, SameNodes
<1> QED BY <1>1, <1>2, <1>3, SameNodesMatch DEF NodeInv

LEMMA _read_descriptionsNodes ==
    ASSUME NEW tags, _read_descriptions(tags) PROVE SameNodes
BY DEF _read_descriptions, _apply_descriptions, SameNodes

\* A step of the refresh thread: what it has to make, and where it is.
LEMMA RefreshMoves ==
    ASSUME NodeInv, SameNodes, UNCHANGED <<available, poll, undeleted>>, RefreshType',
           "bootstrap" \notin overlaps' => "bootstrap" \notin overlaps,
           "bootstrap" \notin overlaps' /\ Booting => refresh'.at \in Apart,
           refresh'.at \in {"remove", "add"} =>
             \/ refresh.at \in {"remove", "add"} /\ UNCHANGED <<refresh.done, refresh.new>>
             \/ \A i \in 1 .. Len(refresh'.new) : refresh'.new[i] \notin DOMAIN ua_nodes
    PROVE  NodeInv'
<1>1. PollType'
  BY DEF NodeInv, PollType
<1>2. ASSUME "bootstrap" \notin overlaps', Bootstrap PROVE Bootstrap'
  BY <1>2 DEF Bootstrap, SameNodes, BeforeBoot, Booting
<1>3. ASSUME NewIsNew PROVE NewIsNew'
  <2> SUFFICES ASSUME refresh'.at \in {"remove", "add"},
                      NEW i \in refresh'.done + 1 .. Len(refresh'.new)
               PROVE  refresh'.new[i] \notin DOMAIN ua_nodes
    BY DEF NewIsNew, SameNodes
  <2>1. i \in 1 .. Len(refresh'.new)
    BY DEF RefreshType
  <2> QED BY <1>3, <2>1 DEF NewIsNew
<1> QED BY <1>1, <1>2, <1>3, SameNodesMatch DEF NodeInv

-----------------------------------------------------------------------------
(* Making nodes.                                                            *)

\* Nodes made for tags without one keep each node its tag's.
LEMMA MadeNodesMatch ==
    ASSUME NEW tags, _add_ua_node(tags), HasNode, UNCHANGED undeleted
    PROVE  /\ HasNode'
           /\ DOMAIN ua_nodes' = DOMAIN ua_nodes \cup tags
           /\ HasTag /\ tags \cap DOMAIN ua_nodes = {} => HasTag'
<1> DEFINE made == {<<t, Fresh(t)>> : t \in tags}
<1>1. /\ DOMAIN ua_nodes' = DOMAIN ua_nodes \cup tags
      /\ \A t \in DOMAIN ua_nodes \cup tags :
           ua_nodes'[t] = IF t \in tags THEN Fresh(t) ELSE ua_nodes[t]
      /\ DOMAIN space' = DOMAIN space \cup made
  BY DEF _add_ua_node
<1>2. HasNode'
  <2> SUFFICES ASSUME NEW t \in DOMAIN ua_nodes' PROVE <<t, ua_nodes'[t]>> \in DOMAIN space'
    BY DEF HasNode, NodeOf
  <2>1. CASE t \in tags
    BY <1>1, <2>1
  <2>2. CASE t \notin tags
    BY <1>1, <2>2 DEF HasNode, NodeOf
  <2> QED BY <2>1, <2>2
<1>3. ASSUME HasTag, tags \cap DOMAIN ua_nodes = {} PROVE HasTag'
  <2> SUFFICES ASSUME NEW n \in DOMAIN space' \ undeleted
               PROVE  n[1] \in DOMAIN ua_nodes' /\ n = <<n[1], ua_nodes'[n[1]]>>
    BY DEF HasTag, NodeOf
  <2>1. CASE n \in made
    BY <1>1, <2>1
  <2>2. CASE n \in DOMAIN space \ undeleted
    <3>1. n[1] \in DOMAIN ua_nodes /\ n = <<n[1], ua_nodes[n[1]]>>
      BY <1>3, <2>2 DEF HasTag, NodeOf
    <3> QED BY <1>1, <1>3, <3>1
  <2> QED BY <1>1, <2>1, <2>2
<1> QED BY <1>1, <1>2, <1>3

LEMMA BootBatchStep == ASSUME NodeInv, BootBatch PROVE NodeInv'
<1>1. PICK batch \in SUBSET poll.left, good \in SUBSET poll.left :
        _add_ua_node(good) /\ good \subseteq batch /\ poll' = [poll EXCEPT !.left = @ \ batch]
  BY DEF BootBatch, Batches
<1>2. poll.at = "boot" /\ UNCHANGED <<available, refresh, history>>
  BY DEF BootBatch
<1>3. PollType' /\ poll'.at = "boot" /\ poll'.left = poll.left \ batch
  BY <1>1, <1>2 DEF NodeInv, PollType
<1>4. RefreshType'
  BY <1>2 DEF NodeInv, RefreshType
<1>5. HasNode' /\ DOMAIN ua_nodes' = DOMAIN ua_nodes \cup good
  BY <1>1, <1>2, MadeNodesMatch DEF NodeInv
<1>6. ASSUME "bootstrap" \notin overlaps PROVE HasTag' /\ Bootstrap' /\ NewIsNew'
  <2>1. /\ poll.left \cap DOMAIN ua_nodes = {}
        /\ refresh.at \in Apart /\ HasTag
    BY <1>2, <1>6 DEF NodeInv, Bootstrap, Booting
  <2>2. HasTag'
    <3>1. good \cap DOMAIN ua_nodes = {}
      BY <1>1, <2>1
    <3> QED BY <1>1, <1>2, <2>1, <3>1, MadeNodesMatch DEF NodeInv
  <2>3. Bootstrap'
    <3>1. poll'.left \cap DOMAIN ua_nodes' = {}
      BY <1>1, <1>3, <1>5, <2>1
    <3>2. ~ BeforeBoot' /\ refresh'.at \in Apart
      BY <1>2, <1>3, <2>1 DEF BeforeBoot
    <3> QED BY <3>1, <3>2 DEF Bootstrap
  <2>4. NewIsNew'
    BY <1>2, <2>1 DEF NewIsNew, Apart
  <2> QED BY <2>2, <2>3, <2>4
<1> QED BY <1>2, <1>3, <1>4, <1>5, <1>6 DEF NodeInv

-----------------------------------------------------------------------------
(* The poll thread.                                                         *)

LEMMA PollSteps == ASSUME NodeInv, _poll_loop PROVE NodeInv'
<1> USE DEF PollType, BeforeBoot, Booting, NodeInv
<1>1. CASE PollConnect \/ PollList \/ PollMeters
  <2>1. /\ SameNodes /\ UNCHANGED <<available, refresh, history>> /\ PollType'
        /\ poll.at \in {"start", "list", "meters"} /\ poll'.at # "boot"
    BY <1>1 DEF PollConnect, PollList, PollMeters, SameNodes
  <2> QED BY <2>1, PollMoves
<1>2. CASE PollFilter
  <2>1. /\ SameNodes /\ UNCHANGED <<available, refresh, history>> /\ PollType'
        /\ poll.at = "filter" /\ poll'.at \in {"boot", "ended"}
    BY <1>2 DEF PollFilter, SameNodes
  <2> QED BY <2>1, PollMoves
<1>3. CASE BootBatch
  BY <1>3, BootBatchStep
<1>4. CASE PollDescribe
  <2>1. SameNodes
    BY <1>4, _read_descriptionsNodes DEF PollDescribe
  <2>2. /\ UNCHANGED <<available, refresh, history>> /\ PollType'
        /\ poll'.at = "list of nodes"
    BY <1>4 DEF PollDescribe
  <2> QED BY <2>1, <2>2, PollMoves
<1>5. CASE BootEnds \/ TakeTags \/ ReloadTags \/ ClearTagsChanged \/ NothingChanged
           \/ PollWait \/ PollEnds
  <2>1. /\ SameNodes /\ UNCHANGED <<available, refresh, history>> /\ PollType'
        /\ poll'.at \in {"describe", "top", "clear", "poll", "ended"}
    BY <1>5 DEF BootEnds, TakeTags, ReloadTags, ClearTagsChanged, NothingChanged, PollWait,
                PollEnds, SameNodes
  <2> QED BY <2>1, PollMoves
<1>6. CASE PollRead
  <2>1. /\ SameNodes /\ UNCHANGED <<available, refresh, history>> /\ PollType'
        /\ poll'.at = "update"
    BY <1>6 DEF PollRead, SameNodes
  <2> QED BY <2>1, PollMoves
<1>7. CASE PollUpdate
  <2>1. /\ SameNodes /\ UNCHANGED <<available, refresh, history>> /\ PollType'
        /\ poll'.at = "poll"
    BY <1>7 DEF PollUpdate, SameNodes
  <2> QED BY <2>1, PollMoves
<1> QED BY <1>1, <1>2, <1>3, <1>4, <1>5, <1>6, <1>7 DEF _poll_loop

-----------------------------------------------------------------------------
(* The refresh thread.                                                      *)

LEMMA RefreshCompareStep == ASSUME NodeInv, RefreshCompare PROVE NodeInv'
<1>1. PICK new \in SetToSeqs(refresh.current \ DOMAIN ua_nodes) :
        refresh' = [refresh EXCEPT !.at = "remove", !.current = {}, !.new = new,
                      !.removed = DOMAIN ua_nodes \ refresh.current]
  BY DEF RefreshCompare, existing_tags
<1>2. /\ SameNodes /\ UNCHANGED <<available, poll, history>> /\ refresh.at = "compare"
  BY DEF RefreshCompare, SameNodes
<1>3. RefreshType
  BY DEF NodeInv
<1>4. /\ new \in Seq(Tag)
      /\ \A i \in 1 .. Len(new) : new[i] \in refresh.current \ DOMAIN ua_nodes
      /\ \A i, j \in 1 .. Len(new) : new[i] = new[j] => i = j
  <2>1. refresh.current \ DOMAIN ua_nodes \in SUBSET Tag
    BY <1>3 DEF RefreshType
  <2> QED BY <2>1, Ordered
<1>5. /\ refresh'.at = "remove" /\ refresh'.new = new /\ refresh'.current = {}
      /\ refresh'.done = refresh.done
      /\ {"at", "current", "new", "removed", "done", "added"} \subseteq DOMAIN refresh'
  BY <1>1, <1>3 DEF RefreshType
<1>6. RefreshType'
  BY <1>2, <1>3, <1>4, <1>5 DEF RefreshType
<1>7. "bootstrap" \notin overlaps => ~ Booting
  BY <1>2 DEF NodeInv, Bootstrap, Apart
<1> QED BY <1>2, <1>4, <1>5, <1>6, <1>7, RefreshMoves

LEMMA RefreshRemoveStep == ASSUME NodeInv, RefreshRemove PROVE NodeInv'
<1> DEFINE removed == refresh.removed
           gone == {NodeOf(t) : t \in removed \cap DOMAIN ua_nodes}
<1>0. PICK stuck \in SUBSET gone :
        /\ undeleted' = undeleted \cup stuck
        /\ space' = [n \in DOMAIN space \ (gone \ stuck) |-> space[n]]
  BY DEF RefreshRemove
<1>1. /\ DOMAIN ua_nodes' = DOMAIN ua_nodes \ removed
      /\ \A t \in DOMAIN ua_nodes \ removed : ua_nodes'[t] = ua_nodes[t]
      /\ UNCHANGED <<available, poll, overlaps>>
      /\ refresh.at = "remove"
  BY DEF RefreshRemove, Kept
<1>6. DOMAIN space' = DOMAIN space \ (gone \ stuck)
  BY <1>0
<1>2. /\ refresh'.at = "add" /\ refresh'.new = refresh.new /\ refresh'.done = refresh.done
      /\ RefreshType' /\ PollType'
  BY <1>1 DEF RefreshRemove, NodeInv, RefreshType, PollType
<1>3. HasNode'
  BY <1>1, <1>6 DEF NodeInv, HasNode, NodeOf
<1>4. ASSUME "bootstrap" \notin overlaps PROVE HasTag' /\ Bootstrap' /\ NewIsNew'
  <2>1. HasTag'
    BY <1>0, <1>1, <1>4, <1>6 DEF NodeInv, HasTag, NodeOf
  <2>2. ~ Booting
    BY <1>1, <1>4 DEF NodeInv, Bootstrap, Apart
  <2>3. Bootstrap'
    BY <1>1, <2>2 DEF Bootstrap, BeforeBoot, Booting
  <2>4. NewIsNew'
    BY <1>1, <1>2, <1>4 DEF NodeInv, NewIsNew
  <2> QED BY <2>1, <2>3, <2>4
<1> QED BY <1>1, <1>2, <1>3, <1>4 DEF NodeInv

LEMMA RefreshAddStep == ASSUME NodeInv, RefreshAdd PROVE NodeInv'
<1> DEFINE new == refresh.new
           last == IF refresh.done + BATCH_SIZE < Len(new) THEN refresh.done + BATCH_SIZE
                   ELSE Len(new)
           batch == {new[i] : i \in refresh.done + 1 .. last}
<1>1. PICK good \in SUBSET batch :
        /\ _add_ua_node(good)
        /\ refresh' = [refresh EXCEPT !.done = last, !.added = @ + Cardinality(good)]
  BY DEF RefreshAdd
<1>2. refresh.at = "add" /\ refresh.done < Len(new) /\ UNCHANGED <<available, poll, history>>
  BY DEF RefreshAdd
<1>3. RefreshType /\ new \in Seq(Tag) /\ Len(new) \in Nat /\ refresh.done \in Nat
  BY DEF NodeInv, RefreshType
<1>4. last \in Nat /\ last <= Len(new) /\ refresh.done < last
  BY <1>2, <1>3, BridgeAssumption
<1> HIDE DEF last
<1>5. /\ refresh'.at = "add" /\ refresh'.new = new /\ refresh'.done = last
      /\ refresh'.current = refresh.current
      /\ {"at", "current", "new", "removed", "done", "added"} \subseteq DOMAIN refresh'
  BY <1>1, <1>2, <1>3 DEF RefreshType
<1>6. RefreshType' /\ PollType'
  BY <1>2, <1>3, <1>4, <1>5 DEF RefreshType, NodeInv, PollType
<1>7. HasNode' /\ DOMAIN ua_nodes' = DOMAIN ua_nodes \cup good
  BY <1>1, <1>2, MadeNodesMatch DEF NodeInv
<1>8. ASSUME "bootstrap" \notin overlaps PROVE HasTag' /\ Bootstrap' /\ NewIsNew'
  <2>1. \A i \in refresh.done + 1 .. Len(new) : new[i] \notin DOMAIN ua_nodes
    BY <1>2, <1>8 DEF NodeInv, NewIsNew
  <2>2. batch \cap DOMAIN ua_nodes = {}
    BY <1>3, <1>4, <2>1
  <2>3. HasTag'
    <3>1. good \cap DOMAIN ua_nodes = {}
      BY <2>2
    <3> QED BY <1>1, <1>2, <1>8, <3>1, MadeNodesMatch DEF NodeInv
  <2>4. Bootstrap'
    BY <1>2, <1>8 DEF NodeInv, Bootstrap, Apart, BeforeBoot, Booting
  <2>5. \A i \in last + 1 .. Len(new) : new[i] \notin DOMAIN ua_nodes'
    <3> SUFFICES ASSUME NEW i \in last + 1 .. Len(new) PROVE new[i] \notin DOMAIN ua_nodes'
      OBVIOUS
    <3>1. i \in refresh.done + 1 .. Len(new)
      BY <1>3, <1>4
    <3>2. \A j \in refresh.done + 1 .. last : new[i] # new[j]
      BY <1>3, <1>4 DEF RefreshType
    <3> QED BY <1>7, <2>1, <3>1, <3>2
  <2>6. NewIsNew'
    BY <1>5, <2>5 DEF NewIsNew
  <2> QED BY <2>3, <2>4, <2>6
<1> QED BY <1>2, <1>6, <1>7, <1>8 DEF NodeInv

LEMMA RefreshSteps == ASSUME NodeInv, _refresh_loop PROVE NodeInv'
<1>1. RefreshType
  BY DEF NodeInv
<1>2. CASE RefreshConnect \/ RefreshWait
  <2>1. /\ SameNodes /\ UNCHANGED <<available, poll, history>>
        /\ refresh'.at \in {"ended", "wait", "list"}
        /\ refresh.at \in {"start", "wait"}
    BY <1>1, <1>2 DEF RefreshConnect, RefreshWait, SameNodes, RefreshType
  <2>2. RefreshType'
    BY <1>1, <1>2, <2>1 DEF RefreshConnect, RefreshWait, RefreshType
  <2> QED BY <2>1, <2>2, RefreshMoves DEF Apart
<1>3. CASE RefreshList
  <2>1. /\ SameNodes /\ UNCHANGED <<available, poll, undeleted>>
        /\ refresh.at = "list"
        /\ overlaps' = overlaps \cup IF Booting THEN {"bootstrap"} ELSE {}
    BY <1>3 DEF RefreshList, SameNodes
  <2>2. PICK listing \in SUBSET available, c \in SUBSET Tag :
          refresh' = [refresh EXCEPT !.at = "meters", !.current = c]
    BY <1>3, CandidatesAreListed DEF RefreshList, NodeInv
  <2>3. RefreshType' /\ refresh'.at = "meters"
    BY <1>1, <2>1, <2>2 DEF RefreshType
  <2> QED BY <2>1, <2>3, RefreshMoves
<1>4. CASE RefreshMeters
  <2>1. /\ SameNodes /\ UNCHANGED <<available, poll, history>> /\ refresh.at = "meters"
        /\ refresh' = [refresh EXCEPT !.at = "filter"]
    BY <1>4 DEF RefreshMeters, SameNodes
  <2>2. RefreshType' /\ refresh'.at = "filter"
    BY <1>1, <2>1 DEF RefreshType
  <2>3. "bootstrap" \notin overlaps => ~ Booting
    BY <2>1 DEF NodeInv, Bootstrap, Apart
  <2> QED BY <2>1, <2>2, <2>3, RefreshMoves
<1>7. CASE RefreshFilter
  <2>1. /\ SameNodes /\ UNCHANGED <<available, poll, history>> /\ refresh.at = "filter"
    BY <1>7 DEF RefreshFilter, SameNodes
  <2>2. PICK c \in SUBSET refresh.current :
          refresh' = [refresh EXCEPT !.at = IF c = {} THEN "wait" ELSE "compare", !.current = c]
    <3> DEFINE c == _filter_tags(refresh.current, energy)
    <3>1. c \subseteq refresh.current
      BY FilteredAreCandidates
    <3>2. refresh' = [refresh EXCEPT !.at = IF c = {} THEN "wait" ELSE "compare", !.current = c]
      BY <1>7 DEF RefreshFilter
    <3> QED BY <3>1, <3>2
  <2>3. RefreshType' /\ refresh'.at \in {"wait", "compare"}
    BY <1>1, <2>1, <2>2 DEF RefreshType
  <2>4. "bootstrap" \notin overlaps => ~ Booting
    BY <2>1 DEF NodeInv, Bootstrap, Apart
  <2> QED BY <2>1, <2>3, <2>4, RefreshMoves
<1>5. CASE RefreshDescribe
  <2>1. SameNodes
    BY <1>5, _read_descriptionsNodes DEF RefreshDescribe
  <2>2. /\ UNCHANGED <<available, poll, history>> /\ refresh.at = "add"
        /\ refresh' = [refresh EXCEPT !.at = "signal"]
    BY <1>5 DEF RefreshDescribe
  <2>3. RefreshType' /\ refresh'.at = "signal"
    BY <1>1, <2>2 DEF RefreshType
  <2>4. "bootstrap" \notin overlaps => ~ Booting
    BY <2>2 DEF NodeInv, Bootstrap, Apart
  <2> QED BY <2>1, <2>2, <2>3, <2>4, RefreshMoves
<1>6. CASE RefreshSignal
  <2>1. /\ SameNodes /\ UNCHANGED <<available, poll, undeleted>>
        /\ "bootstrap" \notin overlaps' => "bootstrap" \notin overlaps
        /\ refresh' = [refresh EXCEPT !.at = "wait", !.new = <<>>, !.removed = {},
                                      !.done = 0, !.added = 0]
    BY <1>6 DEF RefreshSignal, SameNodes
  <2>2. /\ refresh'.at = "wait" /\ refresh'.new = <<>> /\ refresh'.done = 0
        /\ refresh'.current = refresh.current
        /\ {"at", "current", "new", "removed", "done", "added"} \subseteq DOMAIN refresh'
    BY <1>1, <2>1 DEF RefreshType
  <2>3. RefreshType'
    BY <1>1, <2>2 DEF RefreshType
  <2> QED BY <2>1, <2>2, <2>3, RefreshMoves DEF Apart
<1> QED BY <1>2, <1>3, <1>4, <1>5, <1>6, <1>7, RefreshCompareStep, RefreshRemoveStep,
           RefreshAddStep DEF _refresh_loop

-----------------------------------------------------------------------------

LEMMA NodeInit == Init => NodeInv
<1> SUFFICES ASSUME Init PROVE NodeInv
  OBVIOUS
<1>1. available \subseteq Tag
  BY DEF Init, Tag
<1>2. PollType /\ poll.at = "start"
  BY DEF Init, PollType
<1>3. /\ refresh.at \in {"start", "ended"} /\ refresh.current = {} /\ refresh.new = <<>>
      /\ refresh.done = 0
      /\ {"at", "current", "new", "removed", "done", "added"} \subseteq DOMAIN refresh
  BY DEF Init
<1>4. RefreshType
  BY <1>3 DEF RefreshType
<1>5. DOMAIN ua_nodes = {} /\ DOMAIN space = {}
  BY DEF Init
<1> QED BY <1>1, <1>2, <1>3, <1>4, <1>5
        DEF NodeInv, HasNode, HasTag, Bootstrap, BeforeBoot, Booting, Apart, NewIsNew

\* The bridge stops, the plant changes, or nothing happens.
LEMMA OutsideSteps ==
    ASSUME NodeInv, stop \/ Reconfigure \/ UNCHANGED vars PROVE NodeInv'
<1>1. UNCHANGED <<ua_nodes, space, poll, refresh, history>>
  BY DEF stop, Reconfigure, vars
<1>2. available' \subseteq Tag
  BY DEF stop, Reconfigure, vars, Tag, NodeInv
<1> QED BY <1>1, <1>2 DEF NodeInv, PollType, RefreshType, HasNode, NodeOf, HasTag, Bootstrap,
                          BeforeBoot, Booting, NewIsNew

\* Whatever the two threads, the plant and its failing calls do in whatever order:
\* a tag's node exists; and unless a refresh took a listing before the poll thread
\* had made its nodes, every node is the node of its tag.  Without the exception
\* that is false, and TLC shows how.
THEOREM NodesAreTags == Spec => []NodesMatch
<1>1. Init => NodeInv
  BY NodeInit
<1>2. NodeInv /\ [Next]_vars => NodeInv'
  BY PollSteps, RefreshSteps, OutsideSteps DEF Next
<1>3. NodeInv => NodesMatch
  BY DEF NodeInv, HasNode, HasTag, NodesMatch
<1> QED BY <1>1, <1>2, <1>3, PTL DEF Spec

-----------------------------------------------------------------------------
(* The types.  The nodes are records, and a node's folder exists.           *)

PlantType ==
    /\ available \in Listings /\ quality \in [Tag -> Quality]
    /\ overlaps \subseteq {"bootstrap", "reload"}
    /\ faults \in 0 .. MaxFaults /\ changes \in 0 .. MaxChanges

\* What both threads do to the nodes keeps this.
SpaceType ==
    /\ DOMAIN ua_nodes \subseteq Tag
    /\ \A n \in DOMAIN space :
         /\ n[1] \in Tag
         /\ {"place", "status", "described"} \subseteq DOMAIN space[n]
         /\ space[n].status \in {"Good", "Uncertain", "Bad"}
         /\ space[n].place[1] \in DOMAIN _ua_folders \cup {NoGroup}
    /\ \A g \in DOMAIN _ua_folders : _ua_folders[g] \in BOOLEAN

EnergyType == DOMAIN energy \subseteq {Base(t) : t \in Tag}

PollTags == poll.tags \cup poll.left \cup DOMAIN poll.results \subseteq Tag

RefreshTags ==
    /\ refresh.removed \subseteq Tag
    /\ refresh.done <= Len(refresh.new) /\ refresh.added \in 0 .. refresh.done

UndeletedType == \A n \in undeleted : n[1] \in Tag

Types == PlantType /\ SpaceType /\ UndeletedType /\ EnergyType /\ PollTags /\ RefreshTags

LEMMA FaultsCount ==
    ASSUME faults \in 0 .. MaxFaults, NEW failed \in BOOLEAN, Fails(failed)
    PROVE  faults' \in 0 .. MaxFaults /\ (faults' = 0 => faults = 0 /\ ~ failed)
BY BridgeAssumption DEF Fails

Record == [branch : STRING, name : Seq(STRING) \ {<<>>}, prop : STRING \cup {""}]

LEMMA OtherProperty ==
    ASSUME NEW B, NEW N, NEW P, NEW p \in P, NEW r \in [branch : B, name : N, prop : P]
    PROVE  [r EXCEPT !.prop = p] \in [branch : B, name : N, prop : P]
OBVIOUS

\* A tag is a record, and so is its base, with the same branch and name.
LEMMA Bases ==
    ASSUME NEW t \in Tag
    PROVE  /\ t \in Record /\ Base(t) \in Record
           /\ Base(t).branch = t.branch /\ Base(t).name = t.name /\ Base(t).prop = ""
           /\ t.prop = "" => Base(t) = t
           /\ Base(t) # NoGroup
<1>1. t \in Record
  BY BridgeAssumption DEF Record
<1>2. t.prop = "" => Base(t) = t
  BY <1>1 DEF Base, Record
<1>3. Base(t).branch = t.branch
  BY <1>1 DEF Base, Record
<1>4. Base(t).name = t.name /\ t.name # <<>>
  BY <1>1 DEF Base, Record
<1>5. Base(t).prop = ""
  BY <1>1 DEF Base, Record
<1>6. Base(t) \in Record
  BY <1>1, OtherProperty DEF Base, Record
<1>7. NoGroup.name = <<>>
  BY DEF NoGroup, Leaf
<1> QED BY <1>1, <1>2, <1>3, <1>4, <1>5, <1>6, <1>7

LEMMA SameFields ==
    ASSUME NEW B, NEW N, NEW P, NEW r \in [branch : B, name : N, prop : P],
           NEW s \in [branch : B, name : N, prop : P],
           r.branch = s.branch, r.name = s.name, r.prop = s.prop
    PROVE  r = s
OBVIOUS

\* A record is known by its fields.
LEMMA SameRecord ==
    ASSUME NEW r \in Record, NEW s \in Record, r.branch = s.branch, r.name = s.name,
           r.prop = s.prop
    PROVE  r = s
BY SameFields DEF Record

LEMMA MetersAreOfTags ==
    ASSUME NEW candidates \in SUBSET Tag, FindMeters(candidates), EnergyType
    PROVE  EnergyType'
<1>1. CASE Mode = "azucarlito"
  <2>1. PICK f \in _energy_bases(candidates) :
          energy' = [b \in DOMAIN f \cup DOMAIN energy |->
                       IF b \in DOMAIN f THEN f[b] ELSE energy[b]]
    BY <1>1 DEF FindMeters
  <2>2. DOMAIN f \subseteq Names(candidates)
    BY <2>1 DEF _energy_bases
  <2>3. Names(candidates) \subseteq {Base(t) : t \in Tag}
    BY Bases DEF Names, Measured, Standalone
  <2> QED BY <2>1, <2>2, <2>3 DEF EnergyType
<1>2. CASE Mode # "azucarlito"
  BY <1>2 DEF FindMeters, EnergyType
<1> QED BY <1>1, <1>2

LEMMA MadeNodesTyped ==
    ASSUME NEW tags \in SUBSET Tag, _add_ua_node(tags), SpaceType
    PROVE  SpaceType'
<1> DEFINE made == {<<t, Fresh(t)>> : t \in tags}
<1>1. /\ DOMAIN ua_nodes' = DOMAIN ua_nodes \cup tags
      /\ DOMAIN space' = DOMAIN space \cup made
      /\ \A n \in DOMAIN space \cup made :
           space'[n] = IF n \in made
                       THEN [place |-> Place(n[1], energy), status |-> "Good",
                             described |-> FALSE]
                       ELSE space[n]
      /\ DOMAIN _ua_folders' = DOMAIN _ua_folders \cup Groups(tags)
      /\ \A g \in DOMAIN _ua_folders' :
           _ua_folders'[g] = (g \in DOMAIN _ua_folders /\ _ua_folders[g])
  BY DEF _add_ua_node
<1>2. \A n \in made : n[1] \in tags
  OBVIOUS
<1> HIDE DEF made
<1>3. ASSUME NEW n \in DOMAIN space'
      PROVE  /\ n[1] \in Tag
             /\ {"place", "status", "described"} \subseteq DOMAIN space'[n]
             /\ space'[n].status \in {"Good", "Uncertain", "Bad"}
             /\ space'[n].place[1] \in DOMAIN _ua_folders' \cup {NoGroup}
  <2>1. CASE n \in made
    <3>1. n[1] \in tags /\ space'[n] = [place |-> Place(n[1], energy), status |-> "Good",
                                        described |-> FALSE]
      BY <1>1, <1>2, <2>1
    <3>2. Place(n[1], energy)[1] \in Groups(tags) \cup {NoGroup}
      BY <3>1 DEF Groups
    <3> QED BY <1>1, <3>1, <3>2
  <2>2. CASE n \notin made
    BY <1>1, <1>3, <2>2 DEF SpaceType
  <2> QED BY <2>1, <2>2
<1>4. \A g \in DOMAIN _ua_folders' : _ua_folders'[g] \in BOOLEAN
  BY <1>1
<1> QED BY <1>1, <1>3, <1>4 DEF SpaceType

LEMMA DescribedTyped ==
    ASSUME NEW tags, _apply_descriptions(tags), SpaceType
    PROVE  SpaceType'
<1> DEFINE now(n) == /\ n[1] \in tags \cap DOMAIN ua_nodes /\ n = NodeOf(n[1])
                     /\ ~ DescribesFolder(n[1])
<1>1. /\ DOMAIN space' = DOMAIN space
      /\ \A n \in DOMAIN space :
           space'[n] = [space[n] EXCEPT !.described = @ \/ now(n)]
      /\ DOMAIN _ua_folders' = DOMAIN _ua_folders
      /\ \A g \in DOMAIN _ua_folders : _ua_folders'[g] \in BOOLEAN
      /\ ua_nodes' = ua_nodes
  BY DEF _apply_descriptions
<1> HIDE DEF now
<1> QED BY <1>1 DEF SpaceType

\* There is always a batch to take.
LEMMA BatchTaken ==
    ASSUME NEW left \in SUBSET Tag
    PROVE  (CHOOSE b \in Batches(left) : TRUE) \in SUBSET left
<1>1. IsFiniteSet(left)
  BY FS_Subset, BridgeAssumption
<1>2. Cardinality(left) \in Nat /\ ExistsBijection(1 .. Cardinality(left), left)
  BY <1>1, FS_CardinalityType
<1>3. CASE Cardinality(left) < BATCH_SIZE
  <2>1. left \in Batches(left)
    BY <1>3 DEF Batches
  <2> QED BY <2>1 DEF Batches
<1>4. CASE ~ Cardinality(left) < BATCH_SIZE
  <2>1. PICK f \in [1 .. Cardinality(left) -> left] :
          \A i, j \in 1 .. Cardinality(left) : f[i] = f[j] => i = j
    BY <1>2 DEF ExistsBijection, Bijection, Injection, IsInjective
  <2> DEFINE batch == {f[i] : i \in 1 .. BATCH_SIZE}
             g == [i \in 1 .. BATCH_SIZE |-> f[i]]
  <2>2. 1 .. BATCH_SIZE \subseteq 1 .. Cardinality(left)
    BY <1>2, <1>4, BridgeAssumption
  <2>3. batch \subseteq left
    BY <2>1, <2>2
  <2>4. g \in Bijection(1 .. BATCH_SIZE, batch)
    BY <2>1, <2>2 DEF Bijection, Injection, Surjection, IsInjective
  <2>5. Cardinality(batch) = BATCH_SIZE
    <3>1. ExistsBijection(1 .. BATCH_SIZE, batch)
      BY <2>4 DEF ExistsBijection
    <3> HIDE DEF batch
    <3> QED BY <3>1, FS_CountingElements, BridgeAssumption
  <2>6. batch \in Batches(left)
    <3> HIDE DEF batch
    <3> QED BY <1>4, <2>3, <2>5 DEF Batches
  <2> HIDE DEF batch
  <2> QED BY <2>6 DEF Batches
<1> QED BY <1>3, <1>4

LEMMA PollUpdateTyped == ASSUME PollUpdate, SpaceType PROVE SpaceType'
<1>1. /\ UNCHANGED <<ua_nodes, _ua_folders>> /\ DOMAIN space' = DOMAIN space
      /\ \A n \in DOMAIN space :
           \/ space'[n] = space[n]
           \/ space'[n] = [space[n] EXCEPT !.status = map_quality(poll.results[n[1]])]
  BY DEF PollUpdate
<1>2. \A q : map_quality(q) \in {"Good", "Uncertain", "Bad"}
  BY DEF map_quality
<1> QED BY <1>1, <1>2 DEF SpaceType

LEMMA PollTypes == ASSUME NodeInv, Types, _poll_loop PROVE Types'
<1> USE DEF Types
<1>1. /\ PollType /\ available \subseteq Tag
      /\ UNCHANGED <<plant, _stop_event, refresh, history>> /\ RefreshTags'
  BY DEF NodeInv, _poll_loop, PollConnect, PollList, PollMeters, PollFilter, BootBatch,
         BootEnds, PollDescribe, TakeTags, ReloadTags, ClearTagsChanged, NothingChanged,
         PollRead, PollUpdate, PollWait, PollEnds, RefreshTags
<1>2. SUFFICES /\ faults' \in 0 .. MaxFaults /\ SpaceType' /\ EnergyType' /\ PollTags'
  BY <1>1 DEF PlantType, UndeletedType
<1> USE DEF PlantType, PollType, PollTags
<1>3. CASE PollConnect
  BY <1>1, <1>3, FaultsCount DEF PollConnect, SpaceType, EnergyType
<1>4. CASE PollList
  <2>1. PICK listing \in SUBSET available, c \in SUBSET Tag :
          Fails(listing # available) /\ poll' = [poll EXCEPT !.at = "meters", !.tags = c]
    BY <1>1, <1>4, CandidatesAreListed DEF PollList
  <2>2. SpaceType' /\ EnergyType'
    BY <1>4 DEF PollList, ForgetMeters, SpaceType, EnergyType
  <2>3. faults' \in 0 .. MaxFaults
    BY <2>1, FaultsCount
  <2> QED BY <1>1, <2>1, <2>2, <2>3
<1>12. CASE PollMeters
  <2>1. EnergyType'
    <3>1. FindMeters(poll.tags) /\ poll.tags \in SUBSET Tag
      BY <1>12 DEF PollMeters
    <3> QED BY <3>1, MetersAreOfTags
  <2>2. SpaceType' /\ UNCHANGED faults /\ poll' = [poll EXCEPT !.at = "filter"]
    BY <1>12 DEF PollMeters, SpaceType
  <2> QED BY <1>1, <2>1, <2>2
<1>5. CASE PollFilter
  <2>1. PICK c \in SUBSET poll.tags :
          poll' = [poll EXCEPT !.at = IF c = {} THEN "ended" ELSE "boot", !.tags = {},
                               !.left = c]
    <3> DEFINE c == _filter_tags(poll.tags, energy)
    <3>1. c \subseteq poll.tags
      BY FilteredAreCandidates
    <3>2. poll' = [poll EXCEPT !.at = IF c = {} THEN "ended" ELSE "boot", !.tags = {},
                               !.left = c]
      BY <1>5 DEF PollFilter
    <3> QED BY <3>1, <3>2
  <2>2. EnergyType'
    BY <1>5 DEF PollFilter, EnergyType
  <2>3. SpaceType' /\ UNCHANGED faults
    BY <1>5 DEF PollFilter, SpaceType
  <2> QED BY <1>1, <2>1, <2>2, <2>3
<1>6. CASE BootBatch
  <2>1. PICK batch \in SUBSET poll.left, good \in SUBSET poll.left :
          /\ Fails(good # batch) /\ _add_ua_node(good)
          /\ poll' = [poll EXCEPT !.left = @ \ batch]
    BY <1>6 DEF BootBatch, Batches
  <2>2. SpaceType'
    BY <2>1, MadeNodesTyped
  <2>3. faults' \in 0 .. MaxFaults
    BY <2>1, FaultsCount
  <2>4. EnergyType'
    BY <1>6 DEF BootBatch, EnergyType
  <2> QED BY <1>1, <2>1, <2>2, <2>3, <2>4
<1>7. CASE PollDescribe
  <2>1. PICK read \in SUBSET DOMAIN ua_nodes :
          /\ Fails(read # DOMAIN ua_nodes) \/ UNCHANGED faults
          /\ _apply_descriptions(read)
    BY <1>7 DEF PollDescribe, _read_descriptions
  <2>2. SpaceType'
    BY <2>1, DescribedTyped
  <2>3. faults' \in 0 .. MaxFaults
    BY <2>1, FaultsCount
  <2>4. EnergyType' /\ PollTags'
    BY <1>1, <1>7 DEF PollDescribe, EnergyType
  <2> QED BY <2>2, <2>3, <2>4
<1>8. CASE TakeTags \/ ReloadTags
  <2>1. poll'.tags = DOMAIN ua_nodes /\ UNCHANGED <<poll.left, poll.results>>
    BY <1>1, <1>8 DEF TakeTags, ReloadTags
  <2>2. UNCHANGED <<nodes, energy, faults>>
    BY <1>8 DEF TakeTags, ReloadTags
  <2>3. PollTags'
    BY <2>1 DEF SpaceType
  <2>4. SpaceType' /\ EnergyType'
    BY <2>2 DEF SpaceType, EnergyType
  <2> QED BY <2>2, <2>3, <2>4
<1>9. CASE BootEnds \/ ClearTagsChanged \/ NothingChanged \/ PollWait \/ PollEnds
  <2>1. /\ poll'.tags \subseteq poll.tags /\ poll'.left \subseteq poll.left \cup poll.tags
        /\ UNCHANGED poll.results
    BY <1>1, <1>9 DEF BootEnds, ClearTagsChanged, NothingChanged, PollWait, PollEnds
  <2>2. UNCHANGED <<nodes, energy, faults>>
    BY <1>9 DEF BootEnds, ClearTagsChanged, NothingChanged, PollWait, PollEnds
  <2>3. PollTags'
    BY <2>1
  <2>4. SpaceType' /\ EnergyType'
    BY <2>2 DEF SpaceType, EnergyType
  <2> QED BY <2>2, <2>3, <2>4
<1>10. CASE PollRead
  <2> DEFINE batch == CHOOSE b \in Batches(poll.left) : TRUE
  <2>1. batch \in SUBSET Tag
    BY BatchTaken
  <2>2. PICK failed \in BOOLEAN :
          /\ Fails(failed)
          /\ poll' = [poll EXCEPT !.at = "update", !.left = @ \ batch,
                        !.results = [t \in IF failed THEN {} ELSE batch |-> quality[t]]]
    BY <1>10 DEF PollRead
  <2> HIDE DEF batch
  <2>3. PollTags'
    BY <1>1, <2>1, <2>2
  <2>4. faults' \in 0 .. MaxFaults
    BY <2>2, FaultsCount
  <2>5. UNCHANGED <<nodes, energy>>
    BY <1>10 DEF PollRead
  <2> QED BY <2>3, <2>4, <2>5 DEF SpaceType, EnergyType
<1>11. CASE PollUpdate
  <2>1. SpaceType'
    BY <1>11, PollUpdateTyped
  <2>2. PollTags' /\ EnergyType' /\ UNCHANGED faults
    BY <1>1, <1>11 DEF PollUpdate, EnergyType, NoTags
  <2> QED BY <2>1, <2>2
<1> QED BY <1>3, <1>4, <1>5, <1>6, <1>7, <1>8, <1>9, <1>10, <1>11, <1>12
        DEF _poll_loop

\* A batch of the new tags has at most one for each place in the list, and
\* exactly one when it is all of them.
LEMMA BatchSize ==
    ASSUME NEW new \in Seq(Tag), NEW a \in Nat, NEW b \in Nat, a <= b, b <= Len(new),
           \A i, j \in 1 .. Len(new) : new[i] = new[j] => i = j,
           NEW good \in SUBSET {new[i] : i \in a + 1 .. b}
    PROVE  /\ Cardinality(good) \in 0 .. b - a
           /\ good = {new[i] : i \in a + 1 .. b} => Cardinality(good) = b - a
<1> DEFINE batch == {new[i] : i \in a + 1 .. b}
           f == [i \in a + 1 .. b |-> new[i]]
<1>1. a + 1 .. b \subseteq 1 .. Len(new)
  OBVIOUS
<1>2. f \in Bijection(a + 1 .. b, batch)
  BY <1>1 DEF Bijection, Injection, Surjection, IsInjective
<1>3. IsFiniteSet(a + 1 .. b) /\ Cardinality(a + 1 .. b) = b - a
  <2>1. a + 1 \in Int /\ b \in Int
    OBVIOUS
  <2>2. /\ IsFiniteSet(a + 1 .. b)
        /\ Cardinality(a + 1 .. b) = IF a + 1 > b THEN 0 ELSE b - (a + 1) + 1
    BY <2>1, FS_Interval
  <2> QED BY <2>2
<1>4. IsFiniteSet(batch) /\ Cardinality(batch) = b - a
  <2>1. ExistsBijection(a + 1 .. b, batch)
    BY <1>2 DEF ExistsBijection
  <2> HIDE DEF batch
  <2> QED BY <1>3, <2>1, FS_Bijection
<1>5. IsFiniteSet(good) /\ Cardinality(good) <= Cardinality(batch)
  <2>1. good \in SUBSET batch
    OBVIOUS
  <2> HIDE DEF batch
  <2> QED BY <1>4, <2>1, FS_Subset
<1>6. Cardinality(good) \in Nat
  BY <1>5, FS_CardinalityType
<1> HIDE DEF batch
<1>7. Cardinality(good) \in 0 .. b - a /\ (good = batch => Cardinality(good) = b - a)
  BY <1>4, <1>5, <1>6
<1> QED BY <1>7 DEF batch

\* What adding a batch does, as far as the refresh can tell.
LEMMA RefreshAdds ==
    ASSUME NodeInv, RefreshTags, faults \in 0 .. MaxFaults, RefreshAdd
    PROVE  \E good \in SUBSET ToSet(refresh.new) :
             /\ _add_ua_node(good)
             /\ faults' \in 0 .. MaxFaults
             /\ RefreshTags'
             /\ faults' = 0 =>
                  faults = 0 /\ refresh'.added - refresh.added = refresh'.done - refresh.done
             /\ UNCHANGED <<plant, energy, poll, overlaps, refresh.new, refresh.at>>
<1> DEFINE new == refresh.new
           last == IF refresh.done + BATCH_SIZE < Len(new) THEN refresh.done + BATCH_SIZE
                   ELSE Len(new)
           batch == {new[i] : i \in refresh.done + 1 .. last}
<1>1. PICK good \in SUBSET batch :
        /\ Fails(good # batch) /\ _add_ua_node(good)
        /\ refresh' = [refresh EXCEPT !.done = last, !.added = @ + Cardinality(good)]
  BY DEF RefreshAdd
<1>2. refresh.done < Len(new) /\ UNCHANGED <<plant, energy, poll, overlaps>>
  BY DEF RefreshAdd
<1>3. RefreshType /\ new \in Seq(Tag) /\ Len(new) \in Nat /\ refresh.done \in Nat
  BY DEF NodeInv, RefreshType
<1>4. last \in Nat /\ last <= Len(new) /\ refresh.done < last
  BY <1>2, <1>3, BridgeAssumption
<1> HIDE DEF last
<1>5. good \in SUBSET ToSet(new)
  <2>1. refresh.done + 1 .. last \subseteq DOMAIN new
    BY <1>3, <1>4
  <2> QED BY <2>1 DEF ToSet
<1>6. /\ Cardinality(good) \in 0 .. last - refresh.done
      /\ good = batch => Cardinality(good) = last - refresh.done
  <2>1. \A i, j \in 1 .. Len(new) : new[i] = new[j] => i = j
    BY <1>3 DEF RefreshType
  <2>2. refresh.done <= last
    BY <1>3, <1>4
  <2> HIDE DEF new
  <2> QED BY <1>3, <1>4, <2>1, <2>2, BatchSize
<1>7. /\ refresh'.done = last /\ refresh'.added = refresh.added + Cardinality(good)
      /\ UNCHANGED <<refresh.new, refresh.at, refresh.removed>>
  BY <1>1, <1>3 DEF RefreshType
<1>8. RefreshTags'
  BY <1>3, <1>4, <1>6, <1>7 DEF RefreshTags
<1>9. faults' \in 0 .. MaxFaults /\ (faults' = 0 => faults = 0 /\ good = batch)
  <2> HIDE DEF batch
  <2> QED BY <1>1, FaultsCount
<1>10. faults' = 0 => refresh'.added - refresh.added = refresh'.done - refresh.done
  <2> HIDE DEF batch, new
  <2> QED BY <1>3, <1>4, <1>6, <1>7, <1>9 DEF RefreshTags
<1> HIDE DEF batch
<1> QED BY <1>1, <1>2, <1>5, <1>7, <1>8, <1>9, <1>10

LEMMA RefreshTypes == ASSUME NodeInv, Types, _refresh_loop PROVE Types'
<1> USE DEF Types
<1>1. /\ RefreshType /\ available \subseteq Tag /\ PollTags'
      /\ UNCHANGED <<plant, _stop_event, poll>>
  BY DEF NodeInv, _refresh_loop, RefreshConnect, RefreshWait, RefreshList, RefreshMeters,
         RefreshFilter, RefreshCompare, RefreshRemove, RefreshAdd, RefreshDescribe,
         RefreshSignal, PollTags
<1>2. overlaps' \subseteq {"bootstrap", "reload"}
  BY DEF PlantType, _refresh_loop, RefreshConnect, RefreshWait, RefreshList, RefreshMeters,
         RefreshFilter, RefreshCompare, RefreshRemove, RefreshAdd, RefreshDescribe,
         RefreshSignal
<1>12. UndeletedType'
  <2>1. CASE RefreshRemove
    <3>1. PICK stuck \in SUBSET {NodeOf(t) : t \in refresh.removed \cap DOMAIN ua_nodes} :
            undeleted' = undeleted \cup stuck
      BY <2>1 DEF RefreshRemove
    <3> QED BY <3>1 DEF UndeletedType, NodeOf, SpaceType
  <2>2. CASE ~ RefreshRemove
    <3>1. UNCHANGED undeleted
      BY <2>2 DEF _refresh_loop, RefreshConnect, RefreshWait, RefreshList, RefreshMeters,
                  RefreshFilter, RefreshCompare, RefreshAdd, RefreshDescribe, RefreshSignal
    <3> QED BY <3>1 DEF UndeletedType
  <2> QED BY <2>1, <2>2
<1>3. SUFFICES /\ faults' \in 0 .. MaxFaults /\ SpaceType' /\ EnergyType' /\ RefreshTags'
  BY <1>1, <1>2, <1>12 DEF PlantType
<1> USE DEF PlantType
<1>4. CASE RefreshConnect \/ RefreshWait
  <2>1. UNCHANGED <<refresh.removed, refresh.new, refresh.done, refresh.added>>
    BY <1>1, <1>4 DEF RefreshConnect, RefreshWait, RefreshType
  <2>2. faults' \in 0 .. MaxFaults
    BY <1>4, FaultsCount DEF RefreshConnect, RefreshWait
  <2>3. UNCHANGED <<nodes, energy>>
    BY <1>4 DEF RefreshConnect, RefreshWait
  <2> QED BY <2>1, <2>2, <2>3 DEF SpaceType, EnergyType, RefreshTags
<1>5. CASE RefreshList
  <2>1. PICK listing \in SUBSET available, c \in SUBSET Tag :
          Fails(listing # available) /\ refresh' = [refresh EXCEPT !.at = "meters", !.current = c]
    BY <1>1, <1>5, CandidatesAreListed DEF RefreshList
  <2>2. SpaceType' /\ EnergyType'
    BY <1>5 DEF RefreshList, ForgetMeters, SpaceType, EnergyType
  <2>3. faults' \in 0 .. MaxFaults
    BY <2>1, FaultsCount
  <2>4. RefreshTags'
    BY <1>1, <2>1 DEF RefreshTags, RefreshType
  <2> QED BY <2>2, <2>3, <2>4
<1>6. CASE RefreshMeters
  <2>1. UNCHANGED <<refresh.removed, refresh.new, refresh.done, refresh.added>>
    BY <1>1, <1>6 DEF RefreshMeters, RefreshType
  <2>2. EnergyType'
    <3>1. FindMeters(refresh.current) /\ refresh.current \in SUBSET Tag
      BY <1>1, <1>6 DEF RefreshMeters, RefreshType
    <3> QED BY <3>1, MetersAreOfTags
  <2>3. SpaceType' /\ UNCHANGED faults
    BY <1>6 DEF RefreshMeters, SpaceType
  <2> QED BY <2>1, <2>2, <2>3 DEF RefreshTags
<1>13. CASE RefreshFilter
  <2>1. UNCHANGED <<refresh.removed, refresh.new, refresh.done, refresh.added>>
    BY <1>1, <1>13 DEF RefreshFilter, RefreshType
  <2>2. UNCHANGED <<nodes, energy, faults>>
    BY <1>13 DEF RefreshFilter
  <2> QED BY <2>1, <2>2 DEF SpaceType, EnergyType, RefreshTags
<1>7. CASE RefreshCompare
  <2>1. PICK new : refresh' = [refresh EXCEPT !.at = "remove", !.current = {}, !.new = new,
                                 !.removed = DOMAIN ua_nodes \ refresh.current]
    BY <1>7 DEF RefreshCompare, existing_tags
  <2>2. /\ refresh'.removed = DOMAIN ua_nodes \ refresh.current /\ refresh'.done = 0
        /\ refresh'.added = 0
    <3>1. refresh.done = 0 /\ refresh.added = 0
      BY <1>1, <1>7 DEF RefreshCompare, RefreshType, RefreshTags
    <3>2. /\ refresh'.removed = DOMAIN ua_nodes \ refresh.current
          /\ UNCHANGED <<refresh.done, refresh.added>>
      BY <1>1, <2>1 DEF RefreshType
    <3> QED BY <3>1, <3>2
  <2>3. RefreshType'
    BY <1>7, RefreshCompareStep DEF NodeInv
  <2>4. RefreshTags'
    BY <2>2, <2>3 DEF RefreshTags, RefreshType, SpaceType
  <2>5. UNCHANGED <<nodes, energy, faults>>
    BY <1>7 DEF RefreshCompare
  <2> QED BY <2>4, <2>5 DEF SpaceType, EnergyType
<1>8. CASE RefreshRemove
  <2>1. UNCHANGED <<refresh.removed, refresh.new, refresh.done, refresh.added>>
    BY <1>1, <1>8 DEF RefreshRemove, RefreshType
  <2>2. /\ DOMAIN ua_nodes' \subseteq DOMAIN ua_nodes
        /\ DOMAIN space' \subseteq DOMAIN space
        /\ \A n \in DOMAIN space' : space'[n] = space[n]
        /\ UNCHANGED <<_ua_folders, energy>>
    BY <1>8 DEF RefreshRemove, Kept
  <2>3. faults' \in 0 .. MaxFaults
    <3>1. PICK failed \in BOOLEAN : Fails(failed)
      BY <1>8 DEF RefreshRemove
    <3> QED BY <3>1, FaultsCount
  <2> QED BY <2>1, <2>2, <2>3 DEF SpaceType, EnergyType, RefreshTags
<1>9. CASE RefreshAdd
  <2>1. PICK good \in SUBSET ToSet(refresh.new) :
          /\ _add_ua_node(good) /\ faults' \in 0 .. MaxFaults /\ RefreshTags'
          /\ UNCHANGED energy
    BY <1>9, RefreshAdds
  <2>2. good \in SUBSET Tag
    BY <1>1 DEF RefreshType, ToSet
  <2>3. SpaceType'
    BY <2>1, <2>2, MadeNodesTyped
  <2> QED BY <2>1, <2>3 DEF EnergyType
<1>10. CASE RefreshDescribe
  <2>1. PICK read \in SUBSET ToDescribe :
          /\ Fails(read # ToDescribe) \/ UNCHANGED faults
          /\ _apply_descriptions(read)
    BY <1>10 DEF RefreshDescribe, _read_descriptions
  <2>2. SpaceType'
    BY <2>1, DescribedTyped
  <2>3. faults' \in 0 .. MaxFaults
    BY <2>1, FaultsCount
  <2>4. UNCHANGED <<energy, refresh.removed, refresh.new, refresh.done, refresh.added>>
    BY <1>1, <1>10 DEF RefreshDescribe, RefreshType
  <2> QED BY <2>2, <2>3, <2>4 DEF EnergyType, RefreshTags
<1>11. CASE RefreshSignal
  <2>1. /\ refresh'.removed = {} /\ refresh'.new = <<>> /\ refresh'.done = 0
        /\ refresh'.added = 0
    BY <1>1, <1>11 DEF RefreshSignal, RefreshType
  <2>2. UNCHANGED <<nodes, energy, faults>>
    BY <1>11 DEF RefreshSignal
  <2> QED BY <2>1, <2>2 DEF SpaceType, EnergyType, RefreshTags
<1> QED BY <1>4, <1>5, <1>6, <1>7, <1>8, <1>9, <1>10, <1>11, <1>13
        DEF _refresh_loop

LEMMA TypesInit == Init => Types
<1> SUFFICES ASSUME Init PROVE Types
  OBVIOUS
<1>1. PlantType
  BY BridgeAssumption DEF Init, PlantType
<1>2. SpaceType /\ UndeletedType /\ EnergyType
  BY DEF Init, SpaceType, UndeletedType, EnergyType
<1>3. PollTags
  BY DEF Init, PollTags, NoTags
<1>4. RefreshTags
  <2>1. /\ refresh.removed = {} /\ refresh.new = <<>> /\ refresh.done = 0 /\ refresh.added = 0
    BY DEF Init
  <2> QED BY <2>1 DEF RefreshTags
<1> QED BY <1>1, <1>2, <1>3, <1>4 DEF Types

LEMMA OutsideTypes ==
    ASSUME Types, stop \/ Reconfigure \/ UNCHANGED vars PROVE Types'
<1>1. UNCHANGED <<nodes, energy, poll, refresh, history, faults>>
  BY DEF stop, Reconfigure, vars
<1>2. PlantType'
  <2>1. CASE stop \/ UNCHANGED vars
    BY <2>1 DEF stop, vars, Types, PlantType
  <2>2. CASE Reconfigure
    BY <1>1, <2>2, BridgeAssumption DEF Reconfigure, Types, PlantType
  <2> QED BY <2>1, <2>2
<1> QED BY <1>1, <1>2 DEF Types, SpaceType, UndeletedType, EnergyType, PollTags, RefreshTags

LEMMA TypesHold == Spec => [](NodeInv /\ Types)
<1>1. Init => NodeInv /\ Types
  BY NodeInit, TypesInit
<1>2. NodeInv /\ Types /\ [Next]_vars => (NodeInv /\ Types)'
  BY PollSteps, RefreshSteps, OutsideSteps, PollTypes, RefreshTypes, OutsideTypes DEF Next
<1> QED BY <1>1, <1>2, PTL DEF Spec

\* The variables keep their types: in particular the energy map, which both
\* threads empty and fill without the lock, never names what is no tag; every node
\* is in a folder that exists; and the refresh makes no more nodes than it has tags.
THEOREM TypeCorrect == Spec => []TypeOK
<1>1. NodeInv /\ Types => TypeOK
  <2> SUFFICES ASSUME NodeInv, Types PROVE TypeOK
    OBVIOUS
  <2>1. /\ refresh.current \subseteq Tag /\ refresh.new \in Seq(Tag) /\ refresh.done \in Nat
    BY DEF NodeInv, RefreshType
  <2>2. ToSet(refresh.new) \subseteq Tag /\ Len(refresh.new) \in Nat
    BY <2>1 DEF ToSet
  <2> QED BY <2>1, <2>2 DEF Types, PlantType, SpaceType, UndeletedType, EnergyType, PollTags,
                            RefreshTags, TypeOK
<1> QED BY <1>1, TypesHold, PTL

-----------------------------------------------------------------------------
(* Descriptions.                                                            *)

\* Has the tag its description?  In the drive's folder, or in its own node.
IsDescribed(t) == IF DescribesFolder(t) THEN _ua_folders[Base(t)] ELSE space[NodeOf(t)].described

\* Is it still to come?
IsDue(t) == poll.at \in {"boot", "describe"} \/ (refresh.at = "add" /\ t \in ToSet(refresh.new))

\* The folder to describe exists.
FoldersExist == \A t \in DOMAIN ua_nodes : DescribesFolder(t) => Base(t) \in DOMAIN _ua_folders

\* Without a failure the refresh has made the nodes of the first tags of its list.
NoneSkipped == faults = 0 => refresh.added = refresh.done

DescInv ==
    /\ FoldersExist /\ NoneSkipped
    /\ faults = 0 /\ HasDescriptions => \A t \in DOMAIN ua_nodes : IsDescribed(t) \/ IsDue(t)

\* A step that makes no node and takes no description away.
LEMMA StaysDescribed ==
    ASSUME DescInv, DOMAIN ua_nodes' \subseteq DOMAIN ua_nodes,
           DOMAIN _ua_folders \subseteq DOMAIN _ua_folders', NoneSkipped',
           faults' = 0 => faults = 0,
           \A t \in DOMAIN ua_nodes' : IsDescribed(t) => IsDescribed(t)',
           \A t \in DOMAIN ua_nodes' : IsDue(t) => IsDue(t)'
    PROVE  DescInv'
<1>1. FoldersExist'
  BY DEF DescInv, FoldersExist
<1> QED BY <1>1 DEF DescInv

LEMMA SameDescribed ==
    ASSUME UNCHANGED nodes PROVE \A t \in DOMAIN ua_nodes' : IsDescribed(t) => IsDescribed(t)'
BY DEF IsDescribed, NodeOf

\* New nodes have the folders their descriptions go to, and old ones keep theirs.
LEMMA MadeNodesDescribed ==
    ASSUME NEW tags \in SUBSET Tag, _add_ua_node(tags), HasNode, SpaceType, FoldersExist
    PROVE  /\ FoldersExist'
           /\ \A t \in DOMAIN ua_nodes' :
                t \in tags \/ (t \in DOMAIN ua_nodes /\ (IsDescribed(t) => IsDescribed(t)'))
<1> DEFINE made == {<<t, Fresh(t)>> : t \in tags}
<1>1. /\ DOMAIN ua_nodes' = DOMAIN ua_nodes \cup tags
      /\ \A t \in DOMAIN ua_nodes \ tags : ua_nodes'[t] = ua_nodes[t]
      /\ DOMAIN space' = DOMAIN space \cup made
      /\ \A n \in DOMAIN space \ made : space'[n] = space[n]
      /\ DOMAIN _ua_folders' = DOMAIN _ua_folders \cup Groups(tags)
      /\ \A g \in DOMAIN _ua_folders : _ua_folders'[g] = (TRUE /\ _ua_folders[g])
  BY DEF _add_ua_node
<1>2. \A t \in Tag \ tags : <<t, ua_nodes[t]>> \notin made
  OBVIOUS
<1> HIDE DEF made
<1>3. ASSUME NEW t \in tags, DescribesFolder(t) PROVE Base(t) \in Groups(tags)
  <2>1. Place(t, energy)[1] = Base(t)
    BY <1>3 DEF Place, DescribesFolder
  <2>2. Base(t) # NoGroup
    BY Bases
  <2> QED BY <2>1, <2>2 DEF Groups
<1>4. FoldersExist'
  BY <1>1, <1>3 DEF FoldersExist
<1>5. ASSUME NEW t \in DOMAIN ua_nodes, t \notin tags, IsDescribed(t) PROVE IsDescribed(t)'
  <2>1. CASE DescribesFolder(t)
    <3>1. Base(t) \in DOMAIN _ua_folders /\ _ua_folders[Base(t)]
      BY <1>5, <2>1 DEF FoldersExist, IsDescribed
    <3> QED BY <1>1, <2>1, <3>1 DEF IsDescribed
  <2>2. CASE ~ DescribesFolder(t)
    <3>1. NodeOf(t) \in DOMAIN space \ made /\ NodeOf(t)' = NodeOf(t)
      BY <1>1, <1>2, <1>5 DEF HasNode, NodeOf, SpaceType
    <3> QED BY <1>1, <1>5, <2>2, <3>1 DEF IsDescribed
  <2> QED BY <2>1, <2>2
<1> QED BY <1>1, <1>4, <1>5

\* Descriptions come to the tags they are of, and stay with the others.
LEMMA DescriptionsApply ==
    ASSUME NEW tags, _apply_descriptions(tags), HasNode, SpaceType, FoldersExist
    PROVE  /\ UNCHANGED ua_nodes /\ FoldersExist'
           /\ \A t \in DOMAIN ua_nodes : t \in tags \/ IsDescribed(t) => IsDescribed(t)'
<1> DEFINE now(n) == /\ n[1] \in tags \cap DOMAIN ua_nodes /\ n = NodeOf(n[1])
                     /\ ~ DescribesFolder(n[1])
<1>1. /\ DOMAIN space' = DOMAIN space
      /\ \A n \in DOMAIN space : space'[n] = [space[n] EXCEPT !.described = @ \/ now(n)]
      /\ DOMAIN _ua_folders' = DOMAIN _ua_folders
      /\ \A g \in DOMAIN _ua_folders :
           _ua_folders'[g] = \/ _ua_folders[g]
                             \/ \E t \in tags : DescribesFolder(t) /\ Base(t) = g
      /\ ua_nodes' = ua_nodes
  BY DEF _apply_descriptions
<1>2. FoldersExist'
  BY <1>1 DEF FoldersExist
<1>3. ASSUME NEW t \in DOMAIN ua_nodes, t \in tags \/ IsDescribed(t) PROVE IsDescribed(t)'
  <2>1. CASE DescribesFolder(t)
    <3>1. Base(t) \in DOMAIN _ua_folders
      BY <2>1 DEF FoldersExist
    <3> HIDE DEF now
    <3> QED BY <1>1, <1>3, <2>1, <3>1 DEF IsDescribed
  <2>2. CASE ~ DescribesFolder(t)
    <3>1. NodeOf(t) \in DOMAIN space /\ NodeOf(t)' = NodeOf(t) /\ NodeOf(t)[1] = t
      BY <1>1 DEF HasNode, NodeOf
    <3>2. t \in tags => now(NodeOf(t))
      BY <2>2, <3>1
    <3> HIDE DEF now
    <3>3. space'[NodeOf(t)].described = (space[NodeOf(t)].described \/ now(NodeOf(t)))
      BY <1>1, <3>1 DEF SpaceType
    <3> QED BY <1>3, <2>2, <3>1, <3>2, <3>3 DEF IsDescribed
  <2> QED BY <2>1, <2>2
<1> QED BY <1>1, <1>2, <1>3

LEMMA PollDescribes == ASSUME NodeInv, Types, DescInv, _poll_loop PROVE DescInv'
<1> USE DEF PollType
<1>1. PollType /\ UNCHANGED refresh
  BY DEF NodeInv, _poll_loop, PollConnect, PollList, PollMeters, PollFilter, BootBatch,
         BootEnds, PollDescribe, TakeTags, ReloadTags, ClearTagsChanged, NothingChanged,
         PollRead, PollUpdate, PollWait, PollEnds
<1>2. (faults' = 0 => faults = 0) /\ NoneSkipped'
  <2>1. UNCHANGED faults \/ \E failed \in BOOLEAN : Fails(failed)
    BY DEF _poll_loop, PollConnect, PollList, PollMeters, PollFilter, BootBatch, BootEnds,
           PollDescribe, TakeTags, ReloadTags, ClearTagsChanged, NothingChanged, PollRead,
           PollUpdate, PollWait, PollEnds, _read_descriptions
  <2>2. faults' = 0 => faults = 0
    BY <2>1, FaultsCount DEF Types, PlantType
  <2> QED BY <1>1, <2>2 DEF DescInv, NoneSkipped
<1>3. CASE BootBatch
  <2>1. PICK good \in SUBSET poll.left : _add_ua_node(good)
    BY <1>3 DEF BootBatch, Batches
  <2>2. FoldersExist'
    BY <2>1, MadeNodesDescribed DEF NodeInv, Types, PollTags, DescInv
  <2>3. poll'.at = "boot"
    BY <1>1, <1>3 DEF BootBatch
  <2> QED BY <1>2, <2>2, <2>3 DEF DescInv, IsDue
<1>4. CASE PollDescribe
  <2>1. PICK read \in SUBSET DOMAIN ua_nodes :
          /\ HasDescriptions => Fails(read # DOMAIN ua_nodes)
          /\ _apply_descriptions(read)
    BY <1>4 DEF PollDescribe, _read_descriptions
  <2>2. /\ UNCHANGED ua_nodes /\ FoldersExist'
        /\ \A t \in DOMAIN ua_nodes : t \in read \/ IsDescribed(t) => IsDescribed(t)'
    BY <2>1, DescriptionsApply DEF NodeInv, Types, DescInv
  <2>3. faults' = 0 /\ HasDescriptions => read = DOMAIN ua_nodes
    BY <2>1, FaultsCount DEF Types, PlantType
  <2> QED BY <1>2, <2>2, <2>3 DEF DescInv
<1>5. CASE PollUpdate
  <2>1. /\ UNCHANGED <<ua_nodes, _ua_folders>>
        /\ \A n \in DOMAIN space : space'[n].described = space[n].described
    BY <1>5 DEF PollUpdate, Types, SpaceType
  <2>2. \A t \in DOMAIN ua_nodes' : IsDescribed(t) => IsDescribed(t)'
    BY <2>1 DEF IsDescribed, NodeOf, NodeInv, HasNode
  <2>3. \A t : IsDue(t) => IsDue(t)'
    BY <1>1, <1>5 DEF PollUpdate, IsDue
  <2> QED BY <1>2, <2>1, <2>2, <2>3, StaysDescribed
<1>6. CASE ~ (BootBatch \/ PollDescribe \/ PollUpdate)
  <2>1. UNCHANGED nodes
    BY <1>6 DEF _poll_loop, PollConnect, PollList, PollMeters, PollFilter, BootEnds, TakeTags,
                ReloadTags, ClearTagsChanged, NothingChanged, PollRead, PollWait, PollEnds
  <2>2. poll.at \in {"boot", "describe"} => poll'.at = "describe"
    BY <1>1, <1>6 DEF _poll_loop, PollConnect, PollList, PollMeters, PollFilter, BootEnds,
                      TakeTags, ReloadTags, ClearTagsChanged, NothingChanged, PollRead,
                      PollWait, PollEnds
  <2>3. \A t : IsDue(t) => IsDue(t)'
    BY <1>1, <2>2 DEF IsDue
  <2> QED BY <1>2, <2>1, <2>3, SameDescribed, StaysDescribed
<1> QED BY <1>3, <1>4, <1>5, <1>6

LEMMA RefreshDescribes == ASSUME NodeInv, Types, DescInv, _refresh_loop PROVE DescInv'
<1>1. /\ RefreshType /\ UNCHANGED poll
      /\ UNCHANGED faults \/ \E failed \in BOOLEAN : Fails(failed)
  BY DEF NodeInv, _refresh_loop, RefreshConnect, RefreshWait, RefreshList, RefreshMeters,
         RefreshFilter, RefreshCompare, RefreshRemove, RefreshAdd, RefreshDescribe,
         RefreshSignal, _read_descriptions
<1>2. faults' = 0 => faults = 0
  BY <1>1, FaultsCount DEF Types, PlantType
<1>3. CASE RefreshConnect \/ RefreshWait \/ RefreshList \/ RefreshMeters \/ RefreshFilter
           \/ RefreshCompare
  <2>1. UNCHANGED nodes /\ refresh.at # "add"
    BY <1>3 DEF RefreshConnect, RefreshWait, RefreshList, RefreshMeters, RefreshFilter,
                RefreshCompare
  <2>2. UNCHANGED <<refresh.added, refresh.done>>
    BY <1>1, <1>3 DEF RefreshConnect, RefreshWait, RefreshList, RefreshMeters, RefreshFilter,
                      RefreshCompare, RefreshType
  <2>3. \A t : IsDue(t) => IsDue(t)'
    BY <1>1, <2>1 DEF IsDue
  <2>4. NoneSkipped'
    BY <1>2, <2>2 DEF DescInv, NoneSkipped
  <2> QED BY <1>2, <2>1, <2>3, <2>4, SameDescribed, StaysDescribed
<1>4. CASE RefreshRemove
  <2>1. /\ DOMAIN ua_nodes' = DOMAIN ua_nodes \ refresh.removed
        /\ \A t \in DOMAIN ua_nodes' : ua_nodes'[t] = ua_nodes[t]
        /\ DOMAIN space \ {NodeOf(t) : t \in refresh.removed \cap DOMAIN ua_nodes}
             \subseteq DOMAIN space'
        /\ \A n \in DOMAIN space' : space'[n] = space[n]
        /\ UNCHANGED _ua_folders /\ refresh.at = "remove"
    BY <1>4 DEF RefreshRemove, Kept
  <2>2. \A t \in DOMAIN ua_nodes' : IsDescribed(t) => IsDescribed(t)'
    <3>1. \A t \in DOMAIN ua_nodes' : NodeOf(t)' = NodeOf(t) /\ NodeOf(t) \in DOMAIN space'
      BY <2>1 DEF NodeOf, NodeInv, HasNode
    <3> QED BY <2>1, <3>1 DEF IsDescribed
  <2>3. \A t : IsDue(t) => IsDue(t)'
    BY <1>1, <2>1 DEF IsDue
  <2>4. NoneSkipped'
    BY <1>1, <1>2, <1>4 DEF RefreshRemove, RefreshType, DescInv, NoneSkipped
  <2> QED BY <1>2, <2>1, <2>2, <2>3, <2>4, StaysDescribed
<1>5. CASE RefreshAdd
  <2>1. PICK good \in SUBSET ToSet(refresh.new) :
          /\ _add_ua_node(good) /\ RefreshTags'
          /\ faults' = 0 =>
               faults = 0 /\ refresh'.added - refresh.added = refresh'.done - refresh.done
          /\ UNCHANGED <<poll, refresh.new, refresh.at>>
    BY <1>5, RefreshAdds DEF Types, PlantType
  <2>2. good \in SUBSET Tag
    BY <1>1 DEF RefreshType, ToSet
  <2>3. /\ FoldersExist'
        /\ \A t \in DOMAIN ua_nodes' :
             t \in good \/ (t \in DOMAIN ua_nodes /\ (IsDescribed(t) => IsDescribed(t)'))
    BY <2>1, <2>2, MadeNodesDescribed DEF NodeInv, Types, DescInv
  <2>4. \A t : (IsDue(t) \/ t \in good) => IsDue(t)'
    BY <1>5, <2>1 DEF RefreshAdd, IsDue
  <2>5. NoneSkipped'
    <3>1. /\ refresh.done \in Nat /\ refresh.added \in Nat
          /\ refresh'.done \in Nat /\ refresh'.added \in Nat
      <4>1. RefreshType'
        BY <1>5, RefreshAddStep DEF NodeInv
      <4> QED BY <1>1, <2>1, <4>1 DEF RefreshType, Types, RefreshTags
    <3> QED BY <2>1, <3>1 DEF DescInv, NoneSkipped
  <2> QED BY <1>2, <2>3, <2>4, <2>5 DEF DescInv
<1>6. CASE RefreshDescribe
  <2>1. PICK read \in SUBSET ToDescribe :
          /\ HasDescriptions => Fails(read # ToDescribe)
          /\ _apply_descriptions(read)
    BY <1>6 DEF RefreshDescribe, _read_descriptions
  <2>2. /\ UNCHANGED ua_nodes /\ FoldersExist'
        /\ \A t \in DOMAIN ua_nodes : t \in read \/ IsDescribed(t) => IsDescribed(t)'
    BY <2>1, DescriptionsApply DEF NodeInv, Types, DescInv
  <2>3. faults' = 0 /\ HasDescriptions => read = ToDescribe
    BY <2>1, FaultsCount DEF Types, PlantType
  <2>4. refresh.at = "add" /\ refresh.done = Len(refresh.new)
    BY <1>6 DEF RefreshDescribe
  <2>5. faults = 0 => ToDescribe = ToSet(refresh.new)
    BY <1>1, <2>4 DEF DescInv, NoneSkipped, ToDescribe, ToSet, RefreshType
  <2>6. NoneSkipped' /\ refresh'.at = "signal"
    BY <1>1, <1>2, <1>6 DEF RefreshDescribe, RefreshType, DescInv, NoneSkipped
  <2>7. \A t : IsDue(t) => IsDue(t)' \/ t \in ToSet(refresh.new)
    BY <1>1 DEF IsDue
  <2> QED BY <1>2, <2>2, <2>3, <2>5, <2>6, <2>7 DEF DescInv
<1>7. CASE RefreshSignal
  <2>1. UNCHANGED nodes /\ refresh.at = "signal"
    BY <1>7 DEF RefreshSignal
  <2>2. refresh'.done = 0 /\ refresh'.added = 0
    BY <1>1, <1>7 DEF RefreshSignal, RefreshType
  <2>3. \A t : IsDue(t) => IsDue(t)'
    BY <1>1, <2>1 DEF IsDue
  <2>4. NoneSkipped'
    BY <2>2 DEF NoneSkipped
  <2> QED BY <1>2, <2>1, <2>3, <2>4, SameDescribed, StaysDescribed
<1> QED BY <1>3, <1>4, <1>5, <1>6, <1>7 DEF _refresh_loop

\* Unless a call has failed, every node is described once the thread that made it is
\* through with its descriptions, although the refresh describes by number - as many
\* of the new tags as it made nodes, from the first on - and not by name: without a
\* failure the tags it made nodes for are the first ones (NoneSkipped).
THEOREM NodesAreDescribed == Spec => []Described
<1>1. Init => DescInv
  <2> SUFFICES ASSUME Init PROVE DescInv
    OBVIOUS
  <2>1. DOMAIN ua_nodes = {} /\ refresh.done = 0 /\ refresh.added = 0
    BY DEF Init
  <2> QED BY <2>1 DEF DescInv, FoldersExist, NoneSkipped
<1>2. DescInv /\ (NodeInv /\ Types) /\ [Next]_vars => DescInv'
  <2> SUFFICES ASSUME DescInv, NodeInv, Types, [Next]_vars PROVE DescInv'
    OBVIOUS
  <2>1. CASE stop \/ Reconfigure \/ UNCHANGED vars
    <3>1. UNCHANGED <<nodes, poll, refresh, faults>>
      BY <2>1 DEF stop, Reconfigure, vars
    <3>2. (\A t : IsDue(t) => IsDue(t)') /\ NoneSkipped'
      BY <3>1 DEF IsDue, DescInv, NoneSkipped
    <3> QED BY <3>1, <3>2, SameDescribed, StaysDescribed
  <2> QED BY <2>1, PollDescribes, RefreshDescribes DEF Next
<1>3. DescInv => Described
  BY DEF DescInv, Described, IsDescribed, IsDue
<1> QED BY <1>1, <1>2, <1>3, TypesHold, PTL DEF Spec
=============================================================================
