----------------------------- MODULE LegacyBridge -----------------------------
(***************************************************************************)
(* The legacy bridge, winxp/opcda2ua_legacy.py: a poll thread that makes    *)
(* the nodes once and then keeps their values up to date, and a refresh     *)
(* thread that follows the tags of the server, each with a connection of    *)
(* its own.  They share ua_nodes under a lock, _energy_bases without one,   *)
(* and the event _tags_changed.  What a thread does in one hold of the lock *)
(* is one action.  Of what it does to _energy_bases the emptying, the       *)
(* filling and the second pass of the filter, which looks tags up, are an   *)
(* action each: the other thread's emptying may fall between them, not into *)
(* the middle of the filling or of the pass.                                *)
(*                                                                         *)
(* Of a value only the status it gives its node is kept.  A node is named   *)
(* by its tag and the number it has among the nodes of that tag.            *)
(***************************************************************************)
EXTENDS LegacyTags, FiniteSets

CONSTANTS
    Listings,      \* the sets of tags the server may come to have
    Quality,       \* the qualities of a tag; "Error" comes without a value
    BATCH_SIZE,    \* tags read at a time: 100
    MaxFaults,     \* bound: failing calls
    MaxChanges     \* bound: changes of the plant, of its tags or qualities

Tag == UNION Listings

ASSUME BridgeAssumption ==
    /\ IsFiniteSet(Tag) /\ BATCH_SIZE \in Nat \ {0} /\ MaxFaults \in Nat /\ MaxChanges \in Nat
    /\ "Good" \in Quality /\ Quality \subseteq {"Good", "Uncertain", "Bad", "Error"}
    \* A name has a part, if an empty one.
    /\ Tag \subseteq [branch : STRING, name : Seq(STRING) \ {<<>>}, prop : STRING]

VARIABLES
    available,       \* the server's tags
    quality,         \* their qualities
    ua_nodes,        \* ua_nodes: the number of the node of each tag
    space,           \* the nodes UA clients see
    _ua_folders,     \* the folders, each with whether it is described
    energy,          \* _energy_bases
    _tags_changed,   \* is the event set?
    _stop_event,
    poll,            \* the poll thread
    refresh,         \* the refresh thread
    undeleted,       \* history: the nodes whose deletion failed
    overlaps,        \* history: how the threads have met
    faults, changes  \* bounds

vars == <<available, quality, ua_nodes, space, _ua_folders, energy, _tags_changed, _stop_event,
          poll, refresh, undeleted, overlaps, faults, changes>>
plant == <<available, quality, changes>>
nodes == <<ua_nodes, space, _ua_folders>>
history == <<undeleted, overlaps>>

-----------------------------------------------------------------------------

NoTags == [t \in {} |-> "Good"]

\* The first number no node of the tag has.
Fresh(t) ==
    CHOOSE k \in 1 .. Cardinality(DOMAIN space) + 1 :
      <<t, k>> \notin DOMAIN space /\ \A j \in 1 .. k - 1 : <<t, j>> \in DOMAIN space

NodeOf(t) == <<t, ua_nodes[t]>>

\* A loop over batches takes what is left, or as many as a batch has, in the
\* order of a list, which may be any.
Batches(left) ==
    {b \in SUBSET left :
       Cardinality(b) = IF Cardinality(left) < BATCH_SIZE THEN Cardinality(left) ELSE BATCH_SIZE}

Fails(failed) ==
    IF failed THEN faults < MaxFaults /\ faults' = faults + 1 ELSE UNCHANGED faults

\* The poll thread has not made all its nodes.
Booting == poll.at \in {"start", "list", "meters", "filter", "boot"}

Init ==
    /\ available \in Listings
    /\ quality = [t \in Tag |-> "Good"]
    /\ ua_nodes = <<>> /\ space = <<>> /\ _ua_folders = <<>> /\ energy = <<>>
    /\ _tags_changed = FALSE /\ _stop_event = FALSE
    /\ poll = [at |-> "start", tags |-> {}, left |-> {}, results |-> NoTags]
    /\ \E at \in {"start", "ended"} :     \* with --refresh, or without
         refresh = [at |-> at, current |-> {}, new |-> <<>>, removed |-> {},
                    done |-> 0, added |-> 0]
    /\ undeleted = {} /\ overlaps = {}
    /\ faults = 0 /\ changes = 0

-----------------------------------------------------------------------------
(* What both threads do.                                                    *)

\* The filter of a listing first takes the energy map away ...
ForgetMeters ==
    energy' = IF Mode = "azucarlito" THEN <<>> ELSE energy

\* ... and then fills the map there is, which the other thread may have changed.
FindMeters(candidates) ==
    IF Mode = "azucarlito"
    THEN \E f \in _energy_bases(candidates) :
           energy' = [b \in DOMAIN f \cup DOMAIN energy |->
                        IF b \in DOMAIN f THEN f[b] ELSE energy[b]]
    ELSE UNCHANGED energy

\* Seeded fault: a tag's folder is named after the tag, meter or not.
Groups_Bases(tags) == {Base(t) : t \in tags}

\* The folders tags need.
Groups(tags) == {Place(t, energy)[1] : t \in tags} \ {NoGroup}

\* Make nodes for the tags of a batch that could be read, in the lock.  Their
\* qualities are not looked at; a tag that has a node gets another.
_add_ua_node(tags) ==
    LET made == {<<t, Fresh(t)>> : t \in tags} IN
    /\ ua_nodes' = [t \in DOMAIN ua_nodes \cup tags |->
                      IF t \in tags THEN Fresh(t) ELSE ua_nodes[t]]
    /\ space' = [n \in DOMAIN space \cup made |->
                   IF n \in made
                   THEN [place |-> Place(n[1], energy), status |-> "Good", described |-> FALSE]
                   ELSE space[n]]
    /\ _ua_folders' = [g \in DOMAIN _ua_folders \cup Groups(tags) |->
                         g \in DOMAIN _ua_folders /\ _ua_folders[g]]

\* Set the descriptions of the tags for which one was read, in the lock.
_apply_descriptions(tags) ==
    LET shown == tags \cap DOMAIN ua_nodes IN
    /\ space' = [n \in DOMAIN space |->
                   [space[n] EXCEPT !.described =
                      @ \/ /\ n[1] \in shown /\ n = NodeOf(n[1])
                           /\ ~ DescribesFolder(n[1])]]
    /\ _ua_folders' = [g \in DOMAIN _ua_folders |->
                         \/ _ua_folders[g]
                         \/ \E t \in tags : DescribesFolder(t) /\ Base(t) = g]
    /\ UNCHANGED ua_nodes

\* The descriptions that could be read: a batch that fails is passed over.
_read_descriptions(tags) ==
    \E read \in SUBSET tags :
      /\ IF HasDescriptions THEN Fails(read # tags) ELSE read = {} /\ UNCHANGED faults
      /\ _apply_descriptions(read)

-----------------------------------------------------------------------------
(* The poll thread.                                                         *)

PollConnect ==
    /\ poll.at = "start"
    /\ \E failed \in BOOLEAN :
         /\ Fails(failed)
         /\ poll' = [poll EXCEPT !.at = IF failed THEN "ended" ELSE "list"]
    /\ UNCHANGED <<plant, nodes, energy, _tags_changed, _stop_event, refresh, history>>

\* A listing that fails is made branch by branch, and may miss any of them.
PollList ==
    /\ poll.at = "list"
    /\ \E listing \in SUBSET available :
         /\ Fails(listing # available)
         /\ \E c \in Candidates(listing) : poll' = [poll EXCEPT !.at = "meters", !.tags = c]
    /\ ForgetMeters
    /\ UNCHANGED <<plant, nodes, _tags_changed, _stop_event, refresh, history>>

PollMeters ==
    /\ poll.at = "meters"
    /\ FindMeters(poll.tags)
    /\ poll' = [poll EXCEPT !.at = "filter"]
    /\ UNCHANGED <<plant, nodes, _tags_changed, _stop_event, refresh, history, faults>>

\* The second pass of the filter, by the map there is by now.  The thread ends
\* when there are no tags.
PollFilter ==
    /\ poll.at = "filter"
    /\ LET tags == _filter_tags(poll.tags, energy) IN
       poll' = [poll EXCEPT !.at = IF tags = {} THEN "ended" ELSE "boot",
                            !.tags = {}, !.left = tags]
    /\ UNCHANGED <<plant, nodes, energy, _tags_changed, _stop_event, refresh, history, faults>>

\* Read the tags of a batch and make their nodes.  A batch that cannot be read,
\* or a tag whose node cannot be made, is passed over.
BootBatch ==
    /\ poll.at = "boot" /\ poll.left # {} /\ ~ _stop_event
    /\ \E batch \in Batches(poll.left) : \E good \in SUBSET batch :
         /\ Fails(good # batch)
         /\ _add_ua_node(good)
         /\ poll' = [poll EXCEPT !.left = @ \ batch]
    /\ UNCHANGED <<plant, energy, _tags_changed, _stop_event, refresh, history>>

BootEnds ==
    /\ poll.at = "boot" /\ (poll.left = {} \/ _stop_event)
    /\ poll' = [poll EXCEPT !.at = "describe", !.left = {}]
    /\ UNCHANGED <<plant, nodes, energy, _tags_changed, _stop_event, refresh, history, faults>>

\* Describe the nodes there are.
PollDescribe ==
    /\ poll.at = "describe"
    /\ _read_descriptions(DOMAIN ua_nodes)
    /\ poll' = [poll EXCEPT !.at = "list of nodes"]
    /\ UNCHANGED <<plant, energy, _tags_changed, _stop_event, refresh, history>>

\* The list to poll, made once here ...
TakeTags ==
    /\ poll.at = "list of nodes"
    /\ poll' = [poll EXCEPT !.at = "top", !.tags = DOMAIN ua_nodes]
    /\ UNCHANGED <<plant, nodes, energy, _tags_changed, _stop_event, refresh, history, faults>>

\* ... and made again, in the lock, when the event is set ...
ReloadTags ==
    /\ poll.at = "top" /\ ~ _stop_event /\ _tags_changed
    /\ poll' = [poll EXCEPT !.at = "clear", !.tags = DOMAIN ua_nodes]
    /\ UNCHANGED <<plant, nodes, energy, _tags_changed, _stop_event, refresh, history, faults>>

\* ... which is cleared after the lock is left.
ClearTagsChanged ==
    /\ poll.at = "clear"
    /\ _tags_changed' = FALSE
    /\ poll' = [poll EXCEPT !.at = "poll", !.left = poll.tags]
    /\ UNCHANGED <<plant, nodes, energy, _stop_event, refresh, history, faults>>

NothingChanged ==
    /\ poll.at = "top" /\ ~ _stop_event /\ ~ _tags_changed
    /\ poll' = [poll EXCEPT !.at = "poll", !.left = poll.tags]
    /\ UNCHANGED <<plant, nodes, energy, _tags_changed, _stop_event, refresh, history, faults>>

\* Read a batch; when that fails there are no results.
PollRead ==
    /\ poll.at = "poll" /\ poll.left # {} /\ ~ _stop_event
    /\ LET batch == CHOOSE b \in Batches(poll.left) : TRUE IN
       \E failed \in BOOLEAN :
         /\ Fails(failed)
         /\ poll' = [poll EXCEPT !.at = "update", !.left = @ \ batch,
                       !.results = [t \in IF failed THEN {} ELSE batch |-> quality[t]]]
    /\ UNCHANGED <<plant, nodes, energy, _tags_changed, _stop_event, refresh, history>>

\* The tags that have a value and still a node.
Polled(results) == {t \in DOMAIN results \cap DOMAIN ua_nodes : results[t] # "Error"}

\* Put the values that were read in the nodes, in the lock.
PollUpdate ==
    /\ poll.at = "update"
    /\ LET polled == {NodeOf(t) : t \in Polled(poll.results)} IN
       space' = [n \in DOMAIN space |->
                   IF n \in polled
                   THEN [space[n] EXCEPT !.status = map_quality(poll.results[n[1]])]
                   ELSE space[n]]
    /\ poll' = [poll EXCEPT !.at = "poll", !.results = NoTags]
    /\ UNCHANGED <<plant, ua_nodes, _ua_folders, energy, _tags_changed, _stop_event, refresh,
                   history, faults>>

\* All is read: wait for the interval, or for the end.
PollWait ==
    /\ poll.at = "poll" /\ (poll.left = {} \/ _stop_event)
    /\ poll' = [poll EXCEPT !.at = "top", !.left = {}]
    /\ UNCHANGED <<plant, nodes, energy, _tags_changed, _stop_event, refresh, history, faults>>

PollEnds ==
    /\ poll.at = "top" /\ _stop_event
    /\ poll' = [poll EXCEPT !.at = "ended", !.tags = {}]
    /\ UNCHANGED <<plant, nodes, energy, _tags_changed, _stop_event, refresh, history, faults>>

-----------------------------------------------------------------------------
(* The refresh thread.                                                      *)

RefreshConnect ==
    /\ refresh.at = "start"
    /\ \E failed \in BOOLEAN :
         /\ Fails(failed)
         /\ refresh' = [refresh EXCEPT !.at = IF failed THEN "ended" ELSE "wait"]
    /\ UNCHANGED <<plant, nodes, energy, _tags_changed, _stop_event, poll, history>>

\* The interval is over, or the bridge has stopped.
RefreshWait ==
    /\ refresh.at = "wait"
    /\ refresh' = [refresh EXCEPT !.at = IF _stop_event THEN "ended" ELSE "list"]
    /\ UNCHANGED <<plant, nodes, energy, _tags_changed, _stop_event, poll, history, faults>>

RefreshList ==
    /\ refresh.at = "list"
    /\ \E listing \in SUBSET available :
         /\ Fails(listing # available)
         /\ \E c \in Candidates(listing) :
              refresh' = [refresh EXCEPT !.at = "meters", !.current = c]
    /\ ForgetMeters
    /\ overlaps' = overlaps \cup IF Booting THEN {"bootstrap"} ELSE {}
    /\ UNCHANGED <<plant, nodes, _tags_changed, _stop_event, poll, undeleted>>

RefreshMeters ==
    /\ refresh.at = "meters"
    /\ FindMeters(refresh.current)
    /\ refresh' = [refresh EXCEPT !.at = "filter"]
    /\ UNCHANGED <<plant, nodes, _tags_changed, _stop_event, poll, history, faults>>

\* A listing without tags is not believed.
RefreshFilter ==
    /\ refresh.at = "filter"
    /\ LET current == _filter_tags(refresh.current, energy) IN
       refresh' = [refresh EXCEPT !.at = IF current = {} THEN "wait" ELSE "compare",
                                  !.current = current]
    /\ UNCHANGED <<plant, nodes, energy, _tags_changed, _stop_event, poll, history, faults>>

\* What a listing is compared with, taken in the lock.
existing_tags == DOMAIN ua_nodes

\* What is new, in the order the set yields it, and what is gone.
RefreshCompare ==
    /\ refresh.at = "compare"
    /\ \E new \in SetToSeqs(refresh.current \ existing_tags) :
         refresh' = [refresh EXCEPT !.at = "remove", !.current = {}, !.new = new,
                       !.removed = existing_tags \ refresh.current]
    /\ UNCHANGED <<plant, nodes, energy, _tags_changed, _stop_event, poll, history, faults>>

\* Seeded fault: the nodes are deleted and stay in ua_nodes.
Kept_All(removed) == DOMAIN ua_nodes

\* The tags that stay.
Kept(removed) == DOMAIN ua_nodes \ removed

\* In the lock: the tags go, and their nodes, but for those whose deletion fails.
RefreshRemove ==
    LET removed == {NodeOf(t) : t \in refresh.removed \cap DOMAIN ua_nodes} IN
    /\ refresh.at = "remove"
    /\ \E stuck \in SUBSET removed :
         /\ Fails(stuck # {})
         /\ undeleted' = undeleted \cup stuck
         /\ space' = [n \in DOMAIN space \ (removed \ stuck) |-> space[n]]
    /\ ua_nodes' = [t \in Kept(refresh.removed) |-> ua_nodes[t]]
    /\ refresh' = [refresh EXCEPT !.at = "add"]
    /\ UNCHANGED <<plant, _ua_folders, energy, _tags_changed, _stop_event, poll, overlaps>>

\* Read the next batch of the new tags and make their nodes.
RefreshAdd ==
    LET new  == refresh.new
        last == IF refresh.done + BATCH_SIZE < Len(new) THEN refresh.done + BATCH_SIZE
                ELSE Len(new)
        batch == {new[i] : i \in refresh.done + 1 .. last}
    IN
    /\ refresh.at = "add" /\ refresh.done < Len(new)
    /\ \E good \in SUBSET batch :
         /\ Fails(good # batch)
         /\ _add_ua_node(good)
         /\ refresh' = [refresh EXCEPT !.done = last, !.added = @ + Cardinality(good)]
    /\ UNCHANGED <<plant, energy, _tags_changed, _stop_event, poll, history>>

\* Seeded fault: the last of the tags is left out.
ToDescribe_ButLast == {refresh.new[i] : i \in 1 .. refresh.added - 1}

\* As many of the new tags as nodes were made, from the first on.
ToDescribe == {refresh.new[i] : i \in 1 .. refresh.added}

RefreshDescribe ==
    /\ refresh.at = "add" /\ refresh.done = Len(refresh.new)
    /\ _read_descriptions(ToDescribe)
    /\ refresh' = [refresh EXCEPT !.at = "signal"]
    /\ UNCHANGED <<plant, energy, _tags_changed, _stop_event, poll, history>>

\* Seeded fault: the poll thread is told of removed tags only.
Signals_Removed == refresh.removed # {}

\* Has the list of tags changed?
Signals == refresh.new # <<>> \/ refresh.removed # {}

\* Tell the poll thread, which may just be about to clear the event.
RefreshSignal ==
    /\ refresh.at = "signal"
    /\ _tags_changed' = (_tags_changed \/ Signals)
    /\ overlaps' = overlaps \cup
         IF Signals /\ poll.at = "clear" THEN {"reload"} ELSE {}
    /\ refresh' = [refresh EXCEPT !.at = "wait", !.new = <<>>, !.removed = {},
                                  !.done = 0, !.added = 0]
    /\ UNCHANGED <<plant, nodes, energy, _stop_event, poll, undeleted, faults>>

-----------------------------------------------------------------------------
(* The main thread and the plant.                                           *)

\* Ctrl+C: the process ends soon after, the threads wherever they are.
stop ==
    /\ ~ _stop_event
    /\ _stop_event' = TRUE
    /\ UNCHANGED <<plant, nodes, energy, _tags_changed, poll, refresh, history, faults>>

Reconfigure ==
    /\ changes < MaxChanges
    /\ changes' = changes + 1
    /\ \/ available' \in Listings \ {available} /\ UNCHANGED quality
       \/ \E t \in available, q \in Quality :
            quality[t] # q /\ quality' = [quality EXCEPT ![t] = q] /\ UNCHANGED available
    /\ UNCHANGED <<nodes, energy, _tags_changed, _stop_event, poll, refresh, history, faults>>

-----------------------------------------------------------------------------

_poll_loop ==
    \/ PollConnect \/ PollList \/ PollMeters \/ PollFilter \/ BootBatch \/ BootEnds
    \/ PollDescribe \/ TakeTags \/ ReloadTags \/ ClearTagsChanged \/ NothingChanged \/ PollRead
    \/ PollUpdate \/ PollWait \/ PollEnds

_refresh_loop ==
    \/ RefreshConnect \/ RefreshWait \/ RefreshList \/ RefreshMeters \/ RefreshFilter
    \/ RefreshCompare \/ RefreshRemove \/ RefreshAdd \/ RefreshDescribe \/ RefreshSignal

Next == _poll_loop \/ _refresh_loop \/ stop \/ Reconfigure

\* Every call returns, and the threads are scheduled.
Spec == Init /\ [][Next]_vars /\ WF_vars(_poll_loop) /\ WF_vars(_refresh_loop)

-----------------------------------------------------------------------------
(* Properties.                                                              *)

\* The values of the state variables.
TypeOK ==
    /\ available \in Listings /\ quality \in [Tag -> Quality]
    /\ DOMAIN ua_nodes \subseteq Tag
    /\ \A n \in DOMAIN space :
         /\ n[1] \in Tag /\ space[n].status \in {"Good", "Uncertain", "Bad"}
         /\ space[n].place[1] \in DOMAIN _ua_folders \cup {NoGroup}
    /\ \A g \in DOMAIN _ua_folders : _ua_folders[g] \in BOOLEAN
    /\ DOMAIN energy \subseteq {Base(t) : t \in Tag}
    /\ poll.tags \cup poll.left \cup DOMAIN poll.results \subseteq Tag
    /\ refresh.current \cup refresh.removed \cup ToSet(refresh.new) \subseteq Tag
    /\ refresh.done \in 0 .. Len(refresh.new) /\ refresh.added \in 0 .. refresh.done
    /\ (\A n \in undeleted : n[1] \in Tag) /\ overlaps \subseteq {"bootstrap", "reload"}
    /\ faults \in 0 .. MaxFaults /\ changes \in 0 .. MaxChanges

\* A tag's node is one that exists: the poll thread, which looks tags up in
\* ua_nodes, never writes a node that the refresh has deleted.  And a node is
\* the node of its tag, which is kept up to date: unless its deletion failed, or a
\* refresh was at work before the poll thread had made its nodes.
NodesMatch ==
    /\ \A t \in DOMAIN ua_nodes : NodeOf(t) \in DOMAIN space
    /\ "bootstrap" \notin overlaps =>
         \A n \in DOMAIN space \ undeleted : n[1] \in DOMAIN ua_nodes /\ n = NodeOf(n[1])

\* Unless a call has failed, every node is described once the thread that made
\* it is through with its descriptions.
Described ==
    faults = 0 /\ HasDescriptions =>
      \A t \in DOMAIN ua_nodes :
        \/ IF DescribesFolder(t) THEN _ua_folders[Base(t)] ELSE space[NodeOf(t)].described
        \/ poll.at \in {"boot", "describe"}
        \/ refresh.at = "add" /\ t \in ToSet(refresh.new)

\* In the end the nodes are those of the tags the server has: while the refresh
\* runs, whatever listings missed before, and if there is any tag at all.
Converges ==
    <>[](\/ _stop_event \/ refresh.at = "ended"
         \/ {} \in Filtered(available)
         \/ DOMAIN ua_nodes \in Filtered(available))

\* In the end every node has the status of its tag's quality: while the poll
\* thread runs, unless it cleared an event it had not seen.  A tag in error has
\* no value, and its node the status it had.
Follows ==
    <>[](\/ _stop_event \/ poll.at = "ended" \/ "reload" \in overlaps
         \/ \A t \in DOMAIN ua_nodes :
              quality[t] # "Error" => space[NodeOf(t)].status = map_quality(quality[t]))

\* "Poll: reads OPC DA values and updates UA nodes" (opcda2ua_legacy.py:149):
\* while the bridge runs every node is on the list to poll, sooner or later.
AllArePolled ==
    \A t \in Tag :
      t \in DOMAIN ua_nodes ~> t \in poll.tags \/ t \notin DOMAIN ua_nodes \/ _stop_event
=============================================================================
