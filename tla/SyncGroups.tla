------------------------------- MODULE SyncGroups -------------------------------
(***************************************************************************)
(* Synchronous reads, their groups, and writes: OpcDaClient.iread with      *)
(* sync=True, remove and iwrite, openopc2/da_client.py.  A named read makes *)
(* sub-groups of size tags each, uses them again the next time, or rebuilds *)
(* them for other tags.  The values of a synchronous read come without a    *)
(* tag or a handle of the client: the i-th is taken for that of the i-th    *)
(* valid tag.  So are the results of a write.                               *)
(*                                                                         *)
(* Assumed of the server: OPCItems lists the items of a group in the order  *)
(* they were added in.  Of a value it is kept which tag's it is.  A COM     *)
(* call that raises has had no effect.  A group without a name that a       *)
(* raising call leaves behind is forgotten here.                            *)
(***************************************************************************)
EXTENDS Naturals, Sequences, FiniteSets, SequencesExt, Places

CONSTANTS
    Name,        \* the names of groups
    NoName,      \* a read without one
    Tag,         \* the tags
    Requests,    \* the lists of tags to read, none twice in one
    Writes,      \* the lists of tags to write
    Sizes,       \* size: tags of a sub-group, 0 for no limit
    MaxCalls,    \* bound: calls
    MaxFaults    \* bound: calls that raise, changes of the server

ASSUME RequestAssumption ==
    /\ NoName \notin Name
    /\ Requests \subseteq Seq(Tag) \ {<<>>} /\ \A r \in Requests : IsInjective(r)
    /\ Writes \subseteq Seq(Tag) \ {<<>>}
    /\ Sizes \subseteq Nat /\ {MaxCalls, MaxFaults} \subseteq Nat

VARIABLES
    known,                  \* the tags the server has
    groups,                 \* its groups: their items, in order
    _groups,                \* per name, the number of its sub-groups
    _group_tags,            \* per sub-group, its tags
    _group_valid_tags,      \* those the server has taken
    _group_server_handles,  \* and the handles of these
    call,                   \* the call under way
    result,                 \* what the last one returned
    torn,                   \* history: sub-groups whose rebuild was cut short
    calls, faults           \* bounds

vars == <<known, groups, _groups, _group_tags, _group_valid_tags, _group_server_handles,
          call, result, torn, calls, faults>>
tables == <<_groups, _group_tags, _group_valid_tags, _group_server_handles>>

-----------------------------------------------------------------------------

Idle == [at |-> "idle"]
NoResult == [op |-> "none"]

Fails(failed) ==
    IF failed THEN faults < MaxFaults /\ faults' = faults + 1 ELSE UNCHANGED faults

With(table, key, value) ==
    [k \in DOMAIN table \cup {key} |-> IF k = key THEN value ELSE table[k]]

Except(table, keys) == [k \in DOMAIN table \ keys |-> table[k]]

Raise == call' = Idle /\ result' = NoResult

\* Break up a list in pieces of size.
Pieces(list, size) ==
    IF size = 0 THEN <<list>>
    ELSE [i \in 1 .. (Len(list) + size - 1) \div size |->
            SubSeq(list, (i - 1) * size + 1, IF i * size < Len(list) THEN i * size ELSE Len(list))]

\* The sub-group the call is at.
sub_group == <<call.name, IF call.name = NoName THEN 0 ELSE call.gid>>

\* And the tags it is to have.
PieceTags == call.tag_groups[call.gid + 1]

\* The n-th number of a set.
Without(list, others) == Select(list, {i \in DOMAIN list : list[i] \notin ToSet(others)})

Tags(items) == [i \in DOMAIN items |-> items[i].tag]
Handles(items) == [i \in DOMAIN items |-> items[i].handle]

\* The highest handle the items of these groups have.
Highest(gs) == Max({0} \cup UNION {ToSet(Handles(groups[g])) : g \in gs})

\* add_items(): the items the server may make of tags, of those it knows.  COM
\* wants their handles to differ within the group only: a server counts them on
\* in this group, or through all groups.
Added(tags) ==
    LET valid == Select(tags, {i \in DOMAIN tags : tags[i] \in known})
    IN  {[i \in DOMAIN valid |-> [handle |-> top + i, tag |-> valid[i]]] :
           top \in {Highest({sub_group}), Highest(DOMAIN groups)}}

\* The handles a sub-group's table has with these items.
Entered(items) ==
    LET table == IF sub_group \in DOMAIN _group_server_handles
                 THEN _group_server_handles[sub_group] ELSE <<>>
        of(t) == CHOOSE i \in ToSet(items) : i.tag = t
    IN  [t \in DOMAIN table \cup ToSet(Tags(items)) |->
           IF t \in ToSet(Tags(items)) THEN of(t).handle ELSE table[t]]

-----------------------------------------------------------------------------

Init ==
    /\ known = Tag
    /\ groups = <<>>
    /\ _groups = <<>> /\ _group_tags = <<>> /\ _group_valid_tags = <<>>
    /\ _group_server_handles = <<>>
    /\ call = Idle /\ result = NoResult
    /\ torn = {}
    /\ calls = 0 /\ faults = 0

-----------------------------------------------------------------------------
(* Reads.                                                                   *)

\* A name that is there is read with the sub-groups it has; the tags of the call
\* are looked at only for a new name and to rebuild.
Read(name, tags, size, rebuild) ==
    /\ call = Idle /\ calls < MaxCalls
    /\ calls' = calls + 1
    /\ LET exists == name \in DOMAIN _groups /\ ~ rebuild
           pieces == IF exists THEN <<>> ELSE Pieces(tags, size)
       IN
       call' = [at |-> "group", name |-> name, rebuild |-> rebuild, gid |-> 0,
                tag_groups |-> pieces,
                num_groups |-> IF exists THEN _groups[name] ELSE Len(pieces),
                tags |-> <<>>, valid_tags |-> <<>>,
                whose |-> "none", server_handles |-> <<>>, rows |-> <<>>]
    /\ result' = NoResult
    /\ UNCHANGED <<known, groups, tables, torn, faults>>

\* A group without a name is new, a named one if the server does not have it.
IsNew == call.name = NoName \/ sub_group \notin DOMAIN groups

UseServerGroup ==
    /\ call.at = "group" /\ ~ IsNew
    /\ call' = [call EXCEPT !.at = IF call.rebuild THEN "rebuild" ELSE "use"]
    /\ UNCHANGED <<known, groups, tables, result, torn, calls, faults>>

\* A name that was thought to exist has no tags to fill the new group with: that
\* raises, when the group is there.
AddGroup ==
    /\ call.at = "group" /\ IsNew
    /\ groups' = With(groups, sub_group, <<>>)
    /\ torn' = torn \ {sub_group}
    /\ IF call.name = NoName
       THEN call' = [call EXCEPT !.at = "fill"] /\ UNCHANGED <<_groups, result>>
       ELSE IF call.tag_groups = <<>>
       THEN Raise /\ UNCHANGED _groups
       ELSE /\ _groups' = With(_groups, call.name, Len(call.tag_groups))
            /\ call' = [call EXCEPT !.at = "fill"]
            /\ UNCHANGED result
    /\ UNCHANGED <<known, _group_tags, _group_valid_tags, _group_server_handles, calls, faults>>

GroupFails ==
    /\ call.at = "group"
    /\ Fails(TRUE)
    /\ Raise
    /\ UNCHANGED <<known, groups, tables, torn, calls>>

\* Note the tags of the sub-group, and those of them there are.
Note(tags, valid) ==
    /\ _group_tags' = With(_group_tags, sub_group, tags)
    /\ _group_valid_tags' = With(_group_valid_tags, sub_group, valid)

\* When the tags cannot be validated or added the group stays, and no tags are
\* noted for it.
FillGroup ==
    /\ call.at = "fill"
    /\ \E items \in Added(PieceTags) :
       \/ /\ groups' = [groups EXCEPT ![sub_group] = items]
          /\ _group_server_handles' = With(_group_server_handles, sub_group, Entered(items))
          /\ Note(PieceTags, Tags(items))
          /\ call' = [call EXCEPT !.at = "ask", !.tags = PieceTags, !.valid_tags = Tags(items),
                                  !.whose = "own", !.server_handles = Handles(items)]
          /\ UNCHANGED <<result, faults>>
       \/ /\ Fails(TRUE)
          /\ Raise
          /\ UNCHANGED <<groups, _group_tags, _group_valid_tags, _group_server_handles>>
    /\ UNCHANGED <<known, _groups, torn, calls>>

\* Seeded fault: what is new comes first.
Rebuilt_NewFirst(valid, added) == added \o valid

\* The valid tags in the order of the items: what is new comes last.
Rebuilt(valid, added) == valid \o added

\* A rebuild adds the tags that are new.  Nothing noted for the group: raise.
AddNewTags ==
    /\ call.at = "rebuild"
    /\ IF sub_group \notin DOMAIN _group_valid_tags
       THEN Raise /\ UNCHANGED <<groups, _group_server_handles, faults>>
       ELSE LET valid    == _group_valid_tags[sub_group]
                add_tags == Without(PieceTags, valid)
            IN
            \E items \in Added(add_tags) :
            \/ /\ groups' = [groups EXCEPT ![sub_group] = @ \o items]
               /\ _group_server_handles' =
                    IF add_tags = <<>> THEN _group_server_handles
                    ELSE With(_group_server_handles, sub_group, Entered(items))
               /\ call' = [call EXCEPT !.at = "remove", !.tags = PieceTags,
                             !.valid_tags = Rebuilt(valid, Tags(items)),
                             !.whose = IF add_tags # <<>> THEN "own"
                                       ELSE IF @ = "none" THEN @ ELSE "previous",
                             !.server_handles = IF add_tags = <<>> THEN @ ELSE Handles(items)]
               /\ UNCHANGED <<result, faults>>
            \/ /\ add_tags # <<>> /\ Fails(TRUE)
               /\ Raise
               /\ UNCHANGED <<groups, _group_server_handles>>
    /\ UNCHANGED <<known, _groups, _group_tags, _group_valid_tags, torn, calls>>

\* Then it removes the items of the tags that are not asked for any more, and
\* notes what the group has by now.  If that raises nothing is noted, though the
\* new items are there.
RemoveOldTags ==
    /\ call.at = "remove"
    /\ LET del_tags == Without(_group_valid_tags[sub_group], call.tags)
           gone     == {_group_server_handles[sub_group][t] : t \in ToSet(del_tags)}
           valid    == Without(call.valid_tags, del_tags)
           stay     == {i \in DOMAIN groups[sub_group] : groups[sub_group][i].handle \notin gone}
       IN
       \/ /\ groups' = [groups EXCEPT ![sub_group] = Select(@, stay)]
          /\ Note(call.tags, valid)
          /\ call' = [call EXCEPT !.at = "ask", !.valid_tags = valid]
          /\ UNCHANGED <<result, torn, faults>>
       \/ /\ del_tags # <<>> /\ Fails(TRUE)
          /\ Raise
          /\ torn' = torn \cup {sub_group}
          /\ UNCHANGED <<groups, _group_tags, _group_valid_tags>>
    /\ UNCHANGED <<known, _groups, _group_server_handles, calls>>

\* A group as it is: the tags noted, the handles of the items in their order.
UseGroup ==
    /\ call.at = "use"
    /\ IF sub_group \notin DOMAIN _group_tags
       THEN Raise
       ELSE /\ call' = [call EXCEPT !.at = "ask", !.tags = _group_tags[sub_group],
                          !.valid_tags = _group_valid_tags[sub_group],
                          !.whose = "own", !.server_handles = Handles(groups[sub_group])]
            /\ UNCHANGED result
    /\ UNCHANGED <<known, groups, tables, torn, calls, faults>>

\* What the server returns for a handle.
ValueOf(handle) ==
    LET items == {i \in ToSet(groups[sub_group]) : i.handle = handle} IN
    IF items = {} THEN "no item"
    ELSE LET tag == (CHOOSE i \in items : TRUE).tag IN IF tag \in known THEN tag ELSE "no value"

\* The rows of the tags: the i-th value is the i-th valid tag's.
Rows ==
    LET valid    == ToSet(call.valid_tags)
        index(t) == CHOOSE i \in DOMAIN call.valid_tags : call.valid_tags[i] = t
    IN  [i \in DOMAIN call.tags |->
           [tag   |-> call.tags[i],
            value |-> IF call.tags[i] \in valid
                      THEN ValueOf(call.server_handles[index(call.tags[i])]) ELSE "not valid",
            borrowed |-> call.whose # "own"]]

HandlesSuffice == call.whose # "none" /\ Len(call.valid_tags) <= Len(call.server_handles)

\* A rebuild has the handles of the tags it has just added, or, if it added
\* none, those of the sub-group before, which this group may know for other
\* tags, or none at all; with too few of them it raises.
\* The 0 put in front of them stays there for the next sub-group.
SyncRead ==
    /\ call.at = "ask"
    /\ \/ /\ call.valid_tags = <<>> \/ HandlesSuffice
          /\ call' = [call EXCEPT !.at = "next", !.rows = @ \o Rows,
                        !.server_handles = IF call.valid_tags = <<>> THEN @ ELSE <<0>> \o @]
          /\ UNCHANGED <<result, faults>>
       \/ /\ call.valid_tags # <<>>
          /\ Fails(HandlesSuffice)
          /\ Raise
    /\ UNCHANGED <<known, groups, tables, torn, calls>>

\* The next sub-group, or the end; a group without a name goes.
NextGroup ==
    /\ call.at = "next"
    /\ \/ /\ groups' = [g \in DOMAIN groups \ {<<NoName, 0>>} |-> groups[g]]
          /\ IF call.gid + 1 < call.num_groups
             THEN call' = [call EXCEPT !.at = "group", !.gid = @ + 1] /\ UNCHANGED result
             ELSE /\ call' = Idle
                  /\ result' = [op |-> "read", rebuild |-> call.rebuild, rows |-> call.rows]
          /\ UNCHANGED faults
       \/ /\ call.name = NoName /\ Fails(TRUE)
          /\ Raise
          /\ UNCHANGED groups
    /\ UNCHANGED <<known, tables, torn, calls>>

-----------------------------------------------------------------------------
(* remove() and connect().                                                  *)

\* Can the i-th sub-group be removed: is it there, with its tags?
Removable(name, i) == <<name, i>> \in DOMAIN groups \cap DOMAIN _group_tags

\* One sub-group after the other.  A removal that raises leaves the rest, and
\* the name.  A sub-group without tags is removed before that raises.
RemoveName(name) ==
    /\ call = Idle /\ calls < MaxCalls /\ name \in DOMAIN _groups
    /\ calls' = calls + 1
    /\ result' = NoResult
    /\ \E k \in 0 .. _groups[name] :
         LET done == {<<name, i>> : i \in 0 .. k - 1}
             half == IF k < _groups[name] /\ <<name, k>> \notin DOMAIN _group_tags
                     THEN {<<name, k>>} ELSE {}
         IN
         /\ \A i \in 0 .. k - 1 : Removable(name, i)
         /\ Fails(k < _groups[name] /\ Removable(name, k))
         /\ groups' = Except(groups, done \cup half)
         /\ _group_tags' = Except(_group_tags, done)
         /\ _group_valid_tags' = Except(_group_valid_tags, done)
         /\ _group_server_handles' = Except(_group_server_handles, done)
         /\ _groups' = IF k = _groups[name] THEN Except(_groups, {name}) ELSE _groups
    /\ UNCHANGED <<known, call, torn>>

\* connect(), after close(): the groups of the old session are gone, and with
\* them all the client noted about them.
Connect ==
    /\ call = Idle /\ calls < MaxCalls
    /\ calls' = calls + 1
    /\ groups' = <<>> /\ _groups' = <<>> /\ _group_tags' = <<>> /\ _group_valid_tags' = <<>>
    /\ _group_server_handles' = <<>>
    /\ torn' = {} /\ result' = NoResult
    /\ UNCHANGED <<known, call, faults>>

-----------------------------------------------------------------------------
(* Writes.  A pair to write is known by its place in the list.  The group of *)
(* a piece is the call's alone.                                             *)

Write(tags, size) ==
    /\ call = Idle /\ calls < MaxCalls
    /\ calls' = calls + 1
    /\ call' = [at |-> "write items", tag_groups |-> Pieces(tags, size), gid |-> 0,
                valid |-> {}, taken |-> {}, rows |-> <<>>]
    /\ result' = NoResult
    /\ UNCHANGED <<known, groups, tables, torn, faults>>

\* The server takes some of a piece's pairs as items, of two with the same tag
\* maybe one.
WriteItems ==
    /\ call.at = "write items"
    /\ \/ /\ \E valid \in SUBSET {i \in DOMAIN PieceTags : PieceTags[i] \in known} :
               call' = [call EXCEPT !.at = "write", !.valid = valid]
          /\ UNCHANGED <<result, faults>>
       \/ Fails(TRUE) /\ Raise
    /\ UNCHANGED <<known, groups, tables, torn, calls>>

\* The pairs of a piece whose tag has an item.
WithItem == {i \in DOMAIN PieceTags : \E j \in call.valid : PieceTags[i] = PieceTags[j]}

\* Seeded fault: the results go to the first pairs, whether they have an item or not.
ErrorOf_Place(i) ==
    LET n == Cardinality(call.valid) IN Nth(call.valid, IF i < n THEN i ELSE n)

\* Whose result is taken for that of a pair: those of the items are counted
\* through along the pairs whose tag has an item.
ErrorOf(i) == Nth(call.valid, Cardinality({j \in WithItem : j <= i}))

\* Some of the values are taken.  More pairs to report than results: raise, as
\* when the write itself fails, and the values are written all the same.
SyncWrite ==
    /\ call.at = "write"
    /\ \E taken \in SUBSET call.valid :
         LET offset == Len(call.rows)
             status(i) == IF i \in WithItem /\ ErrorOf(i) \in taken THEN "Success" ELSE "Error"
         IN
         \/ /\ Cardinality(WithItem) = Cardinality(call.valid)
            /\ call' = [call EXCEPT !.at = "write next",
                          !.taken = @ \cup {offset + i : i \in taken},
                          !.rows = @ \o [i \in DOMAIN PieceTags |-> status(i)]]
            /\ UNCHANGED <<result, faults>>
         \/ /\ call.valid # {}
            /\ Fails(Cardinality(WithItem) = Cardinality(call.valid))
            /\ Raise
    /\ UNCHANGED <<known, groups, tables, torn, calls>>

\* The group goes; the next piece, or the end.
WriteNext ==
    /\ call.at = "write next"
    /\ \/ /\ IF call.gid + 1 < Len(call.tag_groups)
             THEN /\ call' = [call EXCEPT !.at = "write items", !.gid = @ + 1, !.valid = {}]
                  /\ UNCHANGED result
             ELSE /\ call' = Idle
                  /\ result' = [op |-> "write", taken |-> call.taken, rows |-> call.rows]
          /\ UNCHANGED faults
       \/ Fails(TRUE) /\ Raise
    /\ UNCHANGED <<known, groups, tables, torn, calls>>

-----------------------------------------------------------------------------
(* The server.                                                              *)

\* Tags come and go.
Reconfigure ==
    /\ Fails(TRUE)
    /\ known' \in (SUBSET Tag) \ {known}
    /\ UNCHANGED <<groups, tables, call, result, torn, calls>>

-----------------------------------------------------------------------------

Next ==
    \/ \E tags \in Requests, size \in Sizes :
         \/ \E name \in Name, rebuild \in BOOLEAN : Read(name, tags, size, rebuild)
         \/ Read(NoName, tags, size, FALSE)
    \/ UseServerGroup \/ AddGroup \/ GroupFails \/ FillGroup
    \/ AddNewTags \/ RemoveOldTags \/ UseGroup \/ SyncRead \/ NextGroup
    \/ \E name \in Name : RemoveName(name)
    \/ Connect
    \/ \E tags \in Writes, size \in Sizes : Write(tags, size)
    \/ WriteItems \/ SyncWrite \/ WriteNext
    \/ Reconfigure

Spec == Init /\ [][Next]_vars

-----------------------------------------------------------------------------
(* Properties.                                                              *)

\* A read that returns has for every tag the value of that tag, or an error if
\* the server did not take the tag or lost it since.  A sub-group that a rebuild
\* adds nothing to is read by the handles of the one before, and what a cut-short
\* rebuild leaves is read under the wrong tags.
ReadsOwnTags ==
    torn = {} /\ result.op = "read" =>
      \A i \in DOMAIN result.rows :
        \/ result.rows[i].value \in {result.rows[i].tag, "not valid", "no value"}
        \/ result.rebuild /\ result.rows[i].borrowed

\* A write that returns says Success of the pairs whose value the server has
\* taken, and of no other, whatever items it refused.
WriteTellsTruth ==
    result.op = "write" =>
      \A i \in DOMAIN result.rows : result.rows[i] = "Success" <=> i \in result.taken
=============================================================================
