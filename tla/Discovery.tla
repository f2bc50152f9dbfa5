------------------------------- MODULE Discovery -------------------------------
(***************************************************************************)
(* Discovery and the first read, openopc2/ua_server.py on the DA thread:    *)
(* the tags of the server are listed, all of them through ilist() of the    *)
(* client or, for iFIX, along the branches of its data base; their values   *)
(* are read in chunks that are cut up when a read raises; their             *)
(* descriptions are read in batches.  What then becomes of an attempt that  *)
(* raises or finds nothing is in Startup.                                   *)
(*                                                                         *)
(* The server is a tree of branches with leafs; a branch is the path to it. *)
(***************************************************************************)
EXTENDS Naturals, Sequences, FiniteSets, SequencesExt, Places

CONSTANTS
    Trees,         \* the servers: records of branches, leafs, names with a
                   \* dot, and branches that cannot be entered
    ChunkSize,     \* chunk_size: 100
    Small,         \* chunks that are read tag by tag, when they raise: 10
    BatchSize,     \* descriptions read at a time, for iFIX
    MaxRaising,    \* bound: tags whose read always raises
    MaxFaults      \* bound: calls that raise once

ASSUME SizeAssumption == {ChunkSize, Small, BatchSize} \subseteq Nat \ {0}
ASSUME TreeAssumption ==
    \A t \in Trees :
      /\ IsFiniteSet(t.branches) /\ t.branches \subseteq Seq(STRING) /\ <<>> \in t.branches
      /\ \A b \in t.branches : \A n \in 0 .. Len(b) : SubSeq(b, 1, n) \in t.branches
      /\ DOMAIN t.leafs = t.branches /\ t.closed \subseteq t.branches
      /\ \A b \in t.branches : IsFiniteSet(t.leafs[b])
ASSUME FaultAssumption == {MaxRaising, MaxFaults} \subseteq Nat

VARIABLES
    options,           \* how the bridge was started
    tree,              \* the server
    raising, invalid,  \* tags whose read raises, or is in error
    at,                \* where the thread is
    queue,             \* branches still to be visited
    tags,              \* the tags found
    todo,              \* lists of tags still to be read
    tag_values,        \* the tags with a value to start with
    undescribed,       \* tags whose description is still to be read
    tag_descriptions,  \* the tags with a description
    faults             \* calls that raised

vars == <<options, tree, raising, invalid, at, queue, tags, todo, tag_values, undescribed,
          tag_descriptions, faults>>

-----------------------------------------------------------------------------
(* The server.                                                              *)

SubBranches(path) == {b \in tree.branches : b # <<>> /\ Front(b) = path}

\* The tag of a leaf.  iFIX leaves the type of a block, the second part, out.
ItemID(path, leaf) == [path |-> IF Len(path) = 3 THEN <<path[1], path[3]>> ELSE path, leaf |-> leaf]

Items(path) == {ItemID(path, l) : l \in tree.leafs[path]}

\* Tags of the server itself.
IsSystem(tag) == tag.path # <<>> /\ Head(tag.path) = "#"

\* The description is in a tag beside the value.
IsValue(tag) == tag.leaf \in {"F_CV", "A_CV"}

Raises(failed) ==
    IF failed THEN faults < MaxFaults /\ faults' = faults + 1 ELSE UNCHANGED faults

\* Things asked for one by one: one of them may not be told.
Reported(things) == {s \in SUBSET things : s = things \/ Cardinality(s) = Cardinality(things) - 1}

-----------------------------------------------------------------------------

Init ==
    /\ options \in [ifix_optimized : BOOLEAN, ifix_only_fcv : BOOLEAN, flat : BOOLEAN,
                    skip_initial_read : BOOLEAN, include_descriptions : BOOLEAN]
    /\ tree \in Trees
    /\ raising = {} /\ invalid = {}
    /\ at = IF options.ifix_optimized THEN "browse" ELSE "list"
    /\ queue = <<<<>>>>
    /\ tags = <<>> /\ todo = <<>> /\ tag_values = <<>>
    /\ undescribed = <<>> /\ tag_descriptions = {}
    /\ faults = 0

\* The attempt is over without tags.
GiveUp ==
    /\ at' = "failed"
    /\ UNCHANGED <<options, tree, raising, invalid, queue, tags, todo, tag_values, undescribed,
                   tag_descriptions>>

-----------------------------------------------------------------------------
(* Listing.                                                                 *)

\* ilist(flat=True), where the server knows how to.
ListFlat ==
    /\ at = "list" /\ tags = <<>> /\ queue = <<<<>>>>
    /\ options.flat
    /\ \/ /\ tags' = SetToSeq(UNION {Items(b) : b \in tree.branches})
          /\ queue' = <<>>
          /\ UNCHANGED <<options, tree, raising, invalid, at, todo, tag_values, undescribed,
                         tag_descriptions, faults>>
       \/ Raises(TRUE) /\ GiveUp

\* A path is cut up at its dots too when it is walked again.
Walkable(path) == \A i \in DOMAIN path : path[i] \notin tree.dotted

\* ilist(flat=False, recursive=True), where flat=True finds nothing.  The next
\* branch of the queue is visited from the root.  A branch that has branches is
\* followed, its leafs are not looked at; a leaf is yielded once.
ListBranch ==
    /\ at = "list" /\ queue # <<>> /\ ~ options.flat
    /\ LET path  == Head(queue)
           found == Items(path) \ ToSet(tags)
       IN
       /\ Walkable(path) /\ path \notin tree.closed
       /\ IF SubBranches(path) # {}
          THEN queue' = Tail(queue) \o SetToSeq(SubBranches(path)) /\ UNCHANGED tags
          ELSE queue' = Tail(queue) /\ tags' = tags \o SetToSeq(found)
    /\ UNCHANGED <<options, tree, raising, invalid, at, todo, tag_values, undescribed,
                   tag_descriptions, faults>>

\* A name on the way that cannot be moved down to, as no part of a dotted one
\* can, ends the listing there and then, with what it has found.  When it is the
\* branch itself, it is looked for among its siblings, found, and queued again.
\* Any other call that fails raises.
BranchFails ==
    /\ at = "list" /\ queue # <<>> /\ ~ options.flat
    /\ LET path == Head(queue) IN
       \/ /\ \/ ~ Walkable(path) /\ UNCHANGED faults
             \/ Len(path) > 1 /\ Raises(TRUE)
          /\ queue' = <<>>
          /\ UNCHANGED <<options, tree, raising, invalid, at, tags, todo, tag_values,
                         undescribed, tag_descriptions>>
       \/ /\ Walkable(path) /\ path # <<>>
          /\ Raises(path \notin tree.closed)
          /\ queue' = Append(Tail(queue), path)
          /\ UNCHANGED <<options, tree, raising, invalid, at, tags, todo, tag_values,
                         undescribed, tag_descriptions>>
       \/ Raises(TRUE) /\ GiveUp

\* Not the server's own, and numbers only if so asked for.
Usable(tag) == ~ IsSystem(tag) /\ (options.ifix_only_fcv => tag.leaf = "F_CV")

FilterTags ==
    /\ at = "list" /\ queue = <<>>
    /\ tags' = Select(tags, {i \in DOMAIN tags : Usable(tags[i])})
    /\ at' = "discovered"
    /\ UNCHANGED <<options, tree, raising, invalid, queue, todo, tag_values, undescribed,
                   tag_descriptions, faults>>

\* Seeded fault: the text blocks have a number as well.
Suffix_Number(type) == "F_CV"

\* Text blocks have a text, all others a number.
Suffix(type) == IF type = "TX" THEN "A_CV" ELSE "F_CV"

\* The branches of an iFIX server: its nodes, the types of a node's blocks, the
\* blocks of a type.  A branch that cannot be named is left out, a type or node
\* that cannot be visited raises.
Browse ==
    /\ at = "browse" /\ queue # <<>>
    /\ LET path == Head(queue) IN
       \/ /\ \E sub \in Reported(SubBranches(path)) :
               /\ Raises(sub # SubBranches(path))
               /\ IF Len(path) < 2
                  THEN queue' = SetToSeq(sub) \o Tail(queue) /\ UNCHANGED tags
                  ELSE /\ queue' = Tail(queue)
                       /\ tags' = tags \o SetToSeq({ItemID(b, Suffix(path[2])) : b \in sub})
          /\ UNCHANGED <<options, tree, raising, invalid, at, todo, tag_values, undescribed,
                         tag_descriptions>>
       \/ Raises(TRUE) /\ GiveUp

BrowseEnds ==
    /\ at = "browse" /\ queue = <<>>
    /\ at' = "discovered"
    /\ UNCHANGED <<options, tree, raising, invalid, queue, tags, todo, tag_values, undescribed,
                   tag_descriptions, faults>>

NoTags ==
    /\ at = "discovered" /\ tags = <<>>
    /\ UNCHANGED faults
    /\ GiveUp

-----------------------------------------------------------------------------
(* The first values.                                                        *)

\* A list in pieces of a size.
Pieces(list, size) ==
    [i \in 1 .. (Len(list) + size - 1) \div size |->
       SubSeq(list, (i - 1) * size + 1, IF i * size < Len(list) THEN i * size ELSE Len(list))]

SkipInitialRead ==
    /\ at = "discovered" /\ tags # <<>> /\ options.skip_initial_read
    /\ tag_values' = tags
    /\ at' = "values"
    /\ UNCHANGED <<options, tree, raising, invalid, queue, tags, todo, undescribed,
                   tag_descriptions, faults>>

\* Some tags raise, some are in error, whenever they are read.
StartReading ==
    /\ at = "discovered" /\ tags # <<>> /\ ~ options.skip_initial_read
    /\ \E r, i \in SUBSET ToSet(tags) :
         /\ Cardinality(r \cup i) <= MaxRaising /\ r \cap i = {}
         /\ raising' = r /\ invalid' = i
    /\ todo' = [i \in DOMAIN Pieces(tags, ChunkSize) |->
                  [list |-> Pieces(tags, ChunkSize)[i], alone |-> FALSE]]
    /\ at' = "reading"
    /\ UNCHANGED <<options, tree, queue, tags, tag_values, undescribed, tag_descriptions, faults>>

\* Seeded faults: the second half starts a tag late; it is read first.
Cut_Gap(list) ==
    LET mid == Len(list) \div 2
    IN  <<SubSeq(list, 1, mid), SubSeq(list, mid + 2, Len(list))>>
Cut_Swapped(list) ==
    LET mid == Len(list) \div 2
    IN  <<SubSeq(list, mid + 1, Len(list)), SubSeq(list, 1, mid)>>

\* A large list is cut in half ...
Cut(list) ==
    LET mid == Len(list) \div 2
    IN  <<SubSeq(list, 1, mid), SubSeq(list, mid + 1, Len(list))>>

\* Seeded fault: a list is cut in half whatever its size.
Retry_Halves(list) == [i \in 1 .. 2 |-> [list |-> Cut(list)[i], alone |-> FALSE]]

\* ... a small one in its tags, each of which is read for the last time.
Retry(list) ==
    IF Len(list) > Small
    THEN [i \in 1 .. 2 |-> [list |-> Cut(list)[i], alone |-> FALSE]]
    ELSE [i \in DOMAIN list |-> [list |-> <<list[i]>>, alone |-> TRUE]]

\* read_chunk_safe(): the lists are read one after the other, those a failed one
\* was cut into first.  A tag in error is dropped, as is one that fails alone.
ReadList ==
    /\ at = "reading" /\ todo # <<>>
    /\ LET list == Head(todo).list
           good == {i \in DOMAIN list : list[i] \notin invalid}
       IN
       \/ /\ ToSet(list) \cap raising = {}
          /\ tag_values' = tag_values \o Select(list, good)
          /\ todo' = Tail(todo)
          /\ UNCHANGED faults
       \/ /\ Raises(ToSet(list) \cap raising = {})
          /\ todo' = IF Head(todo).alone THEN Tail(todo) ELSE Retry(list) \o Tail(todo)
          /\ UNCHANGED tag_values
    /\ UNCHANGED <<options, tree, raising, invalid, at, queue, tags, undescribed, tag_descriptions>>

ReadingEnds ==
    /\ at = "reading" /\ todo = <<>>
    /\ at' = "values"
    /\ UNCHANGED <<options, tree, raising, invalid, queue, tags, todo, tag_values, undescribed,
                   tag_descriptions, faults>>

-----------------------------------------------------------------------------
(* Descriptions.                                                            *)

\* All tags, those without a value too, have their descriptions read, for iFIX
\* if they have the name of a value.
StartDescribing ==
    /\ at = "values" /\ options.include_descriptions
    /\ undescribed' = IF options.ifix_optimized
                      THEN Pieces(Select(tags, {i \in DOMAIN tags : IsValue(tags[i])}), BatchSize)
                      ELSE Pieces(tags, 1)
    /\ at' = "describing"
    /\ UNCHANGED <<options, tree, raising, invalid, queue, tags, todo, tag_values,
                   tag_descriptions, faults>>

\* Seeded fault: a batch that raises is the last one.
DescribeBatch_Last ==
    /\ at = "describing" /\ undescribed # <<>>
    /\ \E failed \in BOOLEAN :
         /\ Raises(failed)
         /\ undescribed' = IF failed THEN <<>> ELSE Tail(undescribed)
         /\ tag_descriptions' = IF failed THEN tag_descriptions
                                ELSE tag_descriptions \cup ToSet(Head(undescribed))
    /\ UNCHANGED <<options, tree, raising, invalid, at, queue, tags, todo, tag_values>>

\* A batch that raises is passed over.
DescribeBatch ==
    /\ at = "describing" /\ undescribed # <<>>
    /\ undescribed' = Tail(undescribed)
    /\ \E failed \in BOOLEAN :
         /\ Raises(failed)
         /\ tag_descriptions' = IF failed THEN tag_descriptions
                                ELSE tag_descriptions \cup ToSet(Head(undescribed))
    /\ UNCHANGED <<options, tree, raising, invalid, at, queue, tags, todo, tag_values>>

\* Hand tags, values and descriptions to the main thread.
Announce ==
    /\ \/ at = "values" /\ ~ options.include_descriptions
       \/ at = "describing" /\ undescribed = <<>>
    /\ at' = "announced"
    /\ UNCHANGED <<options, tree, raising, invalid, queue, tags, todo, tag_values, undescribed,
                   tag_descriptions, faults>>

-----------------------------------------------------------------------------

Next ==
    \/ ListFlat \/ ListBranch \/ BranchFails \/ FilterTags
    \/ Browse \/ BrowseEnds \/ NoTags
    \/ SkipInitialRead \/ StartReading \/ ReadList \/ ReadingEnds
    \/ StartDescribing \/ DescribeBatch \/ Announce

Spec == Init /\ [][Next]_vars /\ WF_vars(Next)

-----------------------------------------------------------------------------
(* Properties.                                                              *)

\* The tags there are: for iFIX the text of each text block and the number of each
\* other; otherwise all leafs in a flat listing, those of branches without
\* branches in a walk, the server's own left out and numbers only if asked for.
Wanted ==
    IF options.ifix_optimized
    THEN {[path |-> <<b[1], b[3]>>, leaf |-> IF b[2] = "TX" THEN "A_CV" ELSE "F_CV"] :
            b \in {p \in tree.branches : Len(p) = 3}}
    ELSE {i \in UNION {Items(b) : b \in {p \in tree.branches : options.flat \/ SubBranches(p) = {}}} :
            ~ IsSystem(i) /\ (options.ifix_only_fcv => i.leaf = "F_CV")}

\* Unless a call failed, or a walk met a name with a dot, a discovery finds every
\* tag; whatever failed, it finds no tag twice and none that is not there.
FindsEachTagOnce ==
    at \notin {"list", "browse", "failed"} =>
      /\ ToSet(tags) \subseteq Wanted
      /\ Cardinality(ToSet(tags)) = Len(tags)
      /\ faults = 0 /\ (tree.dotted = {} \/ options.flat \/ options.ifix_optimized)
           => ToSet(tags) = Wanted

\* Where a tag is in the listing.
Place(t) == CHOOSE i \in DOMAIN tags : tags[i] = t

\* Listed tags, each before those after it.
Ascending(list) ==
    /\ ToSet(list) \subseteq ToSet(tags)
    /\ \A i, j \in DOMAIN list : i < j => Place(list[i]) < Place(list[j])

\* The tags with a value, and the lists that are still to be read.
Rows == <<tag_values>> \o [i \in DOMAIN todo |-> todo[i].list]

\* However lists are cut up, tags stay in the order of the listing and none is
\* read into two rows: the rows go to nodes and subscription groups by position.
InOrder ==
    at \in {"reading", "values"} =>
      /\ \A r \in DOMAIN Rows : Ascending(Rows[r])
      /\ \A r, s \in DOMAIN Rows : r < s =>
           \A x \in ToSet(Rows[r]), y \in ToSet(Rows[s]) : Place(x) < Place(y)

\* A tag that cannot be read costs no other its value, and a call that fails by
\* chance none at all: only a tag that raises, is in error, or failed by chance
\* once in a list and again alone, has no value.  A call for descriptions that
\* fails costs those of its batch.
OthersUnharmed ==
    /\ /\ at \in {"values", "describing", "announced"}
       /\ faults = 0 \/ (faults = 1 /\ raising = {})
       => ToSet(tag_values) = ToSet(tags) \ (raising \cup invalid)
    /\ at = "announced" /\ options.include_descriptions =>
         LET described == {t \in ToSet(tags) : options.ifix_optimized => IsValue(t)}
         IN  Cardinality(described \ tag_descriptions)
               <= faults * (IF options.ifix_optimized THEN BatchSize ELSE 1)

\* Discovery ends, whatever raises: lists are not cut up for ever, and a branch is
\* not visited for ever, if it can be entered in the end.
Ends == <>(at \in {"announced", "failed"})
=============================================================================
