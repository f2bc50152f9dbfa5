---------------------------- MODULE SyncGroups_proofs ----------------------------
(***************************************************************************)
(* Theorems about the synchronous calls of a client, for all names, lists  *)
(* of tags, sizes and numbers of calls and faults: a write that returns    *)
(* tells the truth about each pair, and a read that returns has every value*)
(* under its own tag, as long as no rebuild was cut short.                 *)
(*                                                                         *)
(* The invariant of reads says of a sub-group, outside of its rebuild, that*)
(* its items are those of the tags noted as valid, in their order, and that*)
(* its table has their handles; and of the handles a read has, that they   *)
(* are those of the items in this order, or of a sub-group before, or too  *)
(* few.                                                                    *)
(***************************************************************************)
EXTENDS SyncGroups, FiniteSetTheorems, TLAPS

USE DEF tables

Status == {"Success", "Error"}

WritesAt == {"write items", "write", "write next"}

\* A write under way.
WriteCall ==
    [at : WritesAt, tag_groups : Seq(Seq(Tag)), gid : Nat, valid : SUBSET Nat,
     taken : SUBSET Nat, rows : Seq(Status)]

\* What is reported of pairs so far is what the server has taken of them.
Truthful(rows, taken) ==
    /\ rows \in Seq(Status) /\ taken \subseteq DOMAIN rows
    /\ \A i \in DOMAIN rows : rows[i] = "Success" <=> i \in taken

WriteInv ==
    /\ "at" \in DOMAIN call
    /\ call.at \in WritesAt =>
         /\ call \in WriteCall
         /\ call.gid < Len(call.tag_groups)
         /\ Truthful(call.rows, call.taken)
    /\ call.at = "write" => call.valid \subseteq DOMAIN PieceTags
    /\ WriteTellsTruth

-----------------------------------------------------------------------------

\* As many members of a set of numbers are at most i as at most k for k = i only.
LEMMA NthOfRank ==
    ASSUME NEW S \in SUBSET Nat, IsFiniteSet(S), NEW i \in S
    PROVE  Nth(S, Cardinality({j \in S : j <= i})) = i
<1> DEFINE upTo(k) == {j \in S : j <= k}
<1>0. ASSUME NEW A, NEW B, A \subseteq B, IsFiniteSet(B), Cardinality(A) = Cardinality(B)
      PROVE  A = B
  BY <1>0, FS_Subset
<1>1. \A k \in S : Cardinality(upTo(k)) = Cardinality(upTo(i)) => k = i
  <2> SUFFICES ASSUME NEW k \in S, Cardinality(upTo(k)) = Cardinality(upTo(i)) PROVE k = i
    OBVIOUS
  <2>1. IsFiniteSet(upTo(k)) /\ IsFiniteSet(upTo(i))
    <3>1. upTo(k) \subseteq S /\ upTo(i) \subseteq S
      OBVIOUS
    <3> QED BY <3>1, FS_Subset
  <2>2. CASE k <= i
    <3>1. ASSUME NEW j \in Nat, j <= k PROVE j <= i
      BY <2>2, <3>1, k \in Nat, i \in Nat
    <3>2. upTo(k) = upTo(i)
      <4>1. upTo(k) \subseteq upTo(i)
        BY <3>1
      <4> QED BY <1>0, <2>1, <4>1
    <3>3. i \in upTo(k)
      BY <3>2
    <3> QED BY <2>2, <3>3
  <2>3. CASE i <= k
    <3>1. ASSUME NEW j \in Nat, j <= i PROVE j <= k
      BY <2>3, <3>1, k \in Nat, i \in Nat
    <3>2. upTo(k) = upTo(i)
      <4>1. upTo(i) \subseteq upTo(k)
        BY <3>1
      <4> QED BY <1>0, <2>1, <4>1
    <3>3. k \in upTo(i)
      BY <3>2
    <3> QED BY <2>3, <3>3
  <2> QED BY <2>2, <2>3
<1> QED BY <1>1 DEF Nth

\* The piece a write is at is a list of tags.
LEMMA PieceType ==
    ASSUME WriteInv, call.at \in WritesAt
    PROVE  /\ PieceTags \in Seq(Tag) /\ Len(PieceTags) \in Nat
           /\ DOMAIN PieceTags = 1 .. Len(PieceTags)
<1>1. call.tag_groups \in Seq(Seq(Tag)) /\ call.gid \in Nat /\ call.gid < Len(call.tag_groups)
  BY DEF WriteInv, WriteCall
<1>2. call.gid + 1 \in 1 .. Len(call.tag_groups)
  BY <1>1
<1>3. PieceTags \in Seq(Tag)
  BY <1>1, <1>2 DEF PieceTags
<1> QED BY <1>3

\* When there are as many pairs to report as results, each gets its own.
LEMMA OwnResult ==
    ASSUME WriteInv, call.at = "write", NEW taken \in SUBSET call.valid,
           Cardinality(WithItem) = Cardinality(call.valid), NEW i \in DOMAIN PieceTags
    PROVE  (i \in WithItem /\ ErrorOf(i) \in taken) <=> i \in taken
<1>1. DOMAIN PieceTags = 1 .. Len(PieceTags) /\ Len(PieceTags) \in Nat
  BY PieceType DEF WritesAt
<1>2. IsFiniteSet(DOMAIN PieceTags) /\ DOMAIN PieceTags \subseteq Nat
  BY <1>1, FS_Interval
<1>3. /\ call.valid \subseteq WithItem
      /\ WithItem \subseteq DOMAIN PieceTags
  BY DEF WriteInv, WithItem
<1>4. IsFiniteSet(WithItem)
  BY <1>2, <1>3, FS_Subset
<1>5. WithItem = call.valid
  BY <1>3, <1>4, FS_Subset
<1>6. ASSUME i \in call.valid PROVE ErrorOf(i) = i
  BY <1>2, <1>3, <1>4, <1>5, <1>6, NthOfRank DEF ErrorOf
<1> QED BY <1>5, <1>6

\* Pieces of a list of tags are lists of tags, at least one.
LEMMA PiecesType ==
    ASSUME NEW tags \in Seq(Tag), tags # <<>>, NEW size \in Nat
    PROVE  Pieces(tags, size) \in Seq(Seq(Tag)) /\ Len(Pieces(tags, size)) > 0
<1>1. CASE size = 0
  BY <1>1 DEF Pieces
<1>2. CASE size # 0
  <2> DEFINE n == (Len(tags) + size - 1) \div size
             last(i) == IF i * size < Len(tags) THEN i * size ELSE Len(tags)
  <2>1. n \in Nat /\ n > 0
    <3>1. Len(tags) \in Nat /\ Len(tags) > 0
      OBVIOUS
    <3> QED BY <1>2, <3>1
  <2>2. \A i \in 1 .. n : SubSeq(tags, (i - 1) * size + 1, last(i)) \in Seq(Tag)
    <3> SUFFICES ASSUME NEW i \in 1 .. n
                 PROVE  SubSeq(tags, (i - 1) * size + 1, last(i)) \in Seq(Tag)
      OBVIOUS
    <3>1. (i - 1) * size \in Nat /\ last(i) \in Nat /\ last(i) <= Len(tags)
      BY <1>2
    <3>2. \A k \in (i - 1) * size + 1 .. last(i) : k \in 1 .. Len(tags)
      BY <3>1
    <3> HIDE DEF last
    <3> QED BY <3>1, <3>2
  <2>3. Pieces(tags, size) = [i \in 1 .. n |-> SubSeq(tags, (i - 1) * size + 1, last(i))]
    BY <1>2 DEF Pieces
  <2> HIDE DEF n, last
  <2> QED BY <2>1, <2>2, <2>3
<1> QED BY <1>1, <1>2

-----------------------------------------------------------------------------

LEMMA WriteInit == Init => WriteInv
BY DEF Init, WriteInv, WriteTellsTruth, WritesAt, Idle, NoResult

\* A step that neither comes to a write nor returns from one.
LEMMA Elsewhere ==
    ASSUME WriteInv, "at" \in DOMAIN call', call'.at \notin WritesAt,
           UNCHANGED result \/ result'.op # "write"
    PROVE  WriteInv'
BY DEF WriteInv, WriteTellsTruth, WritesAt

LEMMA Raised == ASSUME WriteInv, Raise PROVE WriteInv'
<1>1. call' = [at |-> "idle"] /\ result' = [op |-> "none"]
  BY DEF Raise, Idle, NoResult
<1>2. "at" \in DOMAIN call' /\ call'.at \notin WritesAt /\ result'.op # "write"
  BY <1>1 DEF WritesAt
<1> QED BY <1>2, Elsewhere

LEMMA Unmoved ==
    ASSUME WriteInv, UNCHANGED <<call, result>> PROVE WriteInv'
BY DEF WriteInv, WriteTellsTruth, PieceTags

\* No step of a read comes near a write.
LEMMA AddGroupStep == ASSUME WriteInv, AddGroup PROVE WriteInv'
<1>1. CASE Raise
  BY <1>1, Raised
<1>2. CASE /\ call' = [call EXCEPT !.at = "fill"]
           /\ UNCHANGED result
  <2>1. "at" \in DOMAIN call' /\ call'.at = "fill"
    BY <1>2 DEF WriteInv
  <2> QED BY <1>2, <2>1, Elsewhere DEF WritesAt
<1> QED BY <1>1, <1>2, Zenon DEF AddGroup

LEMMA FillGroupStep == ASSUME WriteInv, FillGroup PROVE WriteInv'
<1>1. CASE Raise
  BY <1>1, Raised
<1>2. CASE \E items \in Added(PieceTags) :
             /\ call' = [call EXCEPT !.at = "ask", !.tags = PieceTags, !.valid_tags = Tags(items),
                              !.whose = "own", !.server_handles = Handles(items)]
             /\ UNCHANGED result
  <2>1. "at" \in DOMAIN call' /\ call'.at = "ask"
    BY <1>2 DEF WriteInv
  <2> QED BY <1>2, <2>1, Elsewhere DEF WritesAt
<1> QED BY <1>1, <1>2, Zenon DEF FillGroup

LEMMA AddNewTagsStep == ASSUME WriteInv, AddNewTags PROVE WriteInv'
<1> DEFINE valid == _group_valid_tags[sub_group]
           add_tags == Without(PieceTags, valid)
<1>1. CASE Raise
  BY <1>1, Raised
<1>2. CASE \E items \in Added(add_tags) :
             /\ call' = [call EXCEPT !.at = "remove", !.tags = PieceTags,
                     !.valid_tags = Rebuilt(valid, Tags(items)),
                     !.whose = IF add_tags # <<>> THEN "own"
                               ELSE IF @ = "none" THEN @ ELSE "previous",
                     !.server_handles = IF add_tags = <<>> THEN @ ELSE Handles(items)]
             /\ UNCHANGED result
  <2>1. "at" \in DOMAIN call' /\ call'.at = "remove"
    BY <1>2 DEF WriteInv
  <2> QED BY <1>2, <2>1, Elsewhere DEF WritesAt
<1> QED BY <1>1, <1>2, Zenon DEF AddNewTags

LEMMA RemoveOldTagsStep == ASSUME WriteInv, RemoveOldTags PROVE WriteInv'
<1> DEFINE del_tags == Without(_group_valid_tags[sub_group], call.tags)
           valid == Without(call.valid_tags, del_tags)
<1>1. CASE Raise
  BY <1>1, Raised
<1>2. CASE /\ call' = [call EXCEPT !.at = "ask", !.valid_tags = valid]
           /\ UNCHANGED result
  <2>1. "at" \in DOMAIN call' /\ call'.at = "ask"
    BY <1>2 DEF WriteInv
  <2> QED BY <1>2, <2>1, Elsewhere DEF WritesAt
<1> QED BY <1>1, <1>2, Zenon DEF RemoveOldTags

LEMMA UseGroupStep == ASSUME WriteInv, UseGroup PROVE WriteInv'
<1>1. CASE Raise
  BY <1>1, Raised
<1>2. CASE /\ call' = [call EXCEPT !.at = "ask", !.tags = _group_tags[sub_group],
                    !.valid_tags = _group_valid_tags[sub_group],
                    !.whose = "own", !.server_handles = Handles(groups[sub_group])]
           /\ UNCHANGED result
  <2>1. "at" \in DOMAIN call' /\ call'.at = "ask"
    BY <1>2 DEF WriteInv
  <2> QED BY <1>2, <2>1, Elsewhere DEF WritesAt
<1> QED BY <1>1, <1>2, Zenon DEF UseGroup

LEMMA SyncReadStep == ASSUME WriteInv, SyncRead PROVE WriteInv'
<1>1. CASE Raise
  BY <1>1, Raised
<1>2. CASE /\ call' = [call EXCEPT !.at = "next", !.rows = @ \o Rows,
                    !.server_handles = IF call.valid_tags = <<>> THEN @ ELSE <<0>> \o @]
           /\ UNCHANGED result
  <2>1. "at" \in DOMAIN call' /\ call'.at = "next"
    BY <1>2 DEF WriteInv
  <2> QED BY <1>2, <2>1, Elsewhere DEF WritesAt
<1> QED BY <1>1, <1>2, Zenon DEF SyncRead

LEMMA NextGroupStep == ASSUME WriteInv, NextGroup PROVE WriteInv'
<1>1. CASE Raise
  BY <1>1, Raised
<1>2. CASE /\ call' = [call EXCEPT !.at = "group", !.gid = @ + 1]
           /\ UNCHANGED result
  <2>1. "at" \in DOMAIN call' /\ call'.at = "group"
    BY <1>2 DEF WriteInv
  <2> QED BY <1>2, <2>1, Elsewhere DEF WritesAt
<1>3. CASE /\ call' = Idle
           /\ result' = [op |-> "read", rebuild |-> call.rebuild, rows |-> call.rows]
  <2>1. "at" \in DOMAIN call' /\ call'.at = "idle" /\ result'.op = "read"
    BY <1>3 DEF Idle
  <2> QED BY <2>1, Elsewhere DEF WritesAt
<1> QED BY <1>1, <1>2, <1>3, Zenon DEF NextGroup

LEMMA OtherSteps ==
    ASSUME WriteInv,
           \/ UseServerGroup \/ GroupFails
           \/ \E name \in Name : RemoveName(name)
           \/ Connect \/ Reconfigure \/ UNCHANGED vars
    PROVE  WriteInv'
<1>1. CASE UseServerGroup
  <2>1. "at" \in DOMAIN call' /\ call'.at \in {"rebuild", "use"} /\ UNCHANGED result
    BY <1>1 DEF UseServerGroup, WriteInv
  <2> QED BY <2>1, Elsewhere DEF WritesAt
<1>2. CASE GroupFails
  BY <1>2, Raised DEF GroupFails
<1>3. CASE (\E name \in Name : RemoveName(name)) \/ Connect
  <2>1. call = Idle /\ UNCHANGED call /\ result' = NoResult
    BY <1>3 DEF RemoveName, Connect
  <2> QED BY <2>1, Raised DEF Raise
<1>4. CASE Reconfigure \/ UNCHANGED vars
  BY <1>4, Unmoved DEF Reconfigure, vars
<1> QED BY <1>1, <1>2, <1>3, <1>4

LEMMA ReadStep ==
    ASSUME WriteInv, NEW name, NEW tags, NEW size, NEW rebuild, Read(name, tags, size, rebuild)
    PROVE  WriteInv'
<1>1. "at" \in DOMAIN call' /\ call'.at = "group" /\ result'.op # "write"
  BY DEF Read, NoResult
<1> QED BY <1>1, Elsewhere DEF WritesAt

LEMMA WriteStep ==
    ASSUME WriteInv, NEW tags \in Writes, NEW size \in Sizes, Write(tags, size)
    PROVE  WriteInv'
<1>1. Pieces(tags, size) \in Seq(Seq(Tag)) /\ Len(Pieces(tags, size)) > 0
  BY PiecesType, RequestAssumption
<1>2. /\ call' = [at |-> "write items", tag_groups |-> Pieces(tags, size), gid |-> 0,
                  valid |-> {}, taken |-> {}, rows |-> <<>>]
      /\ result'.op # "write"
  BY DEF Write, NoResult
<1>3. call' \in WriteCall /\ Truthful(call'.rows, call'.taken)
  <2>1. Truthful(<<>>, {})
    BY DEF Truthful, Status
  <2>2. <<>> \in Seq(Status) /\ {} \in SUBSET Nat /\ "write items" \in WritesAt
    BY DEF WritesAt
  <2>3. call'.rows = <<>> /\ call'.taken = {}
    BY <1>2
  <2>4. call' \in WriteCall
    BY <1>1, <1>2, <2>2 DEF WriteCall
  <2> QED BY <2>1, <2>3, <2>4
<1> QED BY <1>1, <1>2, <1>3 DEF WriteInv, WriteTellsTruth, WritesAt

LEMMA WriteItemsStep == ASSUME WriteInv, WriteItems PROVE WriteInv'
<1>1. CASE \E valid \in SUBSET {i \in DOMAIN PieceTags : PieceTags[i] \in known} :
             call' = [call EXCEPT !.at = "write", !.valid = valid] /\ UNCHANGED result
  <2>1. PICK valid \in SUBSET DOMAIN PieceTags :
          call' = [call EXCEPT !.at = "write", !.valid = valid] /\ UNCHANGED result
    BY <1>1
  <2>2. call \in WriteCall /\ call.at = "write items"
    BY DEF WriteItems, WriteInv, WritesAt
  <2>3. DOMAIN PieceTags \subseteq Nat
    <3>1. DOMAIN PieceTags = 1 .. Len(PieceTags) /\ Len(PieceTags) \in Nat
      BY <2>2, PieceType DEF WritesAt
    <3> QED BY <3>1
  <2>4. /\ call' \in WriteCall /\ call'.at = "write" /\ call'.valid = valid
        /\ call'.gid = call.gid /\ call'.tag_groups = call.tag_groups
        /\ call'.rows = call.rows /\ call'.taken = call.taken
        /\ "at" \in DOMAIN call'
    BY <2>1, <2>2, <2>3 DEF WriteCall, WritesAt
  <2>5. PieceTags' = PieceTags
    BY <2>4 DEF PieceTags
  <2> QED BY <2>1, <2>2, <2>4, <2>5 DEF WriteInv, WriteTellsTruth, WritesAt
<1>2. CASE Raise
  BY <1>2, Raised
<1> QED BY <1>1, <1>2 DEF WriteItems

LEMMA SyncWriteStep == ASSUME WriteInv, SyncWrite PROVE WriteInv'
<1> DEFINE status(t, i) == IF i \in WithItem /\ ErrorOf(i) \in t THEN "Success" ELSE "Error"
           reported(t) == [i \in DOMAIN PieceTags |-> status(t, i)]
<1>1. CASE \E t \in SUBSET call.valid :
             /\ Cardinality(WithItem) = Cardinality(call.valid)
             /\ call' = [call EXCEPT !.at = "write next",
                           !.taken = @ \cup {Len(call.rows) + i : i \in t},
                           !.rows = @ \o reported(t)]
             /\ UNCHANGED result
  <2>1. PICK t \in SUBSET call.valid :
          /\ Cardinality(WithItem) = Cardinality(call.valid)
          /\ call' = [call EXCEPT !.at = "write next",
                        !.taken = @ \cup {Len(call.rows) + i : i \in t},
                        !.rows = @ \o reported(t)]
          /\ UNCHANGED result
    BY <1>1
  <2>2. /\ call \in WriteCall /\ call.at = "write" /\ call.gid < Len(call.tag_groups)
        /\ Truthful(call.rows, call.taken) /\ call.valid \subseteq DOMAIN PieceTags
    BY DEF SyncWrite, WriteInv, WritesAt
  <2>3. PieceTags \in Seq(Tag)
    BY <2>2, PieceType DEF WritesAt
  <2>4. \A i \in DOMAIN PieceTags : status(t, i) = "Success" <=> i \in t
    BY <2>1, <2>2, OwnResult
  <2> DEFINE n == Len(PieceTags)
             m == Len(call.rows)
             new == reported(t)
             rows == call.rows \o new
             taken == call.taken \cup {m + i : i \in t}
  <2>5. /\ n \in Nat /\ DOMAIN PieceTags = 1 .. n
        /\ m \in Nat /\ DOMAIN call.rows = 1 .. m /\ call.rows \in Seq(Status)
    BY <2>2, <2>3 DEF Truthful
  <2>6. new \in Seq(Status) /\ Len(new) = n /\ \A i \in 1 .. n : new[i] = status(t, i)
    BY <2>5 DEF Status
  <2> HIDE DEF status, reported, n, m, new
  <2>7. /\ rows \in Seq(Status) /\ DOMAIN rows = 1 .. m + n
        /\ \A i \in 1 .. m : rows[i] = call.rows[i]
        /\ \A i \in 1 .. n : rows[m + i] = new[i]
    BY <2>5, <2>6 DEF m
  <2>8. t \subseteq 1 .. n /\ call.taken \subseteq 1 .. m
    BY <2>2, <2>5 DEF Truthful
  <2>9. taken \subseteq 1 .. m + n
    BY <2>5, <2>8
  <2>10. \A k \in 1 .. m + n : rows[k] = "Success" <=> k \in taken
    <3> SUFFICES ASSUME NEW k \in 1 .. m + n PROVE rows[k] = "Success" <=> k \in taken
      OBVIOUS
    <3>1. CASE k <= m
      <4>1. k \in 1 .. m /\ \A i \in t : m + i # k
        BY <3>1, <2>5, <2>8
      <4> QED BY <4>1, <2>2, <2>5, <2>7 DEF Truthful
    <3>2. CASE k > m
      <4>1. PICK i \in 1 .. n : k = m + i
        <5>1. k - m \in 1 .. n /\ k = m + (k - m)
          BY <3>2, <2>5
        <5> QED BY <5>1
      <4>2. k \notin call.taken /\ (k \in {m + j : j \in t} <=> i \in t)
        BY <3>2, <4>1, <2>5, <2>8
      <4>3. rows[k] = status(t, i)
        BY <4>1, <2>6, <2>7
      <4>4. rows[k] = "Success" <=> i \in t
        BY <4>3, <2>4, <2>5
      <4> QED BY <4>2, <4>4
    <3>3. k <= m \/ k > m
      BY <2>5, <2>6
    <3> QED BY <3>1, <3>2, <3>3
  <2>11. Truthful(rows, taken) /\ taken \subseteq Nat
    BY <2>5, <2>7, <2>9, <2>10 DEF Truthful
  <2>12. call' = [call EXCEPT !.at = "write next", !.taken = taken, !.rows = rows]
    BY <2>1 DEF m, new
  <2> HIDE DEF rows, taken
  <2>13. /\ call' \in WriteCall /\ call'.at = "write next" /\ "at" \in DOMAIN call'
         /\ call'.gid = call.gid /\ call'.tag_groups = call.tag_groups
         /\ call'.rows = rows /\ call'.taken = taken
    BY <2>2, <2>11, <2>12 DEF WriteCall, WritesAt, Truthful
  <2> QED BY <2>1, <2>2, <2>11, <2>13 DEF WriteInv, WriteTellsTruth, WritesAt
<1>2. CASE Raise
  BY <1>2, Raised
<1> QED BY <1>1, <1>2 DEF SyncWrite

LEMMA WriteNextStep == ASSUME WriteInv, WriteNext PROVE WriteInv'
<1>1. /\ call \in WriteCall /\ call.at = "write next" /\ call.gid < Len(call.tag_groups)
      /\ Truthful(call.rows, call.taken)
  BY DEF WriteNext, WriteInv, WritesAt
<1>2. CASE /\ call.gid + 1 < Len(call.tag_groups)
           /\ call' = [call EXCEPT !.at = "write items", !.gid = @ + 1, !.valid = {}]
           /\ UNCHANGED result
  <2>1. /\ call' \in WriteCall /\ call'.at = "write items" /\ "at" \in DOMAIN call'
        /\ call'.gid = call.gid + 1 /\ call'.tag_groups = call.tag_groups
        /\ call'.rows = call.rows /\ call'.taken = call.taken
    <3>0. call.gid \in Nat
      BY <1>1 DEF WriteCall
    <3>1. call.gid + 1 \in Nat /\ {} \in SUBSET Nat /\ "write items" \in WritesAt
      BY <3>0 DEF WritesAt
    <3>2. call' = [call EXCEPT !.at = "write items", !.gid = call.gid + 1, !.valid = {}]
      BY <1>2
    <3> DEFINE gid == call.gid + 1
    <3> HIDE DEF gid
    <3> QED BY <1>1, <3>1, <3>2 DEF WriteCall, gid
  <2> QED BY <1>1, <1>2, <2>1 DEF WriteInv, WriteTellsTruth, WritesAt
<1>3. CASE /\ call' = Idle
           /\ result' = [op |-> "write", taken |-> call.taken, rows |-> call.rows]
  BY <1>1, <1>3 DEF WriteInv, WriteTellsTruth, WritesAt, Truthful, Idle
<1>4. CASE Raise
  BY <1>4, Raised
<1> QED BY <1>2, <1>3, <1>4 DEF WriteNext

\* Whatever lists are written, in whatever pieces, with whatever items refused and
\* calls failing: iwrite() reports Success of the pairs the server has taken.
THEOREM WritesTellTheTruth == Spec => []WriteTellsTruth
<1>1. Init => WriteInv
  BY WriteInit
<1>2. WriteInv /\ [Next]_vars => WriteInv'
  BY OtherSteps, ReadStep, AddGroupStep, FillGroupStep, AddNewTagsStep, RemoveOldTagsStep,
     UseGroupStep, SyncReadStep, NextGroupStep, WriteStep, WriteItemsStep, SyncWriteStep,
     WriteNextStep DEF Next
<1>3. WriteInv => WriteTellsTruth
  BY DEF WriteInv
<1> QED BY <1>1, <1>2, <1>3, PTL DEF Spec

-----------------------------------------------------------------------------
(* Reads.                                                                   *)

ReadsAt == {"group", "fill", "rebuild", "remove", "use", "ask", "next"}

Item == [handle : Nat \ {0}, tag : Tag]
Row == [tag : Tag, value : Tag \cup {"not valid", "no value", "no item"}, borrowed : BOOLEAN]

\* A read under way.
ReadCall ==
    [at : ReadsAt, name : Name \cup {NoName}, rebuild : BOOLEAN, gid : Nat,
     tag_groups : Seq(Seq(Tag)), num_groups : Nat, tags : Seq(Tag), valid_tags : Seq(Tag),
     whose : {"none", "own", "previous"}, server_handles : Seq(Nat), rows : Seq(Row)]

\* The group without a name.
Anonymous == <<NoName, 0>>

\* A handle is that of one item of its group, and there is a highest.
Distinct(gs) ==
    \A g \in DOMAIN gs : \A i, j \in DOMAIN gs[g] :
      gs[g][i].handle = gs[g][j].handle => i = j

ItemsOk(gs) ==
    /\ \A g \in DOMAIN gs : gs[g] \in Seq(Item)
    /\ \E n \in Nat : \A g \in DOMAIN gs : \A i \in DOMAIN gs[g] : gs[g][i].handle <= n
    /\ Distinct(gs)

\* The items are those of these tags, in their order, and so entered in the table.
Matches(items, valid, table) ==
    /\ valid \in Seq(Tag) /\ IsInjective(valid)
    /\ Len(items) = Len(valid)
    /\ \A i \in DOMAIN valid : /\ items[i].tag = valid[i]
                               /\ valid[i] \in DOMAIN table
                               /\ table[valid[i]] = items[i].handle

\* What is noted is typed, and of groups that are there.
TablesOk ==
    /\ \A n \in DOMAIN _groups : n # NoName /\ _groups[n] \in Nat
    /\ DOMAIN _group_valid_tags = DOMAIN _group_tags
    /\ DOMAIN _group_server_handles = DOMAIN _group_tags
    /\ \A g \in DOMAIN _group_tags :
         /\ _group_tags[g] \in Seq(Tag) /\ _group_valid_tags[g] \in Seq(Tag)
         /\ g # Anonymous => g \in DOMAIN groups
    /\ Anonymous \notin torn

\* And right, but for groups torn or in the middle of a rebuild.
Settled ==
    \A g \in DOMAIN _group_tags \ (torn \cup {Anonymous}) :
      \/ call.at = "remove" /\ g = sub_group
      \/ Matches(groups[g], _group_valid_tags[g], _group_server_handles[g])

\* The shape of a call.
CallOk ==
    /\ call \in ReadCall /\ result = NoResult
    /\ \A i \in DOMAIN call.tag_groups : IsInjective(call.tag_groups[i])
    /\ call.tag_groups # <<>> =>
         call.num_groups = Len(call.tag_groups) /\ call.gid < call.num_groups
    /\ call.rebuild \/ call.name = NoName \/ call.at = "fill" => call.tag_groups # <<>>
    /\ call.rebuild \/ call.at = "use" => call.name # NoName
    /\ call.at \notin {"group", "next"} => sub_group \in DOMAIN groups
    /\ call.at \in {"rebuild", "remove"} => call.rebuild
    /\ call.at = "remove" => sub_group \in DOMAIN _group_tags

\* The handles are those of the items from the n-th on.
From(handles, items, n) ==
    /\ Len(handles) + n = Len(items)
    /\ \A k \in DOMAIN handles : handles[k] = items[n + k].handle

\* A rebuild in its middle has the old tags, then those it asks for.
Amid(items, old, c, table) ==
    /\ Matches(items, c.valid_tags, table)
    /\ Len(old) <= Len(c.valid_tags)
    /\ \A i \in DOMAIN c.valid_tags :
         IF i <= Len(old) THEN c.valid_tags[i] = old[i] ELSE c.valid_tags[i] \in ToSet(c.tags)

\* The sub-group the call is at, unless it is torn.
Asks ==
    /\ call.at = "remove" =>
         Amid(groups[sub_group], _group_valid_tags[sub_group], call,
              _group_server_handles[sub_group])
    /\ call.at = "ask" =>
         Matches(groups[sub_group], call.valid_tags, _group_server_handles[sub_group])

\* What is read so far is right.
OwnRows(rebuild) ==
    {r \in Row : r.value \in {r.tag, "not valid", "no value"} \/ (rebuild /\ r.borrowed)}

\* No sub-group read so far is torn.
Clean ==
    \A j \in Nat : j < call.gid \/ (j = call.gid /\ call.at # "group")
                   => <<call.name, j>> \notin torn

HandlesOk(c, gs, old) ==
    LET g == <<c.name, IF c.name = NoName THEN 0 ELSE c.gid>> IN
    CASE c.at = "remove" -> c.whose # "own" \/ From(c.server_handles, gs[g], Len(old[g]))
      [] c.at = "ask" -> \/ From(c.server_handles, gs[g], 0)
                         \/ /\ c.rebuild
                            /\ c.whose # "own" \/ Len(c.server_handles) < Len(c.valid_tags)
      [] OTHER -> TRUE

ReadInv ==
    /\ "at" \in DOMAIN call
    /\ ItemsOk(groups) /\ TablesOk /\ Settled
    /\ call.at \in ReadsAt =>
         /\ CallOk
         /\ sub_group \notin torn => Asks
         /\ Clean => /\ call.rows \in Seq(OwnRows(call.rebuild))
                     /\ HandlesOk(call, groups, _group_valid_tags)
    /\ ReadsOwnTags

-----------------------------------------------------------------------------
(* Picking from a list by places.                                           *)

Rank(S, i) == Cardinality({j \in S : j <= i})

\* Of n numbers there is a first, a second, and so on to the n-th.
LEMMA EveryRank ==
    ASSUME NEW S \in SUBSET Nat, IsFiniteSet(S), NEW k \in 1 .. Cardinality(S)
    PROVE  \E i \in S : Rank(S, i) = k
<1> DEFINE n == Cardinality(S)
           f == [i \in S |-> Rank(S, i)]
<1>1. n \in Nat
  BY FS_CardinalityType
<1>2. \A i \in S : Rank(S, i) \in 1 .. n
  <2> SUFFICES ASSUME NEW i \in S PROVE Rank(S, i) \in 1 .. n
    OBVIOUS
  <2> DEFINE T == {j \in S : j <= i}
  <2>1. T \in SUBSET S /\ i \in T
    OBVIOUS
  <2>2. IsFiniteSet(T) /\ Cardinality(T) <= n
    BY <2>1, FS_Subset
  <2>3. Cardinality(T) \in Nat /\ Cardinality(T) # 0
    BY <2>1, <2>2, FS_CardinalityType, FS_EmptySet
  <2> QED BY <1>1, <2>2, <2>3 DEF Rank
<1>3. \A i, j \in S : Rank(S, i) = Rank(S, j) => i = j
  BY NthOfRank DEF Rank
<1>4. f \in Injection(S, 1 .. n)
  BY <1>2, <1>3 DEF Injection, IsInjective
<1>5. IsFiniteSet(1 .. n) /\ Cardinality(1 .. n) = n
  BY <1>1, FS_Interval
<1>6. f \in Surjection(S, 1 .. n)
  BY <1>4, <1>5, FS_Injection
<1> QED BY <1>6 DEF Surjection

\* The n-th numbers of a set are its members, each once.
LEMMA NthIsMember ==
    ASSUME NEW S \in SUBSET Nat, IsFiniteSet(S)
    PROVE  /\ Cardinality(S) \in Nat
           /\ \A k \in 1 .. Cardinality(S) : Nth(S, k) \in S /\ Rank(S, Nth(S, k)) = k
           /\ \A i \in S : \E k \in 1 .. Cardinality(S) : Nth(S, k) = i
           /\ \A k, l \in 1 .. Cardinality(S) : Nth(S, k) = Nth(S, l) => k = l
<1>1. Cardinality(S) \in Nat
  BY FS_CardinalityType
<1>2. ASSUME NEW k \in 1 .. Cardinality(S) PROVE Nth(S, k) \in S /\ Rank(S, Nth(S, k)) = k
  <2>1. PICK i \in S : Rank(S, i) = k
    BY EveryRank
  <2>2. Nth(S, Rank(S, i)) = i
    BY NthOfRank DEF Rank
  <2> QED BY <2>1, <2>2
<1>3. \A i \in S : Rank(S, i) \in 1 .. Cardinality(S)
  <2> SUFFICES ASSUME NEW i \in S PROVE Rank(S, i) \in 1 .. Cardinality(S)
    OBVIOUS
  <2> DEFINE T == {j \in S : j <= i}
  <2>1. T \in SUBSET S /\ i \in T
    OBVIOUS
  <2>2. IsFiniteSet(T) /\ Cardinality(T) <= Cardinality(S)
    BY <2>1, FS_Subset
  <2>3. Cardinality(T) \in Nat /\ Cardinality(T) # 0
    BY <2>1, <2>2, FS_CardinalityType, FS_EmptySet
  <2> QED BY <1>1, <2>2, <2>3 DEF Rank
<1>4. \A i \in S : \E k \in 1 .. Cardinality(S) : Nth(S, k) = i
  BY <1>3, NthOfRank DEF Rank
<1> QED BY <1>1, <1>2, <1>4

\* The last of them is the largest.
LEMMA LargestIsMax ==
    ASSUME NEW S \in SUBSET Nat, IsFiniteSet(S), S # {}
    PROVE  Max(S) \in S /\ \A i \in S : i <= Max(S)
<1>1. Cardinality(S) \in Nat /\ Cardinality(S) # 0
  BY FS_CardinalityType, FS_EmptySet
<1>2. PICK m \in S : Rank(S, m) = Cardinality(S)
  BY <1>1, EveryRank
<1>3. {j \in S : j <= m} = S
  BY <1>2, FS_Subset DEF Rank
<1>4. \A i \in S : m >= i
  BY <1>3
<1> QED BY <1>4 DEF Max

\* What is selected from a list is the list at these places.
LEMMA SelectPicks ==
    ASSUME NEW X, NEW list \in Seq(X), NEW places \in SUBSET DOMAIN list
    PROVE  /\ IsFiniteSet(places) /\ places \subseteq Nat
           /\ Select(list, places) \in Seq(X)
           /\ Len(Select(list, places)) = Cardinality(places)
           /\ Cardinality(places) \in Nat
           /\ \A k \in 1 .. Cardinality(places) :
                Nth(places, k) \in places /\ Select(list, places)[k] = list[Nth(places, k)]
           /\ \A i \in places : \E k \in 1 .. Cardinality(places) : Nth(places, k) = i
           /\ \A k, l \in 1 .. Cardinality(places) : Nth(places, k) = Nth(places, l) => k = l
<1>1. DOMAIN list = 1 .. Len(list) /\ Len(list) \in Nat
  OBVIOUS
<1>2. IsFiniteSet(places) /\ places \subseteq Nat
  <2>1. IsFiniteSet(1 .. Len(list))
    BY <1>1, FS_Interval
  <2> QED BY <1>1, <2>1, FS_Subset
<1>3. /\ Cardinality(places) \in Nat
      /\ \A k \in 1 .. Cardinality(places) : Nth(places, k) \in places
      /\ \A i \in places : \E k \in 1 .. Cardinality(places) : Nth(places, k) = i
      /\ \A k, l \in 1 .. Cardinality(places) : Nth(places, k) = Nth(places, l) => k = l
  BY <1>2, NthIsMember
<1>4. \A k \in 1 .. Cardinality(places) : list[Nth(places, k)] \in X
  BY <1>1, <1>3
<1> QED BY <1>2, <1>3, <1>4 DEF Select

\* A list without others keeps its order, and has none twice if it had none.
LEMMA WithoutIs ==
    ASSUME NEW list \in Seq(Tag), NEW others \in Seq(Tag)
    PROVE  /\ Without(list, others) \in Seq(Tag)
           /\ ToSet(Without(list, others)) = {t \in ToSet(list) : t \notin ToSet(others)}
           /\ IsInjective(list) => IsInjective(Without(list, others))
<1>1. PICK places \in SUBSET DOMAIN list :
        places = {i \in DOMAIN list : list[i] \notin ToSet(others)}
  OBVIOUS
<1>2. PICK new : new = Select(list, places)
  OBVIOUS
<1>3. /\ new \in Seq(Tag) /\ DOMAIN new = 1 .. Cardinality(places)
      /\ \A k \in DOMAIN new : Nth(places, k) \in places /\ new[k] = list[Nth(places, k)]
      /\ \A i \in places : \E k \in DOMAIN new : Nth(places, k) = i
      /\ \A k, l \in DOMAIN new : Nth(places, k) = Nth(places, l) => k = l
  BY <1>2, SelectPicks DEF Select
<1>4. Without(list, others) = new
  BY <1>1, <1>2 DEF Without
<1>5. ToSet(new) = {t \in ToSet(list) : t \notin ToSet(others)}
  <2>1. ASSUME NEW k \in DOMAIN new PROVE new[k] \in ToSet(list) /\ new[k] \notin ToSet(others)
    <3>1. Nth(places, k) \in DOMAIN list /\ list[Nth(places, k)] \notin ToSet(others)
      BY <1>1, <1>3
    <3> QED BY <1>3, <3>1 DEF ToSet
  <2>2. ASSUME NEW t \in ToSet(list), t \notin ToSet(others) PROVE t \in ToSet(new)
    <3>1. PICK i \in DOMAIN list : list[i] = t
      BY DEF ToSet
    <3>2. PICK k \in DOMAIN new : Nth(places, k) = i
      BY <1>1, <1>3, <2>2, <3>1
    <3> QED BY <1>3, <3>1, <3>2 DEF ToSet
  <2>3. \A t \in ToSet(new) : \E k \in DOMAIN new : t = new[k]
    BY DEF ToSet
  <2> QED BY <2>1, <2>2, <2>3
<1>6. ASSUME IsInjective(list) PROVE IsInjective(new)
  BY <1>3, <1>6 DEF IsInjective
<1> QED BY <1>3, <1>4, <1>5, <1>6

-----------------------------------------------------------------------------
(* The items of the server.                                                 *)

\* These items have handles no other item of the group has.
New(items, group) ==
    /\ items \in Seq(Item) /\ IsInjective(Tags(items))
    /\ \A i, j \in DOMAIN items : items[i].handle = items[j].handle => i = j
    /\ \E n \in Nat : \A i \in DOMAIN items : items[i].handle <= n
    /\ \A i \in DOMAIN items, j \in DOMAIN group : items[i].handle # group[j].handle

\* The highest handle in some groups is a number that none of them is above.
LEMMA TopHandle ==
    ASSUME ItemsOk(groups), NEW gs \in SUBSET DOMAIN groups
    PROVE  /\ Highest(gs) \in Nat
           /\ \A g \in gs : \A i \in DOMAIN groups[g] : groups[g][i].handle <= Highest(gs)
<1> DEFINE HandlesInUse == UNION {ToSet(Handles(groups[g])) : g \in gs}
<1>1. \A g \in gs : groups[g] \in Seq(Item)
  BY DEF ItemsOk
<1>2. PICK n \in Nat : \A g \in gs : \A i \in DOMAIN groups[g] : groups[g][i].handle <= n
  BY DEF ItemsOk
<1>3. \A g \in gs : \A i \in DOMAIN groups[g] : groups[g][i] \in Item
  BY <1>1
<1>4. \A h \in HandlesInUse :
        \E g \in gs : \E i \in DOMAIN groups[g] : h = groups[g][i].handle
  BY DEF ToSet, Handles
<1>5. \A g \in gs : \A i \in DOMAIN groups[g] : groups[g][i].handle \in HandlesInUse
  <2> SUFFICES ASSUME NEW g \in gs, NEW i \in DOMAIN groups[g]
               PROVE  groups[g][i].handle \in HandlesInUse
    OBVIOUS
  <2>1. groups[g][i].handle \in ToSet(Handles(groups[g]))
    BY DEF ToSet, Handles
  <2> QED BY <2>1
<1>6. \A h \in HandlesInUse : h \in Nat /\ h <= n
  BY <1>2, <1>3, <1>4 DEF Item
<1> DEFINE S == {0} \cup HandlesInUse
<1>7. S \in SUBSET Nat /\ S # {} /\ \A h \in S : h <= n
  BY <1>6
<1>8. IsFiniteSet(S)
  BY <1>7, FS_BoundedSetOfNaturals
<1>9. Max(S) \in S /\ \A h \in S : h <= Max(S)
  BY <1>7, <1>8, LargestIsMax
<1>10. Highest(gs) = Max(S)
  BY DEF Highest
<1>11. \A g \in gs : \A i \in DOMAIN groups[g] : groups[g][i].handle \in S
  BY <1>5
<1> HIDE DEF S
<1> QED BY <1>7, <1>9, <1>10, <1>11

\* add_items() makes items of tags among those given, with handles new to the group.
LEMMA AddedIsNew ==
    ASSUME ItemsOk(groups), sub_group \in DOMAIN groups, NEW tags \in Seq(Tag), IsInjective(tags),
           NEW items \in Added(tags)
    PROVE  /\ New(items, groups[sub_group])
           /\ ToSet(Tags(items)) \subseteq ToSet(tags)
<1>1. PICK places \in SUBSET DOMAIN tags : places = {i \in DOMAIN tags : tags[i] \in known}
  OBVIOUS
<1>2. PICK valid : valid = Select(tags, places)
  OBVIOUS
<1>3. PICK top \in {Highest({sub_group}), Highest(DOMAIN groups)} :
        items = [i \in DOMAIN valid |-> [handle |-> top + i, tag |-> valid[i]]]
  BY <1>1, <1>2 DEF Added
<1>4. items = [i \in DOMAIN valid |-> [handle |-> top + i, tag |-> valid[i]]]
  BY <1>3
<1>6. /\ valid \in Seq(Tag) /\ DOMAIN valid = 1 .. Len(valid) /\ Len(valid) \in Nat
      /\ \A k \in DOMAIN valid : Nth(places, k) \in places /\ valid[k] = tags[Nth(places, k)]
      /\ \A k, l \in DOMAIN valid : Nth(places, k) = Nth(places, l) => k = l
  BY <1>2, SelectPicks DEF Select
<1>7. /\ top \in Nat
      /\ \A i \in DOMAIN groups[sub_group] : groups[sub_group][i].handle <= top
  <2>1. \A gs \in {{sub_group}, DOMAIN groups} : gs \in SUBSET DOMAIN groups /\ sub_group \in gs
    OBVIOUS
  <2>2. \A gs \in {{sub_group}, DOMAIN groups} :
          /\ Highest(gs) \in Nat
          /\ \A g \in gs : \A i \in DOMAIN groups[g] : groups[g][i].handle <= Highest(gs)
    BY <2>1, TopHandle
  <2> QED BY <1>3, <2>1, <2>2
<1>8. \A i \in DOMAIN groups[sub_group] : groups[sub_group][i].handle \in Nat
  <2>1. groups[sub_group] \in Seq(Item)
    BY DEF ItemsOk
  <2>2. \A i \in DOMAIN groups[sub_group] : groups[sub_group][i] \in Item
    BY <2>1
  <2> QED BY <2>2 DEF Item
<1>9. /\ DOMAIN items = 1 .. Len(valid) /\ items \in Seq(Item)
      /\ \A i \in DOMAIN items : items[i].handle = top + i /\ items[i].tag = valid[i]
  <2>1. \A i \in 1 .. Len(valid) : [handle |-> top + i, tag |-> valid[i]] \in Item
    BY <1>6, <1>7 DEF Item
  <2> QED BY <1>4, <1>6, <2>1
<1>10. \A i, j \in DOMAIN items : items[i].handle = items[j].handle => i = j
  BY <1>6, <1>7, <1>9
<1>11. top + Len(valid) \in Nat /\ \A i \in DOMAIN items : items[i].handle <= top + Len(valid)
  BY <1>6, <1>7, <1>9
<1>12. ASSUME NEW i \in DOMAIN items, NEW j \in DOMAIN groups[sub_group]
       PROVE  items[i].handle # groups[sub_group][j].handle
  <2>1. /\ items[i].handle = top + i /\ i \in Nat /\ i > 0
        /\ groups[sub_group][j].handle <= top /\ groups[sub_group][j].handle \in Nat
    BY <1>6, <1>7, <1>8, <1>9
  <2> QED BY <1>7, <2>1
<1>13. IsInjective(Tags(items))
  <2>1. \A i, j \in DOMAIN valid : valid[i] = valid[j] => i = j
    BY <1>6 DEF IsInjective
  <2> QED BY <1>6, <1>9, <2>1 DEF Tags, IsInjective
<1>14. ToSet(Tags(items)) \subseteq ToSet(tags)
  <2>1. \A k \in DOMAIN items : items[k].tag \in ToSet(tags)
    BY <1>6, <1>9 DEF ToSet
  <2> QED BY <2>1 DEF ToSet, Tags
<1> QED BY <1>9, <1>10, <1>11, <1>12, <1>13, <1>14 DEF New

\* The tags and the handles of items.
LEMMA TagsAndHandles ==
    ASSUME NEW items \in Seq(Item)
    PROVE  /\ Tags(items) \in Seq(Tag) /\ Len(Tags(items)) = Len(items)
           /\ Handles(items) \in Seq(Nat) /\ Len(Handles(items)) = Len(items)
           /\ DOMAIN items = 1 .. Len(items) /\ Len(items) \in Nat
           /\ \A i \in DOMAIN items :
                Tags(items)[i] = items[i].tag /\ Handles(items)[i] = items[i].handle
<1>1. DOMAIN items = 1 .. Len(items) /\ Len(items) \in Nat
  OBVIOUS
<1>2. \A i \in 1 .. Len(items) : items[i].tag \in Tag /\ items[i].handle \in Nat
  <2>1. \A i \in 1 .. Len(items) : items[i] \in Item
    BY <1>1
  <2> QED BY <2>1 DEF Item
<1> QED BY <1>1, <1>2 DEF Tags, Handles

\* One group gets other items.
LEMMA OneGroupChanges ==
    ASSUME NEW gs, ItemsOk(gs), NEW g \in DOMAIN gs, NEW items \in Seq(Item),
           \A i, j \in DOMAIN items : items[i].handle = items[j].handle => i = j,
           \E n \in Nat : \A i \in DOMAIN items : items[i].handle <= n
    PROVE  ItemsOk([gs EXCEPT ![g] = items])
<1> DEFINE new == [gs EXCEPT ![g] = items]
<1>1. DOMAIN new = DOMAIN gs /\ new[g] = items /\ \A h \in DOMAIN gs \ {g} : new[h] = gs[h]
  OBVIOUS
<1> HIDE DEF new
<1>2. \A h \in DOMAIN new : new[h] \in Seq(Item)
  BY <1>1 DEF ItemsOk
<1>3. \E n \in Nat : \A h \in DOMAIN new : \A i \in DOMAIN new[h] : new[h][i].handle <= n
  <2>1. PICK m \in Nat : \A i \in DOMAIN items : items[i].handle <= m
    OBVIOUS
  <2>2. PICK n \in Nat : \A h \in DOMAIN gs : \A i \in DOMAIN gs[h] : gs[h][i].handle <= n
    BY DEF ItemsOk
  <2>3. \A h \in DOMAIN new : \A i \in DOMAIN new[h] : new[h][i].handle \in Nat
    <3>1. \A h \in DOMAIN new : \A i \in DOMAIN new[h] : new[h][i] \in Item
      BY <1>2
    <3> QED BY <3>1 DEF Item
  <2>4. m + n \in Nat /\ \A h \in DOMAIN new : \A i \in DOMAIN new[h] : new[h][i].handle <= m + n
    <3>1. m + n \in Nat
      OBVIOUS
    <3>2. ASSUME NEW h \in DOMAIN new, NEW i \in DOMAIN new[h] PROVE new[h][i].handle <= m + n
      <4>1. new[h][i].handle <= m \/ new[h][i].handle <= n
        BY <1>1, <2>1, <2>2
      <4> QED BY <2>3, <4>1
    <3> QED BY <3>1, <3>2
  <2> QED BY <2>4
<1>4. Distinct(gs)
  BY DEF ItemsOk
<1>5. Distinct(new)
  BY <1>1, <1>4 DEF Distinct
<1> QED BY <1>2, <1>3, <1>5 DEF ItemsOk, new

\* Groups go, or one without items is new.
LEMMA FewerItems ==
    ASSUME NEW gs, ItemsOk(gs), NEW new,
           \A g \in DOMAIN new : new[g] = <<>> \/ (g \in DOMAIN gs /\ new[g] = gs[g])
    PROVE  ItemsOk(new)
<1>1. \A g \in DOMAIN new : new[g] \in Seq(Item)
  <2>1. <<>> \in Seq(Item)
    OBVIOUS
  <2> QED BY <2>1, Zenon DEF ItemsOk
<1>2. \A g \in DOMAIN new : \A i \in DOMAIN new[g] : g \in DOMAIN gs /\ new[g] = gs[g]
  OBVIOUS
<1>3. PICK n \in Nat : \A g \in DOMAIN gs : \A i \in DOMAIN gs[g] : gs[g][i].handle <= n
  BY DEF ItemsOk
<1>4. \A g \in DOMAIN new : \A i \in DOMAIN new[g] : new[g][i].handle <= n
  BY <1>2, <1>3
<1>5. Distinct(new)
  BY <1>2 DEF ItemsOk, Distinct
<1> QED BY <1>1, <1>4, <1>5 DEF ItemsOk

\* A list without a tag twice has none twice in a piece.
LEMMA PiecesInjective ==
    ASSUME NEW tags \in Seq(Tag), IsInjective(tags), NEW size \in Nat,
           NEW i \in DOMAIN Pieces(tags, size)
    PROVE  IsInjective(Pieces(tags, size)[i])
<1>1. CASE size = 0
  BY <1>1 DEF Pieces
<1>2. CASE size # 0
  <2> DEFINE n == (Len(tags) + size - 1) \div size
             first == (i - 1) * size + 1
             last == IF i * size < Len(tags) THEN i * size ELSE Len(tags)
  <2>0. n \in Nat
    <3>1. Len(tags) \in Nat
      OBVIOUS
    <3> QED BY <1>2, <3>1
  <2>1. i \in 1 .. n /\ Pieces(tags, size)[i] = SubSeq(tags, first, last)
    BY <1>2 DEF Pieces
  <2> HIDE DEF n
  <2>2. first \in Nat /\ first >= 1 /\ last \in Nat /\ last <= Len(tags) /\ Len(tags) \in Nat
    <3>1. (i - 1) * size \in Nat /\ i * size \in Nat /\ Len(tags) \in Nat
      <4>1. i \in Nat /\ i - 1 \in Nat /\ Len(tags) \in Nat
        BY <2>0, <2>1
      <4> QED BY <4>1
    <3> QED BY <3>1
  <2> HIDE DEF first, last
  <2>3. PICK piece : piece = SubSeq(tags, first, last)
    OBVIOUS
  <2>4. \A k \in DOMAIN piece : /\ k \in 1 .. last - first + 1
                                /\ piece[k] = tags[first + k - 1]
                                /\ first + k - 1 \in DOMAIN tags
    BY <2>2, <2>3
  <2>5. IsInjective(piece)
    <3>1. \A k, l \in DOMAIN piece : piece[k] = piece[l] => first + k - 1 = first + l - 1
      BY <2>4 DEF IsInjective
    <3> QED BY <2>2, <2>4, <3>1 DEF IsInjective
  <2> QED BY <2>1, <2>3, <2>5
<1> QED BY <1>1, <1>2

-----------------------------------------------------------------------------
(* Items and what is noted of them.                                         *)

\* Two lists joined.
LEMMA JoinedIs ==
    ASSUME NEW X, NEW a \in Seq(X), NEW b \in Seq(X)
    PROVE  /\ a \o b \in Seq(X) /\ Len(a \o b) = Len(a) + Len(b)
           /\ \A i \in 1 .. Len(a) : (a \o b)[i] = a[i]
           /\ \A i \in 1 .. Len(b) : (a \o b)[Len(a) + i] = b[i]
           /\ \A k \in 1 .. Len(a) + Len(b) :
                k \in 1 .. Len(a) \/ \E i \in 1 .. Len(b) : k = Len(a) + i
<1>1. Len(a) \in Nat /\ Len(b) \in Nat
  OBVIOUS
<1>2. /\ a \o b \in Seq(X) /\ Len(a \o b) = Len(a) + Len(b)
      /\ \A i \in 1 .. Len(a) : (a \o b)[i] = a[i]
  OBVIOUS
<1>3. ASSUME NEW i \in 1 .. Len(b) PROVE (a \o b)[Len(a) + i] = b[i]
  BY <1>1
<1>4. ASSUME NEW k \in 1 .. Len(a) + Len(b), k > Len(a)
      PROVE  \E i \in 1 .. Len(b) : k = Len(a) + i
  <2>1. k - Len(a) \in 1 .. Len(b) /\ k = Len(a) + (k - Len(a))
    BY <1>1, <1>4
  <2> QED BY <2>1
<1>5. ASSUME NEW k \in 1 .. Len(a) + Len(b), ~(k > Len(a)) PROVE k \in 1 .. Len(a)
  BY <1>1, <1>5
<1> QED BY <1>2, <1>3, <1>4, <1>5

\* What is in two lists joined is in one or the other.
LEMMA JoinedParts ==
    ASSUME NEW X, NEW a \in Seq(X), NEW b \in Seq(X), NEW k \in DOMAIN (a \o b)
    PROVE  \/ \E i \in DOMAIN a : k = i /\ (a \o b)[k] = a[i]
           \/ \E i \in DOMAIN b : k = Len(a) + i /\ (a \o b)[k] = b[i]
<1>1. DOMAIN (a \o b) = 1 .. Len(a) + Len(b) /\ DOMAIN a = 1 .. Len(a) /\ DOMAIN b = 1 .. Len(b)
  OBVIOUS
<1>2. k \in 1 .. Len(a) \/ \E i \in 1 .. Len(b) : k = Len(a) + i
  BY <1>1, JoinedIs
<1>3. CASE k \in 1 .. Len(a)
  BY <1>1, <1>3, JoinedIs
<1>4. CASE \E i \in 1 .. Len(b) : k = Len(a) + i
  <2>1. PICK i \in DOMAIN b : k = Len(a) + i
    BY <1>1, <1>4
  <2>2. \A l \in 1 .. Len(b) : (a \o b)[Len(a) + l] = b[l]
    BY JoinedIs
  <2> QED BY <1>1, <2>1, <2>2
<1> QED BY <1>2, <1>3, <1>4

\* Entering items puts their handles under their tags and leaves the others.
LEMMA EnteredIs ==
    ASSUME NEW items \in Seq(Item), IsInjective(Tags(items))
    PROVE  /\ \A i \in DOMAIN items :
                /\ items[i].tag \in DOMAIN Entered(items)
                /\ Entered(items)[items[i].tag] = items[i].handle
           /\ sub_group \in DOMAIN _group_server_handles =>
                \A t \in DOMAIN _group_server_handles[sub_group] \ ToSet(Tags(items)) :
                  /\ t \in DOMAIN Entered(items)
                  /\ Entered(items)[t] = _group_server_handles[sub_group][t]
<1> DEFINE old == IF sub_group \in DOMAIN _group_server_handles
                  THEN _group_server_handles[sub_group] ELSE <<>>
           of(t) == CHOOSE i \in ToSet(items) : i.tag = t
<1>1. PICK tags : tags = ToSet(Tags(items))
  OBVIOUS
<1>2. PICK table : table = old
  OBVIOUS
<1>3. Entered(items) =
        [t \in DOMAIN table \cup tags |-> IF t \in tags THEN of(t).handle ELSE table[t]]
  BY <1>1, <1>2 DEF Entered
<1>4. \A i \in DOMAIN items : of(items[i].tag) = items[i]
  <2> SUFFICES ASSUME NEW i \in DOMAIN items PROVE of(items[i].tag) = items[i]
    OBVIOUS
  <2>1. items[i] \in ToSet(items)
    BY DEF ToSet
  <2>2. of(items[i].tag) \in ToSet(items) /\ of(items[i].tag).tag = items[i].tag
    BY <2>1
  <2>3. PICK k \in DOMAIN items : of(items[i].tag) = items[k]
    BY <2>2 DEF ToSet
  <2>4. k = i
    BY <2>2, <2>3 DEF IsInjective, Tags
  <2> QED BY <2>3, <2>4
<1>5. \A i \in DOMAIN items : items[i].tag \in tags
  BY <1>1 DEF ToSet, Tags
<1> HIDE DEF of
<1> QED BY <1>1, <1>2, <1>3, <1>4, <1>5

\* New items match their own tags.
LEMMA NewMatch ==
    ASSUME NEW items, NEW group, New(items, group)
    PROVE  Matches(items, Tags(items), Entered(items))
<1>1. items \in Seq(Item) /\ IsInjective(Tags(items))
  BY DEF New
<1>2. /\ Tags(items) \in Seq(Tag) /\ Len(Tags(items)) = Len(items)
      /\ DOMAIN Tags(items) = DOMAIN items
      /\ \A i \in DOMAIN items : Tags(items)[i] = items[i].tag
  BY <1>1, TagsAndHandles DEF Tags
<1>3. \A i \in DOMAIN items : /\ items[i].tag \in DOMAIN Entered(items)
                              /\ Entered(items)[items[i].tag] = items[i].handle
  BY <1>1, EnteredIs
<1> QED BY <1>1, <1>2, <1>3 DEF Matches

\* Matching depends on the table at the valid tags only, and goes on when items
\* of other tags are put behind.
LEMMA MatchesAppended ==
    ASSUME NEW old \in Seq(Item), NEW valid, NEW table, Matches(old, valid, table),
           NEW items \in Seq(Item), IsInjective(Tags(items)),
           \A i \in DOMAIN items : items[i].tag \notin ToSet(valid),
           NEW new,
           \A i \in DOMAIN items : /\ items[i].tag \in DOMAIN new
                                   /\ new[items[i].tag] = items[i].handle,
           \A t \in ToSet(valid) : t \in DOMAIN new /\ new[t] = table[t]
    PROVE  Matches(old \o items, valid \o Tags(items), new)
<1>1. /\ valid \in Seq(Tag) /\ IsInjective(valid) /\ Len(old) = Len(valid)
      /\ \A i \in DOMAIN valid : old[i].tag = valid[i] /\ table[valid[i]] = old[i].handle
  BY DEF Matches
<1>2. PICK tags \in Seq(Tag) :
        /\ tags = Tags(items) /\ Len(tags) = Len(items)
        /\ \A i \in DOMAIN items : tags[i] = items[i].tag
  BY TagsAndHandles
<1>3. PICK m \in Nat : m = Len(old) /\ m = Len(valid) /\ DOMAIN valid = 1 .. m
  BY <1>1
<1>4. PICK n \in Nat : n = Len(items) /\ n = Len(tags) /\ DOMAIN items = 1 .. n /\ DOMAIN tags = 1 .. n
  BY <1>2
<1>5. PICK all : all = old \o items
  OBVIOUS
<1>6. PICK list : list = valid \o tags
  OBVIOUS
<1>7. /\ all \in Seq(Item) /\ Len(all) = m + n
      /\ \A i \in 1 .. m : all[i] = old[i]
      /\ \A i \in 1 .. n : all[m + i] = items[i]
  <2>1. Len(old) = m /\ Len(items) = n
    BY <1>3, <1>4
  <2> QED BY <1>5, <2>1, JoinedIs
<1>8. /\ list \in Seq(Tag) /\ Len(list) = m + n /\ DOMAIN list = 1 .. m + n
      /\ \A i \in 1 .. m : list[i] = valid[i]
      /\ \A i \in 1 .. n : list[m + i] = tags[i]
  BY <1>1, <1>3, <1>4, <1>6
<1>9. \A k \in 1 .. m + n : k \in 1 .. m \/ \E i \in 1 .. n : k = m + i
  <2>1. \A k \in 1 .. Len(old) + Len(items) :
          k \in 1 .. Len(old) \/ \E i \in 1 .. Len(items) : k = Len(old) + i
    BY JoinedIs
  <2> QED BY <1>3, <1>4, <2>1
<1>10. \A k \in 1 .. m : valid[k] \in ToSet(valid)
  BY <1>3 DEF ToSet
<1>11. ASSUME NEW k \in 1 .. m + n
       PROVE  /\ all[k].tag = list[k] /\ list[k] \in DOMAIN new
              /\ new[list[k]] = all[k].handle
  <2>1. CASE k \in 1 .. m
    <3>1. /\ all[k] = old[k] /\ list[k] = valid[k] /\ k \in DOMAIN valid
          /\ valid[k] \in ToSet(valid)
      BY <2>1, <1>3, <1>7, <1>8, <1>10
    <3> QED BY <3>1, <1>1
  <2>2. CASE \E i \in 1 .. n : k = m + i
    <3>1. PICK i \in 1 .. n : k = m + i
      BY <2>2
    <3>2. all[k] = items[i] /\ list[k] = tags[i] /\ i \in DOMAIN items
      BY <3>1, <1>4, <1>7, <1>8
    <3> QED BY <3>2, <1>2
  <2> QED BY <1>9, <2>1, <2>2
<1>12. \A k \in 1 .. m : list[k] \in ToSet(valid)
  BY <1>8, <1>10
<1>13. \A i \in 1 .. n : list[m + i] \notin ToSet(valid)
  BY <1>2, <1>4, <1>8
<1>14. ASSUME NEW k \in 1 .. m + n, NEW l \in 1 .. m + n, list[k] = list[l] PROVE k = l
  <2>1. CASE k \in 1 .. m /\ l \in 1 .. m
    BY <2>1, <1>1, <1>3, <1>8, <1>14 DEF IsInjective
  <2>2. CASE k \in 1 .. m /\ \E i \in 1 .. n : l = m + i
    <3>1. list[k] \in ToSet(valid) /\ list[l] \notin ToSet(valid)
      BY <2>2, <1>12, <1>13
    <3> QED BY <3>1, <1>14
  <2>3. CASE l \in 1 .. m /\ \E i \in 1 .. n : k = m + i
    <3>1. list[l] \in ToSet(valid) /\ list[k] \notin ToSet(valid)
      BY <2>3, <1>12, <1>13
    <3> QED BY <3>1, <1>14
  <2>4. CASE (\E i \in 1 .. n : k = m + i) /\ \E i \in 1 .. n : l = m + i
    <3>1. PICK i \in 1 .. n, j \in 1 .. n : k = m + i /\ l = m + j
      BY <2>4
    <3>2. tags[i] = tags[j]
      BY <3>1, <1>8, <1>14
    <3>3. i = j
      BY <3>2, <1>2, <1>4 DEF IsInjective
    <3> QED BY <3>1, <3>3
  <2> QED BY <1>9, <2>1, <2>2, <2>3, <2>4
<1>15. IsInjective(list)
  BY <1>8, <1>14 DEF IsInjective
<1>16. Matches(all, list, new)
  BY <1>7, <1>8, <1>11, <1>15 DEF Matches
<1> QED BY <1>2, <1>5, <1>6, <1>16

\* No two items have the same handle.
HandlesDiffer(items) ==
    \A i, j \in DOMAIN items : items[i].handle = items[j].handle => i = j

\* The items at these places do not have the handles of these tags, the others do.
Stay(places, items, table, del) ==
    \A i \in DOMAIN items :
      i \in places <=> \A t \in ToSet(del) : items[i].handle # table[t]

\* Removing the items with the handles of some tags removes the items of these tags.
LEMMA MatchesSelected ==
    ASSUME NEW items \in Seq(Item), NEW valid, NEW table, Matches(items, valid, table),
           HandlesDiffer(items), NEW del \in Seq(Tag), ToSet(del) \subseteq ToSet(valid),
           NEW stay \in SUBSET DOMAIN items, Stay(stay, items, table, del)
    PROVE  /\ \A i \in DOMAIN items : i \in stay <=> valid[i] \notin ToSet(del)
           /\ Matches(Select(items, stay), Without(valid, del), table)
<1>1. /\ valid \in Seq(Tag) /\ IsInjective(valid) /\ Len(items) = Len(valid)
      /\ DOMAIN valid = DOMAIN items
      /\ \A i \in DOMAIN valid : /\ items[i].tag = valid[i]
                                 /\ valid[i] \in DOMAIN table
                                 /\ table[valid[i]] = items[i].handle
  BY DEF Matches
<1>2. ASSUME NEW i \in DOMAIN valid
      PROVE  (\E t \in ToSet(del) : items[i].handle = table[t]) <=> valid[i] \in ToSet(del)
  <2>1. ASSUME valid[i] \in ToSet(del) PROVE \E t \in ToSet(del) : items[i].handle = table[t]
    BY <1>1, <2>1
  <2>2. ASSUME NEW t \in ToSet(del), items[i].handle = table[t] PROVE valid[i] \in ToSet(del)
    <3>1. PICK j \in DOMAIN valid : t = valid[j]
      BY DEF ToSet
    <3>2. items[i].handle = items[j].handle
      BY <1>1, <2>2, <3>1
    <3> QED BY <1>1, <3>1, <3>2 DEF HandlesDiffer
  <2> QED BY <2>1, <2>2
<1>3. stay = {i \in DOMAIN valid : valid[i] \notin ToSet(del)}
  BY <1>1, <1>2 DEF Stay
<1>4. stay \in SUBSET DOMAIN items /\ stay \in SUBSET DOMAIN valid
  BY <1>1
<1>5. PICK kept : kept = Select(items, stay)
  OBVIOUS
<1>6. PICK tags : tags = Select(valid, stay)
  OBVIOUS
<1>7. Without(valid, del) = tags
  BY <1>3, <1>6 DEF Without
<1>8. PICK n \in Nat : n = Cardinality(stay)
  BY <1>4, SelectPicks
<1>9. /\ kept \in Seq(Item) /\ Len(kept) = n
      /\ \A k \in 1 .. n : Nth(stay, k) \in stay
      /\ \A k \in 1 .. n : kept[k] = items[Nth(stay, k)]
      /\ \A k, l \in 1 .. n : Nth(stay, k) = Nth(stay, l) => k = l
  <2>1. Select(items, stay) \in Seq(Item) /\ Len(Select(items, stay)) = Cardinality(stay)
    BY <1>4, SelectPicks
  <2>2. \A k \in 1 .. Cardinality(stay) : Select(items, stay)[k] = items[Nth(stay, k)]
    BY <1>4, SelectPicks
  <2>3. IsFiniteSet(stay) /\ stay \in SUBSET Nat
    BY <1>4, SelectPicks
  <2>4. /\ \A k \in 1 .. Cardinality(stay) : Nth(stay, k) \in stay
        /\ \A k, l \in 1 .. Cardinality(stay) : Nth(stay, k) = Nth(stay, l) => k = l
    BY <2>3, NthIsMember
  <2> QED BY <2>1, <2>2, <2>4, <1>5, <1>8
<1>10. /\ tags \in Seq(Tag) /\ Len(tags) = n
       /\ \A k \in 1 .. n : tags[k] = valid[Nth(stay, k)]
  <2>1. Select(valid, stay) \in Seq(Tag) /\ Len(Select(valid, stay)) = Cardinality(stay)
    BY <1>1, <1>4, SelectPicks
  <2>2. \A k \in 1 .. Cardinality(stay) : Select(valid, stay)[k] = valid[Nth(stay, k)]
    BY <1>1, <1>4, SelectPicks
  <2> QED BY <2>1, <2>2, <1>6, <1>8
<1>11. DOMAIN tags = 1 .. n
  BY <1>10
<1>12. ASSUME NEW k \in 1 .. n
       PROVE  /\ kept[k].tag = tags[k] /\ tags[k] \in DOMAIN table
              /\ table[tags[k]] = kept[k].handle
  <2>1. PICK i \in DOMAIN valid : i = Nth(stay, k)
    BY <1>4, <1>9
  <2>2. kept[k] = items[i] /\ tags[k] = valid[i]
    BY <2>1, <1>9, <1>10
  <2> QED BY <2>2, <1>1
<1>13. IsInjective(tags)
  <2> SUFFICES ASSUME NEW k \in 1 .. n, NEW l \in 1 .. n, tags[k] = tags[l] PROVE k = l
    BY <1>11 DEF IsInjective
  <2>1. PICK i \in DOMAIN valid, j \in DOMAIN valid : i = Nth(stay, k) /\ j = Nth(stay, l)
    BY <1>4, <1>9
  <2>2. i = j
    BY <2>1, <1>1, <1>10 DEF IsInjective
  <2> QED BY <2>1, <2>2, <1>9
<1>14. Matches(kept, tags, table)
  BY <1>9, <1>10, <1>11, <1>12, <1>13 DEF Matches
<1> QED BY <1>1, <1>3, <1>5, <1>7, <1>14

-----------------------------------------------------------------------------
(* The values that come back.                                               *)

\* A value is that of a tag, or none.
LEMMA ValueType ==
    ASSUME groups[sub_group] \in Seq(Item), NEW h
    PROVE  ValueOf(h) \in Tag \cup {"no item", "no value"}
<1> DEFINE items == {i \in ToSet(groups[sub_group]) : i.handle = h}
<1>1. CASE items = {}
  BY <1>1 DEF ValueOf
<1>2. CASE items # {}
  <2>1. (CHOOSE i \in items : TRUE) \in items
    BY <1>2
  <2>2. \A i \in items : i.tag \in Tag
    <3>1. \A k \in DOMAIN groups[sub_group] : groups[sub_group][k] \in Item
      OBVIOUS
    <3> QED BY <3>1 DEF ToSet, Item
  <2>3. (CHOOSE i \in items : TRUE).tag \in Tag
    BY <2>1, <2>2
  <2> QED BY <1>2, <2>3 DEF ValueOf
<1> QED BY <1>1, <1>2

\* A handle of an item of the sub-group gets the value of this item.
LEMMA OwnValue ==
    ASSUME ItemsOk(groups), sub_group \in DOMAIN groups, NEW k \in DOMAIN groups[sub_group]
    PROVE  ValueOf(groups[sub_group][k].handle) \in {groups[sub_group][k].tag, "no value"}
<1> DEFINE item == groups[sub_group][k]
           items == {i \in ToSet(groups[sub_group]) : i.handle = item.handle}
<1>1. \A i \in ToSet(groups[sub_group]) : i.handle = item.handle => i = item
  BY DEF ItemsOk, Distinct, ToSet
<1>2. item \in ToSet(groups[sub_group])
  BY DEF ToSet
<1>3. items = {item}
  BY <1>1, <1>2
<1>4. items # {} /\ (CHOOSE i \in items : TRUE) = item
  BY <1>3
<1> HIDE DEF item
<1> QED BY <1>4 DEF ValueOf, item

\* The index of a valid tag.
LEMMA IndexIs ==
    ASSUME NEW valid, NEW t \in ToSet(valid)
    PROVE  LET i == CHOOSE i \in DOMAIN valid : valid[i] = t
           IN  i \in DOMAIN valid /\ valid[i] = t
<1>1. \E i \in DOMAIN valid : valid[i] = t
  BY DEF ToSet
<1> QED BY <1>1

\* The rows of a sub-group are rows.
LEMMA RowsType ==
    ASSUME call \in ReadCall, groups[sub_group] \in Seq(Item)
    PROVE  Rows \in Seq(Row) /\ Len(Rows) = Len(call.tags)
<1>1. call.tags \in Seq(Tag)
  BY DEF ReadCall
<1>2. Len(call.tags) \in Nat /\ DOMAIN call.tags = 1 .. Len(call.tags)
      /\ \A i \in DOMAIN call.tags : call.tags[i] \in Tag
  BY <1>1
<1> DEFINE index(t) == CHOOSE i \in DOMAIN call.valid_tags : call.valid_tags[i] = t
           value(i) == IF call.tags[i] \in ToSet(call.valid_tags)
                       THEN ValueOf(call.server_handles[index(call.tags[i])]) ELSE "not valid"
<1>3. \A i \in DOMAIN call.tags : value(i) \in Tag \cup {"not valid", "no value", "no item"}
  BY ValueType
<1>4. PICK borrowed \in BOOLEAN : borrowed = (call.whose # "own")
  OBVIOUS
<1>5. Rows = [i \in 1 .. Len(call.tags) |->
                [tag |-> call.tags[i], value |-> value(i), borrowed |-> borrowed]]
  BY <1>2, <1>4 DEF Rows
<1> HIDE DEF value
<1>6. \A i \in 1 .. Len(call.tags) :
        [tag |-> call.tags[i], value |-> value(i), borrowed |-> borrowed] \in Row
  BY <1>2, <1>3 DEF Row
<1> QED BY <1>2, <1>5, <1>6

\* And own ones, whatever is left of the handles.
LEMMA RowsAreOwn ==
    ASSUME ItemsOk(groups), CallOk, call.at = "ask", sub_group \in DOMAIN groups,
           Matches(groups[sub_group], call.valid_tags, _group_server_handles[sub_group]),
           HandlesOk(call, groups, _group_valid_tags),
           call.valid_tags = <<>> \/ Len(call.valid_tags) <= Len(call.server_handles)
    PROVE  Rows \in Seq(OwnRows(call.rebuild))
<1> DEFINE items == groups[sub_group]
           valid == call.valid_tags
           sh == call.server_handles
           index(t) == CHOOSE i \in DOMAIN call.valid_tags : call.valid_tags[i] = t
<1>1. call \in ReadCall /\ call.gid \in Nat /\ sh \in Seq(Nat) /\ valid \in Seq(Tag)
      /\ (call.rebuild => call.name # NoName)
  BY DEF CallOk, ReadCall
<1>2. items \in Seq(Item)
  BY DEF ItemsOk
<1>3. Rows \in Seq(Row) /\ Len(Rows) = Len(call.tags)
  BY <1>1, <1>2, RowsType
<1>4. /\ DOMAIN valid = 1 .. Len(valid) /\ DOMAIN valid = DOMAIN items
      /\ \A i \in DOMAIN valid : items[i].tag = valid[i]
  BY <1>1, <1>2 DEF Matches
<1>5. \A i \in DOMAIN valid : i \in DOMAIN sh
  <2>1. CASE valid = <<>>
    BY <2>1
  <2>2. CASE Len(valid) <= Len(sh)
    BY <1>1, <1>4, <2>2
  <2> QED BY <2>1, <2>2
<1>6. \/ From(sh, items, 0)
      \/ /\ call.rebuild
         /\ call.whose # "own" \/ Len(sh) < Len(valid)
  BY DEF HandlesOk, sub_group
<1>7. ASSUME NEW i \in DOMAIN valid
      PROVE  \/ ValueOf(sh[i]) \in {valid[i], "no value"}
             \/ call.rebuild /\ call.whose # "own"
  <2>1. CASE From(sh, items, 0)
    <3>1. sh[i] = items[0 + i].handle
      BY <1>5, <2>1 DEF From
    <3>2. sh[i] = items[i].handle
      BY <1>4, <3>1
    <3> QED BY <1>4, <3>2, OwnValue
  <2>2. CASE call.rebuild /\ call.whose # "own"
    BY <2>2
  <2>3. CASE call.rebuild /\ Len(sh) < Len(valid)
    <3>1. valid # <<>>
      BY <1>4
    <3>2. Len(valid) <= Len(sh)
      BY <3>1
    <3>3. PICK m \in Nat, n \in Nat : m = Len(valid) /\ n = Len(sh)
      BY <1>1
    <3>4. n < m /\ m <= n
      BY <2>3, <3>2, <3>3
    <3>5. FALSE
      BY <3>4
    <3> QED BY <3>5
  <2> QED BY <1>6, <2>1, <2>2, <2>3
<1>8. ASSUME NEW i \in DOMAIN Rows PROVE Rows[i] \in OwnRows(call.rebuild)
  <2>1. Rows[i] \in Row
    BY <1>3
  <2>2. i \in DOMAIN call.tags
    BY DEF Rows
  <2>3. CASE call.tags[i] \in ToSet(valid)
    <3>1. PICK k \in DOMAIN valid : k = index(call.tags[i]) /\ valid[k] = call.tags[i]
      BY <2>3, IndexIs
    <3>2. /\ Rows[i].tag = valid[k] /\ Rows[i].value = ValueOf(sh[k])
          /\ Rows[i].borrowed = (call.whose # "own")
      BY <2>2, <2>3, <3>1 DEF Rows
    <3> QED BY <1>7, <2>1, <3>2 DEF OwnRows
  <2>4. CASE call.tags[i] \notin ToSet(valid)
    <3>1. Rows[i].value = "not valid"
      BY <2>2, <2>4 DEF Rows
    <3> QED BY <2>1, <3>1 DEF OwnRows
  <2> QED BY <2>3, <2>4
<1>9. DOMAIN Rows = 1 .. Len(call.tags) /\ Len(call.tags) \in Nat
  BY <1>1, <1>3 DEF ReadCall
<1>10. PICK rows : rows = Rows
  OBVIOUS
<1> QED BY <1>3, <1>8, <1>9, <1>10

\* After a rebuild that added items: when there are no more tags than new items,
\* the new items are all there are.
LEMMA NewOnesStay ==
    ASSUME NEW items \in Seq(Item), NEW n \in Nat, NEW handles \in Seq(Nat),
           From(handles, items, n), NEW stay \in SUBSET DOMAIN items,
           \A i \in DOMAIN items : i > n => i \in stay
    PROVE  \/ From(handles, Select(items, stay), 0)
           \/ Len(handles) < Len(Select(items, stay))
<1>1. PICK m \in Nat : m = Len(handles)
  OBVIOUS
<1>2. /\ DOMAIN handles = 1 .. m /\ DOMAIN items = 1 .. n + m
      /\ \A k \in 1 .. m : handles[k] = items[n + k].handle
  <2>1. Len(items) = n + m /\ \A k \in DOMAIN handles : handles[k] = items[n + k].handle
    BY <1>1 DEF From
  <2>2. DOMAIN handles = 1 .. m /\ DOMAIN items = 1 .. Len(items)
    BY <1>1
  <2> QED BY <2>1, <2>2
<1>3. \A k \in 1 .. m : n + k \in stay
  BY <1>2
<1>4. PICK s \in Nat : s = Cardinality(stay)
  BY SelectPicks
<1>5. PICK kept : kept = Select(items, stay)
  OBVIOUS
<1>6. /\ kept \in Seq(Item) /\ Len(kept) = s /\ DOMAIN kept = 1 .. s
      /\ \A k \in 1 .. s : Nth(stay, k) \in stay /\ kept[k] = items[Nth(stay, k)]
      /\ \A i \in stay : \E k \in 1 .. s : Nth(stay, k) = i
  BY <1>4, <1>5, SelectPicks DEF Select
<1>8. ASSUME ~(m < s) PROVE From(handles, kept, 0)
  <2>1. IsFiniteSet(stay) /\ stay \in SUBSET Nat
    BY SelectPicks
  <2>2. PICK last : last = n + 1 .. n + m
    OBVIOUS
  <2>3. last \in SUBSET stay /\ IsFiniteSet(last) /\ Cardinality(last) = m
    <3>1. last \in SUBSET stay
      <4>1. \A i \in last : i - n \in 1 .. m /\ i = n + (i - n)
        BY <2>2
      <4> QED BY <1>3, <4>1
    <3>2. Cardinality(last) = m
      BY <2>2, FS_Interval
    <3> QED BY <2>1, <3>1, <3>2, FS_Subset
  <2>4. s = m /\ stay = last
    BY <1>4, <1>8, <2>1, <2>3, FS_Subset
  <2>5. ASSUME NEW k \in 1 .. m PROVE Nth(stay, k) = n + k
    <3>1. {j \in stay : j <= n + k} = n + 1 .. n + k
      BY <2>2, <2>4
    <3>2. Cardinality(n + 1 .. n + k) = k
      BY FS_Interval
    <3> QED BY <1>3, <2>1, <3>1, <3>2, NthOfRank
  <2>6. \A k \in 1 .. m : handles[k] = kept[0 + k].handle
    BY <1>2, <1>6, <2>4, <2>5
  <2> QED BY <1>1, <1>2, <1>6, <2>4, <2>6 DEF From
<1> QED BY <1>1, <1>5, <1>6, <1>8

-----------------------------------------------------------------------------
(* The steps of a read.                                                     *)

LEMMA ReadInit == Init => ReadInv
<1> SUFFICES ASSUME Init PROVE ReadInv
  OBVIOUS
<1>1. ItemsOk(groups) /\ DOMAIN _group_tags = {}
  BY DEF Init, ItemsOk, Distinct
<1> QED BY <1>1 DEF Init, ReadInv, TablesOk, Settled, ReadsAt, Anonymous, ReadsOwnTags, Idle, NoResult

\* The parts of a read under way.
LEMMA CallParts ==
    ASSUME CallOk
    PROVE  /\ call.name \in Name \cup {NoName} /\ call.gid \in Nat /\ call.at \in ReadsAt
           /\ call.rebuild \in BOOLEAN /\ call.num_groups \in Nat
           /\ call.tag_groups \in Seq(Seq(Tag)) /\ call.tags \in Seq(Tag)
           /\ call.valid_tags \in Seq(Tag) /\ call.server_handles \in Seq(Nat)
           /\ call.rows \in Seq(Row) /\ "at" \in DOMAIN call
           /\ call.name = NoName => sub_group = Anonymous
           /\ call.name # NoName => sub_group = <<call.name, call.gid>> /\ sub_group # Anonymous
BY RequestAssumption DEF CallOk, ReadCall, sub_group, Anonymous

\* The tags of the piece a read is at, when it has pieces.
LEMMA ReadPiece ==
    ASSUME CallOk, call.tag_groups # <<>>
    PROVE  PieceTags \in Seq(Tag) /\ IsInjective(PieceTags)
<1>1. /\ call.tag_groups \in Seq(Seq(Tag)) /\ call.gid \in Nat
      /\ call.gid < Len(call.tag_groups)
  BY CallParts DEF CallOk
<1>2. call.gid + 1 \in DOMAIN call.tag_groups
  BY <1>1
<1>3. call.tag_groups[call.gid + 1] \in Seq(Tag)
  BY <1>1, <1>2
<1> QED BY <1>2, <1>3 DEF PieceTags, CallOk

\* Between reads only the groups and what is noted of them matter.
LEMMA NotReading ==
    ASSUME "at" \in DOMAIN call', call'.at \notin ReadsAt,
           ItemsOk(groups'), TablesOk', Settled', ReadsOwnTags'
    PROVE  ReadInv'
BY DEF ReadInv

\* A result that is not a read's needs no rows.
LEMMA NoRows == ASSUME result'.op # "read" PROVE ReadsOwnTags'
BY DEF ReadsOwnTags

LEMMA TablesStay ==
    ASSUME TablesOk, UNCHANGED <<groups, tables, torn>> PROVE TablesOk'
BY DEF TablesOk

\* What is settled stays so while the groups stay and no rebuild is in its middle.
LEMMA SettledStays ==
    ASSUME Settled, UNCHANGED <<groups, tables, torn>>, call.at # "remove" PROVE Settled'
BY DEF Settled

LEMMA ReadRaised ==
    ASSUME ReadInv, Raise, UNCHANGED <<groups, tables, torn>>, call.at # "remove"
    PROVE  ReadInv'
<1>1. "at" \in DOMAIN call' /\ call'.at \notin ReadsAt /\ result'.op # "read"
  BY DEF Raise, Idle, NoResult, ReadsAt
<1>2. TablesOk' /\ Settled'
  BY TablesStay, SettledStays DEF ReadInv
<1> QED BY <1>1, <1>2, NotReading, NoRows DEF ReadInv

LEMMA UseServerGroupReads == ASSUME ReadInv, UseServerGroup PROVE ReadInv'
<1>1. CallOk /\ call.at = "group" /\ ~IsNew /\ UNCHANGED <<groups, tables, torn, result>>
  BY DEF UseServerGroup, ReadInv, ReadsAt
<1>2. PICK at \in {"rebuild", "use"} :
        call' = [call EXCEPT !.at = at] /\ (at = "rebuild" => call.rebuild)
  BY DEF UseServerGroup
<1>3. call \in ReadCall /\ at \in ReadsAt
  BY <1>1 DEF CallOk, ReadsAt
<1>4. /\ call' \in ReadCall /\ call'.at = at /\ "at" \in DOMAIN call'
      /\ call'.name = call.name /\ call'.rebuild = call.rebuild /\ call'.gid = call.gid
      /\ call'.tag_groups = call.tag_groups /\ call'.num_groups = call.num_groups
      /\ call'.rows = call.rows /\ call'.server_handles = call.server_handles
  BY <1>2, <1>3 DEF ReadCall
<1>5. sub_group' = sub_group /\ sub_group \in DOMAIN groups
  BY <1>1, <1>4 DEF sub_group, IsNew
<1>6. call.name # NoName /\ (call.rebuild => call.tag_groups # <<>>)
  BY <1>1 DEF IsNew, CallOk
<1>7. CallOk'
  BY <1>1, <1>2, <1>4, <1>5, <1>6 DEF CallOk
<1>8. TablesOk' /\ Settled' /\ ItemsOk(groups') /\ ReadsOwnTags'
  BY <1>1, TablesStay, SettledStays DEF ReadInv, ReadsOwnTags
<1>9. Asks'
  BY <1>4 DEF Asks
<1>10. ASSUME Clean'
       PROVE  call'.rows \in Seq(OwnRows(call'.rebuild)) /\ HandlesOk(call', groups', _group_valid_tags')
  <2>1. Clean
    BY <1>1, <1>4, <1>10 DEF Clean
  <2>2. call.rows \in Seq(OwnRows(call.rebuild)) /\ HandlesOk(call, groups, _group_valid_tags)
    BY <1>1, <2>1 DEF ReadInv, ReadsAt
  <2> QED BY <1>2, <1>4, <2>2 DEF HandlesOk
<1> QED BY <1>4, <1>7, <1>8, <1>9, <1>10 DEF ReadInv

LEMMA AddGroupReads == ASSUME ReadInv, AddGroup PROVE ReadInv'
<1>1. /\ CallOk /\ call.at = "group" /\ IsNew /\ torn' = torn \ {sub_group}
      /\ groups' = With(groups, sub_group, <<>>)
      /\ UNCHANGED <<_group_tags, _group_valid_tags, _group_server_handles>>
  BY DEF AddGroup, ReadInv, ReadsAt
<1>2. /\ DOMAIN groups' = DOMAIN groups \cup {sub_group}
      /\ groups'[sub_group] = <<>>
      /\ \A g \in DOMAIN groups \ {sub_group} : groups'[g] = groups[g]
  BY <1>1 DEF With
<1>3. ItemsOk(groups')
  BY <1>2, FewerItems DEF ReadInv
<1>4. /\ \A g \in DOMAIN _group_tags : g # Anonymous => g # sub_group /\ g \in DOMAIN groups
      /\ \A n \in DOMAIN _groups : n # NoName /\ _groups[n] \in Nat
  <2>1. TablesOk
    BY DEF ReadInv
  <2>2. sub_group = Anonymous \/ sub_group \notin DOMAIN groups
    BY <1>1, CallParts DEF IsNew
  <2> QED BY <2>1, <2>2 DEF TablesOk
<1>5. \A n \in DOMAIN _groups' : n # NoName /\ _groups'[n] \in Nat
  <2>1. CASE UNCHANGED _groups
    BY <1>4, <2>1
  <2>2. CASE call.name # NoName /\ _groups' = With(_groups, call.name, Len(call.tag_groups))
    <3>1. Len(call.tag_groups) \in Nat
      BY <1>1, CallParts
    <3> QED BY <1>4, <2>2, <3>1 DEF With
  <2> QED BY <2>1, <2>2 DEF AddGroup
<1>6. TablesOk'
  <2>1. TablesOk
    BY DEF ReadInv
  <2> QED BY <1>1, <1>2, <1>4, <1>5, <2>1 DEF TablesOk
<1>7. Settled'
  <2> SUFFICES ASSUME NEW g \in DOMAIN _group_tags' \ (torn' \cup {Anonymous})
               PROVE  Matches(groups'[g], _group_valid_tags'[g], _group_server_handles'[g])
    BY DEF Settled
  <2>1. g \in DOMAIN _group_tags \ (torn \cup {Anonymous}) /\ groups'[g] = groups[g]
    BY <1>1, <1>2, <1>4
  <2> QED BY <1>1, <2>1 DEF ReadInv, Settled
<1>8. CASE Raise
  <2>1. "at" \in DOMAIN call' /\ call'.at \notin ReadsAt /\ result'.op # "read"
    BY <1>8 DEF Raise, Idle, NoResult, ReadsAt
  <2> QED BY <1>3, <1>6, <1>7, <2>1, NotReading, NoRows
<1>9. CASE call.tag_groups # <<>> /\ call' = [call EXCEPT !.at = "fill"] /\ UNCHANGED result
  <2>1. /\ call' \in ReadCall /\ call'.at = "fill" /\ "at" \in DOMAIN call'
        /\ call'.name = call.name /\ call'.rebuild = call.rebuild /\ call'.gid = call.gid
        /\ call'.tag_groups = call.tag_groups /\ call'.num_groups = call.num_groups
        /\ call'.rows = call.rows /\ call'.server_handles = call.server_handles
    BY <1>1, <1>9 DEF CallOk, ReadCall, ReadsAt
  <2>2. sub_group' = sub_group
    BY <2>1 DEF sub_group
  <2>3. CallOk'
    BY <1>1, <1>2, <1>9, <2>1, <2>2 DEF CallOk
  <2>4. Asks' /\ ReadsOwnTags'
    BY <1>1, <2>1, <2>3 DEF Asks, ReadsOwnTags, CallOk, NoResult
  <2>5. ASSUME Clean'
        PROVE  /\ call'.rows \in Seq(OwnRows(call'.rebuild))
               /\ HandlesOk(call', groups', _group_valid_tags')
    <3>1. Clean
      <4> SUFFICES ASSUME NEW j \in Nat, j < call.gid PROVE <<call.name, j>> \notin torn
        BY <1>1 DEF Clean
      <4>1. <<call.name, j>> \notin torn'
        BY <2>1, <2>5 DEF Clean
      <4>2. CASE call.name = NoName
        BY <1>1, <4>1, <4>2, CallParts DEF TablesOk, ReadInv
      <4>3. CASE call.name # NoName
        <5>1. <<call.name, j>> # sub_group
          BY <1>1, <4>3, CallParts
        <5> QED BY <1>1, <4>1, <5>1
      <4> QED BY <4>2, <4>3
    <3>2. call.rows \in Seq(OwnRows(call.rebuild)) /\ HandlesOk(call, groups, _group_valid_tags)
      BY <1>1, <3>1 DEF ReadInv, ReadsAt
    <3> QED BY <2>1, <3>2 DEF HandlesOk
  <2> QED BY <1>3, <1>6, <1>7, <2>1, <2>3, <2>4, <2>5 DEF ReadInv
<1>10. call.name = NoName => call.tag_groups # <<>>
  BY <1>1 DEF CallOk
<1> QED BY <1>8, <1>9, <1>10, Zenon DEF AddGroup

\* A step that leaves the place of the call, which is not at its beginning, and
\* the torn groups does not undo what was read before.
LEMMA CleanBefore ==
    ASSUME ReadInv, call.at \in ReadsAt, call.at # "group", UNCHANGED torn,
           call'.name = call.name, call'.gid = call.gid, call'.at # "group", Clean'
    PROVE  /\ Clean /\ sub_group \notin torn
           /\ call.rows \in Seq(OwnRows(call.rebuild))
           /\ HandlesOk(call, groups, _group_valid_tags)
<1>1. Clean
  BY DEF Clean
<1>2. sub_group \notin torn
  <2>1. CallOk /\ TablesOk
    BY DEF ReadInv
  <2>2. CASE call.name = NoName
    BY <2>1, <2>2, CallParts DEF TablesOk
  <2>3. CASE call.name # NoName
    <3>1. sub_group = <<call.name, call.gid>> /\ call.gid \in Nat
      BY <2>1, <2>3, CallParts
    <3> QED BY <1>1, <3>1 DEF Clean
  <2> QED BY <2>2, <2>3
<1> QED BY <1>1, <1>2 DEF ReadInv

LEMMA FillGroupReads == ASSUME ReadInv, FillGroup PROVE ReadInv'
<1>1. CallOk /\ call.at = "fill" /\ UNCHANGED <<_groups, torn>>
  BY DEF FillGroup, ReadInv, ReadsAt
<1>2. CASE Raise /\ UNCHANGED <<groups, _group_tags, _group_valid_tags, _group_server_handles>>
  BY <1>1, <1>2, ReadRaised
<1>3. ASSUME NEW items \in Added(PieceTags),
             groups' = [groups EXCEPT ![sub_group] = items],
             _group_server_handles' = With(_group_server_handles, sub_group, Entered(items)),
             Note(PieceTags, Tags(items)),
             call' = [call EXCEPT !.at = "ask", !.tags = PieceTags, !.valid_tags = Tags(items),
                                  !.whose = "own", !.server_handles = Handles(items)],
             UNCHANGED result
      PROVE  ReadInv'
  <2>1. call.tag_groups # <<>> /\ sub_group \in DOMAIN groups
    BY <1>1 DEF CallOk
  <2>2. PieceTags \in Seq(Tag) /\ IsInjective(PieceTags)
    BY <1>1, <2>1, ReadPiece
  <2>3. New(items, groups[sub_group])
    BY <2>1, <2>2, AddedIsNew DEF ReadInv
  <2>4. /\ items \in Seq(Item) /\ Tags(items) \in Seq(Tag) /\ Handles(items) \in Seq(Nat)
        /\ Len(Handles(items)) = Len(items) /\ DOMAIN Handles(items) = DOMAIN items
        /\ \A i \in DOMAIN items : Handles(items)[i] = items[i].handle
    BY <2>3, TagsAndHandles DEF New, Handles
  <2>5. PICK table : table = Entered(items) /\ Matches(items, Tags(items), table)
    BY <2>3, NewMatch
  <2>6. PICK tags \in Seq(Tag), valid \in Seq(Tag), handles \in Seq(Nat) :
          tags = PieceTags /\ valid = Tags(items) /\ handles = Handles(items)
    BY <2>2, <2>4
  <2>7. /\ DOMAIN groups' = DOMAIN groups /\ groups'[sub_group] = items
        /\ \A g \in DOMAIN groups \ {sub_group} : groups'[g] = groups[g]
    BY <1>3, <2>1
  <2>8. ItemsOk(groups')
    <3>1. ItemsOk([groups EXCEPT ![sub_group] = items])
      BY <2>1, <2>3, OneGroupChanges DEF ReadInv, New
    <3> QED BY <1>3, <3>1
  <2>9. /\ DOMAIN _group_tags' = DOMAIN _group_tags \cup {sub_group}
        /\ DOMAIN _group_valid_tags' = DOMAIN _group_valid_tags \cup {sub_group}
        /\ DOMAIN _group_server_handles' = DOMAIN _group_server_handles \cup {sub_group}
        /\ _group_tags'[sub_group] = tags /\ _group_valid_tags'[sub_group] = valid
        /\ _group_server_handles'[sub_group] = table
    BY <1>3, <2>5, <2>6 DEF Note, With
  <2>10. /\ \A g \in DOMAIN _group_tags \ {sub_group} : _group_tags'[g] = _group_tags[g]
         /\ \A g \in DOMAIN _group_valid_tags \ {sub_group} : _group_valid_tags'[g] = _group_valid_tags[g]
         /\ \A g \in DOMAIN _group_server_handles \ {sub_group} :
              _group_server_handles'[g] = _group_server_handles[g]
    BY <1>3 DEF Note, With
  <2>11. TablesOk'
    <3>1. TablesOk
      BY DEF ReadInv
    <3> QED BY <1>1, <2>1, <2>7, <2>9, <2>10, <3>1 DEF TablesOk
  <2>12. Settled'
    <3> SUFFICES ASSUME NEW g \in DOMAIN _group_tags' \ (torn' \cup {Anonymous})
                 PROVE  Matches(groups'[g], _group_valid_tags'[g], _group_server_handles'[g])
      BY DEF Settled
    <3>1. CASE g = sub_group
      BY <2>5, <2>6, <2>7, <2>9, <3>1
    <3>2. CASE g # sub_group
      <4>1. g \in DOMAIN _group_tags /\ g \in DOMAIN groups /\ g \in DOMAIN _group_valid_tags
            /\ g \in DOMAIN _group_server_handles
        BY <2>9, <3>2 DEF ReadInv, TablesOk
      <4>2. Matches(groups[g], _group_valid_tags[g], _group_server_handles[g])
        BY <1>1, <4>1 DEF ReadInv, Settled
      <4> QED BY <2>7, <2>10, <3>2, <4>1, <4>2
    <3> QED BY <3>1, <3>2
  <2>13. call' = [call EXCEPT !.at = "ask", !.tags = tags, !.valid_tags = valid,
                     !.whose = "own", !.server_handles = handles]
    BY <1>3, <2>6
  <2>14. /\ call' \in ReadCall /\ call'.at = "ask" /\ "at" \in DOMAIN call'
         /\ call'.name = call.name /\ call'.rebuild = call.rebuild /\ call'.gid = call.gid
         /\ call'.tag_groups = call.tag_groups /\ call'.num_groups = call.num_groups
         /\ call'.rows = call.rows /\ call'.server_handles = handles /\ call'.valid_tags = valid
    BY <1>1, <2>13 DEF CallOk, ReadCall, ReadsAt
  <2>15. sub_group' = sub_group
    BY <2>14 DEF sub_group
  <2>16. CallOk'
    BY <1>1, <1>3, <2>1, <2>7, <2>14, <2>15 DEF CallOk
  <2>17. Asks' /\ ReadsOwnTags'
    <3>1. Asks'
      BY <2>5, <2>6, <2>7, <2>9, <2>14, <2>15 DEF Asks
    <3>2. result' = NoResult
      BY <2>16 DEF CallOk
    <3> QED BY <3>1, <3>2, NoRows DEF NoResult
  <2>18. ASSUME Clean'
         PROVE  /\ call'.rows \in Seq(OwnRows(call'.rebuild))
                /\ HandlesOk(call', groups', _group_valid_tags')
    <3>1. call.rows \in Seq(OwnRows(call.rebuild))
      BY <1>1, <2>14, <2>18, CleanBefore DEF CallOk, ReadCall
    <3>2. From(handles, items, 0)
      BY <2>4, <2>6 DEF From
    <3>3. HandlesOk(call', groups', _group_valid_tags')
      BY <2>7, <2>14, <2>15, <3>2 DEF HandlesOk, sub_group
    <3> QED BY <2>14, <3>1, <3>3
  <2> QED BY <2>8, <2>11, <2>12, <2>14, <2>16, <2>17, <2>18 DEF ReadInv
<1> QED BY <1>2, <1>3, Zenon DEF FillGroup

LEMMA UseGroupReads == ASSUME ReadInv, UseGroup PROVE ReadInv'
<1>1. CallOk /\ call.at = "use" /\ UNCHANGED <<groups, tables, torn>> /\ sub_group \in DOMAIN groups
  BY DEF UseGroup, ReadInv, ReadsAt, CallOk
<1>2. CASE Raise
  BY <1>1, <1>2, ReadRaised
<1>3. CASE /\ sub_group \in DOMAIN _group_tags
           /\ call' = [call EXCEPT !.at = "ask", !.tags = _group_tags[sub_group],
                    !.valid_tags = _group_valid_tags[sub_group],
                    !.whose = "own", !.server_handles = Handles(groups[sub_group])]
           /\ UNCHANGED result
  <2>1. PICK items \in Seq(Item) : items = groups[sub_group]
    BY <1>1 DEF ReadInv, ItemsOk
  <2>2. PICK tags \in Seq(Tag), valid \in Seq(Tag), handles \in Seq(Nat) :
          /\ tags = _group_tags[sub_group] /\ valid = _group_valid_tags[sub_group]
          /\ handles = Handles(items)
    BY <1>3, <2>1, TagsAndHandles DEF ReadInv, TablesOk
  <2>3. From(handles, items, 0)
    <3>1. /\ Len(handles) = Len(items) /\ DOMAIN handles = DOMAIN items
          /\ Len(items) \in Nat /\ DOMAIN items = 1 .. Len(items)
          /\ \A i \in DOMAIN items : handles[i] = items[i].handle
      BY <2>2, TagsAndHandles DEF Handles
    <3> QED BY <3>1 DEF From
  <2>4. call' = [call EXCEPT !.at = "ask", !.tags = tags, !.valid_tags = valid,
                    !.whose = "own", !.server_handles = handles]
    BY <1>3, <2>1, <2>2
  <2>5. /\ call' \in ReadCall /\ call'.at = "ask" /\ "at" \in DOMAIN call'
        /\ call'.name = call.name /\ call'.rebuild = call.rebuild /\ call'.gid = call.gid
        /\ call'.tag_groups = call.tag_groups /\ call'.num_groups = call.num_groups
        /\ call'.rows = call.rows /\ call'.server_handles = handles /\ call'.valid_tags = valid
    BY <1>1, <2>4 DEF CallOk, ReadCall, ReadsAt
  <2>6. sub_group' = sub_group
    BY <2>5 DEF sub_group
  <2>7. CallOk'
    BY <1>1, <1>3, <2>5, <2>6 DEF CallOk
  <2>8. ReadsOwnTags' /\ TablesOk' /\ Settled' /\ ItemsOk(groups')
    BY <1>1, <2>7, NoRows, TablesStay, SettledStays DEF CallOk, NoResult, ReadInv
  <2>9. sub_group \notin torn => Asks'
    <3> SUFFICES ASSUME sub_group \notin torn
                 PROVE  Matches(items, valid, _group_server_handles[sub_group])
      BY <1>1, <2>1, <2>5, <2>6 DEF Asks
    <3>1. sub_group # Anonymous
      BY <1>1, CallParts DEF CallOk
    <3> QED BY <1>1, <1>3, <2>1, <2>2, <3>1 DEF ReadInv, Settled
  <2>10. ASSUME Clean'
         PROVE  /\ call'.rows \in Seq(OwnRows(call'.rebuild))
                /\ HandlesOk(call', groups', _group_valid_tags')
    <3>1. call.rows \in Seq(OwnRows(call.rebuild))
      BY <1>1, <2>5, <2>10, CleanBefore DEF CallOk, ReadCall
    <3>2. HandlesOk(call', groups', _group_valid_tags')
      BY <1>1, <2>1, <2>3, <2>5, <2>6 DEF HandlesOk, sub_group
    <3> QED BY <2>5, <3>1, <3>2
  <2> QED BY <1>1, <2>5, <2>6, <2>7, <2>8, <2>9, <2>10 DEF ReadInv
<1> QED BY <1>2, <1>3, Zenon DEF UseGroup

\* With no tags to add nothing is added.
LEMMA AddedNone ==
    ASSUME ItemsOk(groups), sub_group \in DOMAIN groups, NEW tags, tags = <<>>,
           NEW added \in Added(tags)
    PROVE  added = <<>>
<1>1. tags \in Seq(Tag) /\ IsInjective(tags) /\ ToSet(tags) = {}
  BY DEF IsInjective, ToSet
<1>2. New(added, groups[sub_group]) /\ ToSet(Tags(added)) = {}
  BY <1>1, AddedIsNew
<1>3. PICK items \in Seq(Item) : items = added
  BY <1>2 DEF New
<1>4. \A i \in DOMAIN items : FALSE
  BY <1>2, <1>3 DEF Tags, ToSet
<1>5. Len(items) = 0
  <2>1. Len(items) \in Nat /\ DOMAIN items = 1 .. Len(items)
    OBVIOUS
  <2>2. ~(Len(items) > 0)
    <3>1. Len(items) > 0 => 1 \in DOMAIN items
      BY <2>1
    <3> QED BY <1>4, <3>1
  <2> QED BY <2>1, <2>2
<1> QED BY <1>3, <1>5

LEMMA AddNewTagsReads == ASSUME ReadInv, AddNewTags PROVE ReadInv'
<1>1. /\ CallOk /\ call.at = "rebuild" /\ UNCHANGED <<_groups, _group_tags, _group_valid_tags, torn>>
      /\ sub_group \in DOMAIN groups /\ call.rebuild /\ call.name # NoName
      /\ call.tag_groups # <<>>
  BY DEF AddNewTags, ReadInv, ReadsAt, CallOk
<1> DEFINE known_valid == _group_valid_tags[sub_group]
           add == Without(PieceTags, known_valid)
<1>2. CASE Raise /\ UNCHANGED <<groups, _group_server_handles>>
  BY <1>1, <1>2, ReadRaised
<1>3. ASSUME sub_group \in DOMAIN _group_valid_tags, NEW added \in Added(add),
             groups' = [groups EXCEPT ![sub_group] = @ \o added],
             _group_server_handles' =
                IF add = <<>> THEN _group_server_handles
                ELSE With(_group_server_handles, sub_group, Entered(added)),
             call' = [call EXCEPT !.at = "remove", !.tags = PieceTags,
                         !.valid_tags = Rebuilt(known_valid, Tags(added)),
                         !.whose = IF add # <<>> THEN "own"
                                   ELSE IF @ = "none" THEN @ ELSE "previous",
                         !.server_handles = IF add = <<>> THEN @ ELSE Handles(added)],
             UNCHANGED result
      PROVE  ReadInv'
  <2>1. TablesOk /\ sub_group # Anonymous /\ sub_group = <<call.name, call.gid>>
        /\ sub_group \in DOMAIN _group_tags /\ sub_group \in DOMAIN _group_server_handles
    BY <1>1, <1>3, CallParts DEF ReadInv, TablesOk
  <2>2. PICK old \in Seq(Item) : old = groups[sub_group]
    BY <1>1 DEF ReadInv, ItemsOk
  <2>3. PICK valid \in Seq(Tag) : valid = known_valid
    BY <1>3, <2>1 DEF TablesOk
  <2>4. PICK tags \in Seq(Tag) : tags = PieceTags /\ IsInjective(tags)
    BY <1>1, ReadPiece
  <2>5. PICK add_tags \in Seq(Tag) :
          /\ add_tags = add /\ IsInjective(add_tags)
          /\ ToSet(add_tags) = {t \in ToSet(tags) : t \notin ToSet(valid)}
    BY <2>3, <2>4, WithoutIs
  <2>6. PICK items \in Seq(Item) :
          /\ items = added /\ New(items, old) /\ ToSet(Tags(items)) \subseteq ToSet(add_tags)
    BY <1>1, <2>2, <2>5, AddedIsNew DEF ReadInv, New
  <2>7. /\ IsInjective(Tags(items)) /\ Tags(items) \in Seq(Tag) /\ Len(Tags(items)) = Len(items)
        /\ Handles(items) \in Seq(Nat) /\ Len(Handles(items)) = Len(items)
        /\ DOMAIN items = 1 .. Len(items) /\ Len(items) \in Nat
        /\ \A i \in DOMAIN items : /\ Tags(items)[i] = items[i].tag
                                   /\ Handles(items)[i] = items[i].handle
    BY <2>6, TagsAndHandles DEF New
  <2>8. \A i \in DOMAIN items : items[i].tag \in ToSet(tags) /\ items[i].tag \notin ToSet(valid)
    <3>1. \A i \in DOMAIN items : items[i].tag \in ToSet(Tags(items))
      BY DEF ToSet, Tags
    <3> QED BY <2>5, <2>6, <3>1
  <2>9. PICK all \in Seq(Item) : all = old \o items
    BY JoinedIs
  <2>10. PICK handles \in Seq(Nat) :
           handles = IF add_tags = <<>> THEN call.server_handles ELSE Handles(items)
    BY <1>1, <2>7, CallParts
  <2>11. PICK whose \in {"none", "own", "previous"} :
           /\ whose = IF add_tags # <<>> THEN "own"
                      ELSE IF call.whose = "none" THEN call.whose ELSE "previous"
           /\ add_tags = <<>> => whose # "own"
    OBVIOUS
  <2>12. PICK list \in Seq(Tag) : list = valid \o Tags(items)
    BY <2>7, JoinedIs
  <2>13. PICK table :
           table = IF add_tags = <<>> THEN _group_server_handles[sub_group] ELSE Entered(items)
    OBVIOUS
  <2>14. call' = [call EXCEPT !.at = "remove", !.tags = tags, !.valid_tags = list,
                    !.whose = whose, !.server_handles = handles]
    BY <1>3, <2>3, <2>4, <2>5, <2>6, <2>10, <2>11, <2>12 DEF Rebuilt
  <2>15. /\ call' \in ReadCall /\ call'.at = "remove" /\ "at" \in DOMAIN call'
         /\ call'.name = call.name /\ call'.rebuild = call.rebuild /\ call'.gid = call.gid
         /\ call'.tag_groups = call.tag_groups /\ call'.num_groups = call.num_groups
         /\ call'.rows = call.rows /\ call'.server_handles = handles /\ call'.whose = whose
         /\ call'.valid_tags = list /\ call'.tags = tags
    BY <1>1, <2>14 DEF CallOk, ReadCall, ReadsAt
  <2>16. sub_group' = sub_group
    BY <2>15 DEF sub_group
  <2>17. /\ DOMAIN groups' = DOMAIN groups /\ groups'[sub_group] = all
         /\ \A g \in DOMAIN groups \ {sub_group} : groups'[g] = groups[g]
    BY <1>1, <1>3, <2>2, <2>6, <2>9
  <2>18. /\ DOMAIN _group_server_handles' = DOMAIN _group_server_handles
         /\ _group_server_handles'[sub_group] = table
         /\ \A g \in DOMAIN _group_server_handles \ {sub_group} :
              _group_server_handles'[g] = _group_server_handles[g]
    BY <1>3, <2>1, <2>5, <2>6, <2>13 DEF With
  <2>19. /\ Len(all) = Len(old) + Len(items) /\ Len(old) \in Nat /\ DOMAIN old = 1 .. Len(old)
         /\ \A i \in 1 .. Len(old) : all[i] = old[i]
         /\ \A i \in 1 .. Len(items) : all[Len(old) + i] = items[i]
    BY <2>9, JoinedIs
  <2>20. \A k \in DOMAIN all : \/ \E i \in DOMAIN old : k = i /\ all[k] = old[i]
                              \/ \E i \in DOMAIN items : k = Len(old) + i /\ all[k] = items[i]
    BY <2>9, JoinedParts
  <2>21. ItemsOk(groups')
    <3>1. \A i, j \in DOMAIN old : old[i].handle = old[j].handle => i = j
      BY <1>1, <2>2 DEF ReadInv, ItemsOk, Distinct
    <3>2. /\ \A i, j \in DOMAIN items : items[i].handle = items[j].handle => i = j
          /\ \A i \in DOMAIN items, j \in DOMAIN old : items[i].handle # old[j].handle
      BY <2>6 DEF New
    <3>3. ASSUME NEW k \in DOMAIN all, NEW l \in DOMAIN all, all[k].handle = all[l].handle
          PROVE  k = l
      <4>1. CASE (\E i \in DOMAIN old : k = i /\ all[k] = old[i])
                 /\ \E i \in DOMAIN old : l = i /\ all[l] = old[i]
        BY <3>1, <3>3, <4>1
      <4>2. CASE (\E i \in DOMAIN items : k = Len(old) + i /\ all[k] = items[i])
                 /\ \E i \in DOMAIN items : l = Len(old) + i /\ all[l] = items[i]
        BY <3>2, <3>3, <4>2
      <4> QED BY <2>20, <3>2, <3>3, <4>1, <4>2
    <3>5. PICK m \in Nat : \A i \in DOMAIN items : items[i].handle <= m
      BY <2>6 DEF New
    <3>6. PICK n \in Nat : \A i \in DOMAIN old : old[i].handle <= n
      BY <1>1, <2>2 DEF ReadInv, ItemsOk
    <3>7. ASSUME NEW k \in DOMAIN all PROVE all[k].handle <= m + n
      <4>1. all[k] \in Item
        OBVIOUS
      <4>2. all[k].handle \in Nat /\ (all[k].handle <= m \/ all[k].handle <= n)
        BY <2>20, <3>5, <3>6, <4>1 DEF Item
      <4> QED BY <4>2
    <3>8. m + n \in Nat
      OBVIOUS
    <3>9. ItemsOk([groups EXCEPT ![sub_group] = all])
      BY <1>1, <3>3, <3>7, <3>8, OneGroupChanges DEF ReadInv
    <3>10. groups' = [groups EXCEPT ![sub_group] = all]
      BY <1>3, <2>2, <2>6, <2>9
    <3> QED BY <3>9, <3>10
  <2>22. TablesOk'
    BY <1>1, <2>1, <2>17, <2>18 DEF TablesOk
  <2>23. Settled'
    <3> SUFFICES ASSUME NEW g \in DOMAIN _group_tags \ (torn \cup {Anonymous}), g # sub_group
                 PROVE  Matches(groups'[g], _group_valid_tags'[g], _group_server_handles'[g])
      BY <1>1, <2>15, <2>16 DEF Settled
    <3>1. Matches(groups[g], _group_valid_tags[g], _group_server_handles[g])
      BY <1>1 DEF ReadInv, Settled
    <3> QED BY <1>1, <2>1, <2>17, <2>18, <3>1 DEF TablesOk
  <2>24. CallOk'
    BY <1>1, <1>3, <2>1, <2>15, <2>16, <2>17 DEF CallOk
  <2>25. ReadsOwnTags'
    BY <2>24, NoRows DEF CallOk, NoResult
  <2>26. ASSUME sub_group \notin torn
         PROVE  Matches(old, valid, _group_server_handles[sub_group])
    BY <1>1, <2>1, <2>2, <2>3, <2>26 DEF ReadInv, Settled
  <2>27. ASSUME sub_group \notin torn PROVE Asks'
    <3>1. Matches(old, valid, _group_server_handles[sub_group])
      BY <2>26, <2>27
    <3>2. \A i \in DOMAIN valid : valid[i] \in DOMAIN _group_server_handles[sub_group]
      BY <3>1 DEF Matches
    <3>3. /\ \A i \in DOMAIN items : /\ items[i].tag \in DOMAIN table
                                     /\ table[items[i].tag] = items[i].handle
          /\ \A t \in ToSet(valid) :
               t \in DOMAIN table /\ table[t] = _group_server_handles[sub_group][t]
      <4>1. CASE add_tags = <<>>
        <5>1. items = <<>>
          BY <1>1, <2>5, <2>6, <4>1, AddedNone DEF ReadInv
        <5> QED BY <2>13, <3>2, <4>1, <5>1 DEF ToSet
      <4>2. CASE add_tags # <<>>
        <5>1. \A t \in ToSet(valid) : t \in DOMAIN _group_server_handles[sub_group]
          BY <3>2 DEF ToSet
        <5>2. \A t \in ToSet(valid) : t \notin ToSet(Tags(items))
          BY <2>5, <2>6
        <5>3. table = Entered(items)
          BY <2>13, <4>2
        <5> QED BY <2>1, <2>7, <5>1, <5>2, <5>3, EnteredIs
      <4> QED BY <4>1, <4>2
    <3>4. Matches(all, list, table)
      BY <2>7, <2>8, <2>9, <2>12, <3>1, <3>3, MatchesAppended
    <3>5. \A i \in DOMAIN list : IF i <= Len(valid) THEN list[i] = valid[i] ELSE list[i] \in ToSet(tags)
      <4> SUFFICES ASSUME NEW i \in DOMAIN list
                   PROVE  IF i <= Len(valid) THEN list[i] = valid[i] ELSE list[i] \in ToSet(tags)
        OBVIOUS
      <4>1. /\ Len(valid) \in Nat /\ DOMAIN list = 1 .. Len(valid) + Len(items)
            /\ \A k \in 1 .. Len(valid) : list[k] = valid[k]
            /\ \A k \in 1 .. Len(items) : list[Len(valid) + k] = Tags(items)[k]
            /\ \A k \in 1 .. Len(valid) + Len(items) :
                 k \in 1 .. Len(valid) \/ \E l \in 1 .. Len(items) : k = Len(valid) + l
        <5>1. PICK new \in Seq(Tag) : new = Tags(items) /\ Len(new) = Len(items)
          BY <2>7
        <5>2. list = valid \o new
          BY <2>12, <5>1
        <5>3. /\ Len(valid \o new) = Len(valid) + Len(new)
              /\ \A k \in 1 .. Len(valid) : (valid \o new)[k] = valid[k]
              /\ \A k \in 1 .. Len(new) : (valid \o new)[Len(valid) + k] = new[k]
          BY JoinedIs
        <5>4. \A k \in 1 .. Len(valid) + Len(new) :
                k \in 1 .. Len(valid) \/ \E l \in 1 .. Len(new) : k = Len(valid) + l
          BY JoinedIs
        <5>5. Len(valid) \in Nat /\ DOMAIN list = 1 .. Len(list)
          OBVIOUS
        <5> QED BY <5>1, <5>2, <5>3, <5>4, <5>5
      <4>2. CASE i \in 1 .. Len(valid)
        BY <4>1, <4>2
      <4>3. CASE \E l \in 1 .. Len(items) : i = Len(valid) + l
        <5>1. PICK l \in 1 .. Len(items) : i = Len(valid) + l
          BY <4>3
        <5>2. list[i] \in ToSet(tags)
          BY <2>7, <2>8, <4>1, <5>1
        <5>3. ~(i <= Len(valid))
          BY <4>1, <5>1
        <5> QED BY <5>2, <5>3
      <4> QED BY <4>1, <4>2, <4>3
    <3>6. Len(valid) <= Len(list)
      <4>1. Len(list) = Len(valid) + Len(Tags(items))
        BY <2>7, <2>12, JoinedIs
      <4>2. Len(valid) \in Nat
        OBVIOUS
      <4> QED BY <2>7, <4>1, <4>2
    <3>7. Amid(all, valid, call', table)
      BY <2>15, <3>4, <3>5, <3>6 DEF Amid
    <3> QED BY <1>1, <2>3, <2>15, <2>16, <2>17, <2>18, <3>7 DEF Asks
  <2>28. ASSUME Clean'
         PROVE  /\ call'.rows \in Seq(OwnRows(call'.rebuild))
                /\ HandlesOk(call', groups', _group_valid_tags')
    <3>1. /\ call.rows \in Seq(OwnRows(call.rebuild)) /\ sub_group \notin torn
          /\ HandlesOk(call, groups, _group_valid_tags)
      BY <1>1, <2>15, <2>28, CleanBefore DEF CallOk, ReadCall
    <3>2. CASE add_tags = <<>>
      BY <2>11, <2>15, <3>1, <3>2 DEF HandlesOk
    <3>3. CASE add_tags # <<>>
      <4>1. Len(valid) = Len(old)
        BY <2>26, <3>1 DEF Matches
      <4>2. handles = Handles(items)
        BY <2>10, <3>3
      <4>3. From(handles, all, Len(valid))
        <5>1. Len(handles) = Len(items) /\ DOMAIN handles = 1 .. Len(items)
          BY <2>7, <4>2
        <5>2. Len(handles) + Len(valid) = Len(all)
          BY <2>7, <2>19, <4>1, <5>1
        <5>3. \A k \in DOMAIN handles : handles[k] = all[Len(valid) + k].handle
          BY <2>7, <2>19, <4>1, <4>2, <5>1
        <5> QED BY <5>2, <5>3 DEF From
      <4>4. _group_valid_tags'[sub_group'] = valid /\ groups'[sub_group'] = all
        BY <1>1, <2>3, <2>16, <2>17
      <4> QED BY <2>15, <3>1, <4>3, <4>4 DEF HandlesOk, sub_group
    <3> QED BY <3>2, <3>3
  <2> QED BY <1>1, <2>15, <2>16, <2>21, <2>22, <2>23, <2>24, <2>25, <2>27, <2>28 DEF ReadInv
<1> QED BY <1>2, <1>3, Zenon DEF AddNewTags

LEMMA RemoveOldTagsReads == ASSUME ReadInv, RemoveOldTags PROVE ReadInv'
<1>1. /\ CallOk /\ call.at = "remove" /\ UNCHANGED <<_groups, _group_server_handles>>
      /\ sub_group \in DOMAIN groups /\ call.rebuild /\ call.name # NoName
      /\ sub_group \in DOMAIN _group_tags
  BY DEF RemoveOldTags, ReadInv, ReadsAt, CallOk
<1>2. TablesOk /\ sub_group # Anonymous /\ sub_group = <<call.name, call.gid>> /\ call.gid \in Nat
      /\ sub_group \in DOMAIN _group_valid_tags
  BY <1>1, CallParts DEF ReadInv, TablesOk
<1>3. PICK old \in Seq(Tag) : old = _group_valid_tags[sub_group]
  BY <1>1, <1>2 DEF TablesOk
<1>4. PICK tags \in Seq(Tag), list \in Seq(Tag), handles \in Seq(Nat) :
        tags = call.tags /\ list = call.valid_tags /\ handles = call.server_handles
  BY <1>1, CallParts
<1>5. PICK del \in Seq(Tag) :
        /\ del = Without(_group_valid_tags[sub_group], call.tags)
        /\ ToSet(del) = {t \in ToSet(old) : t \notin ToSet(tags)}
  BY <1>3, <1>4, WithoutIs
<1>6. PICK valid \in Seq(Tag) : valid = Without(call.valid_tags, del)
  BY <1>4, WithoutIs
<1>7. PICK items \in Seq(Item) : items = groups[sub_group]
  BY <1>1 DEF ReadInv, ItemsOk
<1>8. PICK table : table = _group_server_handles[sub_group]
  OBVIOUS
<1>9. PICK stay \in SUBSET DOMAIN items :
        stay = {i \in DOMAIN items : items[i].handle \notin {table[t] : t \in ToSet(del)}}
  OBVIOUS
<1>10. PICK kept \in Seq(Item) : kept = Select(items, stay)
  BY SelectPicks
<1>11. HandlesDiffer(items)
  BY <1>1, <1>7 DEF ReadInv, ItemsOk, Distinct, HandlesDiffer
<1>12. CASE /\ Raise /\ torn' = torn \cup {sub_group}
            /\ UNCHANGED <<groups, _group_tags, _group_valid_tags>>
  <2>1. "at" \in DOMAIN call' /\ call'.at \notin ReadsAt /\ result'.op # "read"
    BY <1>12 DEF Raise, Idle, NoResult, ReadsAt
  <2>2. TablesOk'
    BY <1>1, <1>2, <1>12 DEF TablesOk
  <2>3. Settled'
    BY <1>1, <1>12 DEF ReadInv, Settled
  <2>4. ItemsOk(groups')
    BY <1>12 DEF ReadInv
  <2> QED BY <2>1, <2>2, <2>3, <2>4, NotReading, NoRows
<1>13. CASE /\ groups' = [groups EXCEPT ![sub_group] = kept]
            /\ Note(tags, valid)
            /\ call' = [call EXCEPT !.at = "ask", !.valid_tags = valid]
            /\ UNCHANGED <<result, torn>>
  <2>1. /\ DOMAIN groups' = DOMAIN groups /\ groups'[sub_group] = kept
        /\ \A g \in DOMAIN groups \ {sub_group} : groups'[g] = groups[g]
    BY <1>1, <1>13
  <2>2. /\ DOMAIN _group_tags' = DOMAIN _group_tags
        /\ DOMAIN _group_valid_tags' = DOMAIN _group_valid_tags
        /\ _group_tags'[sub_group] = tags /\ _group_valid_tags'[sub_group] = valid
        /\ \A g \in DOMAIN _group_tags \ {sub_group} : _group_tags'[g] = _group_tags[g]
        /\ \A g \in DOMAIN _group_valid_tags \ {sub_group} : _group_valid_tags'[g] = _group_valid_tags[g]
    BY <1>1, <1>2, <1>13 DEF Note, With
  <2>3. /\ call' \in ReadCall /\ call'.at = "ask" /\ "at" \in DOMAIN call'
        /\ call'.name = call.name /\ call'.rebuild = call.rebuild /\ call'.gid = call.gid
        /\ call'.tag_groups = call.tag_groups /\ call'.num_groups = call.num_groups
        /\ call'.rows = call.rows /\ call'.server_handles = handles
        /\ call'.valid_tags = valid /\ call'.whose = call.whose
    BY <1>1, <1>4, <1>13 DEF CallOk, ReadCall, ReadsAt
  <2>4. sub_group' = sub_group
    BY <2>3 DEF sub_group
  <2>5. CallOk'
    BY <1>1, <1>2, <1>13, <2>1, <2>3, <2>4 DEF CallOk
  <2>6. ReadsOwnTags'
    BY <2>5, NoRows DEF CallOk, NoResult
  <2>7. TablesOk'
    BY <1>1, <1>2, <1>13, <2>1, <2>2 DEF TablesOk
  <2>8. /\ \A k \in DOMAIN kept : Nth(stay, k) \in DOMAIN items /\ kept[k] = items[Nth(stay, k)]
        /\ \A k, l \in DOMAIN kept : Nth(stay, k) = Nth(stay, l) => k = l
    <3>1. DOMAIN kept = 1 .. Cardinality(stay)
      BY <1>10 DEF Select
    <3>2. \A k \in 1 .. Cardinality(stay) :
            Select(items, stay)[k] = items[Nth(stay, k)]
      BY DEF Select
    <3>4. IsFiniteSet(stay) /\ stay \in SUBSET Nat
      BY SelectPicks
    <3>5. \A k \in 1 .. Cardinality(stay) : Nth(stay, k) \in stay
      BY <3>4, NthIsMember
    <3>3. \A k, l \in 1 .. Cardinality(stay) : Nth(stay, k) = Nth(stay, l) => k = l
      BY SelectPicks
    <3> QED BY <1>10, <3>1, <3>2, <3>3, <3>5
  <2>9. ItemsOk(groups')
    <3>1. ASSUME NEW k \in DOMAIN kept, NEW l \in DOMAIN kept, kept[k].handle = kept[l].handle
          PROVE  k = l
      <4>1. Nth(stay, k) = Nth(stay, l)
        BY <1>11, <2>8, <3>1 DEF HandlesDiffer
      <4> QED BY <2>8, <4>1
    <3>4. PICK n \in Nat : \A i \in DOMAIN items : items[i].handle <= n
      BY <1>1, <1>7 DEF ReadInv, ItemsOk
    <3>5. \A k \in DOMAIN kept : kept[k].handle <= n
      BY <2>8, <3>4
    <3>6. ItemsOk([groups EXCEPT ![sub_group] = kept])
      BY <1>1, <3>1, <3>5, OneGroupChanges DEF ReadInv
    <3> QED BY <1>13, <3>6
  <2>10. ASSUME sub_group \notin torn
         PROVE  /\ Matches(kept, valid, table)
                /\ Len(items) = Len(list)
                /\ \A i \in DOMAIN items : i > Len(old) => i \in stay
    <3>1. Amid(items, old, call, table)
      BY <1>1, <1>3, <1>7, <1>8, <2>10 DEF ReadInv, Asks, ReadsAt
    <3>2. /\ Matches(items, list, table) /\ Len(old) \in Nat /\ Len(old) <= Len(list)
          /\ \A i \in DOMAIN list : IF i <= Len(old) THEN list[i] = old[i] ELSE list[i] \in ToSet(tags)
      BY <1>4, <3>1 DEF Amid
    <3>3. Len(items) = Len(list) /\ DOMAIN items = DOMAIN list /\ DOMAIN list = 1 .. Len(list)
          /\ DOMAIN old = 1 .. Len(old)
      BY <3>2 DEF Matches
    <3>4. ToSet(del) \subseteq ToSet(list)
      <4>1. \A i \in DOMAIN old : i \in DOMAIN list /\ list[i] = old[i]
        BY <3>2, <3>3
      <4>2. \A t \in ToSet(del) : \E i \in DOMAIN old : t = old[i]
        BY <1>5 DEF ToSet
      <4> QED BY <4>1, <4>2 DEF ToSet
    <3>5. /\ \A i \in DOMAIN items : i \in stay <=> list[i] \notin ToSet(del)
          /\ Matches(Select(items, stay), Without(list, del), table)
      <4>1. Stay(stay, items, table, del)
        BY <1>9 DEF Stay
      <4> QED BY <1>11, <3>2, <3>4, <4>1, MatchesSelected
    <3>6. ASSUME NEW i \in DOMAIN items, i > Len(old) PROVE i \in stay
      <4>1. list[i] \in ToSet(tags)
        BY <3>2, <3>3, <3>6
      <4> QED BY <1>5, <3>3, <3>5, <4>1
    <3> QED BY <1>4, <1>6, <1>10, <3>3, <3>5, <3>6
  <2>11. Settled'
    <3> SUFFICES ASSUME NEW g \in DOMAIN _group_tags \ (torn \cup {Anonymous})
                 PROVE  Matches(groups'[g], _group_valid_tags'[g], _group_server_handles'[g])
      BY <1>13, <2>2 DEF Settled
    <3>1. CASE g = sub_group
      BY <1>1, <1>8, <2>1, <2>2, <2>10, <3>1
    <3>2. CASE g # sub_group
      <4>1. Matches(groups[g], _group_valid_tags[g], _group_server_handles[g])
        BY <3>2 DEF ReadInv, Settled
      <4>2. g \in DOMAIN groups /\ g \in DOMAIN _group_valid_tags
        BY <1>2 DEF TablesOk
      <4> QED BY <1>1, <2>1, <2>2, <3>2, <4>1, <4>2
    <3> QED BY <3>1, <3>2
  <2>12. ASSUME sub_group \notin torn PROVE Asks'
    BY <1>1, <1>8, <2>1, <2>3, <2>4, <2>10, <2>12 DEF Asks
  <2>13. ASSUME Clean'
         PROVE  /\ call'.rows \in Seq(OwnRows(call'.rebuild))
                /\ HandlesOk(call', groups', _group_valid_tags')
    <3>1. /\ call.rows \in Seq(OwnRows(call.rebuild)) /\ sub_group \notin torn
          /\ HandlesOk(call, groups, _group_valid_tags)
      BY <1>1, <1>13, <2>3, <2>13, CleanBefore DEF CallOk, ReadCall
    <3>3. Len(valid) = Len(kept)
      BY <2>10, <3>1 DEF Matches
    <3>4. CASE call.whose # "own"
      BY <1>1, <2>3, <3>1, <3>4 DEF HandlesOk
    <3>5. CASE From(handles, items, Len(old))
      <4>1. Len(old) \in Nat
        OBVIOUS
      <4>2. \A i \in DOMAIN items : i > Len(old) => i \in stay
        BY <2>10, <3>1
      <4>3. PICK n \in Nat : n = Len(old)
        BY <4>1
      <4>4. \/ From(handles, Select(items, stay), 0)
            \/ Len(handles) < Len(Select(items, stay))
        BY <3>5, <4>2, <4>3, NewOnesStay
      <4>5. From(handles, kept, 0) \/ Len(handles) < Len(kept)
        BY <1>10, <4>4
      <4> QED BY <1>1, <1>2, <2>1, <2>3, <3>1, <3>3, <4>5 DEF HandlesOk
    <3>6. call.whose # "own" \/ From(handles, items, Len(old))
      BY <1>1, <1>3, <1>4, <1>7, <3>1 DEF HandlesOk, sub_group
    <3> QED BY <3>4, <3>5, <3>6
  <2> QED BY <1>13, <2>3, <2>4, <2>5, <2>6, <2>7, <2>9, <2>11, <2>12, <2>13 DEF ReadInv
<1>14. \/ /\ groups' = [groups EXCEPT ![sub_group] = kept]
          /\ Note(tags, valid)
          /\ call' = [call EXCEPT !.at = "ask", !.valid_tags = valid]
          /\ UNCHANGED <<result, torn>>
       \/ /\ Raise /\ torn' = torn \cup {sub_group}
          /\ UNCHANGED <<groups, _group_tags, _group_valid_tags>>
  <2>1. stay = {i \in DOMAIN groups[sub_group] : groups[sub_group][i].handle
                  \notin {_group_server_handles[sub_group][t] : t \in ToSet(del)}}
    BY <1>7, <1>8, <1>9
  <2>2. kept = Select(groups[sub_group], stay)
    BY <1>7, <1>10
  <2> QED BY <1>4, <1>5, <1>6, <2>1, <2>2, Zenon DEF RemoveOldTags
<1> QED BY <1>12, <1>13, <1>14

LEMMA SyncReadReads == ASSUME ReadInv, SyncRead PROVE ReadInv'
<1>1. /\ CallOk /\ call.at = "ask" /\ UNCHANGED <<groups, tables, torn>> /\ sub_group \in DOMAIN groups
      /\ ItemsOk(groups) /\ call \in ReadCall
  BY DEF SyncRead, ReadInv, ReadsAt, CallOk
<1>2. CASE Raise
  BY <1>1, <1>2, ReadRaised
<1>3. CASE /\ call.valid_tags = <<>> \/ HandlesSuffice
           /\ call' = [call EXCEPT !.at = "next", !.rows = @ \o Rows,
                    !.server_handles = IF call.valid_tags = <<>> THEN @ ELSE <<0>> \o @]
           /\ UNCHANGED result
  <2>1. Rows \in Seq(Row)
    BY <1>1, RowsType DEF ItemsOk
  <2>2. call.rows \in Seq(Row) /\ call.server_handles \in Seq(Nat)
    BY <1>1, CallParts
  <2>3. PICK rows \in Seq(Row) : rows = call.rows \o Rows
    BY <2>1, <2>2, JoinedIs
  <2>4. PICK handles \in Seq(Nat) :
          handles = IF call.valid_tags = <<>> THEN call.server_handles ELSE <<0>> \o call.server_handles
    <3>1. <<0>> \in Seq(Nat)
      OBVIOUS
    <3>2. <<0>> \o call.server_handles \in Seq(Nat)
      BY <2>2, <3>1, JoinedIs
    <3> QED BY <2>2, <3>2
  <2>5. call' = [call EXCEPT !.at = "next", !.rows = rows, !.server_handles = handles]
    BY <1>3, <2>3, <2>4
  <2>6. /\ call' \in ReadCall /\ call'.at = "next" /\ "at" \in DOMAIN call'
        /\ call'.name = call.name /\ call'.rebuild = call.rebuild /\ call'.gid = call.gid
        /\ call'.tag_groups = call.tag_groups /\ call'.num_groups = call.num_groups
        /\ call'.rows = rows /\ call'.server_handles = handles
    BY <1>1, <2>5 DEF ReadCall, ReadsAt
  <2>7. sub_group' = sub_group
    BY <2>6 DEF sub_group
  <2>8. CallOk'
    BY <1>1, <1>3, <2>6, <2>7 DEF CallOk
  <2>9. ReadsOwnTags' /\ TablesOk' /\ Settled' /\ ItemsOk(groups')
    BY <1>1, <2>8, NoRows, TablesStay, SettledStays DEF CallOk, NoResult, ReadInv
  <2>10. Asks'
    BY <2>6 DEF Asks
  <2>11. ASSUME Clean'
         PROVE  /\ call'.rows \in Seq(OwnRows(call'.rebuild))
                /\ HandlesOk(call', groups', _group_valid_tags')
    <3>1. /\ call.rows \in Seq(OwnRows(call.rebuild)) /\ sub_group \notin torn
          /\ HandlesOk(call, groups, _group_valid_tags)
      BY <1>1, <2>6, <2>11, CleanBefore DEF CallOk, ReadCall
    <3>2. Matches(groups[sub_group], call.valid_tags, _group_server_handles[sub_group])
      BY <1>1, <3>1 DEF ReadInv, Asks, ReadsAt
    <3>3. Rows \in Seq(OwnRows(call.rebuild))
      BY <1>1, <1>3, <3>1, <3>2, RowsAreOwn DEF HandlesSuffice
    <3>4. rows \in Seq(OwnRows(call.rebuild))
      BY <2>3, <3>1, <3>3, JoinedIs
    <3> QED BY <1>1, <2>6, <3>4 DEF HandlesOk
  <2> QED BY <2>6, <2>8, <2>9, <2>10, <2>11 DEF ReadInv
<1> QED BY <1>2, <1>3, Zenon DEF SyncRead

LEMMA NextGroupReads == ASSUME ReadInv, NextGroup PROVE ReadInv'
<1>1. CallOk /\ call.at = "next" /\ UNCHANGED <<tables, torn>> /\ TablesOk /\ call \in ReadCall
  BY DEF NextGroup, ReadInv, ReadsAt, CallOk
<1>2. CASE Raise /\ UNCHANGED groups
  BY <1>1, <1>2, ReadRaised
<1>3. CASE groups' = [g \in DOMAIN groups \ {Anonymous} |-> groups[g]]
  <2>1. ItemsOk(groups')
    BY <1>3, FewerItems DEF ReadInv
  <2>2. TablesOk'
    BY <1>1, <1>3 DEF TablesOk
  <2>3. Settled'
    <3> SUFFICES ASSUME NEW g \in DOMAIN _group_tags \ (torn \cup {Anonymous})
                 PROVE  Matches(groups'[g], _group_valid_tags[g], _group_server_handles[g])
      BY <1>1 DEF Settled
    <3>1. groups'[g] = groups[g]
      BY <1>1, <1>3 DEF TablesOk
    <3> QED BY <1>1, <3>1 DEF ReadInv, Settled
  <2>4. Clean => call.rows \in Seq(OwnRows(call.rebuild))
    BY <1>1 DEF ReadInv, ReadsAt
  <2>5. CASE /\ call.gid + 1 < call.num_groups
             /\ call' = [call EXCEPT !.at = "group", !.gid = @ + 1]
             /\ UNCHANGED result
    <3>1. PICK gid \in Nat : gid = call.gid + 1
      BY <1>1, CallParts
    <3>2. call' = [call EXCEPT !.at = "group", !.gid = gid]
      BY <2>5, <3>1
    <3>3. /\ call' \in ReadCall /\ call'.at = "group" /\ "at" \in DOMAIN call'
          /\ call'.name = call.name /\ call'.rebuild = call.rebuild /\ call'.gid = gid
          /\ call'.tag_groups = call.tag_groups /\ call'.num_groups = call.num_groups
          /\ call'.rows = call.rows /\ call'.server_handles = call.server_handles
      BY <1>1, <3>2 DEF ReadCall, ReadsAt
    <3>4. CallOk'
      BY <1>1, <2>5, <3>1, <3>3 DEF CallOk
    <3>5. ReadsOwnTags' /\ Asks'
      BY <3>3, <3>4, NoRows DEF CallOk, NoResult, Asks
    <3>6. ASSUME Clean'
          PROVE  /\ call'.rows \in Seq(OwnRows(call'.rebuild))
                 /\ HandlesOk(call', groups', _group_valid_tags')
      <4>1. Clean
        <5>1. call.gid \in Nat
          BY <1>1, CallParts
        <5> QED BY <1>1, <3>1, <3>3, <3>6, <5>1 DEF Clean
      <4> QED BY <1>1, <2>4, <3>1, <3>3, <4>1 DEF HandlesOk
    <3> QED BY <2>1, <2>2, <2>3, <3>3, <3>4, <3>5, <3>6 DEF ReadInv
  <2>6. CASE /\ call' = Idle
             /\ result' = [op |-> "read", rebuild |-> call.rebuild, rows |-> call.rows]
    <3>1. "at" \in DOMAIN call' /\ call'.at \notin ReadsAt
      BY <2>6 DEF Idle, ReadsAt
    <3>2. ASSUME torn = {}
          PROVE  \A i \in DOMAIN call.rows :
                   \/ call.rows[i].value \in {call.rows[i].tag, "not valid", "no value"}
                   \/ call.rebuild /\ call.rows[i].borrowed
      <4>1. Clean
        BY <3>2 DEF Clean
      <4>2. call.rows \in Seq(OwnRows(call.rebuild))
        BY <1>1, <2>4, <4>1
      <4>3. \A i \in DOMAIN call.rows : call.rows[i] \in OwnRows(call.rebuild)
        BY <4>2
      <4> QED BY <4>3 DEF OwnRows
    <3>3. result'.rows = call.rows /\ result'.rebuild = call.rebuild
      BY <2>6
    <3>4. ReadsOwnTags'
      BY <1>1, <3>2, <3>3 DEF ReadsOwnTags
    <3> QED BY <2>1, <2>2, <2>3, <3>1, <3>4, NotReading
  <2> QED BY <1>1, <1>3, <2>5, <2>6, <1>2, Zenon DEF NextGroup, Raise
<1> QED BY <1>2, <1>3 DEF NextGroup, Anonymous

LEMMA ReadReads ==
    ASSUME ReadInv, NEW name \in Name \cup {NoName}, NEW tags \in Requests, NEW size \in Sizes,
           NEW rebuild \in BOOLEAN, rebuild => name # NoName, Read(name, tags, size, rebuild)
    PROVE  ReadInv'
<1> DEFINE exists == name \in DOMAIN _groups /\ ~rebuild
<1>1. PICK pieces \in Seq(Seq(Tag)) :
        /\ pieces = IF exists THEN <<>> ELSE Pieces(tags, size)
        /\ ~exists => pieces # <<>>
        /\ \A i \in DOMAIN pieces : IsInjective(pieces[i])
  <2>1. tags \in Seq(Tag) /\ tags # <<>> /\ IsInjective(tags) /\ size \in Nat
    BY RequestAssumption
  <2>2. Pieces(tags, size) \in Seq(Seq(Tag)) /\ Len(Pieces(tags, size)) > 0
    BY <2>1, PiecesType
  <2>3. \A i \in DOMAIN Pieces(tags, size) : IsInjective(Pieces(tags, size)[i])
    BY <2>1, PiecesInjective
  <2>4. Pieces(tags, size) # <<>>
    BY <2>2
  <2>5. CASE exists
    <3>1. <<>> \in Seq(Seq(Tag)) /\ DOMAIN <<>> = {}
      OBVIOUS
    <3> QED BY <2>5, <3>1
  <2>6. CASE ~exists
    BY <2>2, <2>3, <2>4, <2>6
  <2> QED BY <2>5, <2>6
<1>2. PICK num \in Nat :
        num = IF exists THEN _groups[name] ELSE Len(pieces)
  BY DEF ReadInv, TablesOk
<1>3. /\ call' = [at |-> "group", name |-> name, rebuild |-> rebuild, gid |-> 0,
                  tag_groups |-> pieces, num_groups |-> num, tags |-> <<>>, valid_tags |-> <<>>,
                  whose |-> "none", server_handles |-> <<>>, rows |-> <<>>]
      /\ result' = NoResult /\ call = Idle
      /\ UNCHANGED <<groups, tables, torn>>
  BY <1>1, <1>2, Zenon DEF Read
<1>4. call.at # "remove"
  BY <1>3 DEF Idle
<1>5. /\ call' \in ReadCall /\ call'.at = "group" /\ "at" \in DOMAIN call'
      /\ call'.name = name /\ call'.rebuild = rebuild /\ call'.gid = 0
      /\ call'.tag_groups = pieces /\ call'.num_groups = num
      /\ call'.rows = <<>> /\ call'.server_handles = <<>>
  <2>1. <<>> \in Seq(Tag) /\ <<>> \in Seq(Nat) /\ <<>> \in Seq(Row) /\ "group" \in ReadsAt
    BY DEF ReadsAt
  <2> QED BY <1>3, <2>1 DEF ReadCall
<1>6. CallOk'
  <2>1. pieces # <<>> => num = Len(pieces) /\ 0 < num
    <3>1. Len(pieces) \in Nat /\ (pieces # <<>> => Len(pieces) > 0)
      OBVIOUS
    <3> QED BY <1>1, <1>2, <3>1
  <2>2. name = NoName => pieces # <<>>
    BY <1>1 DEF ReadInv, TablesOk
  <2> QED BY <1>1, <1>3, <1>5, <2>1, <2>2 DEF CallOk
<1>7. ReadsOwnTags' /\ TablesOk' /\ Settled' /\ ItemsOk(groups') /\ Asks'
  BY <1>3, <1>4, <1>5, NoRows, TablesStay, SettledStays DEF NoResult, ReadInv, Asks
<1>8. <<>> \in Seq(OwnRows(rebuild))
  OBVIOUS
<1>9. HandlesOk(call', groups', _group_valid_tags')
  BY <1>5 DEF HandlesOk
<1> QED BY <1>5, <1>6, <1>7, <1>8, <1>9 DEF ReadInv

LEMMA RemoveNameReads ==
    ASSUME ReadInv, NEW name \in Name, RemoveName(name) PROVE ReadInv'
<1>1. call = Idle /\ UNCHANGED <<call, torn>> /\ result' = NoResult
  BY DEF RemoveName
<1>2. "at" \in DOMAIN call' /\ call'.at \notin ReadsAt /\ result'.op # "read" /\ call.at # "remove"
  BY <1>1 DEF Idle, NoResult, ReadsAt
<1>3. PICK k, done, half :
        /\ k \in 0 .. _groups[name]
        /\ done = {<<name, i>> : i \in 0 .. k - 1}
        /\ half = (IF k < _groups[name] /\ <<name, k>> \notin DOMAIN _group_tags
                   THEN {<<name, k>>} ELSE {})
        /\ groups' = Except(groups, done \cup half)
        /\ _group_tags' = Except(_group_tags, done)
        /\ _group_valid_tags' = Except(_group_valid_tags, done)
        /\ _group_server_handles' = Except(_group_server_handles, done)
        /\ _groups' = (IF k = _groups[name] THEN Except(_groups, {name}) ELSE _groups)
  BY DEF RemoveName
<1>4. half \cap DOMAIN _group_tags = {}
  BY <1>3
<1>5. TablesOk /\ Settled
  BY DEF ReadInv
<1>6. /\ DOMAIN groups' = DOMAIN groups \ (done \cup half)
      /\ \A g \in DOMAIN groups' : groups'[g] = groups[g]
      /\ DOMAIN _group_tags' = DOMAIN _group_tags \ done
      /\ \A g \in DOMAIN _group_tags' : _group_tags'[g] = _group_tags[g]
      /\ DOMAIN _group_valid_tags' = DOMAIN _group_valid_tags \ done
      /\ \A g \in DOMAIN _group_valid_tags' : _group_valid_tags'[g] = _group_valid_tags[g]
      /\ DOMAIN _group_server_handles' = DOMAIN _group_server_handles \ done
      /\ \A g \in DOMAIN _group_server_handles' : _group_server_handles'[g] = _group_server_handles[g]
  BY <1>3 DEF Except
<1>7. ItemsOk(groups')
  BY <1>6, FewerItems DEF ReadInv
<1>8. \A n \in DOMAIN _groups' : n # NoName /\ _groups'[n] \in Nat
  BY <1>3, <1>5 DEF Except, TablesOk
<1>9. TablesOk'
  BY <1>1, <1>4, <1>5, <1>6, <1>8 DEF TablesOk
<1>10. Settled'
  <2> SUFFICES ASSUME NEW g \in DOMAIN _group_tags' \ (torn \cup {Anonymous})
               PROVE  Matches(groups'[g], _group_valid_tags'[g], _group_server_handles'[g])
    BY <1>1 DEF Settled
  <2>1. /\ g \in DOMAIN groups' /\ g \in DOMAIN _group_valid_tags'
        /\ g \in DOMAIN _group_server_handles' /\ g \in DOMAIN _group_tags
    BY <1>9, <1>6 DEF TablesOk
  <2>2. Matches(groups[g], _group_valid_tags[g], _group_server_handles[g])
    BY <1>2, <1>5, <2>1 DEF Settled
  <2> QED BY <1>6, <2>1, <2>2
<1> QED BY <1>2, <1>7, <1>9, <1>10, NotReading, NoRows

LEMMA ConnectReads == ASSUME ReadInv, Connect PROVE ReadInv'
<1>1. /\ call' = Idle /\ result' = NoResult /\ torn' = {}
      /\ groups' = <<>> /\ _groups' = <<>> /\ _group_tags' = <<>> /\ _group_valid_tags' = <<>>
      /\ _group_server_handles' = <<>>
  BY DEF Connect
<1>2. "at" \in DOMAIN call' /\ call'.at \notin ReadsAt /\ result'.op # "read"
  BY <1>1 DEF Idle, NoResult, ReadsAt
<1>3. ItemsOk(groups')
  BY <1>1 DEF ItemsOk, Distinct
<1>4. TablesOk' /\ Settled'
  BY <1>1 DEF TablesOk, Settled, Anonymous
<1> QED BY <1>2, <1>3, <1>4, NotReading, NoRows

\* The steps of a write leave all a read looks at.
LEMMA WritesRead ==
    ASSUME ReadInv, WriteInv, UNCHANGED <<groups, tables, torn>>, call.at \notin ReadsAt,
           "at" \in DOMAIN call', call'.at \notin ReadsAt, result'.op # "read" \/ UNCHANGED result
    PROVE  ReadInv'
<1>1. ReadsOwnTags'
  BY NoRows DEF ReadInv, ReadsOwnTags
<1>2. call.at # "remove"
  BY DEF ReadsAt
<1>3. TablesOk' /\ Settled' /\ ItemsOk(groups')
  BY <1>2, TablesStay, SettledStays DEF ReadInv
<1> QED BY <1>1, <1>3, NotReading

LEMMA WriteStepsRead ==
    ASSUME ReadInv, WriteInv,
           \/ \E tags \in Writes, size \in Sizes : Write(tags, size)
           \/ WriteItems \/ SyncWrite \/ WriteNext
    PROVE  ReadInv'
<1>1. CASE \E tags \in Writes, size \in Sizes : Write(tags, size)
  <2>1. /\ call = Idle /\ "at" \in DOMAIN call' /\ call'.at = "write items" /\ result' = NoResult
        /\ UNCHANGED <<groups, tables, torn>>
    <3>1. PICK tags \in Writes, size \in Sizes : Write(tags, size)
      BY <1>1
    <3>2. /\ call = Idle /\ result' = NoResult /\ UNCHANGED <<groups, tables, torn>>
          /\ call' = [at |-> "write items", tag_groups |-> Pieces(tags, size), gid |-> 0,
                      valid |-> {}, taken |-> {}, rows |-> <<>>]
      BY <3>1 DEF Write
    <3> QED BY <3>2
  <2>2. call.at \notin ReadsAt /\ call'.at \notin ReadsAt /\ result'.op # "read"
    BY <2>1 DEF Idle, NoResult, ReadsAt
  <2> QED BY <2>1, <2>2, WritesRead
<1>2. CASE Raise /\ call.at \in WritesAt /\ UNCHANGED <<groups, tables, torn>>
  <2>1. /\ "at" \in DOMAIN call' /\ call'.at \notin ReadsAt /\ call.at \notin ReadsAt
        /\ result'.op # "read"
    BY <1>2 DEF Raise, Idle, NoResult, ReadsAt, WritesAt
  <2> QED BY <1>2, <2>1, WritesRead
<1>3. ASSUME NEW c, call' = c, "at" \in DOMAIN c, c.at \in WritesAt, call.at \in WritesAt,
             UNCHANGED <<groups, tables, torn, result>>
      PROVE  ReadInv'
  <2>1. call'.at \notin ReadsAt /\ call.at \notin ReadsAt
    BY <1>3 DEF ReadsAt, WritesAt
  <2> QED BY <1>3, <2>1, WritesRead
<1>4. CASE WriteItems
  <2>1. call.at \in WritesAt /\ UNCHANGED <<groups, tables, torn>> /\ "at" \in DOMAIN call
    BY <1>4 DEF WriteItems, WritesAt, ReadInv
  <2>2. CASE Raise
    BY <1>2, <2>1, <2>2
  <2>3. CASE \E valid \in SUBSET DOMAIN PieceTags :
               call' = [call EXCEPT !.at = "write", !.valid = valid] /\ UNCHANGED result
    <3>1. "at" \in DOMAIN call' /\ call'.at = "write" /\ UNCHANGED result
      BY <2>1, <2>3
    <3> QED BY <1>3, <2>1, <3>1 DEF WritesAt
  <2> QED BY <1>4, <2>2, <2>3 DEF WriteItems
<1>5. CASE SyncWrite
  <2>1. call.at \in WritesAt /\ UNCHANGED <<groups, tables, torn>> /\ "at" \in DOMAIN call
    BY <1>5 DEF SyncWrite, WritesAt, ReadInv
  <2>2. CASE Raise
    BY <1>2, <2>1, <2>2
  <2>3. ASSUME NEW t, NEW r,
               call' = [call EXCEPT !.at = "write next", !.taken = t, !.rows = r], UNCHANGED result
        PROVE  ReadInv'
    <3>1. "at" \in DOMAIN call' /\ call'.at = "write next" /\ UNCHANGED result
      BY <2>1, <2>3
    <3> QED BY <1>3, <2>1, <3>1 DEF WritesAt
  <2> QED BY <1>5, <2>2, <2>3, Zenon DEF SyncWrite
<1>6. CASE WriteNext
  <2>1. call.at \in WritesAt /\ UNCHANGED <<groups, tables, torn>> /\ "at" \in DOMAIN call
    BY <1>6 DEF WriteNext, WritesAt, ReadInv
  <2>2. CASE Raise
    BY <1>2, <2>1, <2>2
  <2>3. CASE call' = [call EXCEPT !.at = "write items", !.gid = @ + 1, !.valid = {}] /\ UNCHANGED result
    <3>1. "at" \in DOMAIN call' /\ call'.at = "write items" /\ UNCHANGED result
      BY <2>1, <2>3
    <3> QED BY <1>3, <2>1, <3>1 DEF WritesAt
  <2>4. CASE call' = Idle /\ result' = [op |-> "write", taken |-> call.taken, rows |-> call.rows]
    <3>1. /\ "at" \in DOMAIN call' /\ call'.at \notin ReadsAt /\ call.at \notin ReadsAt
          /\ result'.op # "read"
      BY <2>1, <2>4 DEF Idle, ReadsAt, WritesAt
    <3> QED BY <2>1, <3>1, WritesRead
  <2> QED BY <1>6, <2>2, <2>3, <2>4, Zenon DEF WriteNext
<1> QED BY <1>1, <1>4, <1>5, <1>6

\* The server's tags come and go, or nothing happens.
LEMMA OthersRead ==
    ASSUME ReadInv, Reconfigure \/ UNCHANGED vars PROVE ReadInv'
<1>1. UNCHANGED <<groups, tables, call, result, torn>>
  BY DEF Reconfigure, vars
<1>2. sub_group' = sub_group
  BY <1>1 DEF sub_group
<1>3. TablesOk' /\ ItemsOk(groups') /\ ReadsOwnTags' /\ Settled'
  BY <1>1, <1>2, TablesStay DEF ReadInv, ReadsOwnTags, Settled
<1>4. call'.at \in ReadsAt =>
        /\ CallOk' /\ (sub_group' \notin torn' => Asks')
        /\ Clean' => /\ call'.rows \in Seq(OwnRows(call'.rebuild))
                     /\ HandlesOk(call', groups', _group_valid_tags')
  BY <1>1, <1>2 DEF ReadInv, CallOk, Asks, Clean
<1> QED BY <1>1, <1>3, <1>4 DEF ReadInv

\* Whatever is read by whatever names, in whatever pieces, rebuilt, removed and
\* interrupted: a read that returns has the value of each tag under this tag.
THEOREM ReadsReturnOwnTags == Spec => []ReadsOwnTags
<1>1. Init => WriteInv /\ ReadInv
  BY WriteInit, ReadInit
<1>2. WriteInv /\ [Next]_vars => WriteInv'
  BY OtherSteps, ReadStep, AddGroupStep, FillGroupStep, AddNewTagsStep, RemoveOldTagsStep,
     UseGroupStep, SyncReadStep, NextGroupStep, WriteStep, WriteItemsStep, SyncWriteStep,
     WriteNextStep DEF Next
<1>3. WriteInv /\ ReadInv /\ [Next]_vars => ReadInv'
  <2> SUFFICES ASSUME WriteInv, ReadInv, [Next]_vars PROVE ReadInv'
    OBVIOUS
  <2>1. ASSUME NEW tags \in Requests, NEW size \in Sizes, NEW name \in Name, NEW rebuild \in BOOLEAN,
               Read(name, tags, size, rebuild)
        PROVE  ReadInv'
    BY <2>1, ReadReads, RequestAssumption
  <2>2. ASSUME NEW tags \in Requests, NEW size \in Sizes, Read(NoName, tags, size, FALSE)
        PROVE  ReadInv'
    BY <2>2, ReadReads
  <2>3. CASE GroupFails
    <3>1. Raise /\ UNCHANGED <<groups, tables, torn>> /\ call.at # "remove"
      BY <2>3 DEF GroupFails
    <3> QED BY <3>1, ReadRaised
  <2> QED BY <2>1, <2>2, <2>3, UseServerGroupReads, AddGroupReads, FillGroupReads,
             AddNewTagsReads, RemoveOldTagsReads, UseGroupReads, SyncReadReads, NextGroupReads,
             RemoveNameReads, ConnectReads, WriteStepsRead, OthersRead DEF Next
<1>4. WriteInv /\ ReadInv => ReadsOwnTags
  BY DEF ReadInv
<1> QED BY <1>1, <1>2, <1>3, <1>4, PTL DEF Spec
=============================================================================
