---------------------------- MODULE Discovery_proofs ----------------------------
(***************************************************************************)
(* Theorems about discovery and the first read, for any tree of branches,  *)
(* any sizes and any number of failing calls and tags: each tag is found   *)
(* once, tags are read in the order of the listing, and a tag that cannot  *)
(* be read or described harms no other.                                    *)
(*                                                                         *)
(* The first needs what is still to be found: it is behind a branch of the *)
(* queue, and in iFIX no branch of the queue leads to another or to a tag  *)
(* that has been found.  The others need what a list is cut into: its      *)
(* elements, in their order, none lost and none in two lists.              *)
(***************************************************************************)
EXTENDS Discovery, SequenceTheorems, FiniteSetTheorems, TLAPS

-----------------------------------------------------------------------------
(* Lists and places.                                                        *)

\* How many of the set are not above the number.
Rank(S, i) == Cardinality({j \in S : j <= i})

\* The element with so many not above it is the one of that number.
LEMMA NthOfRank ==
    ASSUME NEW S \in SUBSET Nat, IsFiniteSet(S), NEW i \in S
    PROVE  Nth(S, Cardinality({j \in S : j <= i})) = i
<1> DEFINE upTo(k) == {j \in S : j <= k}
<1>0. ASSUME NEW A, NEW B, A \subseteq B, IsFiniteSet(B), Cardinality(A) = Cardinality(B)
      PROVE  A = B
  BY <1>0, FS_Subset
<1>1. \A k \in S : Cardinality(upTo(k)) = Cardinality(upTo(i)) => k = i
  <2> SUFFICES ASSUME NEW k \in S, Cardinality(upTo(k)) = Cardinality(upTo(i)) PROVE k = i
    OBVIOUS
  <2>1. IsFiniteSet(upTo(k)) /\ IsFiniteSet(upTo(i))
    <3>1. upTo(k) \subseteq S /\ upTo(i) \subseteq S
      OBVIOUS
    <3> QED BY <3>1, FS_Subset
  <2>2. CASE k <= i
    <3>1. ASSUME NEW j \in Nat, j <= k PROVE j <= i
      BY <2>2, <3>1, k \in Nat, i \in Nat
    <3>2. upTo(k) = upTo(i)
      <4>1. upTo(k) \subseteq upTo(i)
        BY <3>1
      <4> QED BY <1>0, <2>1, <4>1
    <3>3. i \in upTo(k)
      BY <3>2
    <3> QED BY <2>2, <3>3
  <2>3. CASE i <= k
    <3>1. ASSUME NEW j \in Nat, j <= i PROVE j <= k
      BY <2>3, <3>1, k \in Nat, i \in Nat
    <3>2. upTo(k) = upTo(i)
      <4>1. upTo(i) \subseteq upTo(k)
        BY <3>1
      <4> QED BY <1>0, <2>1, <4>1
    <3>3. k \in upTo(i)
      BY <3>2
    <3> QED BY <2>3, <3>3
  <2> QED BY <2>2, <2>3
<1> QED BY <1>1 DEF Nth

\* Every number up to the size of the set is one's.
LEMMA EveryRank ==
    ASSUME NEW S \in SUBSET Nat, IsFiniteSet(S), NEW k \in 1 .. Cardinality(S)
    PROVE  \E i \in S : Rank(S, i) = k
<1> DEFINE n == Cardinality(S)
           f == [i \in S |-> Rank(S, i)]
<1>1. n \in Nat
  BY FS_CardinalityType
<1>2. \A i \in S : Rank(S, i) \in 1 .. n
  <2> SUFFICES ASSUME NEW i \in S PROVE Rank(S, i) \in 1 .. n
    OBVIOUS
  <2> DEFINE T == {j \in S : j <= i}
  <2>1. T \in SUBSET S /\ i \in T
    OBVIOUS
  <2>2. IsFiniteSet(T) /\ Cardinality(T) <= n
    BY <2>1, FS_Subset
  <2>3. Cardinality(T) \in Nat /\ Cardinality(T) # 0
    BY <2>1, <2>2, FS_CardinalityType, FS_EmptySet
  <2> QED BY <1>1, <2>2, <2>3 DEF Rank
<1>3. \A i, j \in S : Rank(S, i) = Rank(S, j) => i = j
  BY NthOfRank DEF Rank
<1>4. f \in Injection(S, 1 .. n)
  BY <1>2, <1>3 DEF Injection, IsInjective
<1>5. IsFiniteSet(1 .. n) /\ Cardinality(1 .. n) = n
  BY <1>1, FS_Interval
<1>6. f \in Surjection(S, 1 .. n)
  BY <1>4, <1>5, FS_Injection
<1> QED BY <1>6 DEF Surjection

\* The elements by number are in the set, all of them.
LEMMA NthIsMember ==
    ASSUME NEW S \in SUBSET Nat, IsFiniteSet(S)
    PROVE  /\ Cardinality(S) \in Nat
           /\ \A k \in 1 .. Cardinality(S) : Nth(S, k) \in S /\ Rank(S, Nth(S, k)) = k
           /\ \A i \in S : \E k \in 1 .. Cardinality(S) : Nth(S, k) = i
           /\ \A k, l \in 1 .. Cardinality(S) : Nth(S, k) = Nth(S, l) => k = l
<1>1. Cardinality(S) \in Nat
  BY FS_CardinalityType
<1>2. ASSUME NEW k \in 1 .. Cardinality(S) PROVE Nth(S, k) \in S /\ Rank(S, Nth(S, k)) = k
  <2>1. PICK i \in S : Rank(S, i) = k
    BY EveryRank
  <2>2. Nth(S, Rank(S, i)) = i
    BY NthOfRank DEF Rank
  <2> QED BY <2>1, <2>2
<1>3. \A i \in S : Rank(S, i) \in 1 .. Cardinality(S)
  <2> SUFFICES ASSUME NEW i \in S PROVE Rank(S, i) \in 1 .. Cardinality(S)
    OBVIOUS
  <2> DEFINE T == {j \in S : j <= i}
  <2>1. T \in SUBSET S /\ i \in T
    OBVIOUS
  <2>2. IsFiniteSet(T) /\ Cardinality(T) <= Cardinality(S)
    BY <2>1, FS_Subset
  <2>3. Cardinality(T) \in Nat /\ Cardinality(T) # 0
    BY <2>1, <2>2, FS_CardinalityType, FS_EmptySet
  <2> QED BY <1>1, <2>2, <2>3 DEF Rank
<1>4. \A i \in S : \E k \in 1 .. Cardinality(S) : Nth(S, k) = i
  BY <1>3, NthOfRank DEF Rank
<1> QED BY <1>1, <1>2, <1>4


\* What is selected from a list is the list at these places.
LEMMA SelectPicks ==
    ASSUME NEW X, NEW list \in Seq(X), NEW places \in SUBSET DOMAIN list
    PROVE  /\ IsFiniteSet(places) /\ places \subseteq Nat
           /\ Select(list, places) \in Seq(X)
           /\ Len(Select(list, places)) = Cardinality(places)
           /\ Cardinality(places) \in Nat
           /\ \A k \in 1 .. Cardinality(places) :
                Nth(places, k) \in places /\ Select(list, places)[k] = list[Nth(places, k)]
           /\ \A i \in places : \E k \in 1 .. Cardinality(places) : Nth(places, k) = i
           /\ \A k, l \in 1 .. Cardinality(places) : Nth(places, k) = Nth(places, l) => k = l
<1>1. DOMAIN list = 1 .. Len(list) /\ Len(list) \in Nat
  OBVIOUS
<1>2. IsFiniteSet(places) /\ places \subseteq Nat
  <2>1. IsFiniteSet(1 .. Len(list))
    BY <1>1, FS_Interval
  <2> QED BY <1>1, <2>1, FS_Subset
<1>3. /\ Cardinality(places) \in Nat
      /\ \A k \in 1 .. Cardinality(places) : Nth(places, k) \in places
      /\ \A i \in places : \E k \in 1 .. Cardinality(places) : Nth(places, k) = i
      /\ \A k, l \in 1 .. Cardinality(places) : Nth(places, k) = Nth(places, l) => k = l
  BY <1>2, NthIsMember
<1>4. \A k \in 1 .. Cardinality(places) : list[Nth(places, k)] \in X
  BY <1>1, <1>3
<1> QED BY <1>2, <1>3, <1>4 DEF Select

\* They go up.
LEMMA NthAscends ==
    ASSUME NEW S \in SUBSET Nat, IsFiniteSet(S),
           NEW k \in 1 .. Cardinality(S), NEW l \in 1 .. Cardinality(S), k < l
    PROVE  Nth(S, k) < Nth(S, l)
<1>1. PICK i \in S, j \in S : i = Nth(S, k) /\ j = Nth(S, l) /\ Rank(S, i) = k /\ Rank(S, j) = l
  BY NthIsMember
<1>2. CASE j <= i
  <2> DEFINE A == {m \in S : m <= j}
             B == {m \in S : m <= i}
  <2>1. A \subseteq B
    <3>1. \A m \in Nat : m <= j => m <= i
      BY <1>2
    <3> QED BY <3>1
  <2>2. IsFiniteSet(B)
    BY FS_Subset
  <2>3. Cardinality(A) <= Cardinality(B)
    BY <2>1, <2>2, FS_Subset
  <2>4. l <= k
    BY <1>1, <2>3 DEF Rank
  <2>5. k \in Nat /\ l \in Nat
    BY FS_CardinalityType
  <2> QED BY <2>4, <2>5
<1>3. CASE ~ (j <= i)
  BY <1>1, <1>3
<1> QED BY <1>2, <1>3

\* What is chosen from a list: the elements at these places, in their order.
LEMMA SelectIs ==
    ASSUME NEW X, NEW list \in Seq(X), NEW places \in SUBSET DOMAIN list
    PROVE  /\ Select(list, places) \in Seq(X)
           /\ ToSet(Select(list, places)) = {list[i] : i \in places}
           /\ IsInjective(list) => IsInjective(Select(list, places))
           /\ \A k, l \in DOMAIN Select(list, places) : k < l =>
                \E i, j \in DOMAIN list : /\ i < j
                                          /\ Select(list, places)[k] = list[i]
                                          /\ Select(list, places)[l] = list[j]
<1>1. PICK new : new = Select(list, places)
  OBVIOUS
<1>2. PICK c \in Nat : c = Cardinality(places)
  BY SelectPicks
<1>3. /\ new \in Seq(X) /\ DOMAIN new = 1 .. c
      /\ \A k \in 1 .. c : Nth(places, k) \in places /\ new[k] = list[Nth(places, k)]
      /\ \A i \in places : \E k \in 1 .. c : Nth(places, k) = i
      /\ \A k, l \in 1 .. c : Nth(places, k) = Nth(places, l) => k = l
  BY <1>1, <1>2, SelectPicks
<1>4. ToSet(new) = {list[i] : i \in places}
  <2>1. \A k \in 1 .. c : new[k] \in {list[i] : i \in places}
    BY <1>3
  <2>2. \A i \in places : \E k \in 1 .. c : new[k] = list[i]
    BY <1>3
  <2> QED BY <1>3, <2>1, <2>2 DEF ToSet
<1>5. ASSUME IsInjective(list) PROVE IsInjective(new)
  BY <1>3, <1>5 DEF IsInjective
<1>6. ASSUME NEW k \in 1 .. c, NEW l \in 1 .. c, k < l
      PROVE  \E i, j \in DOMAIN list : i < j /\ new[k] = list[i] /\ new[l] = list[j]
  <2>1. Nth(places, k) < Nth(places, l)
    BY <1>2, <1>6, SelectPicks, NthAscends
  <2> QED BY <1>3, <2>1
<1> QED BY <1>1, <1>3, <1>4, <1>5, <1>6

\* A finite set as a list.
LEMMA SetToSeqIs ==
    ASSUME NEW X, NEW S \in SUBSET X, IsFiniteSet(S)
    PROVE  SetToSeq(S) \in Seq(X) /\ ToSet(SetToSeq(S)) = S /\ IsInjective(SetToSeq(S))
<1>1. PICK n \in Nat : n = Cardinality(S)
  BY FS_CardinalityType
<1>2. PICK g : g \in Bijection(1 .. n, S)
  BY <1>1, FS_CardinalityType DEF ExistsBijection
<1>3. g \in [1 .. n -> S] /\ IsInjective(g)
  BY <1>2 DEF Bijection, Injection
<1>4. PICK f \in [1 .. n -> S] : f = SetToSeq(S) /\ IsInjective(f)
  BY <1>1, <1>3 DEF SetToSeq
<1>5. f \in Injection(1 .. n, S)
  BY <1>4 DEF Injection
<1>6. Cardinality(1 .. n) = n
  BY FS_Interval
<1>7. f \in Surjection(1 .. n, S)
  BY <1>1, <1>5, <1>6, FS_Injection
<1>8. ToSet(f) = S
  BY <1>4, <1>7 DEF Surjection, ToSet
<1> QED BY <1>4, <1>8

\* One list after the other.
LEMMA ConcatIs ==
    ASSUME NEW X, NEW s \in Seq(X), NEW t \in Seq(X)
    PROVE  /\ s \o t \in Seq(X)
           /\ Len(s \o t) = Len(s) + Len(t)
           /\ \A i \in 1 .. Len(s) : (s \o t)[i] = s[i]
           /\ \A i \in 1 .. Len(t) : (s \o t)[Len(s) + i] = t[i]
           /\ \A i \in 1 .. Len(s) + Len(t) :
                i \in 1 .. Len(s) \/ (i - Len(s) \in 1 .. Len(t) /\ (s \o t)[i] = t[i - Len(s)])
           /\ ToSet(s \o t) = ToSet(s) \cup ToSet(t)
           /\ IsInjective(s) /\ IsInjective(t) /\ ToSet(s) \cap ToSet(t) = {} => IsInjective(s \o t)
<1>1. PICK m \in Nat, n \in Nat : m = Len(s) /\ n = Len(t)
  OBVIOUS
<1>2. PICK u : /\ u = s \o t /\ u \in Seq(X) /\ Len(u) = m + n
               /\ \A i \in 1 .. m : u[i] = s[i]
               /\ \A i \in 1 .. n : u[m + i] = t[i]
  <2>1. s \o t \in Seq(X) /\ Len(s \o t) = m + n
    BY <1>1
  <2>2. \A i \in 1 .. m : (s \o t)[i] = s[i]
    BY <1>1
  <2>3. \A i \in 1 .. n : (s \o t)[m + i] = t[i]
    BY <1>1
  <2> QED BY <2>1, <2>2, <2>3
<1>3. ASSUME NEW i \in 1 .. m + n
      PROVE  \/ i \in 1 .. m /\ u[i] = s[i]
             \/ i - m \in 1 .. n /\ u[i] = t[i - m]
  <2>1. CASE i \in 1 .. m
    BY <1>2, <2>1
  <2>2. CASE i \notin 1 .. m
    <3>1. i - m \in 1 .. n /\ m + (i - m) = i
      BY <2>2
    <3> QED BY <1>2, <3>1
  <2> QED BY <2>1, <2>2
<1>4. \A i \in 1 .. m : i \in 1 .. m + n
  OBVIOUS
<1>5. \A i \in 1 .. n : m + i \in 1 .. m + n
  OBVIOUS
<1>6. DOMAIN s = 1 .. m /\ DOMAIN t = 1 .. n /\ DOMAIN u = 1 .. m + n
  BY <1>1, <1>2
<1>7. ToSet(u) = ToSet(s) \cup ToSet(t)
  <2>1. \A x \in ToSet(u) : x \in ToSet(s) \/ x \in ToSet(t)
    BY <1>3, <1>6 DEF ToSet
  <2>2. \A x \in ToSet(s) : x \in ToSet(u)
    BY <1>2, <1>4, <1>6 DEF ToSet
  <2>3. \A x \in ToSet(t) : x \in ToSet(u)
    BY <1>2, <1>5, <1>6 DEF ToSet
  <2> QED BY <2>1, <2>2, <2>3
<1>8. ASSUME IsInjective(s), IsInjective(t), ToSet(s) \cap ToSet(t) = {} PROVE IsInjective(u)
  <2>1. \A i \in 1 .. m : s[i] \in ToSet(s)
    BY <1>6 DEF ToSet
  <2>2. \A i \in 1 .. n : t[i] \in ToSet(t)
    BY <1>6 DEF ToSet
  <2>3. ASSUME NEW i \in 1 .. m + n, NEW j \in 1 .. m + n, u[i] = u[j] PROVE i = j
    <3>1. CASE i \in 1 .. m /\ j \in 1 .. m
      BY <1>2, <1>6, <1>8, <2>3, <3>1 DEF IsInjective
    <3>2. CASE i \notin 1 .. m /\ j \notin 1 .. m
      <4>1. i - m \in 1 .. n /\ u[i] = t[i - m] /\ j - m \in 1 .. n /\ u[j] = t[j - m]
        BY <1>3, <3>2
      <4>2. i - m = j - m
        BY <1>6, <1>8, <2>3, <4>1 DEF IsInjective
      <4> QED BY <4>2
    <3>3. CASE i \in 1 .. m /\ j \notin 1 .. m
      BY <1>2, <1>3, <1>8, <2>1, <2>2, <2>3, <3>3
    <3>4. CASE i \notin 1 .. m /\ j \in 1 .. m
      BY <1>2, <1>3, <1>8, <2>1, <2>2, <2>3, <3>4
    <3> QED BY <3>1, <3>2, <3>3, <3>4
  <2> QED BY <1>6, <2>3 DEF IsInjective
<1> QED BY <1>1, <1>2, <1>3, <1>7, <1>8

\* And with one more.
LEMMA AppendIs ==
    ASSUME NEW X, NEW s \in Seq(X), NEW x \in X
    PROVE  Append(s, x) \in Seq(X) /\ ToSet(Append(s, x)) = ToSet(s) \cup {x}
<1>1. PICK n \in Nat : n = Len(s) /\ DOMAIN s = 1 .. n
  OBVIOUS
<1>2. PICK t : t = Append(s, x)
  OBVIOUS
<1>3. t \in Seq(X) /\ DOMAIN t = 1 .. n + 1
  BY <1>1, <1>2
<1>4. t[n + 1] = x
  BY <1>1, <1>2
<1>5. \A i \in 1 .. n : t[i] = s[i]
  BY <1>1, <1>2
<1>6. n + 1 \in 1 .. n + 1 /\ \A i \in 1 .. n : i \in 1 .. n + 1
  OBVIOUS
<1>7. \A i \in 1 .. n + 1 : i \in 1 .. n \/ i = n + 1
  OBVIOUS
<1>8. \A y \in ToSet(t) : y \in ToSet(s) \cup {x}
  BY <1>1, <1>3, <1>4, <1>5, <1>7 DEF ToSet
<1>9. \A y \in ToSet(s) : y \in ToSet(t)
  BY <1>1, <1>3, <1>5, <1>6 DEF ToSet
<1>10. x \in ToSet(t)
  BY <1>3, <1>4, <1>6 DEF ToSet
<1> QED BY <1>2, <1>3, <1>8, <1>9, <1>10

\* A list without its first.
LEMMA TailIs ==
    ASSUME NEW X, NEW s \in Seq(X), s # <<>>
    PROVE  /\ Head(s) = s[1] /\ Head(s) \in X /\ 1 \in DOMAIN s
           /\ Tail(s) \in Seq(X) /\ Len(s) = Len(Tail(s)) + 1
           /\ \A i \in DOMAIN Tail(s) : i + 1 \in DOMAIN s /\ Tail(s)[i] = s[i + 1]
           /\ \A i \in DOMAIN s : i = 1 \/ (i - 1 \in DOMAIN Tail(s) /\ Tail(s)[i - 1] = s[i])
           /\ ToSet(s) = {Head(s)} \cup ToSet(Tail(s))
<1>1. PICK m \in Nat : Len(s) = m + 1 /\ DOMAIN s = 1 .. m + 1
  <2>1. Len(s) \in Nat /\ Len(s) # 0
    OBVIOUS
  <2> QED BY <2>1, Len(s) - 1 \in Nat
<1>2. PICK t : t = Tail(s) /\ t \in Seq(X) /\ DOMAIN t = 1 .. m /\ Len(t) = m
  <2>1. Tail(s) \in Seq(X)
    OBVIOUS
  <2>2. Len(Tail(s)) = m
    BY <1>1
  <2>3. DOMAIN Tail(s) = 1 .. m
    BY <2>1, <2>2
  <2> QED BY <2>1, <2>2, <2>3
<1>3. \A i \in 1 .. m : i + 1 \in 1 .. m + 1 /\ t[i] = s[i + 1]
  BY <1>1, <1>2
<1>4. \A i \in 1 .. m + 1 : i = 1 \/ (i - 1 \in 1 .. m /\ t[i - 1] = s[i])
  <2>1. \A i \in 1 .. m + 1 : i = 1 \/ (i - 1 \in 1 .. m /\ (i - 1) + 1 = i)
    OBVIOUS
  <2> QED BY <1>3, <2>1
<1>5. Head(s) = s[1] /\ Head(s) \in X /\ 1 \in 1 .. m + 1
  BY <1>1
<1>6. ToSet(s) = {Head(s)} \cup ToSet(t)
  <2>1. ASSUME NEW x \in ToSet(s) PROVE x = Head(s) \/ x \in ToSet(t)
    <3>1. PICK i \in 1 .. m + 1 : x = s[i]
      BY <1>1 DEF ToSet
    <3>2. CASE i = 1
      BY <1>5, <3>1, <3>2
    <3>3. CASE i # 1
      <4>1. i - 1 \in DOMAIN t /\ t[i - 1] = x
        BY <1>2, <1>4, <3>1, <3>3
      <4> QED BY <4>1 DEF ToSet
    <3> QED BY <3>2, <3>3
  <2>2. Head(s) \in ToSet(s)
    BY <1>1, <1>5 DEF ToSet
  <2>3. \A x \in ToSet(t) : x \in ToSet(s)
    BY <1>1, <1>2, <1>3 DEF ToSet
  <2> QED BY <2>1, <2>2, <2>3
<1> QED BY <1>1, <1>2, <1>3, <1>4, <1>5, <1>6

-----------------------------------------------------------------------------
(* Branches.                                                                *)

\* A branch is on the way to another.
Prefix(p, b) == Len(p) <= Len(b) /\ \A k \in 1 .. Len(p) : p[k] = b[k]

\* What TreeAssumption says of the server at hand.
LEMMA TreeIs ==
    ASSUME tree \in Trees
    PROVE  /\ IsFiniteSet(tree.branches) /\ tree.branches \subseteq Seq(STRING)
           /\ <<>> \in tree.branches
           /\ \A b \in tree.branches : \A n \in 0 .. Len(b) : SubSeq(b, 1, n) \in tree.branches
           /\ \A b \in tree.branches : IsFiniteSet(tree.leafs[b])
BY TreeAssumption

\* The start of a path.
LEMMA StartIs ==
    ASSUME NEW b \in Seq(STRING), NEW n \in 0 .. Len(b)
    PROVE  /\ SubSeq(b, 1, n) \in Seq(STRING) /\ Len(SubSeq(b, 1, n)) = n
           /\ \A k \in 1 .. n : SubSeq(b, 1, n)[k] = b[k]
<1>1. n \in Nat /\ n <= Len(b) /\ Len(b) \in Nat
  OBVIOUS
<1>2. \A i \in 1 .. n : b[i] \in STRING
  BY <1>1
<1>3. /\ SubSeq(b, 1, n) \in Seq(STRING)
      /\ Len(SubSeq(b, 1, n)) = IF 1 <= n THEN n - 1 + 1 ELSE 0
      /\ \A i \in 1 .. n - 1 + 1 : SubSeq(b, 1, n)[i] = b[1 + i - 1]
  BY <1>1, <1>2, SubSeqProperties
<1> QED BY <1>1, <1>3

\* What is in a branch is one part longer.
LEMMA ChildIs ==
    ASSUME tree \in Trees, NEW p \in tree.branches, NEW c \in SubBranches(p)
    PROVE  c \in tree.branches /\ Len(c) = Len(p) + 1 /\ Prefix(p, c)
<1>1. c \in tree.branches /\ c \in Seq(STRING) /\ c # <<>> /\ p = SubSeq(c, 1, Len(c) - 1)
  BY TreeIs DEF SubBranches, Front
<1>2. PICK n \in Nat : Len(c) = n + 1
  <2>1. Len(c) \in Nat /\ Len(c) # 0
    BY <1>1
  <2>2. Len(c) - 1 \in Nat /\ Len(c) = (Len(c) - 1) + 1
    BY <2>1
  <2> QED BY <2>2
<1>3. n \in 0 .. Len(c) /\ p = SubSeq(c, 1, n)
  BY <1>1, <1>2
<1>4. Len(p) = n /\ \A k \in 1 .. n : p[k] = c[k]
  BY <1>1, <1>3, StartIs
<1> QED BY <1>1, <1>2, <1>4 DEF Prefix

\* Behind a branch is itself, or what is behind one that is in it.
LEMMA NextOnTheWay ==
    ASSUME tree \in Trees, NEW p \in tree.branches, NEW b \in tree.branches, Prefix(p, b)
    PROVE  p = b \/ \E c \in SubBranches(p) : Prefix(c, b)
<1>1. p \in Seq(STRING) /\ b \in Seq(STRING) /\ Len(p) <= Len(b)
          /\ \A k \in 1 .. Len(p) : p[k] = b[k]
  BY TreeIs DEF Prefix
<1>2. PICK n \in Nat : n = Len(p)
  BY <1>1
<1>3. CASE Len(b) = n
  <2>1. p = b
    BY <1>1, <1>2, <1>3
  <2> QED BY <2>1
<1>4. CASE Len(b) # n
  <2>1. n + 1 \in 0 .. Len(b) /\ n + 1 \in Nat
    BY <1>1, <1>2, <1>4
  <2>2. PICK c : c = SubSeq(b, 1, n + 1)
    OBVIOUS
  <2>3. c \in Seq(STRING) /\ Len(c) = n + 1 /\ \A k \in 1 .. n + 1 : c[k] = b[k]
    BY <1>1, <2>1, <2>2, StartIs
  <2>4. c \in tree.branches
    BY <2>1, <2>2, TreeIs
  <2>5. n \in 0 .. Len(c)
    BY <2>3
  <2>6. Len(SubSeq(c, 1, n)) = n /\ SubSeq(c, 1, n) \in Seq(STRING)
        /\ \A k \in 1 .. n : SubSeq(c, 1, n)[k] = c[k]
    BY <2>3, <2>5, StartIs
  <2>7. SubSeq(c, 1, n) = p
    <3>1. \A k \in 1 .. n : SubSeq(c, 1, n)[k] = p[k]
      BY <1>1, <1>2, <2>3, <2>6
    <3> QED BY <1>1, <1>2, <2>6, <3>1
  <2>8. Front(c) = p /\ c # <<>>
    BY <2>3, <2>7 DEF Front
  <2>9. c \in SubBranches(p)
    BY <2>4, <2>8 DEF SubBranches
  <2>10. Prefix(c, b)
    BY <2>1, <2>3 DEF Prefix
  <2> QED BY <2>9, <2>10
<1> QED BY <1>3, <1>4

\* To be on the way is an order.
LEMMA PrefixIs ==
    ASSUME NEW p \in Seq(STRING), NEW q \in Seq(STRING), NEW b \in Seq(STRING)
    PROVE  /\ Prefix(p, p)
           /\ Prefix(p, q) /\ Prefix(q, b) => Prefix(p, b)
           /\ Prefix(p, b) /\ Prefix(q, b) /\ Len(p) <= Len(q) => Prefix(p, q)
           /\ Prefix(p, q) /\ Len(p) = Len(q) => p = q
<1>1. Len(p) \in Nat /\ Len(q) \in Nat /\ Len(b) \in Nat
  OBVIOUS
<1>2. Prefix(p, p)
  BY <1>1 DEF Prefix
<1>3. ASSUME Prefix(p, q), Prefix(q, b) PROVE Prefix(p, b)
  <2>1. \A k \in 1 .. Len(p) : k \in 1 .. Len(q)
    BY <1>1, <1>3 DEF Prefix
  <2> QED BY <1>1, <1>3, <2>1 DEF Prefix
<1>4. ASSUME Prefix(p, b), Prefix(q, b), Len(p) <= Len(q) PROVE Prefix(p, q)
  <2>1. \A k \in 1 .. Len(p) : k \in 1 .. Len(q)
    BY <1>1, <1>4
  <2> QED BY <1>1, <1>4, <2>1 DEF Prefix
<1>5. ASSUME Prefix(p, q), Len(p) = Len(q) PROVE p = q
  BY <1>5 DEF Prefix
<1> QED BY <1>2, <1>3, <1>4, <1>5

-----------------------------------------------------------------------------
(* Listing: what is found, and what is behind the queue.                    *)

Blocks == {b \in tree.branches : Len(b) = 3}

\* The branches whose tags are looked for, and the tags of one.
Goals ==
    IF options.ifix_optimized THEN Blocks
    ELSE {b \in tree.branches : options.flat \/ SubBranches(b) = {}}

BlockTag(b) == ItemID(b, Suffix(b[2]))

TagsOf(b) == IF options.ifix_optimized THEN {BlockTag(b)} ELSE Items(b)

Found == UNION {TagsOf(b) : b \in Goals}

\* Whatever is looked for is among these tags, or behind one of these paths.
Covers(paths, found) ==
    \A b \in Goals : TagsOf(b) \subseteq found \/ \E p \in paths : Prefix(p, b)

\* Whatever is behind the path is.
Visited(path, found) == \A b \in Goals : Prefix(path, b) => TagsOf(b) \subseteq found

\* No path leads to another, nor to a block that has been found.
Apart(paths) == \A p, q \in paths : Len(p) <= 2 /\ (Prefix(p, q) => p = q)

Ahead(paths, found) == \A b \in Blocks : BlockTag(b) \in found => \A p \in paths : ~ Prefix(p, b)

\* No two blocks of an iFIX server share a tag, though it is named without the type
\* of the block.
NamedApart == \A b, c \in Blocks : BlockTag(b) = BlockTag(c) => b = c

\* No name could end the listing.
Plain == tree.dotted = {} \/ options.flat \/ options.ifix_optimized

\* To look into a branch is to have those in it to look into.
LEMMA CoversEntered ==
    ASSUME tree \in Trees, NEW paths \in SUBSET tree.branches, NEW more \in SUBSET tree.branches,
           NEW found, NEW path \in tree.branches, path \notin Goals, Covers(paths, found),
           paths \subseteq more \cup {path}, SubBranches(path) \subseteq more
    PROVE  Covers(more, found)
<1> SUFFICES ASSUME NEW b \in Goals, ~ (TagsOf(b) \subseteq found)
             PROVE  \E p \in more : Prefix(p, b)
  BY DEF Covers
<1>1. PICK p \in paths : Prefix(p, b)
  BY DEF Covers
<1>2. b \in tree.branches
  BY DEF Goals, Blocks
<1>3. CASE p = path
  <2>1. \E c \in SubBranches(path) : Prefix(c, b)
    BY <1>1, <1>2, <1>3, NextOnTheWay
  <2> QED BY <2>1
<1>4. CASE p # path
  BY <1>1, <1>4
<1> QED BY <1>3, <1>4

\* To have the tags behind a branch is to be done with it.
LEMMA CoversVisited ==
    ASSUME tree \in Trees, NEW paths \in SUBSET tree.branches, NEW more \in SUBSET tree.branches,
           NEW found, NEW all, NEW path \in tree.branches, Covers(paths, found),
           paths \subseteq more \cup {path}, found \subseteq all,
           Visited(path, all)
    PROVE  Covers(more, all)
BY DEF Covers, Visited

\* Behind a branch without branches is but itself.
LEMMA TipIsLast ==
    ASSUME tree \in Trees, NEW path \in tree.branches, SubBranches(path) = {},
           NEW b \in tree.branches, Prefix(path, b)
    PROVE  b = path
BY NextOnTheWay

\* Behind a type of a node are its blocks.
LEMMA BlocksOfType ==
    ASSUME tree \in Trees, NEW path \in tree.branches, Len(path) = 2,
           NEW b \in Blocks, Prefix(path, b)
    PROVE  b \in SubBranches(path)
<1>1. b \in tree.branches /\ Len(b) = 3
  BY DEF Blocks
<1>2. path # b
  BY <1>1
<1>3. PICK c \in SubBranches(path) : Prefix(c, b)
  BY <1>1, <1>2, NextOnTheWay
<1>4. Len(c) = Len(b) /\ c \in tree.branches
  <2>1. c \in tree.branches /\ Len(c) = Len(path) + 1
    BY ChildIs
  <2> QED BY <1>1, <2>1
<1>5. c \in Seq(STRING) /\ b \in Seq(STRING)
  BY <1>1, <1>4, TreeIs
<1> QED BY <1>3, <1>4, <1>5, PrefixIs

\* The branches in one of them may take its place.
LEMMA ApartEntered ==
    ASSUME tree \in Trees, NEW paths \in SUBSET tree.branches, Apart(paths), NEW found,
           Ahead(paths, found), NEW path \in paths, Len(path) < 2,
           NEW sub \in SUBSET SubBranches(path)
    PROVE  /\ Apart((paths \ {path}) \cup sub)
           /\ Ahead((paths \ {path}) \cup sub, found)
           /\ sub \cap (paths \ {path}) = {}
<1>0. /\ \A p \in paths : p \in Seq(STRING) /\ Len(p) \in Nat
      /\ \A c \in sub : c \in tree.branches /\ c \in Seq(STRING) /\ Len(c) = Len(path) + 1
         /\ Prefix(path, c)
  BY ChildIs, TreeIs
<1>1. ASSUME NEW c \in sub, NEW q \in paths \ {path} PROVE ~ Prefix(c, q) /\ ~ Prefix(q, c)
  <2>1. CASE Prefix(c, q)
    <3>1. Prefix(path, q)
      BY <1>0, <2>1, PrefixIs
    <3> QED BY <3>1 DEF Apart
  <2>2. CASE Prefix(q, c)
    <3>1. CASE Len(q) <= Len(path)
      <4>1. Prefix(q, path)
        BY <1>0, <2>2, <3>1, PrefixIs
      <4> QED BY <4>1 DEF Apart
    <3>2. CASE ~ (Len(q) <= Len(path))
      <4>1. Len(path) <= Len(q)
        BY <1>0, <3>2
      <4>2. Prefix(path, q)
        BY <1>0, <2>2, <4>1, PrefixIs
      <4> QED BY <4>2 DEF Apart
    <3> QED BY <3>1, <3>2
  <2> QED BY <2>1, <2>2
<1>2. ASSUME NEW c \in sub, NEW d \in sub, Prefix(c, d) PROVE c = d
  BY <1>0, <1>2, PrefixIs
<1>3. \A c \in sub : Len(c) <= 2
  BY <1>0
<1>4. Apart((paths \ {path}) \cup sub)
  BY <1>1, <1>2, <1>3 DEF Apart
<1>5. ASSUME NEW b \in Blocks, BlockTag(b) \in found, NEW c \in sub PROVE ~ Prefix(c, b)
  <2>1. b \in Seq(STRING)
    BY TreeIs DEF Blocks
  <2>2. ~ Prefix(path, b)
    BY <1>5 DEF Ahead
  <2> QED BY <1>0, <2>1, <2>2, PrefixIs
<1>6. Ahead((paths \ {path}) \cup sub, found)
  BY <1>5 DEF Ahead
<1>7. \A c \in sub : c \notin paths \ {path}
  BY <1>0, <1>1, PrefixIs
<1> QED BY <1>4, <1>6, <1>7

\* And when the blocks of a type are found, its path is done with.
LEMMA ApartVisited ==
    ASSUME tree \in Trees, NamedApart, NEW paths \in SUBSET tree.branches, Apart(paths), NEW found,
           found \subseteq {BlockTag(b) : b \in Blocks},
           Ahead(paths, found), NEW path \in paths, Len(path) = 2,
           NEW sub \in SUBSET SubBranches(path)
    PROVE  /\ sub \subseteq Blocks
           /\ Apart(paths \ {path})
           /\ Ahead(paths \ {path}, found \cup {BlockTag(b) : b \in sub})
           /\ found \cap {BlockTag(b) : b \in sub} = {}
<1>1. \A b \in Blocks : b \in tree.branches /\ b \in Seq(STRING) /\ Len(b) = 3
  BY TreeIs DEF Blocks
<1>2. \A c \in sub : c \in Blocks /\ Prefix(path, c)
  <2>1. ASSUME NEW c \in sub PROVE c \in tree.branches /\ Len(c) = Len(path) + 1 /\ Prefix(path, c)
    BY ChildIs
  <2>2. \A c \in sub : Len(c) = 3
    BY <2>1
  <2> QED BY <2>1, <2>2 DEF Blocks
<1>3. Apart(paths \ {path})
  BY DEF Apart
<1>4. ASSUME NEW b \in Blocks, NEW c \in Blocks, BlockTag(b) = BlockTag(c) PROVE b = c
  BY <1>4 DEF NamedApart
<1>5. ASSUME NEW b \in Blocks, NEW c \in sub, BlockTag(b) = BlockTag(c), NEW q \in paths \ {path}
      PROVE  ~ Prefix(q, b)
  <2>1. b = c /\ Prefix(path, b)
    BY <1>2, <1>4, <1>5
  <2>2. path \in Seq(STRING) /\ q \in Seq(STRING) /\ Len(path) \in Nat /\ Len(q) \in Nat
    BY TreeIs
  <2>3. CASE Prefix(q, b)
    <3>1. Prefix(q, path) \/ Prefix(path, q)
      BY <1>1, <2>1, <2>2, <2>3, PrefixIs
    <3> QED BY <3>1 DEF Apart
  <2> QED BY <2>3
<1>6. Ahead(paths \ {path}, found \cup {BlockTag(b) : b \in sub})
  BY <1>5 DEF Ahead
<1>7. ASSUME NEW c \in sub, BlockTag(c) \in found PROVE FALSE
  BY <1>2, <1>7 DEF Ahead
<1> QED BY <1>2, <1>3, <1>6, <1>7

\* A list that has none twice is as long as the set of its elements.
LEMMA InjectiveCount ==
    ASSUME NEW X, NEW s \in Seq(X), IsInjective(s)
    PROVE  IsFiniteSet(ToSet(s)) /\ Cardinality(ToSet(s)) = Len(s)
<1>1. PICK n \in Nat : n = Len(s) /\ DOMAIN s = 1 .. n
  OBVIOUS
<1>2. s \in [1 .. n -> ToSet(s)] /\ \A x \in ToSet(s) : \E i \in 1 .. n : s[i] = x
  <2>1. s \in [1 .. n -> X]
    BY <1>1
  <2> QED BY <1>1, <2>1 DEF ToSet
<1>3. s \in Surjection(1 .. n, ToSet(s)) /\ s \in Injection(1 .. n, ToSet(s))
  BY <1>1, <1>2 DEF Surjection, Injection
<1>4. IsFiniteSet(1 .. n) /\ Cardinality(1 .. n) = n
  BY FS_Interval
<1> QED BY <1>1, <1>3, <1>4, FS_Surjection

\* The tags of a finite server are finitely many.
LEMMA TagsFinite ==
    ASSUME tree \in Trees
    PROVE  /\ \A b \in tree.branches : IsFiniteSet(Items(b)) /\ IsFiniteSet(SubBranches(b))
           /\ IsFiniteSet(UNION {Items(b) : b \in tree.branches})
           /\ \A sub \in SUBSET tree.branches : IsFiniteSet({BlockTag(b) : b \in sub})
<1>1. ASSUME NEW b \in tree.branches PROVE IsFiniteSet(Items(b)) /\ IsFiniteSet(SubBranches(b))
  <2> DEFINE f == [l \in tree.leafs[b] |-> ItemID(b, l)]
  <2>1. f \in Surjection(tree.leafs[b], Items(b))
    BY DEF Surjection, Items
  <2>2. IsFiniteSet(tree.leafs[b]) /\ IsFiniteSet(tree.branches)
    BY TreeIs
  <2> HIDE DEF f
  <2>3. IsFiniteSet(Items(b))
    BY <2>1, <2>2, FS_Surjection
  <2>4. SubBranches(b) \subseteq tree.branches
    BY DEF SubBranches
  <2> QED BY <2>2, <2>3, <2>4, FS_Subset
<1>2. IsFiniteSet({Items(b) : b \in tree.branches})
  <2> DEFINE all == {Items(b) : b \in tree.branches}
             f   == [b \in tree.branches |-> Items(b)]
  <2>1. f \in Surjection(tree.branches, all)
    BY DEF Surjection
  <2>2. IsFiniteSet(tree.branches)
    BY TreeIs
  <2> HIDE DEF f, all
  <2>3. IsFiniteSet(all)
    BY <2>1, <2>2, FS_Surjection
  <2> QED BY <2>3 DEF all
<1>3. IsFiniteSet(UNION {Items(b) : b \in tree.branches})
  BY <1>1, <1>2, FS_UNION
<1>4. ASSUME NEW sub \in SUBSET tree.branches PROVE IsFiniteSet({BlockTag(b) : b \in sub})
  <2> DEFINE all == {BlockTag(b) : b \in sub}
             f   == [b \in sub |-> BlockTag(b)]
  <2>1. f \in Surjection(sub, all)
    BY DEF Surjection
  <2>2. IsFiniteSet(sub)
    BY TreeIs, FS_Subset
  <2> HIDE DEF f, all
  <2>3. IsFiniteSet(all)
    BY <2>1, <2>2, FS_Surjection
  <2> QED BY <2>3 DEF all
<1> QED BY <1>1, <1>3, <1>4

\* The tags wanted are those found, but for a filter.
LEMMA WantedIs ==
    ASSUME tree \in Trees
    PROVE  /\ options.ifix_optimized => Wanted = Found
           /\ ~ options.ifix_optimized => Wanted = {i \in Found : Usable(i)}
<1>1. CASE options.ifix_optimized
  <2>1. \A b \in Blocks :
          BlockTag(b) = [path |-> <<b[1], b[3]>>, leaf |-> IF b[2] = "TX" THEN "A_CV" ELSE "F_CV"]
    BY DEF Blocks, BlockTag, ItemID, Suffix
  <2>2. Wanted = {BlockTag(b) : b \in Blocks}
    BY <1>1, <2>1 DEF Wanted, Blocks
  <2>3. Found = {BlockTag(b) : b \in Blocks}
    BY <1>1 DEF Found, Goals, TagsOf
  <2> QED BY <1>1, <2>2, <2>3
<1>2. CASE ~ options.ifix_optimized
  BY <1>2 DEF Wanted, Found, Goals, TagsOf, Usable
<1> QED BY <1>1, <1>2

-----------------------------------------------------------------------------
(* Each tag is found once.                                                  *)

Points == {"list", "browse", "failed", "discovered", "reading", "values", "describing", "announced"}

DiscoveryTypes ==
    /\ tree \in Trees /\ at \in Points /\ faults \in Nat
    /\ queue \in Seq(tree.branches) /\ tags \in Seq(Found)

ListInv ==
    /\ at = "browse" => options.ifix_optimized
    /\ at = "list" => ~ options.ifix_optimized
    /\ options.ifix_optimized => NamedApart
    /\ IsInjective(tags)
    /\ at \in {"list", "browse"} /\ faults = 0 /\ Plain => Covers(ToSet(queue), ToSet(tags))
    /\ at = "browse" => IsInjective(queue) /\ Apart(ToSet(queue))
       /\ Ahead(ToSet(queue), ToSet(tags))
    /\ FindsEachTagOnce

\* What is listed of a server does not change with it.
LEMMA SameServer ==
    ASSUME UNCHANGED <<options, tree>>
    PROVE  /\ Found' = Found /\ Wanted' = Wanted
           /\ NamedApart' <=> NamedApart
           /\ Plain' <=> Plain
           /\ Covers(ToSet(queue'), ToSet(tags')) => Covers(ToSet(queue), ToSet(tags))'
           /\ Ahead(ToSet(queue'), ToSet(tags')) => Ahead(ToSet(queue), ToSet(tags))'
BY DEF Found, Wanted, Goals, TagsOf, Items, Blocks, SubBranches, NamedApart, Plain, Covers, Ahead,
       BlockTag, Usable

\* A step of the listing.
LEMMA ListingGoesOn ==
    ASSUME DiscoveryTypes, ListInv, at \in {"list", "browse"}, UNCHANGED <<options, tree, at>>,
           faults' \in Nat, faults' = 0 => faults = 0,
           queue' \in Seq(tree.branches), tags' \in Seq(Found),
           IsInjective(tags'),
           faults' = 0 /\ Plain => Covers(ToSet(queue'), ToSet(tags')),
           at = "browse" => /\ IsInjective(queue') /\ Apart(ToSet(queue'))
                            /\ Ahead(ToSet(queue'), ToSet(tags'))
    PROVE  (DiscoveryTypes /\ ListInv)'
<1>1. DiscoveryTypes'
  BY SameServer DEF DiscoveryTypes
<1>2. ListInv'
  <2>1. FindsEachTagOnce'
    BY DEF FindsEachTagOnce
  <2>2. (Apart(ToSet(queue')) => Apart(ToSet(queue))')
    BY DEF Apart
  <2> QED BY <2>1, <2>2, SameServer DEF ListInv
<1> QED BY <1>1, <1>2

\* The end of it.
LEMMA ListingEnds ==
    ASSUME DiscoveryTypes, ListInv, UNCHANGED <<options, tree, queue>>, at' = "discovered",
           faults' = faults, tags' \in Seq(Found), IsInjective(tags'),
           ToSet(tags') \subseteq Wanted, faults = 0 /\ Plain => ToSet(tags') = Wanted
    PROVE  (DiscoveryTypes /\ ListInv)'
<1>1. DiscoveryTypes'
  BY SameServer DEF DiscoveryTypes, Points
<1>2. FindsEachTagOnce'
  BY SameServer, InjectiveCount DEF FindsEachTagOnce, Plain
<1> QED BY <1>1, <1>2, SameServer DEF ListInv

\* A step that gives up, and all that come after.
LEMMA ListingStays ==
    ASSUME DiscoveryTypes, ListInv, UNCHANGED <<options, tree, queue, tags>>,
           faults' \in Nat, faults' = 0 => faults = 0,
           at' = "failed" \/ (at \notin {"list", "browse", "failed"}
               /\ at' \in Points \ {"list", "browse", "failed"})
    PROVE  (DiscoveryTypes /\ ListInv)'
<1>1. DiscoveryTypes'
  BY SameServer DEF DiscoveryTypes, Points
<1>2. FindsEachTagOnce'
  BY SameServer DEF FindsEachTagOnce, Plain, ListInv, Points
<1> QED BY <1>1, <1>2, SameServer DEF ListInv, Points

\* A flat listing has all.
LEMMA ListFlatFinds ==
    ASSUME DiscoveryTypes, ListInv, ListFlat
    PROVE  (DiscoveryTypes /\ ListInv)'
<1> DEFINE all == UNION {Items(b) : b \in tree.branches}
<1>1. tree \in Trees /\ at = "list" /\ ~ options.ifix_optimized /\ options.flat /\ faults \in Nat
  BY DEF ListFlat, DiscoveryTypes, ListInv
<1>2. all = Found /\ IsFiniteSet(all)
  <2>1. Goals = tree.branches
    BY <1>1 DEF Goals
  <2>2. {TagsOf(b) : b \in Goals} = {Items(b) : b \in tree.branches}
    BY <1>1, <2>1 DEF TagsOf
  <2> QED BY <1>1, <2>2, TagsFinite DEF Found
<1>3. CASE tags' = SetToSeq(all) /\ queue' = <<>> /\ UNCHANGED <<options, tree, at, faults>>
  <2>1. tags' \in Seq(Found) /\ ToSet(tags') = Found /\ IsInjective(tags')
    <3> HIDE DEF all
    <3> QED BY <1>2, <1>3, SetToSeqIs
  <2>2. Covers(ToSet(queue'), ToSet(tags'))
    BY <2>1 DEF Covers, Found
  <2>3. queue' \in Seq(tree.branches)
    BY <1>3
  <2> HIDE DEF all
  <2> QED BY <1>1, <1>3, <2>1, <2>2, <2>3, ListingGoesOn
<1>4. CASE Raises(TRUE) /\ GiveUp
  BY <1>1, <1>4, ListingStays DEF Raises, GiveUp
<1> QED BY <1>3, <1>4 DEF ListFlat

\* What is taken from the head of the queue.
LEMMA HeadOfQueue ==
    ASSUME DiscoveryTypes, queue # <<>>
    PROVE  /\ Head(queue) \in tree.branches /\ Head(queue) \in ToSet(queue)
           /\ ToSet(queue) \subseteq tree.branches
           /\ Tail(queue) \in Seq(tree.branches) /\ ToSet(Tail(queue)) \subseteq tree.branches
           /\ ToSet(queue) = {Head(queue)} \cup ToSet(Tail(queue))
           /\ IsInjective(queue) =>
                IsInjective(Tail(queue)) /\ ToSet(Tail(queue)) = ToSet(queue) \ {Head(queue)}
<1>1. queue \in Seq(tree.branches)
  BY DEF DiscoveryTypes
<1>2. PICK t, h : t = Tail(queue) /\ h = Head(queue)
  OBVIOUS
<1>3. /\ h = queue[1] /\ h \in tree.branches /\ 1 \in DOMAIN queue
      /\ t \in Seq(tree.branches)
      /\ \A i \in DOMAIN t : i + 1 \in DOMAIN queue /\ t[i] = queue[i + 1]
      /\ ToSet(queue) = {h} \cup ToSet(t)
  BY <1>1, <1>2, TailIs
<1>4. \A i \in DOMAIN t : i \in Nat \ {0}
  BY <1>3
<1>5. ASSUME IsInjective(queue) PROVE IsInjective(t) /\ h \notin ToSet(t)
  <2>1. ASSUME NEW i \in DOMAIN t, NEW j \in DOMAIN t, t[i] = t[j] PROVE i = j
    <3>1. i + 1 = j + 1
      BY <1>5, <1>3, <2>1 DEF IsInjective
    <3> QED BY <1>4, <3>1
  <2>2. IsInjective(t)
    BY <2>1 DEF IsInjective
  <2>3. ASSUME NEW i \in DOMAIN t, t[i] = h PROVE FALSE
    <3>1. i + 1 = 1
      BY <1>5, <1>3, <2>3 DEF IsInjective
    <3> QED BY <1>4, <3>1
  <2>4. h \notin ToSet(t)
    BY <2>3 DEF ToSet
  <2> QED BY <2>2, <2>4
<1>6. ToSet(queue) \subseteq tree.branches /\ ToSet(t) \subseteq tree.branches
  BY <1>1, <1>3 DEF ToSet
<1> QED BY <1>2, <1>3, <1>5, <1>6

\* A branch is looked into, or visited.
LEMMA ListBranchFinds ==
    ASSUME DiscoveryTypes, ListInv, ListBranch
    PROVE  (DiscoveryTypes /\ ListInv)'
<1>1. PICK path : path = Head(queue)
  OBVIOUS
<1>2. /\ tree \in Trees /\ at = "list" /\ ~ options.ifix_optimized /\ ~ options.flat
         /\ faults \in Nat
      /\ queue # <<>> /\ tags \in Seq(Found) /\ IsInjective(tags)
      /\ UNCHANGED <<options, tree, at, faults>>
  BY DEF ListBranch, DiscoveryTypes, ListInv
<1>3. PICK rest : rest = Tail(queue)
  OBVIOUS
<1>4. /\ path \in tree.branches /\ ToSet(queue) \subseteq tree.branches
      /\ rest \in Seq(tree.branches) /\ ToSet(rest) \subseteq tree.branches
      /\ ToSet(queue) = {path} \cup ToSet(rest)
  BY <1>1, <1>2, <1>3, HeadOfQueue
<1>5. faults = 0 /\ Plain => Covers(ToSet(queue), ToSet(tags))
  BY <1>2 DEF ListInv
<1>6. CASE SubBranches(path) # {}
  <2>1. queue' = rest \o SetToSeq(SubBranches(path)) /\ tags' = tags
    BY <1>1, <1>3, <1>6 DEF ListBranch
  <2>2. SubBranches(path) \subseteq tree.branches /\ IsFiniteSet(SubBranches(path))
    BY <1>2, <1>4, TagsFinite DEF SubBranches
  <2>3. PICK new : new = SetToSeq(SubBranches(path))
    OBVIOUS
  <2>4. new \in Seq(tree.branches) /\ ToSet(new) = SubBranches(path)
    BY <2>2, <2>3, SetToSeqIs
  <2>5. queue' \in Seq(tree.branches) /\ ToSet(queue') = ToSet(rest) \cup SubBranches(path)
    BY <1>4, <2>1, <2>3, <2>4, ConcatIs
  <2>6. path \notin Goals
    BY <1>2, <1>6 DEF Goals
  <2>7. ASSUME Covers(ToSet(queue), ToSet(tags)) PROVE Covers(ToSet(queue'), ToSet(tags'))
    <3>1. ToSet(queue') \subseteq tree.branches
      BY <1>4, <2>2, <2>5
    <3>2. ToSet(queue) \subseteq ToSet(queue') \cup {path}
              /\ SubBranches(path) \subseteq ToSet(queue')
      BY <1>4, <2>5
    <3>3. PICK found : found = ToSet(tags)
      OBVIOUS
    <3>4. Covers(ToSet(queue'), found)
      BY <1>2, <1>4, <2>6, <2>7, <3>1, <3>2, <3>3, CoversEntered
    <3> QED BY <2>1, <3>3, <3>4
  <2> QED BY <1>2, <1>5, <2>1, <2>5, <2>7, ListingGoesOn
<1>7. CASE SubBranches(path) = {}
  <2>1. PICK new : new = Items(path) \ ToSet(tags)
    OBVIOUS
  <2>2. queue' = rest /\ tags' = tags \o SetToSeq(new)
    BY <1>1, <1>3, <1>7, <2>1 DEF ListBranch
  <2>3. path \in Goals /\ TagsOf(path) = Items(path) /\ Items(path) \subseteq Found
    <3>1. path \in Goals /\ TagsOf(path) = Items(path)
      BY <1>2, <1>4, <1>7 DEF Goals, TagsOf
    <3> QED BY <3>1 DEF Found
  <2>4. new \in SUBSET Found /\ IsFiniteSet(new)
    <3>1. IsFiniteSet(Items(path))
      BY <1>2, <1>4, TagsFinite
    <3> QED BY <2>1, <2>3, <3>1, FS_Subset
  <2>5. PICK list : list = SetToSeq(new)
    OBVIOUS
  <2>6. list \in Seq(Found) /\ ToSet(list) = new /\ IsInjective(list)
    BY <2>4, <2>5, SetToSeqIs
  <2>7. ToSet(tags) \cap ToSet(list) = {}
    BY <2>1, <2>6
  <2>8. tags' \in Seq(Found) /\ ToSet(tags') = ToSet(tags) \cup ToSet(list) /\ IsInjective(tags')
    BY <1>2, <2>2, <2>5, <2>6, <2>7, ConcatIs
  <2>9. ASSUME Covers(ToSet(queue), ToSet(tags)) PROVE Covers(ToSet(queue'), ToSet(tags'))
    <3>1. \A b \in Goals : Prefix(path, b) => TagsOf(b) \subseteq ToSet(tags')
      <4>1. ASSUME NEW b \in Goals, Prefix(path, b) PROVE b = path
        <5>1. b \in tree.branches
          BY DEF Goals, Blocks
        <5> QED BY <1>2, <1>4, <1>7, <4>1, <5>1, TipIsLast
      <4>2. TagsOf(path) \subseteq ToSet(tags')
        BY <2>1, <2>3, <2>6, <2>8
      <4> QED BY <4>1, <4>2
    <3>2. PICK found, all : found = ToSet(tags) /\ all = ToSet(tags')
      OBVIOUS
    <3>3. PICK paths, more : paths = ToSet(queue) /\ more = ToSet(queue')
      OBVIOUS
    <3>4. paths \in SUBSET tree.branches /\ more \in SUBSET tree.branches
              /\ paths \subseteq more \cup {path}
      BY <1>4, <2>2, <3>3
    <3>5. found \subseteq all /\ Covers(paths, found)
      BY <2>8, <2>9, <3>2, <3>3
    <3>6. Visited(path, all)
      BY <3>1, <3>2 DEF Visited
    <3>7. path \in tree.branches /\ tree \in Trees
      BY <1>2, <1>4
    <3>8. Covers(more, all)
      BY <3>4, <3>5, <3>6, <3>7, CoversVisited
    <3> QED BY <3>2, <3>3, <3>8
  <2> QED BY <1>2, <1>4, <1>5, <2>2, <2>8, <2>9, ListingGoesOn
<1> QED BY <1>6, <1>7

\* What ends the listing, or raises, has its reason.
LEMMA BranchFailsFinds ==
    ASSUME DiscoveryTypes, ListInv, BranchFails
    PROVE  (DiscoveryTypes /\ ListInv)'
<1>1. PICK path : path = Head(queue)
  OBVIOUS
<1>2. /\ tree \in Trees /\ at = "list" /\ ~ options.ifix_optimized /\ ~ options.flat
         /\ faults \in Nat
      /\ queue # <<>> /\ tags \in Seq(Found) /\ IsInjective(tags)
  BY DEF BranchFails, DiscoveryTypes, ListInv
<1>3. /\ path \in tree.branches /\ Tail(queue) \in Seq(tree.branches)
      /\ ToSet(queue) = {path} \cup ToSet(Tail(queue))
  BY <1>1, <1>2, HeadOfQueue
<1>4. path \in Seq(STRING)
  BY <1>2, <1>3, TreeIs
<1>5. CASE /\ ~ Walkable(path) \/ faults' = faults + 1
           /\ ~ Walkable(path) => faults' \in {faults, faults + 1}
           /\ queue' = <<>>
           /\ UNCHANGED <<options, tree, at, tags>>
  <2>1. faults' \in Nat /\ (faults' = 0 => faults = 0 /\ ~ Walkable(path))
    BY <1>2, <1>5
  <2>2. ASSUME ~ Walkable(path) PROVE ~ Plain
    BY <1>2, <2>2 DEF Walkable, Plain
  <2>3. queue' \in Seq(tree.branches)
    BY <1>5
  <2> QED BY <1>2, <1>5, <2>1, <2>2, <2>3, ListingGoesOn
<1>6. CASE /\ faults' \in {faults, faults + 1}
           /\ queue' = Append(Tail(queue), path)
           /\ UNCHANGED <<options, tree, at, tags>>
  <2>1. PICK rest : rest = Tail(queue) /\ rest \in Seq(tree.branches)
    BY <1>3
  <2>4. queue' \in Seq(tree.branches) /\ ToSet(queue') = ToSet(queue)
    <3>0. rest \in Seq(tree.branches) /\ path \in tree.branches
      BY <1>3, <2>1
    <3>1. /\ Append(rest, path) \in Seq(tree.branches)
          /\ ToSet(Append(rest, path)) = ToSet(rest) \cup {path}
      BY <3>0, AppendIs
    <3> QED BY <1>3, <1>6, <2>1, <3>1
  <2>5. faults' \in Nat /\ (faults' = 0 => faults = 0)
    BY <1>2, <1>6
  <2>6. tags' \in Seq(Found) /\ IsInjective(tags')
    BY <1>2, <1>6
  <2>7. faults' = 0 /\ Plain => Covers(ToSet(queue'), ToSet(tags'))
    BY <1>2, <1>6, <2>4, <2>5 DEF ListInv
  <2> QED BY <1>2, <1>6, <2>4, <2>5, <2>6, <2>7, ListingGoesOn
<1>7. CASE Raises(TRUE) /\ GiveUp
  BY <1>2, <1>7, ListingStays DEF Raises, GiveUp
<1> QED BY <1>1, <1>5, <1>6, <1>7 DEF BranchFails, Raises

\* What is left out is not wanted.
LEMMA FilterTagsFinds ==
    ASSUME DiscoveryTypes, ListInv, FilterTags
    PROVE  (DiscoveryTypes /\ ListInv)'
<1> DEFINE good == {i \in DOMAIN tags : Usable(tags[i])}
<1>1. /\ tree \in Trees /\ at = "list" /\ ~ options.ifix_optimized /\ faults \in Nat
      /\ queue = <<>> /\ tags \in Seq(Found) /\ IsInjective(tags)
      /\ UNCHANGED <<options, tree, queue, faults>> /\ at' = "discovered"
         /\ tags' = Select(tags, good)
  BY DEF FilterTags, DiscoveryTypes, ListInv
<1>2. Wanted = {i \in Found : Usable(i)}
  BY <1>1, WantedIs
<1>3. tags' \in Seq(Found) /\ IsInjective(tags') /\ ToSet(tags') = {tags[i] : i \in good}
  <2>1. good \in SUBSET DOMAIN tags
    OBVIOUS
  <2> HIDE DEF good
  <2> QED BY <1>1, <2>1, SelectIs
<1>4. ToSet(tags') = {t \in ToSet(tags) : Usable(t)}
  BY <1>3 DEF ToSet
<1>5. ToSet(tags) \subseteq Found
  BY <1>1 DEF ToSet
<1>6. ToSet(tags') \subseteq Wanted
  BY <1>2, <1>4, <1>5
<1>7. ASSUME faults = 0, Plain PROVE ToSet(tags') = Wanted
  <2>1. Covers(ToSet(queue), ToSet(tags))
    BY <1>1, <1>7 DEF ListInv
  <2>2. ToSet(queue) = {}
    BY <1>1 DEF ToSet
  <2>3. \A b \in Goals : TagsOf(b) \subseteq ToSet(tags)
    BY <2>1, <2>2 DEF Covers
  <2>4. Found \subseteq ToSet(tags)
    BY <2>3 DEF Found
  <2> QED BY <1>2, <1>4, <1>5, <2>4
<1> HIDE DEF good
<1> QED BY <1>1, <1>3, <1>6, <1>7, ListingEnds

\* With the queue empty nothing is left to be found.
LEMMA BrowseEndsFinds ==
    ASSUME DiscoveryTypes, ListInv, BrowseEnds
    PROVE  (DiscoveryTypes /\ ListInv)'
<1>1. /\ tree \in Trees /\ at = "browse" /\ options.ifix_optimized /\ faults \in Nat
      /\ queue = <<>> /\ tags \in Seq(Found) /\ IsInjective(tags)
      /\ UNCHANGED <<options, tree, queue, tags, faults>> /\ at' = "discovered"
  BY DEF BrowseEnds, DiscoveryTypes, ListInv
<1>2. Wanted = Found
  BY <1>1, WantedIs
<1>3. ToSet(tags) \subseteq Found
  BY <1>1 DEF ToSet
<1>4. ASSUME faults = 0 PROVE ToSet(tags) = Wanted
  <2>1. Covers(ToSet(queue), ToSet(tags))
    BY <1>1, <1>4 DEF ListInv, Plain
  <2>2. ToSet(queue) = {}
    BY <1>1 DEF ToSet
  <2>3. \A b \in Goals : TagsOf(b) \subseteq ToSet(tags)
    BY <2>1, <2>2 DEF Covers
  <2>4. Found \subseteq ToSet(tags)
    BY <2>3 DEF Found
  <2> QED BY <1>2, <1>3, <2>4
<1> QED BY <1>1, <1>2, <1>3, <1>4, ListingEnds

\* What a branch of an iFIX server is told to have in it takes its place.
LEMMA BrowseEnters ==
    ASSUME DiscoveryTypes, ListInv, at = "browse", queue # <<>>, Len(Head(queue)) < 2,
           NEW sub \in SUBSET SubBranches(Head(queue)), queue' = SetToSeq(sub) \o Tail(queue),
           faults' \in Nat, faults' = 0 => faults = 0 /\ sub = SubBranches(Head(queue)),
           UNCHANGED <<options, tree, at, tags>>
    PROVE  (DiscoveryTypes /\ ListInv)'
<1>1. PICK path, rest : path = Head(queue) /\ rest = Tail(queue)
  OBVIOUS
<1>2. PICK paths, found, more : paths = ToSet(queue) /\ found = ToSet(tags)
          /\ more = (paths \ {path}) \cup sub
  OBVIOUS
<1>3. /\ tree \in Trees /\ options.ifix_optimized /\ tags \in Seq(Found) /\ IsInjective(tags)
      /\ IsInjective(queue) /\ Apart(paths) /\ Ahead(paths, found)
  BY <1>2 DEF DiscoveryTypes, ListInv
<1>4. /\ path \in tree.branches /\ path \in paths /\ paths \in SUBSET tree.branches
      /\ rest \in Seq(tree.branches) /\ IsInjective(rest) /\ ToSet(rest) = paths \ {path}
  BY <1>1, <1>2, <1>3, HeadOfQueue
<1>5. sub \in SUBSET SubBranches(path) /\ Len(path) < 2
  BY <1>1
<1>6. Apart(more) /\ Ahead(more, found) /\ sub \cap (paths \ {path}) = {}
  BY <1>2, <1>3, <1>4, <1>5, ApartEntered
<1>7. sub \in SUBSET tree.branches /\ IsFiniteSet(sub)
  <2>1. SubBranches(path) \subseteq tree.branches
    BY DEF SubBranches
  <2>2. IsFiniteSet(SubBranches(path))
    BY <1>3, <1>4, TagsFinite
  <2> QED BY <1>5, <2>1, <2>2, FS_Subset
<1>8. PICK new : new = SetToSeq(sub)
  OBVIOUS
<1>9. new \in Seq(tree.branches) /\ ToSet(new) = sub /\ IsInjective(new)
  BY <1>7, <1>8, SetToSeqIs
<1>10. ToSet(new) \cap ToSet(rest) = {}
  BY <1>4, <1>6, <1>9
<1>11. queue' = new \o rest
  BY <1>1, <1>8
<1>12. queue' \in Seq(tree.branches) /\ IsInjective(queue')
           /\ ToSet(queue') = ToSet(new) \cup ToSet(rest)
  <2>1. /\ new \o rest \in Seq(tree.branches)
        /\ ToSet(new \o rest) = ToSet(new) \cup ToSet(rest)
        /\ IsInjective(new) /\ IsInjective(rest) /\ ToSet(new) \cap ToSet(rest) = {} =>
               IsInjective(new \o rest)
    BY <1>4, <1>9, ConcatIs
  <2> QED BY <1>4, <1>9, <1>10, <1>11, <2>1
<1>13. ToSet(queue') = more
  BY <1>2, <1>4, <1>9, <1>12
<1>14. ASSUME faults' = 0 PROVE Covers(more, found)
  <2>1. Covers(paths, found) /\ SubBranches(path) \subseteq more
    BY <1>1, <1>2, <1>3, <1>14 DEF ListInv, Plain
  <2>2. path \notin Goals
    <3>1. path \in Seq(STRING)
      BY <1>3, <1>4, TreeIs
    <3>2. PICK n \in Nat : n = Len(path)
      BY <3>1
    <3>3. Len(path) # 3
      <4>1. n < 2
        BY <1>5, <3>2
      <4>2. n # 3
        BY <4>1
      <4> QED BY <3>2, <4>2
    <3> QED BY <1>3, <3>3 DEF Goals, Blocks
  <2>3. more \in SUBSET tree.branches /\ paths \subseteq more \cup {path}
    BY <1>2, <1>4, <1>7
  <2> QED BY <1>3, <1>4, <2>1, <2>2, <2>3, CoversEntered
<1>15. ToSet(tags') = found /\ tags' \in Seq(Found) /\ IsInjective(tags')
  BY <1>2, <1>3
<1> QED BY <1>6, <1>12, <1>13, <1>14, <1>15, ListingGoesOn

\* The blocks a type is told to have are found.
LEMMA BrowseVisits ==
    ASSUME DiscoveryTypes, ListInv, at = "browse", queue # <<>>, Len(Head(queue)) >= 2,
           NEW sub \in SUBSET SubBranches(Head(queue)), queue' = Tail(queue),
           tags' = tags \o SetToSeq({ItemID(b, Suffix(Head(queue)[2])) : b \in sub}),
           faults' \in Nat, faults' = 0 => faults = 0 /\ sub = SubBranches(Head(queue)),
           UNCHANGED <<options, tree, at>>
    PROVE  (DiscoveryTypes /\ ListInv)'
<1>1. PICK path, rest : path = Head(queue) /\ rest = Tail(queue)
  OBVIOUS
<1>2. PICK paths, found, more : paths = ToSet(queue) /\ found = ToSet(tags) /\ more = paths \ {path}
  OBVIOUS
<1>3. /\ tree \in Trees /\ options.ifix_optimized /\ tags \in Seq(Found) /\ IsInjective(tags)
      /\ IsInjective(queue) /\ Apart(paths) /\ Ahead(paths, found) /\ NamedApart
  BY <1>2 DEF DiscoveryTypes, ListInv
<1>4. /\ path \in tree.branches /\ path \in paths /\ paths \in SUBSET tree.branches
      /\ rest \in Seq(tree.branches) /\ IsInjective(rest) /\ ToSet(rest) = paths \ {path}
  BY <1>1, <1>2, <1>3, HeadOfQueue
<1>5. sub \in SUBSET SubBranches(path) /\ Len(path) = 2
  <2>1. Len(path) <= 2
    BY <1>3, <1>4 DEF Apart
  <2>2. path \in Seq(STRING)
    BY <1>3, <1>4, TreeIs
  <2>3. PICK n \in Nat : n = Len(path)
    BY <2>2
  <2>4. n >= 2 /\ n <= 2
    BY <1>1, <2>1, <2>3
  <2>5. Len(path) = 2
    BY <2>3, <2>4
  <2> QED BY <1>1, <2>5
<1>6. Found = {BlockTag(b) : b \in Blocks} /\ found \subseteq {BlockTag(b) : b \in Blocks}
  <2>1. Found = {BlockTag(b) : b \in Blocks}
    BY <1>3 DEF Found, Goals, TagsOf
  <2> QED BY <1>2, <1>3, <2>1 DEF ToSet
<1>7. PICK blocks : blocks = {BlockTag(b) : b \in sub}
  OBVIOUS
<1>8. /\ sub \subseteq Blocks /\ Apart(more) /\ found \cap blocks = {}
      /\ Ahead(more, found \cup blocks)
  BY <1>2, <1>3, <1>4, <1>5, <1>6, <1>7, ApartVisited
<1>9. blocks = {ItemID(b, Suffix(path[2])) : b \in sub}
  <2>1. ASSUME NEW b \in sub PROVE b[2] = path[2]
    <3>1. Prefix(path, b)
      BY <1>3, <1>4, <1>5, ChildIs
    <3>2. 2 \in 1 .. Len(path)
      BY <1>5
    <3> QED BY <3>1, <3>2 DEF Prefix
  <2>2. \A b \in sub : BlockTag(b) = ItemID(b, Suffix(path[2]))
    BY <2>1 DEF BlockTag
  <2> QED BY <1>7, <2>2
<1>10. blocks \in SUBSET Found /\ IsFiniteSet(blocks)
  <2>1. sub \in SUBSET tree.branches
    BY <1>8 DEF Blocks
  <2> QED BY <1>3, <1>6, <1>7, <1>8, <2>1, TagsFinite
<1>11. PICK new : new = SetToSeq(blocks)
  OBVIOUS
<1>12. new \in Seq(Found) /\ ToSet(new) = blocks /\ IsInjective(new)
  BY <1>10, <1>11, SetToSeqIs
<1>13. tags' = tags \o new
  BY <1>1, <1>9, <1>11
<1>14. ToSet(tags) \cap ToSet(new) = {}
  BY <1>2, <1>8, <1>12
<1>15. tags' \in Seq(Found) /\ IsInjective(tags') /\ ToSet(tags') = ToSet(tags) \cup ToSet(new)
  <2>1. /\ tags \o new \in Seq(Found)
        /\ ToSet(tags \o new) = ToSet(tags) \cup ToSet(new)
        /\ IsInjective(tags) /\ IsInjective(new) /\ ToSet(tags) \cap ToSet(new) = {} =>
               IsInjective(tags \o new)
    BY <1>3, <1>12, ConcatIs
  <2> QED BY <1>3, <1>12, <1>13, <1>14, <2>1
<1>16. PICK all : all = ToSet(tags') /\ all = found \cup blocks
  BY <1>2, <1>12, <1>15
<1>17. queue' \in Seq(tree.branches) /\ IsInjective(queue') /\ ToSet(queue') = more
  BY <1>1, <1>2, <1>4
<1>18. ASSUME faults' = 0 PROVE Covers(more, all)
  <2>1. Covers(paths, found) /\ sub = SubBranches(path)
    BY <1>1, <1>2, <1>3, <1>18 DEF ListInv, Plain
  <2>2. more \in SUBSET tree.branches /\ paths \subseteq more \cup {path} /\ found \subseteq all
    BY <1>2, <1>4, <1>16
  <2>3. Visited(path, all)
    <3>1. ASSUME NEW b \in Goals, Prefix(path, b) PROVE TagsOf(b) \subseteq all
      <4>1. b \in Blocks
        BY <1>3 DEF Goals
      <4>2. b \in sub
        BY <1>3, <1>4, <1>5, <2>1, <3>1, <4>1, BlocksOfType
      <4>3. BlockTag(b) \in all
        BY <1>7, <1>16, <4>2
      <4> QED BY <1>3, <4>3 DEF TagsOf
    <3> QED BY <3>1 DEF Visited
  <2>4. tree \in Trees /\ path \in tree.branches /\ paths \in SUBSET tree.branches
    BY <1>3, <1>4
  <2>5. Covers(paths, found)
    BY <2>1
  <2> QED BY <2>2, <2>3, <2>4, <2>5, CoversVisited
<1> QED BY <1>8, <1>15, <1>16, <1>17, <1>18, ListingGoesOn

\* A step of the iFIX listing.
LEMMA BrowseFinds ==
    ASSUME DiscoveryTypes, ListInv, Browse
    PROVE  (DiscoveryTypes /\ ListInv)'
<1>1. at = "browse" /\ queue # <<>> /\ faults \in Nat /\ tree \in Trees
  BY DEF Browse, DiscoveryTypes
<1>2. Head(queue) \in Seq(STRING) /\ Len(Head(queue)) \in Nat
  BY <1>1, HeadOfQueue, TreeIs
<1>3. ASSUME NEW sub \in Reported(SubBranches(Head(queue))), Raises(sub # SubBranches(Head(queue)))
      PROVE  /\ sub \in SUBSET SubBranches(Head(queue)) /\ faults' \in Nat
             /\ faults' = 0 => faults = 0 /\ sub = SubBranches(Head(queue))
  BY <1>1, <1>3 DEF Reported, Raises
<1>4. CASE /\ \E sub \in Reported(SubBranches(Head(queue))) :
                /\ Raises(sub # SubBranches(Head(queue)))
                /\ IF Len(Head(queue)) < 2
                   THEN queue' = SetToSeq(sub) \o Tail(queue) /\ UNCHANGED tags
                   ELSE /\ queue' = Tail(queue)
                        /\ tags' = tags \o SetToSeq({ItemID(b, Suffix(Head(queue)[2])) : b \in sub})
           /\ UNCHANGED <<options, tree, at>>
  <2>1. PICK sub \in Reported(SubBranches(Head(queue))) :
          /\ Raises(sub # SubBranches(Head(queue)))
          /\ IF Len(Head(queue)) < 2
             THEN queue' = SetToSeq(sub) \o Tail(queue) /\ UNCHANGED tags
             ELSE /\ queue' = Tail(queue)
                  /\ tags' = tags \o SetToSeq({ItemID(b, Suffix(Head(queue)[2])) : b \in sub})
    BY <1>4
  <2>2. /\ sub \in SUBSET SubBranches(Head(queue)) /\ faults' \in Nat
        /\ faults' = 0 => faults = 0 /\ sub = SubBranches(Head(queue))
    BY <1>3, <2>1
  <2>3. CASE Len(Head(queue)) < 2
    BY <1>1, <1>4, <2>1, <2>2, <2>3, BrowseEnters
  <2>4. CASE ~ (Len(Head(queue)) < 2)
    <3>1. Len(Head(queue)) >= 2
      BY <1>2, <2>4
    <3> QED BY <1>1, <1>4, <2>1, <2>2, <2>4, <3>1, BrowseVisits
  <2> QED BY <2>3, <2>4
<1>5. CASE Raises(TRUE) /\ GiveUp
  BY <1>1, <1>5, ListingStays DEF Raises, GiveUp
<1> QED BY <1>4, <1>5 DEF Browse

\* What comes after the listing leaves it alone.
LEMMA FoundStays ==
    ASSUME DiscoveryTypes, ListInv,
           NoTags \/ SkipInitialRead \/ StartReading \/ ReadList \/ ReadingEnds
           \/ StartDescribing \/ DescribeBatch \/ Announce
    PROVE  (DiscoveryTypes /\ ListInv)'
<1>1. UNCHANGED <<options, tree, queue, tags>>
  BY DEF NoTags, GiveUp, SkipInitialRead, StartReading, ReadList, ReadingEnds, StartDescribing,
         DescribeBatch, Announce
<1>2. faults \in Nat
  BY DEF DiscoveryTypes
<1>3. faults' \in Nat /\ (faults' = 0 => faults = 0)
  <2>1. CASE ReadList
    BY <1>2, <2>1 DEF ReadList, Raises
  <2>2. CASE DescribeBatch
    BY <1>2, <2>2 DEF DescribeBatch, Raises
  <2>3. CASE ~ ReadList /\ ~ DescribeBatch
    BY <1>2, <2>3 DEF NoTags, GiveUp, SkipInitialRead, StartReading, ReadingEnds,
      StartDescribing, Announce
  <2> QED BY <2>1, <2>2, <2>3
<1>4. \/ at' = "failed"
      \/ at \notin {"list", "browse", "failed"} /\ at' \in Points \ {"list", "browse", "failed"}
  BY DEF NoTags, GiveUp, SkipInitialRead, StartReading, ReadList, ReadingEnds, StartDescribing,
         DescribeBatch, Announce, Points
<1> QED BY <1>1, <1>3, <1>4, ListingStays

\* At first everything is behind the root.
LEMMA ListInit ==
    ASSUME Init, options.ifix_optimized => NamedApart
    PROVE  DiscoveryTypes /\ ListInv
<1>1. tree \in Trees /\ <<>> \in tree.branches /\ at \in {"list", "browse"}
  BY TreeIs DEF Init
<1>2. queue = <<<<>>>> /\ tags = <<>> /\ faults = 0
  BY DEF Init
<1>3. DOMAIN queue = {1} /\ queue[1] = <<>> /\ ToSet(tags) = {}
  BY <1>2 DEF ToSet
<1>4. ToSet(queue) = {<<>>}
  BY <1>3 DEF ToSet
<1>5. queue \in Seq(tree.branches) /\ IsInjective(queue)
  <2>1. \A X : \A x \in X : <<x>> \in Seq(X)
    OBVIOUS
  <2>2. queue \in Seq(tree.branches)
    BY <1>1, <1>2, <2>1
  <2> QED BY <1>3, <2>2 DEF IsInjective
<1>6. tags \in Seq(Found) /\ IsInjective(tags)
  BY <1>2 DEF IsInjective
<1>7. \A b \in tree.branches : Prefix(<<>>, b)
  BY <1>1, TreeIs DEF Prefix
<1>8. Covers({<<>>}, {})
  BY <1>7 DEF Covers, Goals, Blocks
<1>9. Apart({<<>>}) /\ Ahead({<<>>}, {})
  BY DEF Apart, Ahead
<1>10. DiscoveryTypes
  BY <1>1, <1>2, <1>5, <1>6 DEF DiscoveryTypes, Points
<1>11. at = "list" <=> ~ options.ifix_optimized
  BY DEF Init
<1> QED BY <1>1, <1>3, <1>4, <1>5, <1>6, <1>8, <1>9, <1>10, <1>11 DEF ListInv, FindsEachTagOnce

\* The listing, in whatever order branches are told.
LEMMA FoundInv ==
    Spec /\ (options.ifix_optimized => NamedApart) => [](DiscoveryTypes /\ ListInv)
<1>1. ASSUME DiscoveryTypes /\ ListInv, [Next]_vars PROVE (DiscoveryTypes /\ ListInv)'
  <2>1. CASE UNCHANGED vars
    <3>1. UNCHANGED <<options, tree, at, queue, tags, faults>>
      BY <2>1 DEF vars
    <3>2. DiscoveryTypes'
      BY <1>1, <3>1, SameServer DEF DiscoveryTypes
    <3>3. (Apart(ToSet(queue')) => Apart(ToSet(queue))')
              /\ IsInjective(queue)' = IsInjective(queue')
          /\ IsInjective(tags)' = IsInjective(tags')
      BY DEF Apart, IsInjective
    <3>4. FindsEachTagOnce'
      BY <1>1, <3>1, SameServer DEF FindsEachTagOnce, ListInv
    <3>5. ToSet(queue') = ToSet(queue) /\ ToSet(tags') = ToSet(tags)
      BY <3>1
    <3> QED BY <1>1, <3>1, <3>2, <3>3, <3>4, <3>5, SameServer DEF ListInv
  <2> QED BY <1>1, <2>1, ListFlatFinds, ListBranchFinds, BranchFailsFinds, FilterTagsFinds,
             BrowseFinds, BrowseEndsFinds, FoundStays DEF Next
<1> QED BY <1>1, ListInit, PTL DEF Spec

\* Discovery finds every tag unless a call failed or a walk met a dotted name, finds
\* none twice and none that is not there: along any tree, whatever fails and in
\* whatever order branches are told.  For iFIX no two blocks may share a tag, which
\* the list of _discover_tags_ifix_optimized would hold twice.
THEOREM TagsFound == Spec /\ (options.ifix_optimized => NamedApart) => []FindsEachTagOnce
<1>1. ListInv => FindsEachTagOnce
  BY DEF ListInv
<1> QED BY <1>1, FoundInv, PTL

-----------------------------------------------------------------------------
(* What is read.                                                            *)

WalkTypes ==
    /\ tree \in Trees /\ at \in Points /\ faults \in Nat
    /\ queue \in Seq(tree.branches) /\ \E X : tags \in Seq(X)

\* Before or behind a list, a finite set as a list.
LEMMA FiniteToSeq ==
    ASSUME NEW S, IsFiniteSet(S), NEW X, NEW s \in Seq(X)
    PROVE  SetToSeq(S) \in Seq(S) /\ s \o SetToSeq(S) \in Seq(X \cup S)
        /\ SetToSeq(S) \o s \in Seq(S \cup X)
<1>1. PICK t : t = SetToSeq(S) /\ t \in Seq(S)
  BY SetToSeqIs
<1>2. PICK Y : Y = X \cup S /\ Y = S \cup X
  OBVIOUS
<1>3. s \in Seq(Y) /\ t \in Seq(Y)
  BY <1>1, <1>2
<1>4. s \o t \in Seq(Y) /\ t \o s \in Seq(Y)
  BY <1>3
<1> QED BY <1>1, <1>2, <1>4

\* The number of faults stays one.
LEMMA RaisesTypes ==
    ASSUME faults \in Nat, NEW b, Raises(b)
    PROVE  faults' \in Nat
BY DEF Raises

\* Types, through the standard listing ...
LEMMA WalkList ==
    ASSUME WalkTypes, ListFlat \/ ListBranch \/ BranchFails \/ FilterTags
    PROVE  WalkTypes'
<1>1. /\ tree \in Trees /\ faults \in Nat /\ queue \in Seq(tree.branches) /\ at = "list"
      /\ UNCHANGED tree
  BY DEF WalkTypes, ListFlat, ListBranch, BranchFails, FilterTags, GiveUp
<1>2. PICK X : tags \in Seq(X)
  BY DEF WalkTypes
<1>3. at' \in Points
  BY <1>1 DEF ListFlat, ListBranch, BranchFails, FilterTags, GiveUp, Points
<1>4. faults' \in Nat
  BY <1>1, RaisesTypes DEF ListFlat, ListBranch, BranchFails, FilterTags
<1>5. queue # <<>> => /\ Head(queue) \in tree.branches /\ Tail(queue) \in Seq(tree.branches)
                      /\ Append(Tail(queue), Head(queue)) \in Seq(tree.branches)
  <2>1. queue # <<>> => Head(queue) \in tree.branches /\ Tail(queue) \in Seq(tree.branches)
    BY <1>1, TailIs
  <2> QED BY <2>1, AppendIs
<1>6. CASE ListFlat
  <2>1. PICK S : S = UNION {Items(b) : b \in tree.branches} /\ IsFiniteSet(S)
    BY <1>1, TagsFinite
  <2>2. tags' = SetToSeq(S) \/ tags' = tags
    BY <1>6, <2>1 DEF ListFlat, GiveUp
  <2>3. \E Y : tags' \in Seq(Y)
    BY <1>2, <2>1, <2>2, FiniteToSeq
  <2>4. queue' \in Seq(tree.branches)
    <3>1. queue' = <<>> \/ queue' = queue
      BY <1>6 DEF ListFlat, GiveUp
    <3>2. <<>> \in Seq(tree.branches)
      OBVIOUS
    <3> QED BY <1>1, <3>1, <3>2
  <2> QED BY <1>1, <1>3, <1>4, <2>3, <2>4 DEF WalkTypes
<1>7. CASE ListBranch
  <2>1. PICK p : p = Head(queue) /\ p \in tree.branches
    BY <1>5, <1>7 DEF ListBranch
  <2>2. PICK S : S = Items(p) \ ToSet(tags) /\ IsFiniteSet(S)
    <3>1. IsFiniteSet(Items(p))
      BY <1>1, <2>1, TagsFinite
    <3> QED BY <3>1, FS_Subset
  <2>3. PICK sub : sub = SubBranches(p) /\ IsFiniteSet(sub) /\ sub \subseteq tree.branches
    BY <1>1, <2>1, TagsFinite DEF SubBranches
  <2>4. tags' = tags \/ tags' = tags \o SetToSeq(S)
    BY <1>7, <2>1, <2>2 DEF ListBranch
  <2>5. \E Y : tags' \in Seq(Y)
    <3>1. tags \o SetToSeq(S) \in Seq(X \cup S)
      BY <1>2, <2>2, FiniteToSeq
    <3> QED BY <1>2, <2>4, <3>1
  <2>6. queue' = Tail(queue) \/ queue' = Tail(queue) \o SetToSeq(sub)
    BY <1>7, <2>1, <2>3 DEF ListBranch
  <2>7. Tail(queue) \in Seq(tree.branches)
    BY <1>5, <1>7 DEF ListBranch
  <2>8. Tail(queue) \o SetToSeq(sub) \in Seq(tree.branches \cup sub)
    BY <2>3, <2>7, FiniteToSeq
  <2>9. tree.branches \cup sub = tree.branches
    BY <2>3
  <2>10. queue' \in Seq(tree.branches)
    BY <2>6, <2>7, <2>8, <2>9
  <2> QED BY <1>1, <1>3, <1>4, <2>5, <2>10 DEF WalkTypes
<1>8. CASE BranchFails
  <2>1. queue' \in Seq(tree.branches) /\ tags' = tags
    <3>1. /\ tags' = tags
          /\ queue' = <<>> \/ queue' = queue \/ queue' = Append(Tail(queue), Head(queue))
      BY <1>8 DEF BranchFails, GiveUp
    <3>2. queue # <<>> /\ <<>> \in Seq(tree.branches)
      BY <1>8 DEF BranchFails
    <3> QED BY <1>1, <1>5, <3>1, <3>2
  <2> QED BY <1>1, <1>2, <1>3, <1>4, <2>1 DEF WalkTypes
<1>9. CASE FilterTags
  <2>1. PICK good : good = {i \in DOMAIN tags : Usable(tags[i])}
    OBVIOUS
  <2>2. tags' = Select(tags, good) /\ queue' = queue
    BY <1>9, <2>1 DEF FilterTags
  <2>3. tags' \in Seq(X)
    BY <1>2, <2>1, <2>2, SelectIs
  <2> QED BY <1>1, <1>3, <1>4, <2>2, <2>3 DEF WalkTypes
<1> QED BY <1>6, <1>7, <1>8, <1>9

\* ... through the iFIX listing, ...
LEMMA WalkBrowse ==
    ASSUME WalkTypes, Browse
    PROVE  WalkTypes'
<1>1. /\ tree \in Trees /\ faults \in Nat /\ queue \in Seq(tree.branches) /\ at = "browse"
      /\ UNCHANGED tree /\ queue # <<>>
  BY DEF WalkTypes, Browse, GiveUp
<1>2. PICK X : tags \in Seq(X)
  BY DEF WalkTypes
<1>3. at' \in Points
  BY <1>1 DEF Browse, GiveUp, Points
<1>4. faults' \in Nat
  BY <1>1, RaisesTypes DEF Browse
<1>5. PICK p, rest : p = Head(queue) /\ p \in tree.branches /\ rest = Tail(queue)
          /\ rest \in Seq(tree.branches)
  BY <1>1, TailIs
<1>6. CASE Raises(TRUE) /\ GiveUp
  BY <1>1, <1>2, <1>3, <1>4, <1>6 DEF GiveUp, WalkTypes
<1>7. CASE \E sub \in Reported(SubBranches(p)) :
             IF Len(p) < 2
             THEN queue' = SetToSeq(sub) \o rest /\ UNCHANGED tags
             ELSE queue' = rest /\ tags' = tags \o SetToSeq({ItemID(b, Suffix(p[2])) : b \in sub})
  <2>1. PICK sub \in Reported(SubBranches(p)) :
             IF Len(p) < 2
             THEN queue' = SetToSeq(sub) \o rest /\ UNCHANGED tags
             ELSE queue' = rest /\ tags' = tags \o SetToSeq({ItemID(b, Suffix(p[2])) : b \in sub})
    BY <1>7
  <2>2. sub \subseteq tree.branches /\ IsFiniteSet(sub)
    <3>1. sub \subseteq SubBranches(p) /\ IsFiniteSet(SubBranches(p))
              /\ SubBranches(p) \subseteq tree.branches
      BY <1>1, <1>5, TagsFinite DEF Reported, SubBranches
    <3> QED BY <3>1, FS_Subset
  <2>3. PICK S : S = {ItemID(b, Suffix(p[2])) : b \in sub} /\ IsFiniteSet(S)
    <3> DEFINE all == {ItemID(b, Suffix(p[2])) : b \in sub}
               f   == [b \in sub |-> ItemID(b, Suffix(p[2]))]
    <3>1. f \in Surjection(sub, all)
      BY DEF Surjection
    <3> HIDE DEF f, all
    <3>2. IsFiniteSet(all)
      BY <2>2, <3>1, FS_Surjection
    <3> QED BY <3>2 DEF all
  <2>4. tags' = tags \/ tags' = tags \o SetToSeq(S)
    BY <2>1, <2>3
  <2>5. \E Y : tags' \in Seq(Y)
    <3>1. tags \o SetToSeq(S) \in Seq(X \cup S)
      BY <1>2, <2>3, FiniteToSeq
    <3> QED BY <1>2, <2>4, <3>1
  <2>6. queue' = rest \/ queue' = SetToSeq(sub) \o rest
    BY <2>1
  <2>7. SetToSeq(sub) \o rest \in Seq(sub \cup tree.branches)
    BY <1>5, <2>2, FiniteToSeq
  <2>8. sub \cup tree.branches = tree.branches
    BY <2>2
  <2>9. queue' \in Seq(tree.branches)
    BY <1>5, <2>6, <2>7, <2>8
  <2> QED BY <1>1, <1>3, <1>4, <2>5, <2>9 DEF WalkTypes
<1> QED BY <1>5, <1>6, <1>7 DEF Browse

\* What comes after the listing leaves it alone.
LEMMA WalkEnds ==
    ASSUME WalkTypes, BrowseEnds \/ NoTags \/ SkipInitialRead \/ StartReading \/ ReadList
        \/ ReadingEnds
                      \/ StartDescribing \/ DescribeBatch \/ Announce
    PROVE  WalkTypes'
<1>1. UNCHANGED <<options, tree, queue, tags>>
  BY DEF BrowseEnds, NoTags, GiveUp, SkipInitialRead, StartReading, ReadList, ReadingEnds,
    StartDescribing,
         DescribeBatch, Announce
<1>2. at' \in Points
  BY DEF WalkTypes, BrowseEnds, NoTags, GiveUp, SkipInitialRead, StartReading, ReadList,
    ReadingEnds,
         StartDescribing, DescribeBatch, Announce, Points
<1>3. faults' \in Nat
  <2>0. faults \in Nat
    BY DEF WalkTypes
  <2>1. CASE ReadList
    BY <2>0, <2>1, RaisesTypes DEF ReadList
  <2>2. CASE DescribeBatch
    BY <2>0, <2>2, RaisesTypes DEF DescribeBatch
  <2>3. CASE ~ ReadList /\ ~ DescribeBatch
    BY <2>0, <2>3 DEF BrowseEnds, NoTags, GiveUp, SkipInitialRead, StartReading, ReadingEnds,
      StartDescribing, Announce
  <2> QED BY <2>1, <2>2, <2>3
<1> QED BY <1>1, <1>2, <1>3 DEF WalkTypes

\* ... and through every step.
LEMMA WalkNext ==
    ASSUME WalkTypes, [Next]_vars
    PROVE  WalkTypes'
<1>1. CASE UNCHANGED vars
  BY <1>1 DEF vars, WalkTypes
<1> QED BY <1>1, WalkList, WalkBrowse, WalkEnds DEF Next

\* At first there is the root, and no tag.
LEMMA WalkInit ==
    ASSUME Init
    PROVE  WalkTypes
<1>1. tree \in Trees /\ <<>> \in tree.branches /\ at \in Points /\ faults \in Nat
  BY TreeIs DEF Init, Points
<1>2. \A X : \A x \in X : <<x>> \in Seq(X)
  OBVIOUS
<1>3. queue \in Seq(tree.branches)
  BY <1>1, <1>2 DEF Init
<1>4. tags \in Seq({})
  BY DEF Init
<1> QED BY <1>1, <1>3, <1>4 DEF WalkTypes

-----------------------------------------------------------------------------
(* Lists cut up.                                                            *)

\* One is before the other in the list.
Earlier(list, x, y) == \E i, j \in DOMAIN list : i < j /\ list[i] = x /\ list[j] = y

\* Elements of the list, in its order.
Part(part, list) ==
    /\ ToSet(part) \subseteq ToSet(list)
    /\ \A k, l \in DOMAIN part : k < l => Earlier(list, part[k], part[l])

Before(list, a, b) == \A x \in ToSet(a), y \in ToSet(b) : Earlier(list, x, y)

\* A part of a part is a part.
LEMMA PartIs ==
    ASSUME NEW a, NEW b, NEW c, Part(b, c)
    PROVE  /\ Part(a, b) => Part(a, c)
           /\ \A x, y : Earlier(b, x, y) => Earlier(c, x, y)
<1>1. ASSUME NEW x, NEW y, Earlier(b, x, y) PROVE Earlier(c, x, y)
  <2>1. PICK i \in DOMAIN b, j \in DOMAIN b : i < j /\ b[i] = x /\ b[j] = y
    BY <1>1 DEF Earlier
  <2> QED BY <2>1 DEF Part
<1> QED BY <1>1 DEF Part

\* A slice of a list.
LEMMA SliceIs ==
    ASSUME NEW X, NEW list \in Seq(X), NEW m \in Nat \ {0}, NEW n \in Nat, n <= Len(list),
           m <= n + 1
    PROVE  /\ SubSeq(list, m, n) \in Seq(X) /\ Len(SubSeq(list, m, n)) = n + 1 - m
           /\ ToSet(SubSeq(list, m, n)) = {list[i] : i \in m .. n}
           /\ Part(SubSeq(list, m, n), list)
<1>1. PICK s : s = SubSeq(list, m, n)
  OBVIOUS
<1>2. PICK c \in Nat : c = n + 1 - m
  BY n + 1 - m \in Nat
<1>3. Len(list) \in Nat /\ DOMAIN list = 1 .. Len(list)
  OBVIOUS
<1>4. \A i \in m .. n : i \in DOMAIN list /\ list[i] \in X
  BY <1>3
<1>5. s \in Seq(X) /\ Len(s) = c /\ \A k \in 1 .. c : s[k] = list[m + k - 1]
  <2>1. /\ SubSeq(list, m, n) \in Seq(X)
        /\ Len(SubSeq(list, m, n)) = IF m <= n THEN n - m + 1 ELSE 0
        /\ \A i \in 1 .. n - m + 1 : SubSeq(list, m, n)[i] = list[m + i - 1]
    BY <1>4, SubSeqProperties
  <2>2. c = n - m + 1 /\ (IF m <= n THEN n - m + 1 ELSE 0) = c
    BY <1>2
  <2> QED BY <1>1, <2>1, <2>2
<1>6. DOMAIN s = 1 .. c
  BY <1>5
<1>7. \A k \in 1 .. c : m + k - 1 \in m .. n /\ m + k - 1 \in DOMAIN list
  BY <1>2, <1>3
<1>8. \A i \in m .. n : i - m + 1 \in 1 .. c /\ m + (i - m + 1) - 1 = i
  BY <1>2
<1>9. ToSet(s) = {list[i] : i \in m .. n}
  <2>1. \A x \in ToSet(s) : x \in {list[i] : i \in m .. n}
    BY <1>5, <1>6, <1>7 DEF ToSet
  <2>2. \A i \in m .. n : s[i - m + 1] = list[i]
    BY <1>5, <1>8
  <2>3. \A i \in m .. n : list[i] \in ToSet(s)
    BY <1>6, <1>8, <2>2 DEF ToSet
  <2> QED BY <2>1, <2>3
<1>10. Part(s, list)
  <2>1. ToSet(s) \subseteq ToSet(list)
    BY <1>4, <1>9 DEF ToSet
  <2>2. ASSUME NEW k \in 1 .. c, NEW l \in 1 .. c, k < l PROVE Earlier(list, s[k], s[l])
    <3>1. m + k - 1 < m + l - 1
      BY <2>2
    <3> QED BY <1>5, <1>7, <3>1 DEF Earlier
  <2> QED BY <1>6, <2>1, <2>2 DEF Part
<1> QED BY <1>1, <1>2, <1>5, <1>9, <1>10

\* Of two slices one is before the other.
LEMMA SlicesBefore ==
    ASSUME NEW X, NEW list \in Seq(X), NEW m \in Nat \ {0}, NEW n \in Nat, NEW o \in Nat \ {0},
           NEW p \in Nat,
           n < o, p <= Len(list),
           NEW a, NEW b, ToSet(a) = {list[i] : i \in m .. n}, ToSet(b) = {list[i] : i \in o .. p}
    PROVE  Before(list, a, b)
<1> SUFFICES ASSUME NEW i \in m .. n, NEW j \in o .. p PROVE Earlier(list, list[i], list[j])
  BY DEF Before
<1>1. Len(list) \in Nat /\ DOMAIN list = 1 .. Len(list)
  OBVIOUS
<1>2. i \in DOMAIN list /\ j \in DOMAIN list /\ i < j
  BY <1>1
<1> QED BY <1>2 DEF Earlier

\* Lists that a list is cut into.
Cuts(lists, list) ==
    /\ \A r \in DOMAIN lists : Part(lists[r], list)
    /\ \A r, s \in DOMAIN lists : r < s => Before(list, lists[r], lists[s])
    /\ ToSet(list) = UNION {ToSet(lists[r]) : r \in DOMAIN lists}

\* The pieces of a list are cuts of it, no longer than the size.
LEMMA PiecesAre ==
    ASSUME NEW X, NEW list \in Seq(X), NEW size \in Nat \ {0}
    PROVE  /\ Pieces(list, size) \in Seq(Seq(X))
           /\ \A r \in DOMAIN Pieces(list, size) : Len(Pieces(list, size)[r]) <= size
           /\ Cuts(Pieces(list, size), list)
<1>1. PICK len \in Nat : len = Len(list) /\ DOMAIN list = 1 .. len
  OBVIOUS
<1>2. PICK c : c = (len + size - 1) \div size
  OBVIOUS
<1>3. c \in Nat /\ c * size <= len + size - 1 /\ len + size - 1 < (c + 1) * size
  <2>1. PICK a \in Nat : a = len + size - 1
    BY len + size - 1 \in Nat
  <2>2. (a \div size) * size <= a /\ a < (a \div size) * size + size /\ a \div size \in Nat
    OBVIOUS
  <2>3. (c + 1) * size = c * size + size /\ c \in Nat
    BY <1>2, <2>1, <2>2
  <2> QED BY <1>2, <2>1, <2>2, <2>3
<1>4. PICK p : p = Pieces(list, size)
  OBVIOUS
<1> DEFINE From(i) == (i - 1) * size + 1
           To(i)   == IF i * size < len THEN i * size ELSE len
<1>5. DOMAIN p = 1 .. c /\ \A i \in 1 .. c : p[i] = SubSeq(list, From(i), To(i))
  BY <1>1, <1>2, <1>4 DEF Pieces
<1>6. ASSUME NEW i \in 1 .. c
      PROVE  /\ From(i) \in Nat \ {0} /\ To(i) \in Nat /\ To(i) <= len
             /\ From(i) <= To(i) + 1 /\ To(i) + 1 - From(i) <= size
  <2>1. i * size \in Nat /\ (i - 1) * size \in Nat /\ i * size = (i - 1) * size + size
    OBVIOUS
  <2>2. i * size <= c * size
    BY <1>3
  <2>3. (i - 1) * size < len
    BY <1>3, <2>1, <2>2
  <2> QED BY <2>1, <2>3
<1>7. ASSUME NEW i \in 1 .. c
      PROVE  /\ p[i] \in Seq(X) /\ Len(p[i]) <= size /\ Part(p[i], list)
             /\ ToSet(p[i]) = {list[k] : k \in From(i) .. To(i)}
  <2>1. PICK m, n : m = From(i) /\ n = To(i)
    OBVIOUS
  <2>2. m \in Nat \ {0} /\ n \in Nat /\ n <= Len(list) /\ m <= n + 1 /\ n + 1 - m <= size
    BY <1>1, <1>6, <2>1
  <2>3. p[i] = SubSeq(list, m, n)
    BY <1>5, <2>1
  <2> HIDE DEF From, To
  <2>4. /\ SubSeq(list, m, n) \in Seq(X) /\ Len(SubSeq(list, m, n)) = n + 1 - m
        /\ ToSet(SubSeq(list, m, n)) = {list[k] : k \in m .. n}
        /\ Part(SubSeq(list, m, n), list)
    BY <2>2, SliceIs
  <2> QED BY <2>1, <2>2, <2>3, <2>4
<1>8. ASSUME NEW i \in 1 .. c, NEW j \in 1 .. c, i < j PROVE Before(list, p[i], p[j])
  <2>1. To(i) < From(j)
    <3>1. i * size <= (j - 1) * size
      <4>1. i <= j - 1 /\ j - 1 \in Nat
        BY <1>8
      <4> QED BY <4>1
    <3>2. To(i) <= i * size
      BY <1>6
    <3> QED BY <1>6, <3>1, <3>2
  <2>2. PICK m, n, o, q : m = From(i) /\ n = To(i) /\ o = From(j) /\ q = To(j)
    OBVIOUS
  <2>3. m \in Nat \ {0} /\ n \in Nat /\ o \in Nat \ {0} /\ q \in Nat /\ n < o /\ q <= Len(list)
    BY <1>1, <1>6, <2>1, <2>2
  <2>4. ToSet(p[i]) = {list[k] : k \in m .. n} /\ ToSet(p[j]) = {list[k] : k \in o .. q}
    BY <1>7, <2>2
  <2> HIDE DEF From, To
  <2> QED BY <2>3, <2>4, SlicesBefore
<1>9. ASSUME NEW k \in 1 .. len PROVE \E i \in 1 .. c : k \in From(i) .. To(i)
  <2>1. PICK a \in Nat : a = k - 1
    BY k - 1 \in Nat
  <2>2. PICK d \in Nat : d * size <= a /\ a < d * size + size
    <3>1. (a \div size) * size <= a /\ a < (a \div size) * size + size /\ a \div size \in Nat
      OBVIOUS
    <3> QED BY <3>1
  <2>3. (d + 1) * size = d * size + size /\ (d + 1) * size \in Nat /\ (d + 1) \in Nat
    OBVIOUS
  <2>4. (d + 1) * size < (c + 1) * size
    BY <1>3, <2>1, <2>2, <2>3
  <2>5. d + 1 < c + 1
    <3>1. \A u, v \in Nat : v <= u => v * size <= u * size
      OBVIOUS
    <3>2. c + 1 \in Nat /\ (c + 1) * size \in Nat
      BY <1>3
    <3>3. ~ (c + 1 <= d + 1)
      BY <2>3, <2>4, <3>1, <3>2
    <3> QED BY <1>3, <2>3, <3>3
  <2>6. d + 1 \in 1 .. c /\ d + 1 - 1 = d
    BY <1>3, <2>5
  <2>7. From(d + 1) = d * size + 1
    BY <2>6
  <2>8. k \in From(d + 1) .. To(d + 1)
    BY <2>1, <2>2, <2>3, <2>7
  <2> QED BY <2>6, <2>8
<1>10. ToSet(list) = UNION {ToSet(p[r]) : r \in 1 .. c}
  <2>1. ASSUME NEW x \in ToSet(list) PROVE \E r \in 1 .. c : x \in ToSet(p[r])
    <3>1. PICK k \in 1 .. len : x = list[k]
      BY <1>1 DEF ToSet
    <3>2. PICK i \in 1 .. c : k \in From(i) .. To(i)
      BY <1>9
    <3> HIDE DEF From, To
    <3> QED BY <1>7, <3>1, <3>2
  <2>2. \A r \in 1 .. c : ToSet(p[r]) \subseteq ToSet(list)
    BY <1>7 DEF Part
  <2> QED BY <2>1, <2>2
<1>11. p \in Seq(Seq(X))
  <2>1. p = [i \in 1 .. c |-> SubSeq(list, From(i), To(i))]
    BY <1>1, <1>2, <1>4 DEF Pieces
  <2>2. \A i \in 1 .. c : SubSeq(list, From(i), To(i)) \in Seq(X)
    BY <1>5, <1>7
  <2> HIDE DEF From, To
  <2> QED BY <1>3, <2>1, <2>2
<1> HIDE DEF From, To
<1> QED BY <1>4, <1>5, <1>7, <1>8, <1>10, <1>11 DEF Cuts

Lists(X) == [list : Seq(X), alone : BOOLEAN]

Unread(lists) == UNION {ToSet(lists[i].list) : i \in DOMAIN lists}

\* What is read after a list failed: the list, cut up; single tags for the last time.
LEMMA RetryIs ==
    ASSUME NEW X, NEW list \in Seq(X)
    PROVE  /\ Retry(list) \in Seq(Lists(X))
           /\ \A r \in DOMAIN Retry(list) : /\ Part(Retry(list)[r].list, list)
                                            /\ Retry(list)[r].alone => Len(Retry(list)[r].list) = 1
           /\ \A r, s \in DOMAIN Retry(list) : r < s =>
                  Before(list, Retry(list)[r].list, Retry(list)[s].list)
           /\ ToSet(list) = Unread(Retry(list))
<1>1. PICK len \in Nat : len = Len(list) /\ DOMAIN list = 1 .. len
  OBVIOUS
<1>2. PICK more : more = Retry(list)
  OBVIOUS
<1>3. CASE len > Small
  <2>1. PICK mid \in Nat : mid = len \div 2 /\ mid <= len
    <3>1. len \div 2 \in Nat /\ len \div 2 <= len
      OBVIOUS
    <3> QED BY <3>1
  <2>2. PICK a, b : a = SubSeq(list, 1, mid) /\ b = SubSeq(list, mid + 1, len)
    OBVIOUS
  <2>3. Cut(list) = <<a, b>>
    BY <1>1, <2>1, <2>2 DEF Cut
  <2>4. /\ a \in Seq(X) /\ Part(a, list) /\ ToSet(a) = {list[i] : i \in 1 .. mid}
    <3>1. PICK o \in Nat \ {0} : o = 1
      OBVIOUS
    <3>2. mid <= Len(list) /\ o <= mid + 1 /\ a = SubSeq(list, o, mid)
      BY <1>1, <2>1, <2>2, <3>1
    <3>3. a \in Seq(X) /\ Part(a, list) /\ ToSet(a) = {list[i] : i \in o .. mid}
      BY <3>2, SliceIs
    <3> QED BY <3>1, <3>3
  <2>5. /\ b \in Seq(X) /\ Part(b, list) /\ ToSet(b) = {list[i] : i \in mid + 1 .. len}
    <3>1. len <= Len(list) /\ mid + 1 <= len + 1 /\ mid + 1 \in Nat \ {0}
      BY <1>1, <2>1
    <3>2. PICK o : o = mid + 1
      OBVIOUS
    <3>3. b = SubSeq(list, o, len) /\ o \in Nat \ {0} /\ o <= len + 1
      BY <2>2, <3>1, <3>2
    <3>4. b \in Seq(X) /\ Part(b, list) /\ ToSet(b) = {list[i] : i \in o .. len}
      BY <3>1, <3>3, SliceIs
    <3> QED BY <3>2, <3>4
  <2>6. Before(list, a, b)
    <3>1. mid < mid + 1 /\ mid + 1 \in Nat \ {0} /\ len <= Len(list) /\ 1 \in Nat \ {0}
      BY <1>1, <2>1
    <3> QED BY <2>4, <2>5, <3>1, SlicesBefore
  <2>7. more = [i \in 1 .. 2 |-> [list |-> Cut(list)[i], alone |-> FALSE]]
    BY <1>1, <1>2, <1>3 DEF Retry
  <2>8. /\ DOMAIN more = 1 .. 2
        /\ more[1] = [list |-> a, alone |-> FALSE] /\ more[2] = [list |-> b, alone |-> FALSE]
    <3>1. Cut(list)[1] = a /\ Cut(list)[2] = b
      BY <2>3
    <3>2. 1 \in 1 .. 2 /\ 2 \in 1 .. 2
      OBVIOUS
    <3> QED BY <2>7, <3>1, <3>2
  <2>9. \A r \in 1 .. 2 : r = 1 \/ r = 2
    OBVIOUS
  <2>10. more \in Seq(Lists(X))
    <3>1. \A r \in 1 .. 2 : [list |-> Cut(list)[r], alone |-> FALSE] \in Lists(X)
      BY <2>3, <2>4, <2>5, <2>9 DEF Lists
    <3> QED BY <2>7, <3>1
  <2>11. \A r \in 1 .. 2 : Part(more[r].list, list) /\ ~ more[r].alone
    BY <2>4, <2>5, <2>8, <2>9
  <2>12. \A r, s \in 1 .. 2 : r < s => Before(list, more[r].list, more[s].list)
    <3>1. \A r, s \in 1 .. 2 : r < s => r = 1 /\ s = 2
      OBVIOUS
    <3> QED BY <2>6, <2>8, <3>1
  <2>13. ToSet(list) = Unread(more)
    <3>1. \A i \in 1 .. len : i \in 1 .. mid \/ i \in mid + 1 .. len
      BY <2>1
    <3>2. ToSet(list) = ToSet(a) \cup ToSet(b)
      <4>1. ToSet(a) \subseteq ToSet(list) /\ ToSet(b) \subseteq ToSet(list)
        BY <2>4, <2>5 DEF Part
      <4>2. ASSUME NEW x \in ToSet(list) PROVE x \in ToSet(a) \/ x \in ToSet(b)
        <5>1. PICK i \in 1 .. len : x = list[i]
          BY <1>1 DEF ToSet
        <5> QED BY <2>4, <2>5, <3>1, <5>1
      <4> QED BY <4>1, <4>2
    <3>3. {ToSet(more[r].list) : r \in 1 .. 2} = {ToSet(a), ToSet(b)}
      BY <2>8, <2>9
    <3> QED BY <2>8, <3>2, <3>3 DEF Unread
  <2> QED BY <1>2, <2>8, <2>10, <2>11, <2>12, <2>13
<1>4. CASE ~ (len > Small)
  <2>1. more = [i \in 1 .. len |-> [list |-> <<list[i]>>, alone |-> TRUE]]
    BY <1>1, <1>2, <1>4 DEF Retry
  <2>2. DOMAIN more = 1 .. len /\ \A i \in 1 .. len : more[i].list = <<list[i]>>
    BY <2>1
  <2>3. ASSUME NEW x
        PROVE  DOMAIN <<x>> = {1} /\ <<x>>[1] = x /\ Len(<<x>>) = 1 /\ ToSet(<<x>>) = {x}
    <3>1. DOMAIN <<x>> = {1} /\ <<x>>[1] = x /\ Len(<<x>>) = 1
      OBVIOUS
    <3> QED BY <3>1 DEF ToSet
  <2>4. ASSUME NEW i \in 1 .. len
        PROVE  Part(more[i].list, list) /\ Len(more[i].list) = 1 /\ ToSet(more[i].list) = {list[i]}
    <3>1. more[i].list = <<list[i]>>
      BY <2>2
    <3>2. list[i] \in ToSet(list)
      BY <1>1 DEF ToSet
    <3>3. Part(<<list[i]>>, list)
      <4>1. \A k, l \in {1} : ~ (k < l)
        OBVIOUS
      <4> QED BY <2>3, <3>2, <4>1 DEF Part
    <3> QED BY <2>3, <3>1, <3>3
  <2>5. more \in Seq(Lists(X))
    <3>1. \A i \in 1 .. len : [list |-> <<list[i]>>, alone |-> TRUE] \in Lists(X)
      <4>1. \A i \in 1 .. len : list[i] \in X
        BY <1>1
      <4>2. \A x \in X : <<x>> \in Seq(X)
        OBVIOUS
      <4> QED BY <4>1, <4>2 DEF Lists
    <3> QED BY <2>1, <3>1
  <2>6. ASSUME NEW r \in 1 .. len, NEW s \in 1 .. len, r < s
        PROVE Before(list, more[r].list, more[s].list)
    <3>1. Earlier(list, list[r], list[s])
      BY <1>1, <2>6 DEF Earlier
    <3> QED BY <2>4, <3>1 DEF Before
  <2>7. ToSet(list) = Unread(more)
    <3>1. \A r \in 1 .. len : ToSet(more[r].list) = {list[r]}
      BY <2>4
    <3>2. ASSUME NEW x \in ToSet(list) PROVE x \in Unread(more)
      <4>1. PICK r \in 1 .. len : x = list[r]
        BY <1>1 DEF ToSet
      <4>2. x \in ToSet(more[r].list)
        BY <3>1, <4>1
      <4> QED BY <2>2, <4>2 DEF Unread
    <3>3. ASSUME NEW x \in Unread(more) PROVE x \in ToSet(list)
      <4>1. PICK r \in 1 .. len : x \in ToSet(more[r].list)
        BY <2>2 DEF Unread
      <4>2. x = list[r]
        BY <3>1, <4>1
      <4> QED BY <1>1, <4>2 DEF ToSet
    <3> QED BY <3>2, <3>3
  <2> QED BY <1>2, <2>2, <2>4, <2>5, <2>6, <2>7
<1> QED BY <1>3, <1>4

-----------------------------------------------------------------------------
(* Each tag is read in its place.                                           *)

\* The values and the lists still to be read, in the order of the tags.
Sorted(all, values, lists) ==
    /\ Part(values, all)
    /\ \A i \in DOMAIN lists : Part(lists[i].list, all) /\ Before(all, values, lists[i].list)
    /\ \A i, j \in DOMAIN lists : i < j => Before(all, lists[i].list, lists[j].list)

\* A list has been read, or is not read again.
LEMMA SortedTail ==
    ASSUME NEW X, NEW all \in Seq(X), NEW values \in Seq(X), NEW lists \in Seq(Lists(X)),
           lists # <<>>,
           Sorted(all, values, lists)
    PROVE  /\ Head(lists) \in Lists(X) /\ Part(Head(lists).list, all)
           /\ Before(all, values, Head(lists).list)
           /\ Tail(lists) \in Seq(Lists(X)) /\ Sorted(all, values, Tail(lists))
           /\ Unread(lists) = ToSet(Head(lists).list) \cup Unread(Tail(lists))
           /\ \A i \in DOMAIN Tail(lists) : /\ Before(all, Head(lists).list, Tail(lists)[i].list)
                                            /\ \E j \in DOMAIN lists : Tail(lists)[i] = lists[j]
<1>1. PICK h, t : h = Head(lists) /\ t = Tail(lists)
  OBVIOUS
<1>2. /\ h = lists[1] /\ h \in Lists(X) /\ 1 \in DOMAIN lists /\ t \in Seq(Lists(X))
      /\ \A i \in DOMAIN t : i + 1 \in DOMAIN lists /\ t[i] = lists[i + 1]
      /\ \A i \in DOMAIN lists : i = 1 \/ (i - 1 \in DOMAIN t /\ t[i - 1] = lists[i])
  BY <1>1, TailIs
<1>3. \A i \in DOMAIN t : i \in Nat \ {0} /\ 1 < i + 1
  BY <1>2
<1>4. \A i \in DOMAIN t : Part(t[i].list, all) /\ Before(all, values, t[i].list)
          /\ Before(all, h.list, t[i].list)
  BY <1>2, <1>3 DEF Sorted
<1>5. \A i, j \in DOMAIN t : i < j => Before(all, t[i].list, t[j].list)
  <2>1. \A i, j \in DOMAIN t : i < j => i + 1 < j + 1
    BY <1>3
  <2> QED BY <1>2, <2>1 DEF Sorted
<1>6. Unread(lists) = ToSet(h.list) \cup Unread(t)
  <2>1. ASSUME NEW x \in Unread(lists) PROVE x \in ToSet(h.list) \/ x \in Unread(t)
    <3>1. PICK i \in DOMAIN lists : x \in ToSet(lists[i].list)
      BY DEF Unread
    <3> QED BY <1>2, <3>1 DEF Unread
  <2>2. ToSet(h.list) \subseteq Unread(lists)
    BY <1>2 DEF Unread
  <2>3. Unread(t) \subseteq Unread(lists)
    BY <1>2 DEF Unread
  <2> QED BY <2>1, <2>2, <2>3
<1>7. Part(h.list, all) /\ Before(all, values, h.list)
  BY <1>2 DEF Sorted
<1>8. Sorted(all, values, t)
  BY <1>4, <1>5 DEF Sorted
<1> QED BY <1>1, <1>2, <1>4, <1>6, <1>7, <1>8

\* What is taken of the list goes behind the values.
LEMMA SortedRead ==
    ASSUME NEW X, NEW all \in Seq(X), NEW values \in Seq(X), NEW lists \in Seq(Lists(X)),
           lists # <<>>,
           Sorted(all, values, lists), NEW some \in Seq(X), Part(some, Head(lists).list)
    PROVE  values \o some \in Seq(X) /\ Sorted(all, values \o some, Tail(lists))
<1>1. PICK h, t : h = Head(lists).list /\ t = Tail(lists)
  OBVIOUS
<1>2. /\ Part(h, all) /\ Before(all, values, h) /\ Sorted(all, values, t)
      /\ \A i \in DOMAIN t : Before(all, h, t[i].list)
  BY <1>1, SortedTail
<1>3. Part(some, all) /\ ToSet(some) \subseteq ToSet(h)
  BY <1>1, <1>2, PartIs DEF Part
<1>4. PICK new : new = values \o some
  OBVIOUS
<1>5. PICK m \in Nat, n \in Nat : m = Len(values) /\ n = Len(some) /\ DOMAIN values = 1 .. m
          /\ DOMAIN some = 1 .. n
  OBVIOUS
<1>6. /\ new \in Seq(X) /\ DOMAIN new = 1 .. m + n
      /\ ToSet(new) = ToSet(values) \cup ToSet(some)
      /\ \A i \in 1 .. m : new[i] = values[i]
      /\ \A i \in 1 .. m + n : i \in 1 .. m \/ (i - m \in 1 .. n /\ new[i] = some[i - m])
  <2>1. /\ new \in Seq(X) /\ Len(new) = m + n /\ ToSet(new) = ToSet(values) \cup ToSet(some)
    BY <1>4, <1>5, ConcatIs
  <2>2. \A i \in 1 .. m : new[i] = values[i]
    BY <1>4, <1>5, ConcatIs
  <2>3. \A i \in 1 .. m + n : i \in 1 .. m \/ (i - m \in 1 .. n /\ new[i] = some[i - m])
    BY <1>4, <1>5, ConcatIs
  <2> QED BY <2>1, <2>2, <2>3
<1>7. ASSUME NEW k \in 1 .. m + n, NEW l \in 1 .. m + n, k < l PROVE Earlier(all, new[k], new[l])
  <2>1. CASE k \in 1 .. m /\ l \in 1 .. m
    BY <1>2, <1>5, <1>6, <1>7, <2>1 DEF Sorted, Part
  <2>2. CASE k \in 1 .. m /\ l \notin 1 .. m
    <3>1. new[k] \in ToSet(values)
      BY <1>5, <1>6, <2>2 DEF ToSet
    <3>2. new[l] \in ToSet(h)
      BY <1>3, <1>5, <1>6, <2>2 DEF ToSet
    <3> QED BY <1>2, <3>1, <3>2 DEF Before
  <2>3. CASE k \notin 1 .. m
    <3>1. l \notin 1 .. m /\ k - m < l - m
      BY <1>7, <2>3
    <3> QED BY <1>3, <1>5, <1>6, <2>3, <3>1 DEF Part
  <2> QED BY <2>1, <2>2, <2>3
<1>8. Part(new, all)
  <2>1. ToSet(new) \subseteq ToSet(all)
    BY <1>2, <1>3, <1>6 DEF Sorted, Part
  <2> QED BY <1>6, <1>7, <2>1 DEF Part
<1>9. \A i \in DOMAIN t : Before(all, new, t[i].list)
  BY <1>2, <1>3, <1>6 DEF Sorted, Before
<1>10. Sorted(all, new, t)
  BY <1>2, <1>8, <1>9 DEF Sorted
<1> QED BY <1>1, <1>4, <1>6, <1>10

\* What the list is cut into takes its place.
LEMMA SortedRetry ==
    ASSUME NEW X, NEW all \in Seq(X), NEW values \in Seq(X), NEW lists \in Seq(Lists(X)),
           lists # <<>>,
           Sorted(all, values, lists)
    PROVE  /\ Retry(Head(lists).list) \o Tail(lists) \in Seq(Lists(X))
           /\ Sorted(all, values, Retry(Head(lists).list) \o Tail(lists))
           /\ Unread(Retry(Head(lists).list) \o Tail(lists)) = Unread(lists)
<1>1. PICK h, t : h = Head(lists).list /\ t = Tail(lists)
  OBVIOUS
<1>2. /\ Head(lists) \in Lists(X) /\ Part(h, all) /\ Before(all, values, h)
      /\ t \in Seq(Lists(X)) /\ Sorted(all, values, t)
      /\ Unread(lists) = ToSet(h) \cup Unread(t)
      /\ \A i \in DOMAIN t : Before(all, h, t[i].list)
  BY <1>1, SortedTail
<1>3. h \in Seq(X)
  BY <1>1, <1>2 DEF Lists
<1>4. PICK r : /\ r = Retry(h) /\ r \in Seq(Lists(X))
               /\ \A i \in DOMAIN r : Part(r[i].list, h)
               /\ \A i, j \in DOMAIN r : i < j => Before(h, r[i].list, r[j].list)
               /\ ToSet(h) = Unread(r)
  BY <1>3, RetryIs
<1>5. PICK new : new = r \o t
  OBVIOUS
<1>6. PICK m \in Nat, n \in Nat : m = Len(r) /\ n = Len(t) /\ DOMAIN r = 1 .. m /\ DOMAIN t = 1 .. n
  BY <1>2, <1>4
<1>7. new \in Seq(Lists(X)) /\ DOMAIN new = 1 .. m + n
  BY <1>2, <1>4, <1>5, <1>6, ConcatIs
<1>8. \A i \in 1 .. m : i \in 1 .. m + n /\ new[i] = r[i]
  <2>1. \A i \in 1 .. m : new[i] = r[i]
    BY <1>2, <1>4, <1>5, <1>6, ConcatIs
  <2> QED BY <2>1
<1>9. \A i \in 1 .. n : m + i \in 1 .. m + n /\ new[m + i] = t[i]
  <2>1. \A i \in 1 .. n : new[m + i] = t[i]
    BY <1>2, <1>4, <1>5, <1>6, ConcatIs
  <2> QED BY <2>1
<1>10. \A i \in 1 .. m + n : i \in 1 .. m \/ (i - m \in 1 .. n /\ new[i] = t[i - m])
  BY <1>2, <1>4, <1>5, <1>6, ConcatIs
<1>11. ASSUME NEW i \in 1 .. m
       PROVE  Part(new[i].list, all) /\ Before(all, values, new[i].list)
           /\ ToSet(new[i].list) \subseteq ToSet(h)
  <2>1. Part(new[i].list, h)
    BY <1>4, <1>6, <1>8
  <2>2. Part(new[i].list, all)
    BY <1>2, <2>1, PartIs
  <2> QED BY <1>2, <2>1, <2>2 DEF Before, Part
<1>12. ASSUME NEW i \in 1 .. m + n PROVE Part(new[i].list, all) /\ Before(all, values, new[i].list)
  <2>1. CASE i \in 1 .. m
    BY <1>11, <2>1
  <2>2. CASE i \notin 1 .. m
    BY <1>2, <1>6, <1>10, <2>2 DEF Sorted
  <2> QED BY <2>1, <2>2
<1>13. ASSUME NEW i \in 1 .. m + n, NEW j \in 1 .. m + n, i < j
       PROVE Before(all, new[i].list, new[j].list)
  <2>1. CASE i \in 1 .. m /\ j \in 1 .. m
    <3>1. Before(h, new[i].list, new[j].list)
      BY <1>4, <1>6, <1>8, <1>13, <2>1
    <3>2. \A x, y : Earlier(h, x, y) => Earlier(all, x, y)
      BY <1>2, PartIs
    <3> QED BY <3>1, <3>2 DEF Before
  <2>2. CASE i \in 1 .. m /\ j \notin 1 .. m
    <3>1. Before(all, h, new[j].list)
      BY <1>2, <1>6, <1>10, <2>2
    <3> QED BY <1>11, <2>2, <3>1 DEF Before
  <2>3. CASE i \notin 1 .. m
    <3>1. j \notin 1 .. m /\ i - m < j - m
      BY <1>13, <2>3
    <3>2. i - m \in DOMAIN t /\ j - m \in DOMAIN t /\ new[i] = t[i - m] /\ new[j] = t[j - m]
      BY <1>6, <1>10, <2>3, <3>1
    <3> QED BY <1>2, <3>1, <3>2 DEF Sorted
  <2> QED BY <2>1, <2>2, <2>3
<1>14. Sorted(all, values, new)
  BY <1>2, <1>7, <1>12, <1>13 DEF Sorted
<1>15. Unread(new) = Unread(lists)
  <2>1. ASSUME NEW x \in Unread(new) PROVE x \in Unread(r) \/ x \in Unread(t)
    <3>1. PICK i \in 1 .. m + n : x \in ToSet(new[i].list)
      BY <1>7 DEF Unread
    <3> QED BY <1>6, <1>8, <1>10, <3>1 DEF Unread
  <2>2. \A x \in Unread(r) : x \in Unread(new)
    BY <1>6, <1>7, <1>8 DEF Unread
  <2>3. \A x \in Unread(t) : x \in Unread(new)
    BY <1>6, <1>7, <1>9 DEF Unread
  <2> QED BY <1>2, <1>4, <2>1, <2>2, <2>3
<1> QED BY <1>1, <1>4, <1>5, <1>7, <1>14, <1>15

\* Where nothing has been read yet.
Listing == {"list", "browse", "discovered", "failed"}

\* At most a call has failed, and that by chance.
Harmless(n, r) == n = 0 \/ (n = 1 /\ r = {})

ReadTypes ==
    /\ tag_values \in Seq(ToSet(tags)) /\ todo \in Seq(Lists(ToSet(tags)))
    /\ \A i \in DOMAIN todo : todo[i].alone => Len(todo[i].list) = 1

\* A tag that can be read has a value, or is still to be read.
ReadSoFar(values, lists, all, bad) == ToSet(values) \cup (Unread(lists) \ bad) = ToSet(all) \ bad

NoneAlone(lists) == \A i \in DOMAIN lists : ~ lists[i].alone

ReadInv ==
    /\ at \in Listing => tag_values = <<>> /\ todo = <<>> /\ raising = {} /\ invalid = {}
    /\ at # "reading" => todo = <<>>
    /\ at \in {"reading", "values"} => Sorted(tags, tag_values, todo)
    /\ at \notin Listing /\ Harmless(faults, raising) =>
           ReadSoFar(tag_values, todo, tags, raising \cup invalid)
    /\ at = "reading" /\ faults = 0 /\ raising = {} => NoneAlone(todo)

\* The listing is a list, of finitely many tags.
LEMMA TagsAre ==
    ASSUME WalkTypes
    PROVE  tags \in Seq(ToSet(tags)) /\ IsFiniteSet(ToSet(tags))
        /\ Cardinality(ToSet(tags)) <= Len(tags)
<1>1. PICK X : tags \in Seq(X)
  BY DEF WalkTypes
<1>2. PICK n \in Nat : n = Len(tags) /\ DOMAIN tags = 1 .. n
  BY <1>1
<1>3. tags \in Seq(ToSet(tags))
  <2>1. tags = [i \in 1 .. n |-> tags[i]]
    BY <1>1, <1>2
  <2>2. \A i \in 1 .. n : tags[i] \in ToSet(tags)
    BY <1>2 DEF ToSet
  <2> QED BY <1>2, <2>1, <2>2
<1>4. tags \in [1 .. n -> ToSet(tags)]
  BY <1>2, <1>3
<1>5. tags \in Surjection(1 .. n, ToSet(tags))
  BY <1>2, <1>4 DEF Surjection, ToSet
<1>6. IsFiniteSet(1 .. n) /\ Cardinality(1 .. n) = n
  BY FS_Interval
<1> QED BY <1>2, <1>3, <1>5, <1>6, FS_Surjection

\* Before anything is read there is nothing to state.
LEMMA ReadNothing ==
    ASSUME tag_values = <<>>, todo = <<>>, raising = {}, invalid = {}, at \in Listing
    PROVE  ReadTypes /\ ReadInv
<1>1. tag_values \in Seq(ToSet(tags)) /\ todo \in Seq(Lists(ToSet(tags))) /\ DOMAIN todo = {}
  OBVIOUS
<1> QED BY <1>1 DEF ReadTypes, ReadInv, Listing

\* While tags are listed nothing is read.
LEMMA ListingReads ==
    ASSUME ReadTypes, ReadInv,
           ListFlat \/ ListBranch \/ BranchFails \/ FilterTags \/ Browse \/ BrowseEnds \/ NoTags
    PROVE  (ReadTypes /\ ReadInv)'
<1>1. /\ at \in Listing /\ at' \in Listing
      /\ UNCHANGED <<tag_values, todo, raising, invalid>>
  BY DEF ListFlat, ListBranch, BranchFails, FilterTags, Browse, BrowseEnds, NoTags, GiveUp, Listing
<1>2. tag_values' = <<>> /\ todo' = <<>> /\ raising' = {} /\ invalid' = {}
  BY <1>1 DEF ReadInv
<1>3. tag_values' \in Seq(ToSet(tags')) /\ todo' \in Seq(Lists(ToSet(tags'))) /\ DOMAIN todo' = {}
  BY <1>2
<1> QED BY <1>1, <1>2, <1>3 DEF ReadTypes, ReadInv, Listing

\* Without a first read every tag has a value.
LEMMA SkipReads ==
    ASSUME WalkTypes, ReadTypes, ReadInv, SkipInitialRead
    PROVE  (ReadTypes /\ ReadInv)'
<1>1. /\ at' = "values" /\ tag_values' = tags /\ todo' = <<>> /\ raising' = {} /\ invalid' = {}
      /\ UNCHANGED tags
  BY DEF SkipInitialRead, ReadInv, Listing
<1>2. tags \in Seq(ToSet(tags)) /\ <<>> \in Seq(Lists(ToSet(tags))) /\ DOMAIN <<>> = {}
  BY TagsAre
<1>3. Part(tags, tags)
  BY DEF Part, Earlier
<1>4. Sorted(tags, tags, <<>>)
  BY <1>2, <1>3 DEF Sorted
<1>5. Unread(<<>>) = {}
  BY <1>2 DEF Unread
<1> QED BY <1>1, <1>2, <1>4, <1>5 DEF ReadTypes, ReadInv, Listing, ReadSoFar

\* The chunks to read are the listing, cut up.
LEMMA StartReads ==
    ASSUME WalkTypes, ReadTypes, ReadInv, StartReading
    PROVE  (ReadTypes /\ ReadInv)'
<1>1. /\ at' = "reading" /\ tag_values' = <<>> /\ UNCHANGED <<tags, faults>> /\ faults \in Nat
      /\ todo' = [i \in DOMAIN Pieces(tags, ChunkSize) |->
                    [list |-> Pieces(tags, ChunkSize)[i], alone |-> FALSE]]
  BY DEF StartReading, ReadInv, Listing, WalkTypes
<1>2. PICK X : X = ToSet(tags) /\ tags \in Seq(X)
  BY TagsAre
<1>3. PICK p : p = Pieces(tags, ChunkSize)
  OBVIOUS
<1>4. p \in Seq(Seq(X)) /\ Cuts(p, tags)
  BY <1>2, <1>3, PiecesAre, SizeAssumption
<1>5. PICK c \in Nat : c = Len(p) /\ DOMAIN p = 1 .. c
  BY <1>4
<1>6. todo' = [i \in 1 .. c |-> [list |-> p[i], alone |-> FALSE]]
  BY <1>1, <1>3, <1>5
<1>7. DOMAIN todo' = 1 .. c /\ \A i \in 1 .. c : todo'[i].list = p[i] /\ ~ todo'[i].alone
  BY <1>6
<1>8. todo' \in Seq(Lists(X))
  <2>1. \A i \in 1 .. c : [list |-> p[i], alone |-> FALSE] \in Lists(X)
    BY <1>4, <1>5 DEF Lists
  <2> QED BY <1>5, <1>6, <2>1
<1>9. Unread(todo') = ToSet(tags)
  <2>1. {ToSet(todo'[i].list) : i \in DOMAIN todo'} = {ToSet(p[i]) : i \in DOMAIN p}
    BY <1>5, <1>7
  <2> QED BY <1>4, <2>1 DEF Unread, Cuts
<1>10. DOMAIN <<>> = {} /\ ToSet(<<>>) = {} /\ <<>> \in Seq(X)
  BY DEF ToSet
<1>11. Sorted(tags, <<>>, todo')
  <2>1. Part(<<>>, tags)
    BY <1>10 DEF Part
  <2>2. \A i \in DOMAIN todo' : Part(todo'[i].list, tags) /\ Before(tags, <<>>, todo'[i].list)
    BY <1>4, <1>5, <1>7, <1>10 DEF Cuts, Before
  <2>3. \A i, j \in DOMAIN todo' : i < j => Before(tags, todo'[i].list, todo'[j].list)
    BY <1>4, <1>5, <1>7 DEF Cuts
  <2> QED BY <2>1, <2>2, <2>3 DEF Sorted
<1>12. ReadTypes'
  BY <1>1, <1>2, <1>7, <1>8, <1>10 DEF ReadTypes
<1>13. ReadInv'
  BY <1>1, <1>7, <1>9, <1>10, <1>11 DEF ReadInv, Listing, ReadSoFar, NoneAlone
<1> QED BY <1>12, <1>13

\* A list is read, cut up, or dropped.
LEMMA ReadOn ==
    ASSUME WalkTypes, ReadTypes, ReadInv, ReadList
    PROVE  (ReadTypes /\ ReadInv)'
<1>1. /\ at = "reading" /\ UNCHANGED <<at, tags, raising, invalid>> /\ todo # <<>> /\ faults \in Nat
  BY DEF ReadList, WalkTypes
<1>2. PICK X : X = ToSet(tags) /\ tags \in Seq(X)
  BY TagsAre
<1>3. /\ tag_values \in Seq(X) /\ todo \in Seq(Lists(X))
      /\ \A i \in DOMAIN todo : todo[i].alone => Len(todo[i].list) = 1
      /\ Sorted(tags, tag_values, todo)
  BY <1>1, <1>2 DEF ReadTypes, ReadInv
<1>4. PICK list : list = Head(todo).list
  OBVIOUS
<1>5. PICK rest : rest = Tail(todo)
  OBVIOUS
<1>6. /\ Head(todo) \in Lists(X)
      /\ rest \in Seq(Lists(X)) /\ Sorted(tags, tag_values, rest)
      /\ Unread(todo) = ToSet(list) \cup Unread(rest)
      /\ \A i \in DOMAIN rest : \E j \in DOMAIN todo : rest[i] = todo[j]
  <2>1. \A i \in DOMAIN rest : \E j \in DOMAIN todo : rest[i] = todo[j]
    BY <1>1, <1>2, <1>3, <1>5, SortedTail
  <2> QED BY <1>1, <1>2, <1>3, <1>4, <1>5, <2>1, SortedTail
<1>7. list \in Seq(X) /\ Head(todo).alone \in BOOLEAN
  BY <1>4, <1>6 DEF Lists
<1>8. Head(todo).alone => Len(list) = 1
  BY <1>1, <1>3, <1>4, TailIs
<1>9. CASE /\ ToSet(list) \cap raising = {}
           /\ tag_values' = tag_values \o Select(list, {i \in DOMAIN list : list[i] \notin invalid})
           /\ todo' = rest
           /\ UNCHANGED faults
  <2>1. PICK good \in SUBSET DOMAIN list : good = {i \in DOMAIN list : list[i] \notin invalid}
    OBVIOUS
  <2>2. PICK some : some = Select(list, good)
    OBVIOUS
  <2>3. /\ some \in Seq(X) /\ ToSet(some) = {list[i] : i \in good}
        /\ \A k, l \in DOMAIN some : k < l => Earlier(list, some[k], some[l])
    <3>1. some \in Seq(X) /\ ToSet(some) = {list[i] : i \in good}
      BY <1>7, <2>2, SelectIs
    <3>2. \A k, l \in DOMAIN some : k < l =>
              \E i, j \in DOMAIN list : i < j /\ some[k] = list[i] /\ some[l] = list[j]
      BY <1>7, <2>2, SelectIs
    <3> QED BY <3>1, <3>2 DEF Earlier
  <2>4. ToSet(some) = ToSet(list) \ (raising \cup invalid)
    <3>1. \A x \in ToSet(some) : x \in ToSet(list) /\ x \notin invalid
      BY <2>1, <2>3 DEF ToSet
    <3>2. ASSUME NEW x \in ToSet(list), x \notin invalid PROVE x \in ToSet(some)
      <4>1. PICK i \in DOMAIN list : x = list[i]
        BY DEF ToSet
      <4> QED BY <2>1, <2>3, <3>2, <4>1
    <3> QED BY <1>9, <3>1, <3>2
  <2>5. Part(some, list)
    BY <2>3, <2>4 DEF Part
  <2>6. tag_values' = tag_values \o some
    BY <1>9, <2>1, <2>2
  <2>7. tag_values' \in Seq(X) /\ Sorted(tags, tag_values', todo')
    <3>1. Part(some, Head(todo).list)
      BY <1>4, <2>5
    <3>2. tag_values \o some \in Seq(X) /\ Sorted(tags, tag_values \o some, Tail(todo))
      BY <1>1, <1>2, <1>3, <2>3, <3>1, SortedRead
    <3> QED BY <1>1, <1>5, <1>9, <2>6, <3>2
  <2>8. ToSet(tag_values') = ToSet(tag_values) \cup ToSet(some)
    BY <1>3, <2>3, <2>6, ConcatIs
  <2>9. ReadTypes'
    BY <1>1, <1>2, <1>3, <1>6, <1>9, <2>7 DEF ReadTypes
  <2>10. Harmless(faults, raising) => ReadSoFar(tag_values', todo', tags, raising \cup invalid)
    BY <1>1, <1>6, <1>9, <2>4, <2>8 DEF ReadInv, Listing, ReadSoFar
  <2>11. faults = 0 /\ raising = {} => NoneAlone(todo')
    BY <1>1, <1>6, <1>9 DEF ReadInv, NoneAlone
  <2> QED BY <1>1, <1>9, <2>7, <2>9, <2>10, <2>11 DEF ReadInv, Listing
<1>10. ASSUME Raises(ToSet(list) \cap raising = {})
       PROVE  /\ faults' \in Nat /\ (faults' = 0 => faults = 0)
              /\ Harmless(faults', raising) => Harmless(faults, raising)
              /\ ~ (faults' = 0 /\ raising = {})
              /\ Harmless(faults', raising) /\ ToSet(list) \cap raising = {} =>
                     faults = 0 /\ raising = {}
  <2>1. faults' = faults + 1 \/ (faults' = faults /\ ToSet(list) \cap raising # {})
    BY <1>10 DEF Raises
  <2>2. ToSet(list) \cap raising = {} => faults' = faults + 1
    BY <1>10 DEF Raises
  <2>3. faults' = faults + 1 => faults' # 0 /\ (faults' = 1 => faults = 0)
    BY <1>1
  <2>4. faults' \in Nat
    BY <1>1, <2>1
  <2> QED BY <2>1, <2>2, <2>3, <2>4 DEF Harmless
<1>11. CASE /\ Raises(ToSet(list) \cap raising = {}) /\ UNCHANGED tag_values
            /\ Head(todo).alone /\ todo' = rest
  <2>1. Harmless(faults', raising) => ToSet(list) \subseteq raising
    <3>1. ASSUME Harmless(faults', raising), ToSet(list) \cap raising = {} PROVE FALSE
      <4>1. faults = 0 /\ raising = {}
        BY <1>10, <1>11, <3>1
      <4>2. Head(todo) = todo[1] /\ 1 \in DOMAIN todo
        BY <1>1, <1>3, TailIs
      <4> QED BY <1>1, <1>11, <4>1, <4>2 DEF ReadInv, NoneAlone
    <3>2. ASSUME NEW x \in ToSet(list), NEW y \in ToSet(list) PROVE x = y
      <4>1. DOMAIN list = 1 .. 1
        BY <1>7, <1>8, <1>11
      <4>2. \A i \in 1 .. 1 : i = 1
        OBVIOUS
      <4> QED BY <4>1, <4>2 DEF ToSet
    <3> QED BY <3>1, <3>2
  <2>2. ReadTypes'
    BY <1>1, <1>2, <1>3, <1>6, <1>11 DEF ReadTypes
  <2>3. Harmless(faults', raising) => ReadSoFar(tag_values', todo', tags, raising \cup invalid)
    BY <1>1, <1>6, <1>10, <1>11, <2>1 DEF ReadInv, Listing, ReadSoFar
  <2> QED BY <1>1, <1>6, <1>10, <1>11, <2>2, <2>3 DEF ReadInv, Listing
<1>12. CASE /\ Raises(ToSet(list) \cap raising = {}) /\ UNCHANGED tag_values
            /\ todo' = Retry(list) \o rest
  <2>1. /\ todo' \in Seq(Lists(X)) /\ Sorted(tags, tag_values, todo')
           /\ Unread(todo') = Unread(todo)
    BY <1>1, <1>2, <1>3, <1>4, <1>5, <1>12, SortedRetry
  <2>2. ASSUME NEW i \in DOMAIN todo' PROVE todo'[i].alone => Len(todo'[i].list) = 1
    <3>1. PICK r : /\ r = Retry(list) /\ r \in Seq(Lists(X))
                   /\ \A k \in DOMAIN r : r[k].alone => Len(r[k].list) = 1
      <4>1. Retry(list) \in Seq(Lists(X))
        BY <1>7, RetryIs
      <4>2. \A k \in DOMAIN Retry(list) : Retry(list)[k].alone => Len(Retry(list)[k].list) = 1
        BY <1>7, RetryIs
      <4> QED BY <4>1, <4>2
    <3>2. PICK m \in Nat, n \in Nat : m = Len(r) /\ n = Len(rest) /\ DOMAIN r = 1 .. m
              /\ DOMAIN rest = 1 .. n
      BY <1>6, <3>1
    <3>3. todo' = r \o rest
      BY <1>12, <3>1
    <3>4. \A k \in 1 .. m : todo'[k] = r[k]
      BY <1>6, <3>1, <3>2, <3>3, ConcatIs
    <3>5. \A k \in 1 .. m + n : k \in 1 .. m \/ (k - m \in 1 .. n /\ todo'[k] = rest[k - m])
      BY <1>6, <3>1, <3>2, <3>3, ConcatIs
    <3>6. DOMAIN todo' = 1 .. m + n
      BY <1>6, <3>1, <3>2, <3>3, ConcatIs
    <3>7. CASE i \in 1 .. m
      BY <3>1, <3>2, <3>4, <3>7
    <3>8. CASE i \notin 1 .. m
      <4>1. i - m \in DOMAIN rest /\ todo'[i] = rest[i - m]
        BY <3>2, <3>5, <3>6, <3>8
      <4>2. PICK j \in DOMAIN todo : todo'[i] = todo[j]
        BY <1>6, <4>1
      <4> QED BY <1>3, <4>2
    <3> QED BY <3>7, <3>8
  <2>3. ReadTypes'
    BY <1>1, <1>2, <1>3, <1>12, <2>1, <2>2 DEF ReadTypes
  <2>4. Harmless(faults', raising) => ReadSoFar(tag_values', todo', tags, raising \cup invalid)
    BY <1>1, <1>10, <1>12, <2>1 DEF ReadInv, Listing, ReadSoFar
  <2> QED BY <1>1, <1>10, <1>12, <2>1, <2>3, <2>4 DEF ReadInv, Listing
<1> QED BY <1>4, <1>5, <1>9, <1>11, <1>12 DEF ReadList

\* What comes after the reading leaves it alone.
LEMMA ReadsStay ==
    ASSUME WalkTypes, ReadTypes, ReadInv,
           ReadingEnds \/ StartDescribing \/ DescribeBatch \/ Announce \/ UNCHANGED vars
    PROVE  (ReadTypes /\ ReadInv)'
<1>1. UNCHANGED <<tags, tag_values, todo, raising, invalid>>
  BY DEF ReadingEnds, StartDescribing, DescribeBatch, Announce, vars
<1>2. ReadTypes'
  BY <1>1 DEF ReadTypes
<1>3. CASE UNCHANGED vars
  <2>1. UNCHANGED <<at, faults>>
    BY <1>3 DEF vars
  <2> QED BY <1>1, <1>2, <2>1 DEF ReadInv, Listing
<1>4. CASE ReadingEnds
  <2>1. at = "reading" /\ at' = "values" /\ todo = <<>> /\ UNCHANGED faults
    BY <1>4 DEF ReadingEnds
  <2>2. Sorted(tags', tag_values', todo')
    BY <1>1, <2>1 DEF ReadInv
  <2>3. Harmless(faults', raising') => ReadSoFar(tag_values', todo', tags', raising' \cup invalid')
    BY <1>1, <2>1 DEF ReadInv, Listing
  <2>4. todo' = <<>> /\ at' \notin Listing
    BY <1>1, <2>1 DEF Listing
  <2> QED BY <1>2, <2>1, <2>2, <2>3, <2>4 DEF ReadInv, Listing
<1>5. CASE StartDescribing \/ DescribeBatch \/ Announce
  <2>1. /\ at \in {"values", "describing"} /\ at' \in {"describing", "announced"}
    BY <1>5 DEF StartDescribing, DescribeBatch, Announce
  <2>2. Harmless(faults', raising) => Harmless(faults, raising)
    <3>1. faults \in Nat /\ (faults' = faults \/ faults' = faults + 1)
      BY <1>5 DEF StartDescribing, DescribeBatch, Announce, Raises, WalkTypes
    <3>2. faults' = faults + 1 => faults' # 0 /\ (faults' = 1 => faults = 0)
      BY <3>1
    <3> QED BY <3>1, <3>2 DEF Harmless
  <2>3. Harmless(faults', raising') => ReadSoFar(tag_values', todo', tags', raising' \cup invalid')
    BY <1>1, <2>1, <2>2 DEF ReadInv, Listing
  <2>4. todo' = <<>> /\ at' \notin Listing /\ at' \notin {"reading", "values"}
    BY <1>1, <2>1 DEF ReadInv, Listing
  <2> QED BY <1>2, <2>3, <2>4 DEF ReadInv, Listing
<1> QED BY <1>3, <1>4, <1>5

\* The reading, whatever raises.
LEMMA ReadAll == Spec => [](WalkTypes /\ ReadTypes /\ ReadInv)
<1>1. Init => WalkTypes /\ ReadTypes /\ ReadInv
  <2> SUFFICES ASSUME Init PROVE WalkTypes /\ ReadTypes /\ ReadInv
    OBVIOUS
  <2>1. tag_values = <<>> /\ todo = <<>> /\ raising = {} /\ invalid = {} /\ at \in Listing
    BY DEF Init, Listing
  <2> QED BY <2>1, WalkInit, ReadNothing
<1>2. WalkTypes /\ ReadTypes /\ ReadInv /\ [Next]_vars => (WalkTypes /\ ReadTypes /\ ReadInv)'
  <2> SUFFICES ASSUME WalkTypes, ReadTypes, ReadInv, [Next]_vars
      PROVE (WalkTypes /\ ReadTypes /\ ReadInv)'
    OBVIOUS
  <2>1. WalkTypes'
    BY WalkNext
  <2> QED BY <2>1, ListingReads, SkipReads, StartReads, ReadOn, ReadsStay DEF Next
<1> QED BY <1>1, <1>2, PTL DEF Spec

-----------------------------------------------------------------------------
(* Descriptions.                                                            *)

Described == {t \in ToSet(tags) : options.ifix_optimized => IsValue(t)}

Batch == IF options.ifix_optimized THEN BatchSize ELSE 1

Pending(lists) == UNION {ToSet(lists[i]) : i \in DOMAIN lists}

\* Tags without a description of which none is to come.
Missing(wanted, described, lists) == wanted \ (described \cup Pending(lists))

DescribeInv ==
    /\ at = "describing" =>
         /\ undescribed \in Seq(Seq(ToSet(tags)))
         /\ \A i \in DOMAIN undescribed : Len(undescribed[i]) <= Batch
    /\ at = "describing" =>
         Cardinality(Missing(Described, tag_descriptions, undescribed)) <= faults * Batch
    /\ at = "announced" /\ options.include_descriptions =>
         Cardinality(Described \ tag_descriptions) <= faults * Batch

\* A batch has a size, and the tags to describe are finitely many.
LEMMA BatchIs == WalkTypes => Batch \in Nat \ {0} /\ IsFiniteSet(Described)
<1>1. Batch \in Nat \ {0}
  BY SizeAssumption DEF Batch
<1>2. WalkTypes => IsFiniteSet(Described)
  BY TagsAre, FS_Subset DEF Described
<1> QED BY <1>1, <1>2

\* As many tags are in a list as it is long, or less.
LEMMA CountIs ==
    ASSUME NEW X, NEW s \in Seq(X)
    PROVE  IsFiniteSet(ToSet(s)) /\ Cardinality(ToSet(s)) <= Len(s)
<1>1. PICK n \in Nat : n = Len(s) /\ DOMAIN s = 1 .. n
  OBVIOUS
<1>2. s \in [1 .. n -> ToSet(s)]
  <2>1. s \in [1 .. n -> X] /\ \A i \in 1 .. n : s[i] \in ToSet(s)
    BY <1>1 DEF ToSet
  <2> QED BY <2>1
<1>3. s \in Surjection(1 .. n, ToSet(s))
  BY <1>1, <1>2 DEF Surjection, ToSet
<1>4. IsFiniteSet(1 .. n) /\ Cardinality(1 .. n) = n
  BY FS_Interval
<1> QED BY <1>1, <1>3, <1>4, FS_Surjection

\* The batches are the tags to describe, cut up.
LEMMA StartDescribes ==
    ASSUME WalkTypes, DescribeInv, StartDescribing PROVE DescribeInv'
<1>1. /\ at' = "describing" /\ UNCHANGED <<tags, options, faults, tag_descriptions>>
         /\ faults \in Nat
  BY DEF StartDescribing, WalkTypes
<1>2. Described' = Described /\ Batch' = Batch
  BY <1>1 DEF Described, Batch
<1>3. PICK X : X = ToSet(tags) /\ tags \in Seq(X)
  BY TagsAre
<1>4. PICK list \in Seq(X) : ToSet(list) = Described /\ undescribed' = Pieces(list, Batch)
  <2>1. CASE options.ifix_optimized
    <3>1. PICK good \in SUBSET DOMAIN tags : good = {i \in DOMAIN tags : IsValue(tags[i])}
      OBVIOUS
    <3>2. PICK some : some = Select(tags, good)
      OBVIOUS
    <3>3. some \in Seq(X) /\ ToSet(some) = {tags[i] : i \in good}
      BY <1>3, <3>2, SelectIs
    <3>4. \A x \in ToSet(some) : x \in Described
      BY <2>1, <3>1, <3>3 DEF Described, ToSet
    <3>5. ASSUME NEW x \in Described PROVE x \in ToSet(some)
      <4>1. PICK i \in DOMAIN tags : x = tags[i]
        BY DEF Described, ToSet
      <4>2. IsValue(x)
        BY <2>1 DEF Described
      <4> QED BY <3>1, <3>3, <4>1, <4>2
    <3>6. undescribed' = Pieces(some, Batch)
      BY <2>1, <3>1, <3>2 DEF StartDescribing, Batch
    <3> QED BY <3>3, <3>4, <3>5, <3>6
  <2>2. CASE ~ options.ifix_optimized
    <3>1. undescribed' = Pieces(tags, Batch)
      BY <2>2 DEF StartDescribing, Batch
    <3>2. Described = ToSet(tags)
      BY <2>2 DEF Described
    <3> QED BY <1>3, <3>1, <3>2
  <2> QED BY <2>1, <2>2
<1>5. PICK b \in Nat \ {0} : b = Batch
  BY BatchIs
<1>6. /\ undescribed' \in Seq(Seq(X)) /\ Cuts(undescribed', list)
      /\ \A i \in DOMAIN undescribed' : Len(undescribed'[i]) <= b
  BY <1>4, <1>5, PiecesAre
<1>7. Pending(undescribed') = Described
  BY <1>4, <1>6 DEF Pending, Cuts
<1>8. Missing(Described, tag_descriptions', undescribed') = {}
  BY <1>7 DEF Missing
<1>9. Cardinality({}) = 0 /\ faults * b \in Nat
  BY <1>1, FS_EmptySet
<1>10. Cardinality(Missing(Described, tag_descriptions', undescribed')) <= faults' * b
  BY <1>1, <1>8, <1>9
<1> QED BY <1>1, <1>2, <1>3, <1>5, <1>6, <1>10 DEF DescribeInv

\* A batch is described, or lost.
LEMMA BatchDescribes ==
    ASSUME WalkTypes, DescribeInv, DescribeBatch PROVE DescribeInv'
<1>1. /\ at = "describing" /\ at' = at /\ undescribed # <<>> /\ undescribed' = Tail(undescribed)
      /\ UNCHANGED <<tags, options>> /\ faults \in Nat
  BY DEF DescribeBatch, WalkTypes
<1>2. Described' = Described /\ Batch' = Batch
  BY <1>1 DEF Described, Batch
<1>3. PICK X : X = ToSet(tags)
  OBVIOUS
<1>4. PICK b \in Nat \ {0} : b = Batch
  BY BatchIs
<1>5. /\ undescribed \in Seq(Seq(X)) /\ \A i \in DOMAIN undescribed : Len(undescribed[i]) <= b
      /\ Cardinality(Missing(Described, tag_descriptions, undescribed)) <= faults * b
  BY <1>1, <1>3, <1>4 DEF DescribeInv
<1>6. PICK head, rest : head = Head(undescribed) /\ rest = Tail(undescribed)
  OBVIOUS
<1>7. /\ head = undescribed[1] /\ head \in Seq(X) /\ 1 \in DOMAIN undescribed
         /\ rest \in Seq(Seq(X))
      /\ \A i \in DOMAIN rest : i + 1 \in DOMAIN undescribed /\ rest[i] = undescribed[i + 1]
      /\ \A i \in DOMAIN undescribed : i = 1 \/ (i - 1 \in DOMAIN rest
         /\ rest[i - 1] = undescribed[i])
  BY <1>1, <1>5, <1>6, TailIs
<1>8. \A i \in DOMAIN rest : Len(rest[i]) <= b
  BY <1>5, <1>7
<1>9. Pending(undescribed) = ToSet(head) \cup Pending(rest)
  <2>1. ASSUME NEW x \in Pending(undescribed) PROVE x \in ToSet(head) \/ x \in Pending(rest)
    <3>1. PICK i \in DOMAIN undescribed : x \in ToSet(undescribed[i])
      BY DEF Pending
    <3> QED BY <1>7, <3>1 DEF Pending
  <2>2. ToSet(head) \subseteq Pending(undescribed)
    BY <1>7 DEF Pending
  <2>3. Pending(rest) \subseteq Pending(undescribed)
    BY <1>7 DEF Pending
  <2> QED BY <2>1, <2>2, <2>3
<1>10. PICK old, new : /\ old = Missing(Described, tag_descriptions, undescribed)
                       /\ new = Missing(Described, tag_descriptions', undescribed')
  OBVIOUS
<1>11. IsFiniteSet(old) /\ IsFiniteSet(new) /\ Cardinality(old) \in Nat /\ Cardinality(new) \in Nat
  <2>1. IsFiniteSet(Described)
    BY BatchIs
  <2>2. IsFiniteSet(old) /\ IsFiniteSet(new)
    BY <1>10, <2>1, FS_Subset DEF Missing
  <2> QED BY <2>2, FS_CardinalityType
<1>12. Cardinality(new) <= faults' * b
  <2>1. CASE faults' = faults /\ tag_descriptions' = tag_descriptions \cup ToSet(head)
    <3>1. new \subseteq old
      BY <1>1, <1>6, <1>9, <1>10, <2>1 DEF Missing
    <3>2. Cardinality(new) <= Cardinality(old)
      BY <1>11, <3>1, FS_Subset
    <3>3. Cardinality(old) <= faults * b /\ faults * b \in Nat
      BY <1>1, <1>5, <1>10
    <3> QED BY <1>11, <2>1, <3>2, <3>3
  <2>2. CASE faults' = faults + 1 /\ tag_descriptions' = tag_descriptions
    <3>1. new \subseteq old \cup ToSet(head)
      BY <1>1, <1>6, <1>9, <1>10, <2>2 DEF Missing
    <3>2. IsFiniteSet(ToSet(head)) /\ Cardinality(ToSet(head)) <= Len(head)
      BY <1>7, CountIs
    <3>3. Len(head) <= b /\ Len(head) \in Nat
      BY <1>5, <1>7
    <3>4. PICK more : more = ToSet(head) /\ IsFiniteSet(more) /\ Cardinality(more) \in Nat
              /\ Cardinality(more) <= b
      BY <3>2, <3>3, FS_CardinalityType
    <3>5. IsFiniteSet(old \cup more) /\
              Cardinality(old \cup more) <= Cardinality(old) + Cardinality(more)
      <4>1. /\ IsFiniteSet(old \cup more)
            /\ Cardinality(old \cup more)
                 = Cardinality(old) + Cardinality(more) - Cardinality(old \cap more)
        BY <1>11, <3>4, FS_Union
      <4>2. IsFiniteSet(old \cap more)
        BY <1>11, FS_Subset
      <4>3. Cardinality(old \cap more) \in Nat
        BY <4>2, FS_CardinalityType
      <4> QED BY <1>11, <3>4, <4>1, <4>3
    <3>6. Cardinality(new) <= Cardinality(old \cup more) /\ Cardinality(old \cup more) \in Nat
      BY <3>1, <3>4, <3>5, FS_Subset, FS_CardinalityType
    <3>7. Cardinality(old) <= faults * b /\ faults * b \in Nat /\ (faults + 1) * b = faults * b + b
      BY <1>1, <1>5, <1>10
    <3> QED BY <1>11, <2>2, <3>4, <3>5, <3>6, <3>7
  <2>3. PICK failed \in BOOLEAN :
             /\ Raises(failed)
             /\ tag_descriptions'
                  = IF failed THEN tag_descriptions
                    ELSE tag_descriptions \cup ToSet(Head(undescribed))
    BY DEF DescribeBatch
  <2> QED BY <1>6, <2>1, <2>2, <2>3 DEF Raises
<1>13. Cardinality(Missing(Described', tag_descriptions', undescribed')) <= faults' * Batch'
  BY <1>2, <1>4, <1>10, <1>12
<1> QED BY <1>1, <1>2, <1>3, <1>4, <1>6, <1>7, <1>8, <1>13 DEF DescribeInv

\* At the end no batch is left.
LEMMA AnnounceDescribes ==
    ASSUME WalkTypes, DescribeInv, Announce PROVE DescribeInv'
<1>1. at' = "announced" /\ UNCHANGED <<tags, options, faults, tag_descriptions, undescribed>>
  BY DEF Announce
<1>2. Described' = Described /\ Batch' = Batch
  BY <1>1 DEF Described, Batch
<1>3. CASE at = "values" /\ ~ options.include_descriptions
  BY <1>1, <1>3 DEF DescribeInv
<1>4. CASE at = "describing" /\ undescribed = <<>>
  <2>1. DOMAIN <<>> = {}
    OBVIOUS
  <2>2. Pending(undescribed) = {}
    BY <1>4, <2>1 DEF Pending
  <2>3. Missing(Described, tag_descriptions, undescribed) = Described \ tag_descriptions
    BY <2>2 DEF Missing
  <2> QED BY <1>1, <1>2, <1>4, <2>3 DEF DescribeInv
<1> QED BY <1>3, <1>4 DEF Announce

\* Every step.
LEMMA DescribesNext ==
    ASSUME WalkTypes, DescribeInv, [Next]_vars PROVE DescribeInv'
<1>1. CASE UNCHANGED vars
  <2>1. UNCHANGED <<at, tags, options, faults, tag_descriptions, undescribed>>
    BY <1>1 DEF vars
  <2>2. Described' = Described /\ Batch' = Batch
    BY <2>1 DEF Described, Batch
  <2> QED BY <2>1, <2>2 DEF DescribeInv
<1>2. CASE ListFlat \/ ListBranch \/ BranchFails \/ FilterTags \/ Browse \/ BrowseEnds \/ NoTags
           \/ SkipInitialRead \/ StartReading \/ ReadList \/ ReadingEnds
  <2>1. at' \notin {"describing", "announced"}
    BY <1>2 DEF ListFlat, ListBranch, BranchFails, FilterTags, Browse, BrowseEnds, NoTags, GiveUp,
                SkipInitialRead, StartReading, ReadList, ReadingEnds
  <2> QED BY <2>1 DEF DescribeInv
<1> QED BY <1>1, <1>2, StartDescribes, BatchDescribes, AnnounceDescribes DEF Next

\* The descriptions, whatever raises.
LEMMA DescribeAll == Spec => []DescribeInv
<1>1. Init => DescribeInv
  BY DEF Init, DescribeInv
<1>2. WalkTypes /\ DescribeInv /\ [Next]_vars => DescribeInv'
  BY DescribesNext
<1>3. Spec => []WalkTypes
  BY ReadAll, PTL
<1> QED BY <1>1, <1>2, <1>3, PTL DEF Spec

\* A tag that cannot be read costs no other its value in read_chunk_safe, nor does
\* one call that fails by chance; a failed call for descriptions costs those of its
\* batch.  For any tags and any size of the chunks.
THEOREM OthersAreUnharmed == Spec => []OthersUnharmed
<1>1. ReadInv /\ DescribeInv => OthersUnharmed
  <2> SUFFICES ASSUME ReadInv, DescribeInv PROVE OthersUnharmed
    OBVIOUS
  <2>1. ASSUME at \in {"values", "describing", "announced"},
               faults = 0 \/ (faults = 1 /\ raising = {})
        PROVE  ToSet(tag_values) = ToSet(tags) \ (raising \cup invalid)
    <3>1. todo = <<>> /\ ReadSoFar(tag_values, todo, tags, raising \cup invalid)
      BY <2>1 DEF ReadInv, Listing, Harmless
    <3>2. DOMAIN <<>> = {}
      OBVIOUS
    <3>3. Unread(todo) = {}
      BY <3>1, <3>2 DEF Unread
    <3> QED BY <3>1, <3>3 DEF ReadSoFar
  <2>2. ASSUME at = "announced", options.include_descriptions
        PROVE  Cardinality(Described \ tag_descriptions) <= faults * Batch
    BY <2>2 DEF DescribeInv
  <2> QED BY <2>1, <2>2 DEF OthersUnharmed, Described, Batch
<1>2. Spec => [](ReadInv /\ DescribeInv)
  BY ReadAll, DescribeAll, PTL
<1> QED BY <1>1, <1>2, PTL

-----------------------------------------------------------------------------
(* Rows.                                                                    *)

\* In a list that has none twice, to be before is to have an earlier place.
LEMMA PlacesAre ==
    ASSUME tags \in Seq(ToSet(tags)), IsInjective(tags)
    PROVE  \A x, y : Earlier(tags, x, y) => Place(x) < Place(y)
<1>1. ASSUME NEW i \in DOMAIN tags PROVE Place(tags[i]) = i
  <2>1. \A j \in DOMAIN tags : tags[j] = tags[i] => j = i
    BY DEF IsInjective
  <2>2. Place(tags[i]) \in DOMAIN tags /\ tags[Place(tags[i])] = tags[i]
    BY DEF Place
  <2> QED BY <2>1, <2>2
<1> QED BY <1>1 DEF Earlier

\* The rows are the values, then the lists.
LEMMA RowsAre ==
    ASSUME NEW X, tag_values \in Seq(X), todo \in Seq(Lists(X))
    PROVE  /\ DOMAIN Rows = 1 .. 1 + Len(todo) /\ Len(todo) \in Nat /\ DOMAIN todo = 1 .. Len(todo)
           /\ Rows[1] = tag_values
           /\ \A r \in 1 .. 1 + Len(todo) : r = 1 \/ (r - 1 \in DOMAIN todo
              /\ Rows[r] = todo[r - 1].list)
<1>1. PICK n \in Nat : n = Len(todo) /\ DOMAIN todo = 1 .. n
  OBVIOUS
<1>2. PICK s : s = [i \in DOMAIN todo |-> todo[i].list]
  OBVIOUS
<1>3. s \in Seq(Seq(X)) /\ Len(s) = n /\ \A i \in 1 .. n : s[i] = todo[i].list
  <2>1. s = [i \in 1 .. n |-> todo[i].list]
    BY <1>1, <1>2
  <2>2. \A i \in 1 .. n : todo[i].list \in Seq(X)
    <3>1. \A i \in 1 .. n : todo[i] \in Lists(X)
      BY <1>1
    <3> QED BY <3>1 DEF Lists
  <2> QED BY <1>1, <2>1, <2>2
<1>4. PICK v : v = <<tag_values>> /\ v \in Seq(Seq(X)) /\ Len(v) = 1 /\ v[1] = tag_values
  <2>1. \A Y : \A y \in Y : <<y>> \in Seq(Y) /\ Len(<<y>>) = 1 /\ <<y>>[1] = y
    OBVIOUS
  <2> QED BY <2>1
<1>5. Rows = v \o s
  BY <1>2, <1>4 DEF Rows
<1>6. v \o s \in Seq(Seq(X)) /\ Len(v \o s) = 1 + n
  BY <1>3, <1>4, ConcatIs
<1>7. (v \o s)[1] = tag_values
  <2>1. 1 \in 1 .. Len(v)
    BY <1>4
  <2>2. \A i \in 1 .. Len(v) : (v \o s)[i] = v[i]
    BY <1>3, <1>4, ConcatIs
  <2> QED BY <1>4, <2>1, <2>2
<1>8. \A r \in 1 .. 1 + n : r \in 1 .. 1 \/ (r - 1 \in 1 .. n /\ (v \o s)[r] = s[r - 1])
  BY <1>3, <1>4, ConcatIs
<1>9. \A r \in 1 .. 1 : r = 1
  OBVIOUS
<1>10. DOMAIN Rows = 1 .. 1 + n
  BY <1>5, <1>6
<1> QED BY <1>1, <1>3, <1>5, <1>7, <1>8, <1>9, <1>10

\* Sorted lists are rows in order, where no tag is listed twice.
LEMMA SortedInOrder ==
    ASSUME WalkTypes, ReadTypes, ReadInv, IsInjective(tags)
    PROVE  InOrder
<1> SUFFICES ASSUME at \in {"reading", "values"}
             PROVE  /\ \A r \in DOMAIN Rows : Ascending(Rows[r])
                    /\ \A r, s \in DOMAIN Rows : r < s =>
                         \A x \in ToSet(Rows[r]), y \in ToSet(Rows[s]) : Place(x) < Place(y)
  BY DEF InOrder
<1>1. tags \in Seq(ToSet(tags)) /\ tag_values \in Seq(ToSet(tags))
          /\ todo \in Seq(Lists(ToSet(tags)))
  BY TagsAre DEF ReadTypes
<1>2. Sorted(tags, tag_values, todo)
  BY DEF ReadInv
<1>3. \A x, y : Earlier(tags, x, y) => Place(x) < Place(y)
  BY <1>1, PlacesAre
<1>4. PICK n \in Nat : n = Len(todo) /\ DOMAIN todo = 1 .. n
  BY <1>1
<1>5. PICK rows : rows = Rows
  OBVIOUS
<1>6. /\ DOMAIN rows = 1 .. 1 + n /\ rows[1] = tag_values
      /\ \A r \in 1 .. 1 + n : r = 1 \/ (r - 1 \in 1 .. n /\ rows[r] = todo[r - 1].list)
  BY <1>1, <1>4, <1>5, RowsAre
<1>7. \A r \in 1 .. 1 + n : Part(rows[r], tags)
  BY <1>2, <1>4, <1>6 DEF Sorted
<1>8. ASSUME NEW r \in 1 .. 1 + n, NEW s \in 1 .. 1 + n, r < s PROVE Before(tags, rows[r], rows[s])
  <2>1. s # 1 /\ s - 1 \in 1 .. n /\ rows[s] = todo[s - 1].list
    BY <1>6, <1>8
  <2>2. CASE r = 1
    BY <1>2, <1>4, <1>6, <2>1, <2>2 DEF Sorted
  <2>3. CASE r # 1
    <3>1. r - 1 \in 1 .. n /\ rows[r] = todo[r - 1].list /\ r - 1 < s - 1
      BY <1>6, <1>8, <2>3
    <3> QED BY <1>2, <1>4, <2>1, <3>1 DEF Sorted
  <2> QED BY <2>2, <2>3
<1>9. \A r \in 1 .. 1 + n : Ascending(rows[r])
  BY <1>3, <1>7 DEF Part, Ascending
<1>10. \A r, s \in 1 .. 1 + n : r < s =>
         \A x \in ToSet(rows[r]), y \in ToSet(rows[s]) : Place(x) < Place(y)
  BY <1>3, <1>8 DEF Before
<1> QED BY <1>5, <1>6, <1>9, <1>10

\* However read_chunk_safe cuts the chunks up, tags are read in the order of the
\* listing, none into two rows.  For iFIX no two blocks may share a tag.
THEOREM ReadInOrder == Spec /\ (options.ifix_optimized => NamedApart) => []InOrder
<1>1. WalkTypes /\ ReadTypes /\ ReadInv /\ ListInv => InOrder
  BY SortedInOrder DEF ListInv
<1> QED BY <1>1, FoundInv, ReadAll, PTL
=============================================================================
