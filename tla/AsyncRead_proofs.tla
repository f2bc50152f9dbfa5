---------------------------- MODULE AsyncRead_proofs ----------------------------
(***************************************************************************)
(* Theorems about the asynchronous reads of a single client, for every     *)
(* range of transaction numbers, every set of tags and groups and any      *)
(* number of reads: a read returns the answer to its own refresh, and under*)
(* the tags of its own items.  The first rests on Fresh: the numbers do not*)
(* come round before an answer.  The second rests on the first.            *)
(***************************************************************************)
EXTENDS AsyncRead, SequenceTheorems, FiniteSetTheorems, TLAPS

\* A sequence, of whatever, and what is in it.
IsSeq(q)  == \E S : q \in Seq(S)
Events(q) == {q[k] : k \in DOMAIN q}

\* The number k refreshes after tx.
After(tx, k) == IF tx + k <= MaxTx THEN tx + k ELSE tx + k - MaxTx

\* 1 while the read under way has not asked yet.
Unasked(c) == IF reading[c].at \in {"added", "ready"} THEN 1 ELSE 0

\* A request of the past, and its answer, carry a number the client's own has
\* left behind by no more refreshes than reads have begun since; by none only if
\* it is the request waited for.
Behind(c, tx, read) ==
    /\ tx \in 1 .. MaxTx
    /\ read \in 0 .. reads
    /\ reads - read < MaxTx
    /\ \E k \in 0 .. MaxTx - 1 :
         /\ tx_id[c] = After(tx, k)
         /\ k <= reads - read - Unasked(c)
         /\ k = 0 /\ reading[c].at = "waiting" => read = reading[c].read

Types ==
    /\ reads \in Nat
    /\ reading = [c \in Client |-> reading[c]]
    /\ tx_id \in [Client -> 0 .. MaxTx]
    /\ callback_queue = [c \in Client |-> callback_queue[c]]
    /\ \A c \in Client : IsSeq(callback_queue[c])

\* A read is a record.
Shape ==
    \A c \in Client :
      /\ "at" \in DOMAIN reading[c]
      /\ reading[c].at # "idle" => "read" \in DOMAIN reading[c]

Current ==
    \A c \in Client :
      /\ reading[c].at # "idle" => reading[c].read = reads
      /\ reading[c].at = "waiting" => tx_id[c] # 0

AllBehind ==
    \A c \in Client :
      /\ \A a \in asked : Behind(c, a.tx, a.read)
      /\ \A e \in Events(callback_queue[c]) :
           (e.tx = 0 /\ e.read = 0) \/ Behind(c, e.tx, e.read)

AnswerInv == Types /\ Current /\ AllBehind /\ ReadsOwnAnswer

-----------------------------------------------------------------------------

\* Queues as sequences.
LEMMA AppendSeq ==
    ASSUME NEW q, IsSeq(q), NEW e
    PROVE  IsSeq(Append(q, e)) /\ Events(Append(q, e)) \subseteq Events(q) \cup {e}
<1>1. PICK S : q \in Seq(S)
  BY DEF IsSeq
<1>2. q \in Seq(S \cup {e}) /\ e \in S \cup {e}
  BY <1>1
<1>3. /\ Append(q, e) \in Seq(S \cup {e})
      /\ Len(q) \in Nat /\ Len(Append(q, e)) = Len(q) + 1
      /\ DOMAIN q = 1 .. Len(q) /\ DOMAIN Append(q, e) = 1 .. Len(q) + 1
      /\ \A k \in 1 .. Len(q) : Append(q, e)[k] = q[k]
      /\ Append(q, e)[Len(q) + 1] = e
  BY <1>2, AppendProperties
<1>4. \A k \in DOMAIN Append(q, e) :
        Append(q, e)[k] = e \/ (k \in DOMAIN q /\ Append(q, e)[k] = q[k])
  BY <1>3
<1>5. IsSeq(Append(q, e))
  BY <1>3 DEF IsSeq
<1> QED BY <1>4, <1>5 DEF Events

LEMMA TailSeq ==
    ASSUME NEW q, IsSeq(q), q # <<>>
    PROVE  /\ IsSeq(Tail(q))
           /\ Events(Tail(q)) \subseteq Events(q)
           /\ 1 \in DOMAIN q /\ Head(q) = q[1] /\ Head(q) \in Events(q)
<1>1. PICK S : q \in Seq(S)
  BY DEF IsSeq
<1>2. /\ IsSeq(Tail(q))
      /\ \A k \in DOMAIN Tail(q) : k + 1 \in DOMAIN q /\ Tail(q)[k] = q[k + 1]
      /\ 1 \in DOMAIN q /\ Head(q) = q[1]
  BY <1>1 DEF IsSeq
<1> QED BY <1>2 DEF Events

\* A number is met again only after MaxTx refreshes.
LEMMA AfterDiffers ==
    ASSUME NEW tx \in 1 .. MaxTx, NEW k \in 0 .. MaxTx - 1
    PROVE  /\ After(tx, k) \in 1 .. MaxTx
           /\ After(tx, k) = tx => k = 0
           /\ k + 1 < MaxTx => NextTx(After(tx, k)) = After(tx, k + 1)
BY BoundAssumption DEF After, NextTx

\* While waiting, the number waited for is carried by no other request.
LEMMA BehindDistinct ==
    ASSUME NEW c \in Client, NEW tx, NEW read, Behind(c, tx, read),
           reading[c].at = "waiting", tx = tx_id[c]
    PROVE  read = reading[c].read
BY AfterDiffers DEF Behind

LEMMA DistinctHolds == AnswerInv => Distinct
<1> SUFFICES ASSUME AnswerInv, NEW c \in Client, reading[c].at = "waiting"
             PROVE  /\ \A k \in DOMAIN callback_queue[c] :
                         callback_queue[c][k].tx = tx_id[c] => callback_queue[c][k].read = reading[c].read
                    /\ \A a \in asked : a.tx = tx_id[c] => a.read = reading[c].read
  BY DEF Distinct
<1> QED BY BehindDistinct DEF AnswerInv, AllBehind, Current, Events

-----------------------------------------------------------------------------

LEMMA InitAnswer == Init => AnswerInv
<1> SUFFICES ASSUME Init PROVE AnswerInv
  OBVIOUS
<1>1. IsSeq(<<>>)
  BY DEF IsSeq
<1> QED BY <1>1, BoundAssumption
        DEF Init, AnswerInv, Types, Current, AllBehind, Events, ReadsOwnAnswer, Idle, NoResult

\* A step that neither begins a read nor asks nor waits keeps every number behind,
\* as long as what is on its way was before.
LEMMA KeepsBehind ==
    ASSUME NEW c \in Client, NEW tx, NEW read, Behind(c, tx, read),
           reads \in Nat, reads' = reads, tx_id'[c] = tx_id[c],
           \/ reading'[c] = reading[c]
           \/ reading'[c].at = "idle"
           \/ reading[c].at = "added" /\ reading'[c].at = "ready"
    PROVE  Behind(c, tx, read)'
<1>1. PICK k \in 0 .. MaxTx - 1 :
        /\ tx_id[c] = After(tx, k)
        /\ k <= reads - read - Unasked(c)
        /\ k = 0 /\ reading[c].at = "waiting" => read = reading[c].read
  BY DEF Behind
<1>2. reads \in Int /\ k <= reads - read - Unasked(c)'
  BY <1>1 DEF Behind, Unasked
<1>3. tx_id'[c] = After(tx, k)
  BY <1>1
<1>4. k = 0 /\ reading'[c].at = "waiting" => read = reading'[c].read
  BY <1>1
<1> QED BY <1>1, <1>2, <1>3, <1>4 DEF Behind

\* A read begins, with a new group or not: it is one more that has not asked.
LEMMA BeginsBehind ==
    ASSUME NEW c \in Client, NEW tx, NEW read, Behind(c, tx, read), reads \in Nat,
           reads - read < MaxTx - 1, reads' = reads + 1, tx_id'[c] = tx_id[c],
           reading[c].at = "idle", reading'[c].at \in {"added", "ready"}
    PROVE  Behind(c, tx, read)'
BY BoundAssumption DEF Behind, Unasked

\* A read asks, and the server may refuse.
LEMMA AsksBehind ==
    ASSUME NEW c \in Client, NEW tx, NEW read, Behind(c, tx, read), reads \in Nat,
           reads' = reads, tx_id'[c] = NextTx(tx_id[c]),
           reading[c].at = "ready", reading'[c].at \in {"waiting", "idle"}
    PROVE  Behind(c, tx, read)'
<1>1. PICK k \in 0 .. MaxTx - 1 :
        tx_id[c] = After(tx, k) /\ k <= reads - read - 1
  BY DEF Behind, Unasked
<1>2. k + 1 \in 1 .. MaxTx - 1 /\ k + 1 <= reads - read
  BY <1>1, BoundAssumption DEF Behind
<1>3. tx_id'[c] = After(tx, k + 1)
  <2>1. tx \in 1 .. MaxTx
    BY DEF Behind
  <2>2. k + 1 < MaxTx
    BY <1>2, BoundAssumption
  <2> QED BY <1>1, <2>1, <2>2, AfterDiffers
<1>4. Unasked(c)' = 0
  BY DEF Unasked
<1> QED BY <1>2, <1>3, <1>4 DEF Behind

\* So do the steps that leave the client alone.
LEMMA QuietAnswer ==
    ASSUME AnswerInv,
           reads' = reads, tx_id' = tx_id, callback_queue' = callback_queue, result' = result,
           asked' \subseteq asked,
           reading' = [c \in Client |-> reading'[c]],
           \A c \in Client : \/ reading'[c] = reading[c]
                             \/ reading'[c].at = "idle"
                             \/ /\ reading[c].at = "added" /\ reading'[c].at = "ready"
                                /\ reading'[c].read = reading[c].read
    PROVE  AnswerInv'
<1>1. Types' /\ Current' /\ ReadsOwnAnswer'
  BY DEF AnswerInv, Types, Current, ReadsOwnAnswer
<1>2. \A c \in Client : \A tx, read : Behind(c, tx, read) => Behind(c, tx, read)'
  BY KeepsBehind DEF AnswerInv, Types
<1>3. AllBehind'
  BY <1>2 DEF AnswerInv, AllBehind
<1> QED BY <1>1, <1>3 DEF AnswerInv

\* A read begins.
LEMMA BeginAnswer ==
    ASSUME AnswerInv, NEW c \in Client, Client = {c}, Fresh,
           reading[c].at = "idle", reading'[c].at \in {"added", "ready"},
           reading' = [d \in Client |-> reading'[d]],
           reading'[c].read = reads', reads' = reads + 1,
           UNCHANGED <<tx_id, asked, callback_queue>>, result' = NoResult
    PROVE  AnswerInv'
<1>1. Types' /\ Current' /\ ReadsOwnAnswer'
  BY DEF AnswerInv, Types, Current, ReadsOwnAnswer, NoResult
<1>2. \A tx, read : Behind(c, tx, read) /\ reads - read < MaxTx - 1 => Behind(c, tx, read)'
  BY BeginsBehind DEF AnswerInv, Types
<1>3. \A a \in asked : Behind(c, a.tx, a.read)'
  BY <1>2 DEF AnswerInv, AllBehind, Fresh
<1>4. ASSUME NEW e \in Events(callback_queue[c])
      PROVE  (e.tx = 0 /\ e.read = 0) \/ Behind(c, e.tx, e.read)'
  <2>1. (e.tx = 0 /\ e.read = 0) \/ (Behind(c, e.tx, e.read) /\ e.tx # 0)
    BY DEF AnswerInv, AllBehind, Behind
  <2>2. e.tx # 0 => reads - e.read < MaxTx - 1
    BY DEF Fresh, Events
  <2> QED BY <1>2, <2>1, <2>2
<1>5. AllBehind'
  BY <1>3, <1>4 DEF AllBehind
<1> QED BY <1>1, <1>5 DEF AnswerInv

\* A read asks: its own request is the one that is not behind.
LEMMA AskAnswer ==
    ASSUME AnswerInv, Shape, NEW c \in Client, Client = {c}, AsyncRefresh(c)
    PROVE  AnswerInv'
<1>1. /\ reading[c].at = "ready" /\ reading[c].read = reads
      /\ reading'[c].at \in {"waiting", "idle"}
      /\ reading'[c].at = "waiting" => reading'[c].read = reads
      /\ reading' = [d \in Client |-> reading'[d]]
      /\ reads' = reads
      /\ UNCHANGED <<callback_queue, result>>
      /\ tx_id'[c] = NextTx(tx_id[c])
  <2>1. CASE reading' = [reading EXCEPT ![c].at = "waiting"]
    BY <2>1 DEF AsyncRefresh, AnswerInv, Types, Current, Shape
  <2>2. CASE reading' = [reading EXCEPT ![c] = Idle]
    BY <2>2 DEF AsyncRefresh, Idle, AnswerInv, Types, Current, Shape
  <2> QED BY <2>1, <2>2 DEF AsyncRefresh
<1>2. tx_id' \in [Client -> 0 .. MaxTx] /\ tx_id'[c] \in 1 .. MaxTx
  BY BoundAssumption DEF AsyncRefresh, NextTx, AnswerInv, Types
<1>3. Types' /\ Current' /\ ReadsOwnAnswer'
  BY <1>1, <1>2 DEF AnswerInv, Types, Current, ReadsOwnAnswer
<1>4. \A tx, read : Behind(c, tx, read) => Behind(c, tx, read)'
  BY <1>1, AsksBehind DEF AnswerInv, Types
<1>5. ASSUME reading'[c].at = "waiting", NEW tx, NEW read, tx = tx_id'[c], read = reads
      PROVE  Behind(c, tx, read)'
  <2>1. Unasked(c)' = 0
    BY <1>5 DEF Unasked
  <2>2. tx_id'[c] = After(tx, 0)
    BY <1>2, <1>5 DEF After
  <2>3. 0 \in 0 .. MaxTx - 1 /\ reads \in Nat /\ MaxTx \in Nat \ {0}
    BY BoundAssumption DEF AnswerInv, Types
  <2> QED BY <1>1, <1>2, <1>5, <2>1, <2>2, <2>3 DEF Behind
<1>6. ASSUME NEW a \in asked'
      PROVE  Behind(c, a.tx, a.read)'
  <2>1. CASE a \in asked
    BY <1>4, <2>1 DEF AnswerInv, AllBehind
  <2>2. CASE a \notin asked
    <3>1. a.tx = tx_id'[c] /\ a.read = reads /\ reading'[c].at = "waiting"
      <4>1. asked' = asked \/ (/\ asked' = asked \cup {[group |-> reading[c].group, tx |-> tx_id'[c],
                                                      read |-> reading[c].read]}
                              /\ reading' = [reading EXCEPT ![c].at = "waiting"])
        BY DEF AsyncRefresh
      <4>2. a = [group |-> reading[c].group, tx |-> tx_id'[c], read |-> reading[c].read]
            /\ reading' = [reading EXCEPT ![c].at = "waiting"]
        BY <2>2, <4>1
      <4>3. reading'[c].at = "waiting"
        BY <4>2 DEF AnswerInv, Types, Shape
      <4> QED BY <1>1, <4>2, <4>3
    <3> QED BY <1>5, <3>1
  <2> QED BY <2>1, <2>2
<1>7. AllBehind'
  BY <1>1, <1>4, <1>6 DEF AnswerInv, AllBehind
<1> QED BY <1>3, <1>7 DEF AnswerInv

\* An event is taken: if it is the answer, it is that of this read.
LEMMA TakeAnswer ==
    ASSUME AnswerInv, Shape, NEW c \in Client, Client = {c}, TakeEvent(c)
    PROVE  AnswerInv'
<1> DEFINE event == Head(callback_queue[c])
<1>1. /\ reading[c].at = "waiting"
      /\ reads' = reads /\ tx_id' = tx_id
      /\ asked' \subseteq asked
      /\ reading' = [d \in Client |-> reading'[d]]
      /\ reading'[c] = reading[c] \/ reading'[c].at = "idle"
      /\ callback_queue' = [d \in Client |-> callback_queue'[d]]
      /\ callback_queue'[c] = Tail(callback_queue[c])
  <2>1. reading' = reading \/ reading' = [reading EXCEPT ![c] = Idle]
    BY DEF TakeEvent
  <2>2. reading' = [d \in Client |-> reading'[d]]
        /\ (reading'[c] = reading[c] \/ reading'[c].at = "idle")
    BY <2>1 DEF AnswerInv, Types, Idle
  <2>3. asked' \subseteq asked
    BY DEF TakeEvent, EndOf, RemoveGroup
  <2>4. /\ reading[c].at = "waiting"
        /\ reads' = reads /\ tx_id' = tx_id
        /\ callback_queue' = [callback_queue EXCEPT ![c] = Tail(@)]
    BY DEF TakeEvent
  <2>5. /\ callback_queue' = [d \in Client |-> callback_queue'[d]]
        /\ callback_queue'[c] = Tail(callback_queue[c])
    BY <2>4 DEF AnswerInv, Types
  <2> QED BY <2>2, <2>3, <2>4, <2>5
<1>2. /\ IsSeq(callback_queue'[c])
      /\ Events(callback_queue'[c]) \subseteq Events(callback_queue[c])
      /\ 1 \in DOMAIN callback_queue[c] /\ event = callback_queue[c][1]
  BY <1>1, TailSeq DEF TakeEvent, AnswerInv, Types
<1>3. \A tx, read : Behind(c, tx, read) => Behind(c, tx, read)'
  BY <1>1, KeepsBehind DEF AnswerInv, Types
<1>4. Types' /\ Current'
  BY <1>1, <1>2 DEF AnswerInv, Types, Current
<1>5. AllBehind'
  <2>1. \A a \in asked' : Behind(c, a.tx, a.read)'
    BY <1>1, <1>3 DEF AnswerInv, AllBehind
  <2>2. ASSUME NEW e \in Events(callback_queue'[c])
        PROVE  (e.tx = 0 /\ e.read = 0) \/ Behind(c, e.tx, e.read)'
    BY <1>2, <1>3 DEF AnswerInv, AllBehind
  <2> QED BY <2>1, <2>2 DEF AllBehind
<1>6. ReadsOwnAnswer'
  <2>1. CASE result' = result
    BY <2>1 DEF AnswerInv, ReadsOwnAnswer
  <2>2. CASE result' # result
    <3>1. /\ event.tx = tx_id[c]
          /\ result'.read = reading[c].read /\ result'.answers = event.read
      BY <2>2 DEF TakeEvent, Answers
    <3>2. event.read = reading[c].read
      BY <1>1, <1>2, <3>1, DistinctHolds DEF Distinct
    <3> QED BY <3>1, <3>2 DEF ReadsOwnAnswer
  <2> QED BY <2>1, <2>2
<1> QED BY <1>4, <1>5, <1>6 DEF AnswerInv

\* The server answers a request, or reports a change of its own accord.
LEMMA DeliverAnswer ==
    ASSUME AnswerInv, NEW c \in Client, Client = {c}, NEW g, NEW event, Deliver(g, event),
           asked' \subseteq asked,
           (event.tx = 0 /\ event.read = 0) \/ Behind(c, event.tx, event.read)
    PROVE  AnswerInv'
<1>1. /\ UNCHANGED <<reading, tx_id, result, reads>>
      /\ callback_queue' = [callback_queue EXCEPT ![g.sink] = Append(@, event)]
  BY DEF Deliver
<1>2. CASE callback_queue' = callback_queue
  BY <1>1, <1>2, QuietAnswer DEF AnswerInv, Types
<1>3. CASE callback_queue' # callback_queue
  <2>1. /\ callback_queue' = [d \in Client |-> callback_queue'[d]]
        /\ callback_queue'[c] = Append(callback_queue[c], event)
    BY <1>1, <1>3 DEF AnswerInv, Types
  <2>2. /\ IsSeq(callback_queue'[c])
        /\ Events(callback_queue'[c]) \subseteq Events(callback_queue[c]) \cup {event}
    BY <2>1, AppendSeq DEF AnswerInv, Types
  <2>3. \A tx, read : Behind(c, tx, read) => Behind(c, tx, read)'
    BY <1>1, KeepsBehind DEF AnswerInv, Types
  <2>4. Types' /\ Current' /\ ReadsOwnAnswer'
    BY <1>1, <2>1, <2>2 DEF AnswerInv, Types, Current, ReadsOwnAnswer
  <2>5. AllBehind'
    <3>1. \A a \in asked' : Behind(c, a.tx, a.read)'
      BY <2>3 DEF AnswerInv, AllBehind
    <3>2. ASSUME NEW e \in Events(callback_queue'[c])
          PROVE  (e.tx = 0 /\ e.read = 0) \/ Behind(c, e.tx, e.read)'
      BY <2>2, <2>3 DEF AnswerInv, AllBehind
    <3> QED BY <3>1, <3>2 DEF AllBehind
  <2> QED BY <2>4, <2>5 DEF AnswerInv
<1> QED BY <1>2, <1>3

LEMMA NextShape ==
    ASSUME NEW c, Client = {c}, AnswerInv, Shape, [Next]_vars
    PROVE  Shape'
<1>1. reading = [d \in Client |-> reading[d]]
  BY DEF AnswerInv, Types
<1>2. ASSUME NEW n \in Name \cup {NoName}, NEW tags \in SUBSET Tag, AddGroup(c, n, tags)
      PROVE  Shape'
  BY <1>1, <1>2 DEF AddGroup, Shape
<1>3. ASSUME NEW n \in Name, UseGroup(c, n)
      PROVE  Shape'
  BY <1>1, <1>3 DEF UseGroup, Shape
<1>4. CASE HookAndAddItems(c)
  <2>1. PICK added \in SUBSET reading[c].tags :
          reading' = [reading EXCEPT ![c].at = "ready", ![c].tags = added]
    BY <1>4 DEF HookAndAddItems
  <2>2. reading[c].at = "added" /\ "read" \in DOMAIN reading[c]
    BY <1>4 DEF HookAndAddItems, Shape
  <2> QED BY <1>1, <2>1, <2>2 DEF Shape
<1>5. CASE AsyncRefresh(c)
  <2>1. CASE reading' = [reading EXCEPT ![c].at = "waiting"]
    BY <1>1, <1>5, <2>1 DEF AsyncRefresh, Shape
  <2>2. CASE reading' = [reading EXCEPT ![c] = Idle]
    BY <1>1, <2>2 DEF Idle, Shape
  <2> QED BY <1>5, <2>1, <2>2 DEF AsyncRefresh
<1>6. CASE reading' = [reading EXCEPT ![c] = Idle]
  BY <1>1, <1>6 DEF Idle, Shape
<1>7. CASE reading' = reading
  BY <1>7 DEF Shape
<1> QED
  BY <1>2, <1>3, <1>4, <1>5, <1>6, <1>7
  DEF Next, vars, NothingToRead, TakeEvent, TimeoutError, Remove, OnRefresh, AnswerIsLost,
      OnDataChange, Deliver

LEMMA NextAnswer ==
    ASSUME NEW c, Client = {c}, AnswerInv, Shape, [Next]_vars
    PROVE  AnswerInv'
<1> USE DEF AnswerInv, Types
<1>1. ASSUME NEW n \in Name \cup {NoName}, NEW tags \in SUBSET Tag, AddGroup(c, n, tags)
      PROVE  AnswerInv'
  <2>1. reading[c].at = "idle" /\ Fresh /\ reads' = reads + 1 /\ result' = NoResult
        /\ UNCHANGED <<tx_id, asked, callback_queue>>
    BY <1>1 DEF AddGroup, Idle
  <2>2. /\ reading' = [d \in Client |-> reading'[d]]
        /\ reading'[c].at = "added" /\ reading'[c].read = reads'
    BY <1>1 DEF AddGroup
  <2> QED BY <2>1, <2>2, BeginAnswer
<1>2. ASSUME NEW n \in Name, UseGroup(c, n)
      PROVE  AnswerInv'
  <2>1. reading[c].at = "idle" /\ Fresh /\ reads' = reads + 1 /\ result' = NoResult
        /\ UNCHANGED <<tx_id, asked, callback_queue>>
    BY <1>2 DEF UseGroup, Idle
  <2>2. PICK g \in Named(c, n) :
          reading' = [reading EXCEPT ![c] =
            [at |-> "ready", read |-> reads', name |-> n, group |-> g.read,
             tags |-> {i[2] : i \in g.items}]]
    BY <1>2 DEF UseGroup
  <2>3. /\ reading' = [d \in Client |-> reading'[d]]
        /\ reading'[c].at = "ready" /\ reading'[c].read = reads'
    BY <2>2
  <2> QED BY <2>1, <2>3, BeginAnswer
<1>3. ASSUME NEW n \in Name, Remove(c, n)
      PROVE  AnswerInv'
  BY <1>3, QuietAnswer DEF Remove, RemoveGroup
<1>4. CASE HookAndAddItems(c)
  <2>1. PICK added \in SUBSET reading[c].tags :
          reading' = [reading EXCEPT ![c].at = "ready", ![c].tags = added]
    BY <1>4 DEF HookAndAddItems
  <2>2. reading[c].at = "added" /\ "at" \in DOMAIN reading[c] /\ "read" \in DOMAIN reading[c]
    BY <1>4 DEF HookAndAddItems, Shape
  <2>3. /\ reading' = [d \in Client |-> reading'[d]]
        /\ reading'[c].at = "ready" /\ reading'[c].read = reading[c].read
    BY <2>1, <2>2
  <2>4. UNCHANGED <<tx_id, asked, callback_queue, result, reads>>
    BY <1>4 DEF HookAndAddItems
  <2> QED BY <2>2, <2>3, <2>4, QuietAnswer
<1>5. CASE NothingToRead(c)
  BY <1>5, QuietAnswer DEF NothingToRead, EndOf, RemoveGroup, Idle
<1>6. CASE AsyncRefresh(c)
  BY <1>6, AskAnswer
<1>7. CASE TakeEvent(c)
  BY <1>7, TakeAnswer
<1>8. CASE TimeoutError(c)
  BY <1>8, QuietAnswer DEF TimeoutError, Idle
<1>9. CASE OnRefresh
  <2>1. PICK a \in asked, g \in groups :
          asked' = asked \ {a} /\ Deliver(g, [tx |-> a.tx, items |-> g.items, read |-> a.read])
    BY <1>9 DEF OnRefresh
  <2>2. Behind(c, a.tx, a.read)
    BY DEF AllBehind
  <2> QED BY <2>1, <2>2, DeliverAnswer
<1>10. CASE AnswerIsLost
  BY <1>10, QuietAnswer DEF AnswerIsLost
<1>11. CASE OnDataChange
  <2>1. PICK g \in groups : \E changed \in g.items :
          asked' = asked /\ Deliver(g, [tx |-> 0, items |-> {changed}, read |-> 0])
    BY <1>11 DEF OnDataChange
  <2>2. PICK changed \in g.items :
          asked' = asked /\ Deliver(g, [tx |-> 0, items |-> {changed}, read |-> 0])
    BY <2>1
  <2> QED BY <2>1, <2>2, DeliverAnswer
<1>12. CASE UNCHANGED vars
  BY <1>12, QuietAnswer DEF vars
<1> QED BY <1>1, <1>2, <1>3, <1>4, <1>5, <1>6, <1>7, <1>8, <1>9, <1>10, <1>11, <1>12 DEF Next

\* The answer a client alone in its process returns from iread() is the answer to
\* the refresh of that very read: not a late one, not a data change.
THEOREM ReadsGetTheirAnswer ==
    ASSUME NEW CONSTANT c, Client = {c}
    PROVE  Spec => []ReadsOwnAnswer
<1>1. Init => AnswerInv /\ Shape
  BY InitAnswer DEF Init, Idle, Shape
<1>2. AnswerInv /\ Shape /\ [Next]_vars => (AnswerInv /\ Shape)'
  BY NextAnswer, NextShape
<1>3. AnswerInv => ReadsOwnAnswer
  BY DEF AnswerInv
<1> QED BY <1>1, <1>2, <1>3, PTL DEF Spec

\* While it waits, no other event on its way has the number it waits for.
THEOREM NumbersAreDistinct ==
    ASSUME NEW CONSTANT c, Client = {c}
    PROVE  Spec => []Distinct
<1>1. Init => AnswerInv /\ Shape
  BY InitAnswer DEF Init, Idle, Shape
<1>2. AnswerInv /\ Shape /\ [Next]_vars => (AnswerInv /\ Shape)'
  BY NextAnswer, NextShape
<1>3. AnswerInv => Distinct
  BY DistinctHolds
<1> QED BY <1>1, <1>2, <1>3, PTL DEF Spec

-----------------------------------------------------------------------------
(* The values of the answer: where they come from.                          *)

GroupName == Name \cup {NoName}

\* Handles are counted from 0.
Table == UNION {[0 .. k - 1 -> Tag] : k \in Nat}

Group == [client : Client, name : GroupName, read : Read,
          sink : Client \cup {None}, items : SUBSET (Nat \X Tag)]

\* An item whose handle is that of its tag in a table.
IsEntered(item, table) == item[1] \in DOMAIN table /\ table[item[1]] = item[2]

TagsOf(items) == {i[2] : i \in items}

TableTypes ==
    /\ reads \in 0 .. MaxReads
    /\ current_client \in Client \cup {None}
    /\ groups \subseteq Group
    /\ group_handles_tag \in [Client -> [GroupName -> Table]]

\* The fields of a read under way.
ReadFields ==
    \A c \in Client : reading[c].at # "idle" =>
      /\ reads > 0
      /\ {"at", "read", "name", "tags", "group"} \subseteq DOMAIN reading[c]
      /\ reading[c].name \in GroupName /\ reading[c].tags \subseteq Tag

\* A group is known by the read that made it, a named one by its name.
GroupsDiffer ==
    /\ \A g \in groups : g.read <= reads
    /\ \A g, h \in groups : g.read = h.read => g = h
    /\ \A g, h \in groups : g.name # NoName /\ g.name = h.name /\ g.client = h.client => g = h

\* The handles of the items there are stand for their tags.
ItemsEntered ==
    \A g \in groups : \A i \in g.items : IsEntered(i, group_handles_tag[g.client][g.name])

\* The group of the read under way has the tags that are read.
GroupIsRead ==
    \A c \in Client, g \in groups :
      reading[c].at # "idle" /\ g.read = reading[c].group =>
        /\ g.client = c /\ g.name = reading[c].name
        /\ reading[c].at # "added" => TagsOf(g.items) = reading[c].tags

\* It is the one asked, and its answer has the items of these tags.
AnswerIsRead ==
    \A c \in Client : reading[c].at = "waiting" =>
      /\ \A a \in asked : a.read = reads => a.group = reading[c].group
      /\ \A e \in Events(callback_queue[c]) : e.read = reads =>
           /\ \A i \in e.items : IsEntered(i, group_handles_tag[c][reading[c].name])
           /\ TagsOf(e.items) = reading[c].tags

TagsInv ==
    /\ TableTypes /\ ReadFields /\ GroupsDiffer /\ ItemsEntered /\ GroupIsRead
    /\ AnswerIsRead /\ ReadsOwnTags

\* Steps that at most end a read, remove groups and take events.
LEMMA LessTags ==
    ASSUME TagsInv, groups' \subseteq groups, asked' \subseteq asked,
           UNCHANGED <<current_client, group_handles_tag, reads, result>>,
           \A c \in Client : reading'[c] = reading[c] \/ reading'[c].at = "idle",
           \A c \in Client : Events(callback_queue'[c]) \subseteq Events(callback_queue[c])
    PROVE  TagsInv'
<1> USE DEF TagsInv
<1>1. TableTypes'
  BY DEF TableTypes
<1>2. ReadFields'
  BY DEF ReadFields
<1>3. GroupsDiffer'
  BY DEF GroupsDiffer
<1>4. ItemsEntered'
  BY DEF ItemsEntered
<1>5. GroupIsRead'
  BY DEF GroupIsRead
<1>6. AnswerIsRead'
  BY DEF AnswerIsRead
<1>7. ReadsOwnTags'
  BY DEF ReadsOwnTags
<1> QED BY <1>1, <1>2, <1>3, <1>4, <1>5, <1>6, <1>7

\* A read begins with a group of its own.
LEMMA AddGroupTags ==
    ASSUME TagsInv, AnswerInv, NEW c \in Client, Client = {c}, NEW n \in GroupName,
           NEW tags \in SUBSET Tag, AddGroup(c, n, tags)
    PROVE  TagsInv'
<1> DEFINE new == [client |-> c, name |-> n, read |-> reads', sink |-> None, items |-> {}]
<1>1. /\ reads < MaxReads /\ reads' = reads + 1
      /\ Named(c, n) = {}
      /\ groups' = groups \cup {new}
      /\ reading' = [reading EXCEPT ![c] =
           [at |-> "added", read |-> reads', name |-> n, tags |-> tags, group |-> reads']]
      /\ result' = NoResult /\ current_client' = c
      /\ UNCHANGED <<group_handles_tag, asked, callback_queue>>
  BY DEF AddGroup
<1>2. /\ reading'[c].at = "added" /\ reading'[c].name = n /\ reading'[c].tags = tags
      /\ reading'[c].group = reads'
      /\ {"at", "read", "name", "tags", "group"} \subseteq DOMAIN reading'[c]
  BY <1>1 DEF AnswerInv, Types
<1>3. TableTypes' /\ new \in Group
  BY <1>1, BoundAssumption DEF TagsInv, TableTypes, Group, Read
<1>4. ReadFields'
  BY <1>1, <1>2 DEF ReadFields, TagsInv, TableTypes
<1>5. GroupsDiffer'
  <2>1. \A g \in groups : g.read \in Nat /\ g.read <= reads /\ g.client = c
    BY DEF GroupsDiffer, TagsInv, TableTypes, Group, Read
  <2>2. reads \in Nat /\ reads' \in Nat /\ new.read = reads + 1 /\ new.name = n
    BY <1>1 DEF TagsInv, TableTypes
  <2>3. ASSUME NEW g \in groups PROVE g.read # new.read /\ (n # NoName => g.name # n)
    <3>1. g.read # new.read
      BY <2>1, <2>2, <1>1
    <3>2. g \notin Named(c, n)
      BY <1>1
    <3> QED BY <2>1, <3>1, <3>2 DEF Named
  <2>4. \A g \in groups' : g.read <= reads'
    BY <1>1, <2>1, <2>2 DEF TagsInv, TableTypes
  <2>5. \A g, h \in groups' : g.read = h.read => g = h
    BY <1>1, <2>3 DEF TagsInv, GroupsDiffer
  <2>6. ASSUME NEW g \in groups', NEW h \in groups',
               g.name # NoName, g.name = h.name, g.client = h.client
        PROVE  g = h
    <3>1. g = new <=> h = new
      BY <1>1, <2>2, <2>3, <2>6
    <3> QED BY <1>1, <2>6, <3>1 DEF TagsInv, GroupsDiffer
  <2> QED BY <2>4, <2>5, <2>6 DEF GroupsDiffer
<1>6. ItemsEntered'
  BY <1>1 DEF ItemsEntered, TagsInv
<1>7. GroupIsRead'
  BY <1>1, <1>2 DEF GroupIsRead, GroupsDiffer, TagsInv, TableTypes, Group, Read
<1>8. AnswerIsRead' /\ ReadsOwnTags'
  BY <1>1, <1>2 DEF AnswerIsRead, ReadsOwnTags, NoResult
<1> QED BY <1>3, <1>4, <1>5, <1>6, <1>7, <1>8 DEF TagsInv

\* A read begins with the group of its name.
LEMMA UseGroupTags ==
    ASSUME TagsInv, AnswerInv, NEW c \in Client, Client = {c}, NEW n \in Name, UseGroup(c, n)
    PROVE  TagsInv'
<1>1. PICK g \in Named(c, n) :
        reading' = [reading EXCEPT ![c] =
          [at |-> "ready", read |-> reads', name |-> n, group |-> g.read,
           tags |-> {i[2] : i \in g.items}]]
  BY DEF UseGroup
<1>2. /\ reads < MaxReads /\ reads' = reads + 1 /\ result' = NoResult
      /\ UNCHANGED <<current_client, groups, group_handles_tag, asked, callback_queue>>
  BY DEF UseGroup
<1>3. g \in groups /\ g.client = c /\ g.name = n /\ g \in Group
  BY DEF Named, TagsInv, TableTypes
<1>4. /\ reading'[c].at = "ready" /\ reading'[c].name = n /\ reading'[c].group = g.read
      /\ reading'[c].tags = TagsOf(g.items)
      /\ {"at", "read", "name", "tags", "group"} \subseteq DOMAIN reading'[c]
  BY <1>1 DEF AnswerInv, Types, TagsOf
<1>5. TagsOf(g.items) \subseteq Tag
  BY <1>3 DEF Group, TagsOf
<1>6. TableTypes'
  BY <1>2, BoundAssumption DEF TagsInv, TableTypes
<1>7. ReadFields'
  BY <1>2, <1>4, <1>5 DEF ReadFields, TagsInv, TableTypes, GroupName
<1>8. GroupsDiffer' /\ ItemsEntered'
  BY <1>2 DEF GroupsDiffer, ItemsEntered, TagsInv, TableTypes, Group, Read
<1>9. GroupIsRead'
  BY <1>2, <1>3, <1>4 DEF GroupIsRead, GroupsDiffer, TagsInv
<1>10. AnswerIsRead' /\ ReadsOwnTags'
  BY <1>2, <1>4 DEF AnswerIsRead, ReadsOwnTags, NoResult
<1> QED BY <1>6, <1>7, <1>8, <1>9, <1>10 DEF TagsInv

\* The tables that tags can be entered in: under new handles, one after the other.
LEMMA EnteredTable ==
    ASSUME NEW table \in Table, NEW tags \in SUBSET Tag,
           NEW f \in Entered(table, Cardinality(DOMAIN table), tags)
    PROVE  /\ f \in Table /\ DOMAIN table \subseteq DOMAIN f
           /\ \A h \in DOMAIN table : f[h] = table[h]
           /\ {f[h] : h \in DOMAIN f \ DOMAIN table} = tags
           /\ DOMAIN f \subseteq Nat
<1>1. PICK k \in Nat : table \in [0 .. k - 1 -> Tag]
  BY DEF Table
<1>2. Cardinality(DOMAIN table) = k
  BY <1>1, FS_Interval
<1>3. Cardinality(tags) \in Nat
  BY TagAssumption, FS_Subset, FS_CardinalityType
<1>4. PICK last : last = k + Cardinality(tags) - 1
  OBVIOUS
<1>5. /\ f \in [DOMAIN table \cup (k .. last) -> Tag]
      /\ \A h \in DOMAIN table : f[h] = table[h]
      /\ {f[h] : h \in k .. last} = tags
  BY <1>2, <1>4 DEF Entered
<1>6. DOMAIN table \cup (k .. last) = 0 .. last /\ last + 1 \in Nat /\ last \in Int
  BY <1>1, <1>3, <1>4
<1>7. DOMAIN f \ DOMAIN table = k .. last
  BY <1>1, <1>5, <1>6
<1>8. f \in Table
  <2>1. PICK m \in Nat : m = last + 1
    BY <1>6
  <2>2. 0 .. last = 0 .. m - 1
    BY <1>6, <2>1
  <2>3. f \in [0 .. m - 1 -> Tag]
    BY <1>5, <1>6, <2>2
  <2> QED BY <2>3 DEF Table
<1> QED BY <1>5, <1>6, <1>7, <1>8

\* The items are added, under handles that were not in the table.
LEMMA HookTags ==
    ASSUME TagsInv, AnswerInv, NEW c \in Client, Client = {c}, HookAndAddItems(c)
    PROVE  TagsInv'
<1> DEFINE r == reading[c]
           table == group_handles_tag[c][r.name]
<1>1. /\ r.at = "added"
      /\ r.name \in GroupName /\ r.tags \subseteq Tag /\ reads > 0
      /\ {"at", "read", "name", "tags", "group"} \subseteq DOMAIN r
      /\ table \in Table
  BY DEF HookAndAddItems, TagsInv, ReadFields, TableTypes
<1>2. PICK added \in SUBSET r.tags, entered \in Entered(table, Cardinality(DOMAIN table), r.tags) :
        /\ reading' = [reading EXCEPT ![c].at = "ready", ![c].tags = added]
        /\ group_handles_tag' = [group_handles_tag EXCEPT ![c][r.name] = entered]
        /\ groups' = {IF g.read # r.group THEN g
                      ELSE [g EXCEPT !.sink  = current_client,
                                     !.items = {<<h, entered[h]>> :
                                                  h \in {k \in DOMAIN entered \ DOMAIN table :
                                                           entered[k] \in added}}] :
                        g \in groups}
  BY DEF HookAndAddItems, FirstHandle
<1>3. /\ entered \in Table /\ DOMAIN table \subseteq DOMAIN entered /\ DOMAIN entered \subseteq Nat
      /\ \A h \in DOMAIN table : entered[h] = table[h]
      /\ {entered[h] : h \in DOMAIN entered \ DOMAIN table} = r.tags
      /\ \A h \in DOMAIN entered : entered[h] \in Tag
  <2>1. entered \in Table
    BY <1>1, EnteredTable
  <2>2. \A h \in DOMAIN entered : entered[h] \in Tag
    BY <2>1 DEF Table
  <2> QED BY <1>1, <2>1, <2>2, EnteredTable
<1>4. UNCHANGED <<current_client, asked, callback_queue, result, reads>>
  BY DEF HookAndAddItems
<1>5. /\ reading'[c].at = "ready" /\ reading'[c].tags = added
      /\ reading'[c].name = r.name /\ reading'[c].group = r.group
      /\ {"at", "read", "name", "tags", "group"} \subseteq DOMAIN reading'[c]
  BY <1>1, <1>2 DEF AnswerInv, Types
<1> DEFINE handles == {k \in DOMAIN entered \ DOMAIN table : entered[k] \in added}
           items == {<<h, entered[h]>> : h \in handles}
           hooked(g) == [g EXCEPT !.sink = current_client, !.items = items]
<1>6. items \in SUBSET (Nat \X Tag) /\ \A i \in items : IsEntered(i, entered)
  BY <1>3 DEF IsEntered
<1>7. TagsOf(items) = added
  <2>1. \A t \in added : \E h \in handles : entered[h] = t
    BY <1>3
  <2>2. ASSUME NEW t \in added PROVE \E i \in items : i[2] = t
    <3>1. PICK h \in handles : entered[h] = t
      BY <2>1
    <3>2. <<h, t>> \in items
      BY <3>1
    <3> QED BY <3>2
  <2> QED BY <2>2 DEF TagsOf
<1>8. \A g \in groups : g \in Group /\ g.client = c
  BY DEF TagsInv, TableTypes, Group
<1>9. \A g \in groups :
        /\ hooked(g) \in Group /\ hooked(g).read = g.read /\ hooked(g).name = g.name
        /\ hooked(g).client = c /\ hooked(g).items = items
  BY <1>6, <1>8 DEF Group, TagsInv, TableTypes
<1> HIDE DEF items, hooked
<1>10. groups' = {IF g.read # r.group THEN g ELSE hooked(g) : g \in groups}
  BY <1>2 DEF items, hooked
<1>11. ASSUME NEW h \in groups'
       PROVE  \E g \in groups :
                /\ h = IF g.read # r.group THEN g ELSE hooked(g)
                /\ h.read = g.read /\ h.name = g.name /\ h.client = c /\ h \in Group
                /\ h.items = IF g.read # r.group THEN g.items ELSE items
  BY <1>8, <1>9, <1>10
<1>12. group_handles_tag'[c] = [group_handles_tag[c] EXCEPT ![r.name] = entered]
  BY <1>2 DEF TagsInv, TableTypes
<1>13. /\ group_handles_tag'[c][r.name] = entered
       /\ \A n \in GroupName : n # r.name => group_handles_tag'[c][n] = group_handles_tag[c][n]
  BY <1>1, <1>12 DEF TagsInv, TableTypes
<1>14. TableTypes'
  <2>1. group_handles_tag' \in [Client -> [GroupName -> Table]]
    BY <1>1, <1>2, <1>3 DEF TagsInv, TableTypes
  <2> QED BY <1>4, <1>11, <2>1 DEF TagsInv, TableTypes
<1>15. ReadFields'
  BY <1>1, <1>4, <1>5 DEF ReadFields
<1>16. GroupsDiffer'
  <2>1. \A h \in groups' : h.read <= reads'
    BY <1>4, <1>11 DEF TagsInv, GroupsDiffer
  <2>2. ASSUME NEW h \in groups', NEW k \in groups',
               h.read = k.read \/ (h.name # NoName /\ h.name = k.name)
        PROVE  h = k
    <3>1. PICK g \in groups : /\ h = IF g.read # r.group THEN g ELSE hooked(g)
                              /\ h.read = g.read /\ h.name = g.name
      BY <1>11
    <3>2. PICK f \in groups : /\ k = IF f.read # r.group THEN f ELSE hooked(f)
                              /\ k.read = f.read /\ k.name = f.name
      BY <1>11
    <3>3. g = f
      BY <1>8, <2>2, <3>1, <3>2 DEF TagsInv, GroupsDiffer
    <3> QED BY <3>1, <3>2, <3>3
  <2> QED BY <2>1, <2>2 DEF GroupsDiffer
<1>17. ItemsEntered'
  <2> SUFFICES ASSUME NEW h \in groups', NEW i \in h.items
               PROVE  IsEntered(i, group_handles_tag'[h.client][h.name])
    BY DEF ItemsEntered, IsEntered
  <2>1. PICK g \in groups : /\ h.name = g.name /\ h.client = c /\ h.read = g.read
                            /\ h.items = IF g.read # r.group THEN g.items ELSE items
    BY <1>11
  <2>2. g.read = r.group => g.name = r.name
    BY <1>1 DEF TagsInv, GroupIsRead
  <2>3. CASE g.read = r.group
    BY <1>6, <1>13, <2>1, <2>2, <2>3
  <2>4. CASE g.read # r.group
    <3>1. IsEntered(i, group_handles_tag[c][g.name]) /\ g.name \in GroupName
      BY <1>8, <2>1, <2>4 DEF TagsInv, ItemsEntered, Group
    <3> QED BY <1>3, <1>13, <2>1, <3>1 DEF IsEntered
  <2> QED BY <2>3, <2>4
<1>18. GroupIsRead'
  <2> SUFFICES ASSUME NEW h \in groups', h.read = r.group
               PROVE  h.client = c /\ h.name = r.name /\ TagsOf(h.items) = added
    BY <1>5 DEF GroupIsRead, TagsOf
  <2>1. PICK g \in groups : /\ h.name = g.name /\ h.client = c /\ h.read = g.read
                            /\ h.items = IF g.read # r.group THEN g.items ELSE items
    BY <1>11
  <2> QED BY <1>1, <1>7, <2>1 DEF TagsInv, GroupIsRead
<1>19. AnswerIsRead' /\ ReadsOwnTags'
  BY <1>4, <1>5 DEF TagsInv, AnswerIsRead, ReadsOwnTags
<1> QED BY <1>14, <1>15, <1>16, <1>17, <1>18, <1>19 DEF TagsInv

\* A read asks: nothing that is on its way is from it yet.
LEMMA AskTags ==
    ASSUME TagsInv, AnswerInv, NEW c \in Client, Client = {c}, AsyncRefresh(c)
    PROVE  TagsInv'
<1> DEFINE r == reading[c]
<1>1. /\ r.at = "ready" /\ r.read = reads /\ reads > 0 /\ reads \in Nat
      /\ UNCHANGED <<current_client, group_handles_tag, groups, callback_queue, result, reads>>
  BY DEF AsyncRefresh, AnswerInv, Types, Current, TagsInv, ReadFields
<1>2. CASE reading' = [reading EXCEPT ![c] = Idle] /\ asked' = asked
  <2>1. reading'[c].at = "idle"
    BY <1>2 DEF AnswerInv, Types, Idle
  <2> QED BY <1>1, <1>2, <2>1, LessTags
<1>3. CASE /\ reading' = [reading EXCEPT ![c].at = "waiting"]
           /\ asked' = asked \cup {[group |-> r.group, tx |-> tx_id'[c], read |-> r.read]}
  <2>1. /\ reading'[c].at = "waiting" /\ reading'[c].read = r.read /\ reading'[c].name = r.name
        /\ reading'[c].tags = r.tags /\ reading'[c].group = r.group
        /\ {"at", "read", "name", "tags", "group"} \subseteq DOMAIN reading'[c]
    BY <1>1, <1>3 DEF AnswerInv, Types, TagsInv, ReadFields
  <2>2. \A tx, read : Behind(c, tx, read) => read # reads
    BY <1>1 DEF Behind, Unasked
  <2>3. \A a \in asked : a.read # reads
    BY <2>2 DEF AnswerInv, AllBehind
  <2>4. \A e \in Events(callback_queue[c]) : e.read # reads
    BY <1>1, <2>2 DEF AnswerInv, AllBehind
  <2>5. AnswerIsRead'
    BY <1>1, <1>3, <2>1, <2>3, <2>4 DEF AnswerIsRead, Events
  <2>6. TableTypes' /\ GroupsDiffer' /\ ItemsEntered' /\ ReadsOwnTags'
    BY <1>1 DEF TagsInv, TableTypes, GroupsDiffer, ItemsEntered, ReadsOwnTags
  <2>7. ReadFields' /\ GroupIsRead'
    BY <1>1, <2>1 DEF TagsInv, ReadFields, GroupIsRead
  <2> QED BY <2>5, <2>6, <2>7 DEF TagsInv
<1> QED BY <1>2, <1>3 DEF AsyncRefresh

\* The answer is taken: its handles stand for the tags that were wanted.
LEMMA TakeTags ==
    ASSUME TagsInv, AnswerInv, NEW c \in Client, Client = {c}, TakeEvent(c)
    PROVE  TagsInv'
<1> DEFINE r == reading[c]
           event == Head(callback_queue[c])
           table == group_handles_tag[c][r.name]
<1>1. /\ r.at = "waiting" /\ r.read = reads
      /\ UNCHANGED <<current_client, group_handles_tag, reads>>
      /\ groups' \subseteq groups /\ asked' \subseteq asked
      /\ reading' = reading \/ reading' = [reading EXCEPT ![c] = Idle]
  BY DEF TakeEvent, EndOf, RemoveGroup, AnswerInv, Current
<1>2. reading'[c] = reading[c] \/ reading'[c].at = "idle"
  BY <1>1 DEF AnswerInv, Types, Idle
<1>3. /\ callback_queue'[c] = Tail(callback_queue[c])
      /\ Events(callback_queue'[c]) \subseteq Events(callback_queue[c])
      /\ event \in Events(callback_queue[c])
      /\ 1 \in DOMAIN callback_queue[c] /\ event = callback_queue[c][1]
  <2>1. IsSeq(callback_queue[c]) /\ callback_queue[c] # <<>>
    BY DEF AnswerInv, Types, TakeEvent
  <2>2. callback_queue'[c] = Tail(callback_queue[c])
    BY DEF TakeEvent, AnswerInv, Types
  <2> QED BY <2>1, <2>2, TailSeq
<1>4. CASE result' = result
  BY <1>1, <1>2, <1>3, <1>4, LessTags
<1>5. CASE result' # result
  <2>1. /\ event.tx = tx_id[c]
        /\ result' = [read |-> r.read, wanted |-> r.tags, answers |-> event.read,
                      values |-> {<<table[i[1]], i[2]>> : i \in event.items}]
        /\ reading' = [reading EXCEPT ![c] = Idle]
    BY <1>5 DEF TakeEvent, Answers
  <2>2. event.read = reads
    BY <1>1, <1>3, <2>1, DistinctHolds DEF Distinct
  <2>3. /\ \A i \in event.items : table[i[1]] = i[2]
        /\ TagsOf(event.items) = r.tags
    BY <1>1, <1>3, <2>2 DEF TagsInv, AnswerIsRead, IsEntered
  <2>4. {<<table[i[1]], i[2]>> : i \in event.items} = {<<t, t>> : t \in r.tags}
    <3>1. \A i \in event.items : i[2] \in r.tags /\ <<table[i[1]], i[2]>> = <<i[2], i[2]>>
      BY <2>3 DEF TagsOf
    <3>2. \A t \in r.tags : \E i \in event.items : i[2] = t
      BY <2>3 DEF TagsOf
    <3> QED BY <3>1, <3>2
  <2>5. ReadsOwnTags'
    BY <2>1, <2>4 DEF ReadsOwnTags
  <2>6. reading'[c].at = "idle"
    BY <2>1 DEF AnswerInv, Types, Idle
  <2>7. TableTypes' /\ ReadFields' /\ GroupsDiffer' /\ ItemsEntered'
    BY <1>1, <2>6 DEF TagsInv, TableTypes, ReadFields, GroupsDiffer, ItemsEntered
  <2>8. GroupIsRead' /\ AnswerIsRead'
    BY <2>6 DEF GroupIsRead, AnswerIsRead
  <2> QED BY <2>5, <2>7, <2>8 DEF TagsInv
<1> QED BY <1>4, <1>5

\* A group goes, with the table of its name, which no other group uses.
LEMMA RemoveTags ==
    ASSUME TagsInv, AnswerInv, NEW c \in Client, Client = {c}, NEW n \in Name, Remove(c, n)
    PROVE  TagsInv'
<1>1. PICK g \in Named(c, n) : groups' = {h \in groups : h.read # g.read}
  BY DEF Remove, RemoveGroup
<1>2. /\ reading[c].at = "idle"
      /\ group_handles_tag' = [group_handles_tag EXCEPT ![c][n] = <<>>]
      /\ UNCHANGED <<current_client, reading, callback_queue, result, reads>>
  BY DEF Remove, Idle
<1>3. n \in GroupName /\ n # NoName
  BY NameAssumption DEF GroupName
<1>4. group_handles_tag' \in [Client -> [GroupName -> Table]]
  <2>1. <<>> \in [0 .. 0 - 1 -> Tag]
    OBVIOUS
  <2>2. <<>> \in Table
    BY <2>1 DEF Table
  <2> QED BY <1>2, <1>3, <2>2 DEF TagsInv, TableTypes
<1>5. \A h \in groups' : h \in groups /\ h \in Group /\ h.client = c /\ h.name # n
  BY <1>1, <1>3 DEF Named, TagsInv, TableTypes, GroupsDiffer, Group
<1>6. \A h \in groups' : group_handles_tag'[h.client][h.name] = group_handles_tag[h.client][h.name]
  BY <1>2, <1>5 DEF TagsInv, TableTypes, Group
<1>7. TableTypes' /\ ReadFields' /\ ReadsOwnTags'
  BY <1>2, <1>4, <1>5 DEF TagsInv, TableTypes, ReadFields, ReadsOwnTags
<1>8. GroupsDiffer' /\ ItemsEntered'
  BY <1>2, <1>5, <1>6 DEF TagsInv, GroupsDiffer, ItemsEntered
<1>9. GroupIsRead' /\ AnswerIsRead'
  BY <1>2 DEF GroupIsRead, AnswerIsRead
<1> QED BY <1>7, <1>8, <1>9 DEF TagsInv

\* The server answers, or reports a change: if it answers the read, with its group.
LEMMA DeliverTags ==
    ASSUME TagsInv, AnswerInv, NEW c \in Client, Client = {c}, NEW g \in groups, NEW event,
           Deliver(g, event), asked' \subseteq asked,
           event.read = reads /\ reading[c].at = "waiting" =>
             g.read = reading[c].group /\ event.items = g.items
    PROVE  TagsInv'
<1>1. /\ UNCHANGED <<current_client, reading, group_handles_tag, groups, result, reads>>
      /\ callback_queue' = [callback_queue EXCEPT ![g.sink] = Append(@, event)]
  BY DEF Deliver
<1>2. Events(callback_queue'[c]) \subseteq Events(callback_queue[c]) \cup {event}
  <2>1. CASE g.sink = c
    <3>1. callback_queue'[c] = Append(callback_queue[c], event)
      BY <1>1, <2>1 DEF AnswerInv, Types
    <3> QED BY <3>1, AppendSeq DEF AnswerInv, Types
  <2>2. CASE g.sink # c
    <3>1. callback_queue'[c] = callback_queue[c]
      BY <1>1, <2>2 DEF AnswerInv, Types
    <3> QED BY <3>1
  <2> QED BY <2>1, <2>2
<1>3. AnswerIsRead'
  <2> SUFFICES ASSUME reading[c].at = "waiting"
               PROVE  /\ \A a \in asked' : a.read = reads => a.group = reading[c].group
                      /\ \A e \in Events(callback_queue'[c]) : e.read = reads =>
                           /\ \A i \in e.items : IsEntered(i, group_handles_tag[c][reading[c].name])
                           /\ TagsOf(e.items) = reading[c].tags
    BY <1>1 DEF AnswerIsRead, IsEntered, TagsOf
  <2>1. \A a \in asked' : a.read = reads => a.group = reading[c].group
    BY DEF TagsInv, AnswerIsRead
  <2>2. ASSUME event.read = reads
        PROVE  /\ \A i \in event.items : IsEntered(i, group_handles_tag[c][reading[c].name])
               /\ TagsOf(event.items) = reading[c].tags
    <3>1. /\ g.read = reading[c].group /\ event.items = g.items
      BY <2>2
    <3>2. g.client = c /\ g.name = reading[c].name /\ TagsOf(g.items) = reading[c].tags
      BY <3>1 DEF TagsInv, GroupIsRead
    <3> QED BY <3>1, <3>2 DEF TagsInv, ItemsEntered
  <2>3. ASSUME NEW e \in Events(callback_queue'[c]), e.read = reads
        PROVE  /\ \A i \in e.items : IsEntered(i, group_handles_tag[c][reading[c].name])
               /\ TagsOf(e.items) = reading[c].tags
    <3>1. CASE e \in Events(callback_queue[c])
      BY <2>3, <3>1 DEF TagsInv, AnswerIsRead
    <3>2. CASE e = event
      BY <2>2, <2>3, <3>2
    <3> QED BY <1>2, <3>1, <3>2
  <2> QED BY <2>1, <2>3
<1> QED BY <1>1, <1>3 DEF TagsInv, TableTypes, ReadFields, GroupsDiffer, ItemsEntered, GroupIsRead,
                          ReadsOwnTags

LEMMA NextTags ==
    ASSUME NEW c, Client = {c}, AnswerInv, TagsInv, [Next]_vars
    PROVE  TagsInv'
<1> c \in Client
  OBVIOUS
<1>1. ASSUME NEW n \in GroupName, NEW tags \in SUBSET Tag, AddGroup(c, n, tags)
      PROVE  TagsInv'
  BY <1>1, AddGroupTags
<1>2. ASSUME NEW n \in Name, UseGroup(c, n) \/ Remove(c, n)
      PROVE  TagsInv'
  BY <1>2, UseGroupTags, RemoveTags
<1>3. CASE HookAndAddItems(c) \/ AsyncRefresh(c) \/ TakeEvent(c)
  BY <1>3, HookTags, AskTags, TakeTags
<1>4. CASE NothingToRead(c) \/ TimeoutError(c)
  <2>1. reading'[c].at = "idle"
    BY <1>4 DEF NothingToRead, TimeoutError, AnswerInv, Types, Idle
  <2> QED BY <1>4, <2>1, LessTags DEF NothingToRead, TimeoutError, EndOf, RemoveGroup
<1>5. CASE OnRefresh
  <2>1. PICK a \in asked, g \in groups :
          /\ g.read = a.group /\ asked' = asked \ {a}
          /\ Deliver(g, [tx |-> a.tx, items |-> g.items, read |-> a.read])
    BY <1>5 DEF OnRefresh
  <2>2. a.read = reads /\ reading[c].at = "waiting" => g.read = reading[c].group
    BY <2>1 DEF TagsInv, AnswerIsRead
  <2> QED BY <2>1, <2>2, DeliverTags
<1>6. CASE AnswerIsLost
  BY <1>6, LessTags DEF AnswerIsLost
<1>7. CASE OnDataChange
  <2>1. PICK g \in groups : \E changed \in g.items :
          asked' = asked /\ Deliver(g, [tx |-> 0, items |-> {changed}, read |-> 0])
    BY <1>7 DEF OnDataChange
  <2>2. PICK changed \in g.items :
          asked' = asked /\ Deliver(g, [tx |-> 0, items |-> {changed}, read |-> 0])
    BY <2>1
  <2>3. reading[c].at = "waiting" => reads # 0
    BY DEF TagsInv, ReadFields, TableTypes
  <2> QED BY <2>2, <2>3, DeliverTags
<1>8. CASE UNCHANGED vars
  BY <1>8, LessTags DEF vars
<1> QED BY <1>1, <1>2, <1>3, <1>4, <1>5, <1>6, <1>7, <1>8 DEF Next, GroupName

LEMMA InitTags == Init => TagsInv
<1> SUFFICES ASSUME Init PROVE TagsInv
  OBVIOUS
<1>1. <<>> \in [0 .. 0 - 1 -> Tag]
  OBVIOUS
<1>2. <<>> \in Table
  BY <1>1 DEF Table
<1>3. TableTypes
  BY <1>2, BoundAssumption DEF Init, TableTypes, GroupName
<1> QED BY <1>3 DEF Init, TagsInv, ReadFields, GroupsDiffer, ItemsEntered, GroupIsRead,
                    AnswerIsRead, ReadsOwnTags, NoResult, Idle

\* Every value the read of a client alone in its process returns is that of the
\* item of the very tag it is returned for, and no wanted tag is missing: the
\* handles of the answer are looked up in the table they were made in (iread(),
\* da_client.py).
THEOREM ReadsReturnOwnTags ==
    ASSUME NEW CONSTANT c, Client = {c}
    PROVE  Spec => []ReadsOwnTags
<1> DEFINE Inv == AnswerInv /\ Shape /\ TagsInv
<1>1. Init => Inv
  BY InitAnswer, InitTags DEF Init, Idle, Shape
<1>2. Inv /\ [Next]_vars => Inv'
  BY NextAnswer, NextShape, NextTags
<1>3. Inv => ReadsOwnTags
  BY DEF TagsInv
<1> QED BY <1>1, <1>2, <1>3, PTL DEF Spec
=============================================================================
