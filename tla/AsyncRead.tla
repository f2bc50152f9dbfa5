------------------------------- MODULE AsyncRead -------------------------------
(***************************************************************************)
(* Asynchronous reads, OpcDaClient.iread with sync=False, openopc2/         *)
(* da_client.py.  A read creates a group, or uses the named one it created  *)
(* before, asks it for its values under a transaction number, and waits for *)
(* the answer with that number in the client's callback_queue.  The events  *)
(* of a group go to the client that the module's global current_client      *)
(* names when they are hooked, so clients in the threads of a gateway meet  *)
(* there.  A named group is removed by remove() or close(), one without a   *)
(* name by the read that made it.                                           *)
(*                                                                         *)
(* A read is known by its number.  A value in a result is a pair of the tag *)
(* it is returned for and the tag whose item it came from.                  *)
(***************************************************************************)
EXTENDS Naturals, Sequences, FiniteSets

CONSTANTS
    Client,        \* the clients of one process, each used by a thread of its own
    Name,          \* the names of groups
    NoName,        \* a read without a group: the group lives as long as the read
    Tag,           \* the tags
    None,          \* no client
    MaxTx,         \* the last transaction number: 0xFFFF
    MaxReads,      \* bound: reads
    MaxQueue       \* bound: events waiting in a callback_queue

ASSUME NameAssumption == NoName \notin Name /\ None \notin Client
ASSUME TagAssumption == IsFiniteSet(Tag)
ASSUME BoundAssumption == {MaxTx, MaxReads, MaxQueue} \subseteq Nat \ {0}

VARIABLES
    current_client,      \* the global of the module
    reading,             \* per client, the read under way and where it is
    tx_id,               \* per client, _tx_id
    group_handles_tag,   \* per client and name, the tags of the client handles
    groups,              \* the server's groups
    asked,               \* the refreshes the server has not answered
    callback_queue,      \* per client, the events of the groups hooked to it
    result,              \* what the last read returned, until the next begins
    reads                \* reads so far

vars == <<current_client, reading, tx_id, group_handles_tag, groups, asked, callback_queue,
          result, reads>>

-----------------------------------------------------------------------------

Read == 1 .. MaxReads

Idle == [at |-> "idle"]

NoResult == [read |-> 0, wanted |-> {}, values |-> {}, answers |-> 0]

\* The group a client has under a name.  A read without a name has its own.
Named(c, name) == {g \in groups : g.client = c /\ g.name = name /\ name # NoName}

\* Handles start at 0 in a new group.  Reads without a name share one table,
\* in which they go on counting.
FirstHandle(c, name) ==
    Cardinality(DOMAIN group_handles_tag[c][name])

\* The tables tags can be entered in, after those a table has.
Entered(table, first, tags) ==
    LET last == first + Cardinality(tags) - 1
    IN  {f \in [DOMAIN table \cup (first .. last) -> Tag] :
           /\ \A h \in DOMAIN table : f[h] = table[h]
           /\ {f[h] : h \in first .. last} = tags}

\* Seeded fault: the number after the last is 0, which data changes carry.
NextTx_Zero(tx) == IF tx >= MaxTx THEN 0 ELSE tx + 1

\* Transaction numbers wrap to 1: 0 is left to data changes nobody asked for.
NextTx(tx) == IF tx >= MaxTx THEN 1 ELSE tx + 1

\* Seeded fault: any event is taken for the answer.
Answers_Any(event, tx) == TRUE

\* Is the event the answer to the refresh with this number?
Answers(event, tx) == event.tx = tx

\* Bound: an answer does not stay on its way while the numbers come round, 65535
\* reads of which each waits for five seconds.
Fresh ==
    /\ \A a \in asked : reads - a.read < MaxTx - 1
    /\ \A c \in Client : \A k \in DOMAIN callback_queue[c] :
         callback_queue[c][k].tx # 0 => reads - callback_queue[c][k].read < MaxTx - 1

-----------------------------------------------------------------------------

Init ==
    /\ current_client = None
    /\ reading = [c \in Client |-> Idle]
    /\ tx_id = [c \in Client |-> 0]
    /\ group_handles_tag = [c \in Client |-> [n \in Name \cup {NoName} |-> <<>>]]
    /\ groups = {}
    /\ asked = {}
    /\ callback_queue = [c \in Client |-> <<>>]
    /\ result = NoResult
    /\ reads = 0

-----------------------------------------------------------------------------
(* The client: iread().                                                     *)

\* A read that needs a new group: add it, and note whom its events are for.  Of
\* the tags asked for, only those the server will validate are in tags.
AddGroup(c, name, tags) ==
    /\ reading[c] = Idle
    /\ reads < MaxReads /\ Fresh
    /\ Named(c, name) = {}
    /\ reads' = reads + 1
    /\ groups' = groups \cup
         {[client |-> c, name |-> name, read |-> reads', sink |-> None, items |-> {}]}
    /\ current_client' = c
    /\ reading' = [reading EXCEPT ![c] =
         [at |-> "added", read |-> reads', name |-> name, tags |-> tags, group |-> reads']]
    /\ result' = NoResult
    /\ UNCHANGED <<tx_id, group_handles_tag, asked, callback_queue>>

\* WithEvents creates a GroupEvents, which takes the client current by now.  The
\* validated tags are entered under new handles; those the server then adds
\* become items of the group and are the tags to read.
HookAndAddItems(c) ==
    LET r     == reading[c]
        table == group_handles_tag[c][r.name]
        first == FirstHandle(c, r.name)
    IN
    /\ r.at = "added"
    /\ \E added \in SUBSET r.tags, entered \in Entered(table, first, r.tags) :
         /\ reading' = [reading EXCEPT ![c].at = "ready", ![c].tags = added]
         /\ group_handles_tag' = [group_handles_tag EXCEPT ![c][r.name] = entered]
         /\ groups' = {IF g.read # r.group THEN g
                       ELSE [g EXCEPT !.sink  = current_client,
                                      !.items = {<<h, entered[h]>> :
                                                   h \in {k \in DOMAIN entered \ DOMAIN table :
                                                            entered[k] \in added}}] :
                         g \in groups}
    /\ UNCHANGED <<current_client, tx_id, asked, callback_queue, result, reads>>

\* A read of a named group that exists: its tags are those it was created with.
UseGroup(c, name) ==
    /\ reading[c] = Idle
    /\ reads < MaxReads /\ Fresh
    /\ reads' = reads + 1
    /\ \E g \in Named(c, name) :
         reading' = [reading EXCEPT ![c] =
           [at |-> "ready", read |-> reads', name |-> name, group |-> g.read,
            tags |-> {i[2] : i \in g.items}]]
    /\ result' = NoResult
    /\ UNCHANGED <<current_client, tx_id, group_handles_tag, groups, asked, callback_queue>>

\* A group is removed, and what it was asked for.
RemoveGroup(read) ==
    /\ groups' = {g \in groups : g.read # read}
    /\ asked' = {a \in asked : a.group # read}

\* A read that has no name takes its group with it; the sink is closed first.
EndOf(r) ==
    IF r.name = NoName THEN RemoveGroup(r.group) ELSE UNCHANGED <<groups, asked>>

\* No tag to read: every tag is in error.
NothingToRead(c) ==
    LET r == reading[c] IN
    /\ r.at = "ready" /\ r.tags = {}
    /\ reading' = [reading EXCEPT ![c] = Idle]
    /\ EndOf(r)
    /\ UNCHANGED <<current_client, tx_id, group_handles_tag, callback_queue, result, reads>>

\* Ask for the values under the next number.  If the server refuses, raise and
\* leave the group.
AsyncRefresh(c) ==
    LET r == reading[c] IN
    /\ r.at = "ready" /\ r.tags # {}
    /\ tx_id' = [tx_id EXCEPT ![c] = NextTx(@)]
    /\ \/ /\ asked' = asked \cup {[group |-> r.group, tx |-> tx_id'[c], read |-> r.read]}
          /\ reading' = [reading EXCEPT ![c].at = "waiting"]
       \/ /\ reading' = [reading EXCEPT ![c] = Idle]
          /\ UNCHANGED asked
    /\ UNCHANGED <<current_client, group_handles_tag, groups, callback_queue, result, reads>>

\* An event is there.  The answer ends the wait: its handles are looked up in
\* the table of the group read.  A handle that is not in it raises, and leaves
\* the group.  Any other event is dropped.
TakeEvent(c) ==
    LET r     == reading[c]
        event == Head(callback_queue[c])
        table == group_handles_tag[c][r.name]
    IN
    /\ r.at = "waiting"
    /\ callback_queue[c] # <<>>
    /\ callback_queue' = [callback_queue EXCEPT ![c] = Tail(@)]
    /\ IF Answers(event, tx_id[c])
       THEN /\ reading' = [reading EXCEPT ![c] = Idle]
            /\ IF \A i \in event.items : i[1] \in DOMAIN table
               THEN /\ result' = [read |-> r.read, wanted |-> r.tags, answers |-> event.read,
                                  values |-> {<<table[i[1]], i[2]>> : i \in event.items}]
                    /\ EndOf(r)
               ELSE UNCHANGED <<result, groups, asked>>
       ELSE UNCHANGED <<reading, result, groups, asked>>
    /\ UNCHANGED <<current_client, tx_id, group_handles_tag, reads>>

\* No answer for timeout milliseconds, time enough to look at all there is (an
\* event of the last moment may as well come after the end): raise, and leave
\* the group, whose sink goes on receiving.
TimeoutError(c) ==
    /\ reading[c].at = "waiting"
    /\ callback_queue[c] = <<>>
    /\ reading' = [reading EXCEPT ![c] = Idle]
    /\ UNCHANGED <<current_client, tx_id, group_handles_tag, groups, asked, callback_queue,
                   result, reads>>

\* remove(), which close() calls too: the named group goes, with its table, so
\* that a new group of the name counts from 0 again.
Remove(c, name) ==
    /\ reading[c] = Idle
    /\ \E g \in Named(c, name) : RemoveGroup(g.read)
    /\ group_handles_tag' = [group_handles_tag EXCEPT ![c][name] = <<>>]
    /\ UNCHANGED <<current_client, reading, tx_id, callback_queue, result, reads>>

-----------------------------------------------------------------------------
(* The OPC server.                                                          *)

Deliver(g, event) ==
    /\ Len(callback_queue[g.sink]) < MaxQueue
    /\ callback_queue' = [callback_queue EXCEPT ![g.sink] = Append(@, event)]
    /\ UNCHANGED <<current_client, reading, tx_id, group_handles_tag, groups, result, reads>>

\* It answers a refresh with all values of the group, in time or late.
OnRefresh ==
    \E a \in asked, g \in groups :
      /\ g.read = a.group
      /\ asked' = asked \ {a}
      /\ Deliver(g, [tx |-> a.tx, items |-> g.items, read |-> a.read])

\* Or never: it was restarted meanwhile, or the refresh was cancelled.
AnswerIsLost ==
    /\ \E a \in asked : asked' = asked \ {a}
    /\ UNCHANGED <<current_client, reading, tx_id, group_handles_tag, groups, callback_queue,
                   result, reads>>

\* A value of a group changes: the group is subscribed while it exists.
OnDataChange ==
    \E g \in groups : \E changed \in g.items :
      /\ g.sink # None
      /\ Deliver(g, [tx |-> 0, items |-> {changed}, read |-> 0])
      /\ UNCHANGED asked

-----------------------------------------------------------------------------

Next ==
    \/ \E c \in Client, n \in Name \cup {NoName}, tags \in SUBSET Tag : AddGroup(c, n, tags)
    \/ \E c \in Client, n \in Name : UseGroup(c, n) \/ Remove(c, n)
    \/ \E c \in Client : HookAndAddItems(c) \/ NothingToRead(c) \/ AsyncRefresh(c)
                          \/ TakeEvent(c) \/ TimeoutError(c)
    \/ OnRefresh \/ AnswerIsLost
    \/ OnDataChange

Spec == Init /\ [][Next]_vars

-----------------------------------------------------------------------------
(* Properties.                                                              *)

Handle == 0 .. MaxReads * Cardinality(Tag)
Event  == [tx : 0 .. MaxTx, items : SUBSET (Handle \X Tag), read : 0 .. MaxReads]

\* The values of the state variables.
TypeOK ==
    /\ current_client \in Client \cup {None}
    /\ \A c \in Client : reading[c].at \in {"idle", "added", "ready", "waiting"}
    /\ tx_id \in [Client -> 0 .. MaxTx]
    /\ \A c \in Client, n \in Name \cup {NoName} :
         /\ DOMAIN group_handles_tag[c][n] \subseteq Handle
         /\ \A h \in DOMAIN group_handles_tag[c][n] : group_handles_tag[c][n][h] \in Tag
    /\ groups \subseteq [client : Client, name : Name \cup {NoName}, read : Read,
                         sink : Client \cup {None}, items : SUBSET (Handle \X Tag)]
    /\ asked \subseteq [group : Read, tx : 1 .. MaxTx, read : Read]
    /\ callback_queue \in [Client -> Seq(Event)]
    /\ reads \in 0 .. MaxReads
    /\ result = NoResult \/ result.read \in Read

\* A read returns a value for every tag the group has an item for, and for each
\* the value that was read from it.
ReadsOwnTags == result.values = {<<t, t>> : t \in result.wanted}

\* The answer a read returns is the answer to its own refresh: neither a late
\* answer to an earlier read nor a data change.
ReadsOwnAnswer == result.answers = result.read

\* Why: a client waits only for a number that no other event on its way has.
Distinct ==
    \A c \in Client : reading[c].at = "waiting" =>
      /\ \A k \in DOMAIN callback_queue[c] :
           callback_queue[c][k].tx = tx_id[c] => callback_queue[c][k].read = reading[c].read
      /\ \A a \in asked : a.tx = tx_id[c] => a.read = reading[c].read

\* A group without a name lives only as long as its read: "Anonymous group is
\* created and auto-removed by iread()" (ua_server.py:434).
NothingLeft ==
    \A g \in groups : g.name = NoName => reading[g.client].at # "idle" /\ reading[g.client].group = g.read
=============================================================================
