----------------------------- MODULE WriteThrough -----------------------------
(***************************************************************************)
(* What the write path of the bridge promises to a UA client: a write that *)
(* changed what its node shows is taken, and then offered to the DA        *)
(* server, exactly once, in the order the writes of its node were made;    *)
(* and nothing else ever is.                                               *)
(*                                                                         *)
(* What the DA server does to a node can disturb it.  Of a disturbed node  *)
(* the promise is less: the oldest of the writes not yet taken may be      *)
(* lost, and values nobody wrote may come among the others.                *)
(***************************************************************************)
EXTENDS Naturals, Sequences

CONSTANTS
    Node,       \* the nodes clients can write
    Content     \* what can be written

VARIABLES
    disturbed,  \* nodes whose writes may be mistaken
    written,    \* per node, the writes made and not yet taken
    taken,      \* per node, the writes taken and not yet offered
    offered     \* every write offered to the DA server, in order

vars == <<disturbed, written, taken, offered>>

Init ==
    /\ disturbed = {}
    /\ written = [n \in Node |-> <<>>]
    /\ taken = [n \in Node |-> <<>>]
    /\ offered = <<>>

\* A client writes.
Accept(n, v) ==
    /\ written' = [written EXCEPT ![n] = Append(@, v)]
    /\ UNCHANGED <<disturbed, taken, offered>>

\* Something comes from the DA server.
Disturb ==
    /\ disturbed \subseteq disturbed' /\ disturbed' \subseteq Node
    /\ UNCHANGED <<written, taken, offered>>

\* All that was written is taken.
Take(n) ==
    /\ n \notin disturbed
    /\ written' = [written EXCEPT ![n] = <<>>]
    /\ taken' = [taken EXCEPT ![n] = @ \o written[n]]
    /\ UNCHANGED <<disturbed, offered>>

\* The values of part are in the list, in their order.
Within(part, list) ==
    \E place \in [DOMAIN part -> DOMAIN list] :
        /\ \A i, j \in DOMAIN part : i < j => place[i] < place[j]
        /\ \A i \in DOMAIN part : part[i] = list[place[i]]

\* All but the oldest is taken at least, and maybe more than was written.
TakeDisturbed(n) ==
    /\ n \in disturbed
    /\ disturbed' \in {disturbed, disturbed \ {n}}
    /\ written' = [written EXCEPT ![n] = <<>>]
    /\ LET more == SubSeq(taken'[n], Len(taken[n]) + 1, Len(taken'[n]))
       IN  /\ more \in Seq(Content)
           /\ taken' = [taken EXCEPT ![n] = @ \o more]
           /\ \E lost \in 0 .. 1 : Within(SubSeq(written[n], lost + 1, Len(written[n])), more)
    /\ UNCHANGED offered

\* The oldest write of the node goes to the DA server.
Offer(n) ==
    /\ taken[n] # <<>>
    /\ taken' = [taken EXCEPT ![n] = Tail(@)]
    /\ offered' = Append(offered, [node |-> n, value |-> Head(taken[n])])
    /\ UNCHANGED <<disturbed, written>>

Next ==
    \/ Disturb
    \/ \E n \in Node : Take(n) \/ TakeDisturbed(n) \/ Offer(n) \/ \E v \in Content : Accept(n, v)

\* No write waits for ever.
NoneWaits ==
    \A n \in Node : (written[n] # <<>> ~> written[n] = <<>>) /\ WF_vars(Offer(n))

Spec == Init /\ [][Next]_vars /\ NoneWaits
=============================================================================
