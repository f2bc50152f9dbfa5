------------------------------ MODULE MCDiscovery ------------------------------
(* Discovery for TLC: small servers.                                        *)
EXTENDS Discovery

server(leafs, dotted) ==
    [branches |-> DOMAIN leafs, leafs |-> leafs, dotted |-> dotted, closed |-> {}]

\* An iFIX server: nodes, types, blocks; a block's fields are its leafs.
ifix == server(
    (<<>> :> {}) @@ (<<"N1">> :> {}) @@ (<<"N2">> :> {}) @@
    (<<"N1", "AI">> :> {}) @@ (<<"N1", "TX">> :> {}) @@ (<<"N2", "AI">> :> {}) @@
    (<<"N1", "AI", "a">> :> {"F_CV", "A_DESC"}) @@ (<<"N1", "AI", "b">> :> {"F_CV"}) @@
    (<<"N1", "AI", "c">> :> {"F_CV"}) @@ (<<"N1", "TX", "t">> :> {"A_CV"}) @@
    (<<"N2", "AI", "a">> :> {"F_CV"}) @@ (<<"N2", "AI", "d">> :> {"F_CV"}), {})

\* A server of another make: a branch of its own, a leaf beside branches.
plain == server(
    (<<>> :> {}) @@ (<<"#">> :> {"clock"}) @@ (<<"U">> :> {"mode"}) @@
    (<<"U", "V">> :> {"x", "y", "z"}) @@ (<<"W">> :> {"x"}), {})

\* And one with a dot in a name.
dotted == server(
    (<<>> :> {}) @@ (<<"U">> :> {"x"}) @@ (<<"V.1">> :> {"y"}) @@ (<<"W">> :> {"z"}), {"V.1"})

empty == server(<<>> :> {}, {})

Servers == {ifix, plain, dotted, empty}
=============================================================================
