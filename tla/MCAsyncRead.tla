------------------------------ MODULE MCAsyncRead ------------------------------
(* AsyncRead for TLC: the tags are interchangeable. *)
EXTENDS AsyncRead, TLC

Symmetry == Permutations(Tag)
=============================================================================
