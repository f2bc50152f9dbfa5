------------------------------ MODULE MCSyncGroups ------------------------------
(* SyncGroups for TLC: a few lists of tags.                                 *)
EXTENDS SyncGroups

ReadLists == {<<"a">>, <<"b", "c">>, <<"c", "b", "a">>}

\* One with a tag twice.
WriteLists == {<<"a", "b", "a", "c">>}
=============================================================================
