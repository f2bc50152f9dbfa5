------------------------------- MODULE MCBridge -------------------------------
(* Bridge with two tags: the node of one refuses its last value, the other one's *)
(* last value has a bad quality.                                                  *)
EXTENDS Bridge

CONSTANTS t1, t2

MCRefused  == {<<t1, MaxValue>>}
MCDoubtful == {<<t2, MaxValue>>}
=============================================================================
