---------------------------- MODULE MCManualTurns ----------------------------
(* A small instance of ManualTurns for TLC: a thread that asks two models in  *)
(* turn.                                                                      *)
EXTENDS ManualTurns

OneThread == [t \in 1 .. 3 |-> 1]
OtherModel == [t \in 1 .. 3 |-> IF t = 2 THEN 2 ELSE 1]
=============================================================================
