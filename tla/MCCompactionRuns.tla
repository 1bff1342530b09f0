-------------------------- MODULE MCCompactionRuns --------------------------
(* Small instances of CompactionRuns for TLC.                                *)
EXTENDS CompactionRuns, TLC

CONSTANTS compact, recompact, thread, turn, turn2

\* Two compactions of one thread, in different turns.
OneThread == (compact :> thread @@ recompact :> thread)
TurnOfKey == (compact :> turn @@ recompact :> turn2)
=============================================================================
