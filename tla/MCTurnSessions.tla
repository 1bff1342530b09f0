--------------------------- MODULE MCTurnSessions ---------------------------
(* Small instances of TurnSessions for TLC: a turn, the instruction that     *)
(* steers it, the compaction of its retained conversation, and a Zero Risk   *)
(* turn of another thread.  The configurations choose among these keys.      *)
EXTENDS TurnSessions, TLC

CONSTANTS first, steered, compacted, other, thread, thread2, turn, turn2, i1, i2, conv

ThreadOf == [k \in Keys |-> IF k = other THEN thread2 ELSE thread]
NativeTurnOf == [k \in Keys |-> IF k = other THEN turn2 ELSE turn]
InstructionOfKey ==
  [k \in Keys |-> IF k = steered THEN i2 ELSE IF k = other THEN None ELSE i1]
RetainedIn == [k \in Keys |-> IF k \in {first, steered} THEN conv ELSE None]
Compacts == [k \in Keys |-> IF k = compacted THEN first ELSE None]
Lineage == (i1 :> {} @@ i2 :> {i1})

Interchangeable == Permutations(Requests)
=============================================================================
