--------------------------- MODULE MCTurnThreads ---------------------------
(* The threads of MCTurnSessions, two runs of HelperPipe, the rounds of a     *)
(* turn and a development chat for TLC.  A behaviour is one of them, the part *)
(* chosen at first; the others rest in an initial state.                      *)
EXTENDS MCTurnSessions, HelperPipe, ToolRounds, DevChat

CONSTANT trace

VARIABLE part

\* The second run is a retry of the first.
TwoRuns == {1, 2}
OneTrace == 1 :> trace @@ 2 :> trace

\* Requests are interchangeable, and so are tool calls and command lines.
Alike == Interchangeable \cup Permutations(Tools) \cup Permutations(Procs)

Called(s) == Cardinality(Tools \ CallsIn(sess[s], {"none"}))

\* A second browser, or a second lost connection, meets a shorter turn.
Modest ==
  /\ codex.lost > 1 => (Len(sess) = 1 /\ sess[1].written <= 1)
  /\ Len(sess) > 1 => /\ sess[1].written <= 1 /\ sess[2].written <= 1
                      /\ codex.lost + codex.round + Called(1) + Called(2) <= 3

ThreadsInit ==
  /\ part \in {"registry", "pipe", "rounds", "chat"}
  /\ SessionsInit /\ PipeInit /\ RoundsInit /\ DevChatInit
  /\ part = "rounds" \/ (mode = "tools" /\ buffered)
  /\ part = "chat" \/ full

ThreadsNext ==
  /\ UNCHANGED part
  /\ \/ part = "registry" /\ SessionsNext /\ UNCHANGED <<pipeVars, roundsVars, dcVars>>
     \/ part = "pipe" /\ PipeNext /\ UNCHANGED <<sessionsVars, roundsVars, dcVars>>
     \/ part = "rounds" /\ RoundsNext /\ Modest'
        /\ UNCHANGED <<sessionsVars, pipeVars, dcVars>>
     \/ part = "chat" /\ DevChatNext /\ UNCHANGED <<sessionsVars, pipeVars, roundsVars>>

threadsVars == <<part, sessionsVars, pipeVars, roundsVars, dcVars>>
ThreadsSpec == ThreadsInit /\ [][ThreadsNext]_threadsVars
=============================================================================
