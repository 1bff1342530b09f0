------------------------------ MODULE MCDaemon ------------------------------
(* A small instance of Daemon for TLC, the bodies are one turn's and another's, *)
(* and the compactions of MCCompactionRuns.  A behaviour is one of them, the    *)
(* part chosen at first; the other rests in its initial state.                  *)
EXTENDS Daemon, MCCompactionRuns

CONSTANTS tools, text

VARIABLE part

TwoTurns == tools :> turn @@ text :> turn2

PartsInit == part \in {"requests", "compactions"} /\ DaemonInit /\ RunsInit

PartsNext ==
  /\ UNCHANGED part
  /\ \/ part = "requests" /\ DaemonNext /\ UNCHANGED runVars
     \/ part = "compactions" /\ RunsNext /\ UNCHANGED daemonVars

PartsSpec ==
  /\ PartsInit /\ [][PartsNext]_<<part, daemonVars, runVars>>
  /\ DaemonFairness /\ RunsFairness
=============================================================================
