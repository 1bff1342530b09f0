----------------------------- MODULE MCLauncher -----------------------------
(* Small instances of the launcher's parts for TLC: the browser host of       *)
(* MCBrowserHost, the home surface, the runtime supervisor, the setup         *)
(* transactions and the update.  A behaviour is one of them, the part chosen  *)
(* at first; the others rest.                                                 *)
EXTENDS MCBrowserHost, HomeSurface, RuntimeSupervisor, LauncherSetup, LauncherUpdate

CONSTANT recovery

VARIABLE part

\* A third event happens only while a passkey import is discarded, which can then fail.
Brief == homeUsed > 2 => manualOperation.discards \/ (imported /\ ~Occupied)

\* A turn comes and goes only where that is looked at: while a daemon is drained or
\* found stale.
Asked == (UNCHANGED <<sup, children, alias, saved, task, left, faults>>) =>
           task["stop"].at \in {"drain", "poll"} \/ \E t \in Tasks : task[t].at = "stale"

LauncherInit ==
  /\ part \in {"host", "home", "supervisor", "setup", "update"}
  /\ Init /\ HomeInit /\ SupInit /\ SetupInit /\ UpdateInit
  /\ part = "setup" \/ disk = NoFiles
  /\ interactionMode = "automatic"
  /\ part = "home" \/ cookies = "in"
  /\ part = "update" \/ platform = "linux"

hostSide == <<vars, homeVars>>
runtimeSide == <<supVars, setupVars>>

LauncherNext ==
  /\ UNCHANGED part
  /\ \/ part = "host" /\ Next /\ UNCHANGED <<homeVars, runtimeSide, updateVars>>
     \/ part = "home" /\ HomeNext /\ Brief' /\ UNCHANGED <<vars, runtimeSide, updateVars>>
     \/ part = "supervisor" /\ SupNext /\ Asked /\ UNCHANGED <<hostSide, setupVars, updateVars>>
     \/ part = "setup" /\ SetupNext /\ UNCHANGED <<hostSide, supVars, updateVars>>
     \/ part = "update" /\ UpdateNext /\ UNCHANGED <<hostSide, runtimeSide>>

launcherVars == <<part, hostSide, runtimeSide, updateVars>>
LauncherSpec == LauncherInit /\ [][LauncherNext]_launcherVars
=============================================================================
