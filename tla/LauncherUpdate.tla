--------------------------- MODULE LauncherUpdate ---------------------------
(* Updating the launcher and installing its runtime: the update controller    *)
(* (launcher/electron/update.cjs), the detached worker that replaces the      *)
(* program once the launcher has exited (update-worker.cjs), and the durable  *)
(* runtime a launcher installs from its own package when it starts            *)
(* (runtime-install.cjs).  Launcher and worker may be killed between any two  *)
(* of their steps, the user may start a launcher by hand while a worker is at *)
(* work, and something outside may remove files of an installed runtime.      *)
EXTENDS Naturals

CONSTANTS
  LastVersion,   \* versions are 1 .. LastVersion
  UpdateFaults   \* bound: kills, failing file operations, outside removals

Versions == 1 .. LastVersion

ASSUME UpdateAssumption == LastVersion \in Nat \ {0} /\ UpdateFaults \in Nat

VARIABLES
  platform,   \* what the launcher runs on
  programs,   \* the programs on disk; 0 stands for no program
  runtimes,   \* the runtime directory of each version, and the copies being made
  launcher,   \* the one launcher (it holds the single instance lock)
  update,     \* its update controller
  worker,     \* the detached worker; one at a time
  outside     \* the newest release, the removals nobody repaired yet, the faults

updateVars == <<platform, programs, runtimes, launcher, update, worker, outside>>

\* A bundle is whole when every file of its manifest is there and matches.
Bundle(v) == [of |-> v, whole |-> TRUE]
NoBundle == [of |-> 0, whole |-> FALSE]
Partial(v) == [of |-> v, whole |-> FALSE]

NoUpdate == [status |-> "idle", candidate |-> 0, checked |-> FALSE]
NoWorker == [pc |-> "none", version |-> 0, target |-> 0]
\* What a worker is told: the version to install and the program it replaces.
Job(v, t) == [pc |-> "waiting", version |-> v, target |-> t]
NoLauncher == [pc |-> "off", version |-> 0, started |-> FALSE, resolved |-> FALSE]

UpdateInit ==
  /\ platform \in {"darwin", "win32", "linux"}
  /\ programs = [apps |-> {1}, wrapper |-> 1, target |-> 1, next |-> 0, previous |-> 0]
  /\ runtimes = [at |-> [v \in Versions |-> NoBundle], temporary |-> NoBundle, previous |-> NoBundle]
  /\ launcher = NoLauncher
  /\ update = NoUpdate
  /\ worker = NoWorker
  /\ outside = [released |-> 1, removed |-> {}, faults |-> 0]

Faulty == /\ outside.faults < UpdateFaults
          /\ outside' = [outside EXCEPT !.faults = @ + 1]

-----------------------------------------------------------------------------
\* The program a start runs: on Linux the AppImage the stable wrapper names,
\* elsewhere the bundle or the executable at its one place.
Starts(p) == IF platform = "linux" THEN IF p.wrapper \in p.apps THEN p.wrapper ELSE 0
             ELSE p.target

\* The single instance lock sends every further start to the running launcher.
Launched ==
  IF launcher.pc = "off" /\ Starts(programs') # 0
  THEN /\ launcher' = [NoLauncher EXCEPT !.pc = "waiting", !.version = Starts(programs')]
       /\ update' = NoUpdate
  ELSE UNCHANGED <<launcher, update>>

\* The user starts the launcher.
UserStarts ==
  /\ launcher.pc = "off"
  /\ programs' = programs /\ Starts(programs) # 0
  /\ Launched
  /\ UNCHANGED <<platform, runtimes, worker, outside>>

\* The launcher exits; whatever it had under way ends with it.
LauncherGoes == /\ launcher' = NoLauncher
        /\ update' = NoUpdate
        /\ runtimes' = [runtimes EXCEPT !.temporary = NoBundle, !.previous = NoBundle]

\* Killed at any point: the copies it leaves have names nobody looks for again.
LauncherKilled ==
  /\ launcher.pc # "off"
  /\ Faulty
  /\ LauncherGoes
  /\ UNCHANGED <<platform, programs, worker>>

-----------------------------------------------------------------------------
\* The runtime inside the package the launcher runs from.  A running AppImage
\* stays mounted; elsewhere a worker may have put another version in its place.
Source == IF platform = "linux" THEN Bundle(launcher.version)
          ELSE IF programs.target = 0 THEN NoBundle ELSE Bundle(programs.target)

\* The package's runtime is accepted only as the launcher's own version, whole.
Accepted(b) == b = Bundle(launcher.version)

\* A resolve that fails: a start fails with it, a later use only reports it.
ResolveFails(r) ==
  /\ runtimes' = [r EXCEPT !.temporary = NoBundle, !.previous = NoBundle]
  /\ IF launcher.started THEN launcher' = [launcher EXCEPT !.pc = "up"] /\ UNCHANGED update
     ELSE launcher' = NoLauncher /\ update' = NoUpdate

Resolves(r) ==
  /\ runtimes' = [r EXCEPT !.temporary = NoBundle, !.previous = NoBundle]
  /\ launcher' = [launcher EXCEPT !.pc = "up", !.started = TRUE, !.resolved = TRUE]
  /\ outside' = [outside EXCEPT !.removed = @ \ {launcher.version}]

\* Mutant of Kept: a version directory is used because it is there.
KeptUnread(b) == b # NoBundle

\* A version directory is used as it is only when it validates.
Kept(b) == Accepted(b)

\* A start waits until the package's runtime is all there, at most thirty
\* seconds; a later use looks once.
Inspects ==
  /\ \/ launcher.pc = "waiting"
     \/ launcher.pc = "up" /\ (~launcher.resolved \/ runtimes.at[launcher.version] = NoBundle)
  /\ \/ /\ Accepted(Source)
        /\ \/ /\ Kept(runtimes.at[launcher.version])
              /\ Resolves(runtimes)
           \/ /\ ~Kept(runtimes.at[launcher.version])
              /\ launcher' = [launcher EXCEPT !.pc = "copying", !.resolved = FALSE]
              /\ UNCHANGED <<runtimes, outside>>
        /\ UNCHANGED update
     \/ ~Accepted(Source) /\ ResolveFails(runtimes) /\ UNCHANGED outside
  /\ UNCHANGED <<platform, programs, worker>>

\* The copy is made beside the directory and validated there.
Copies ==
  /\ launcher.pc = "copying"
  /\ \/ /\ Accepted(Source)
        /\ runtimes' = [runtimes EXCEPT !.temporary = Source]
        /\ launcher' = [launcher EXCEPT !.pc = "moving"]
        /\ UNCHANGED <<update, outside>>
     \/ ~Accepted(Source) /\ ResolveFails(runtimes) /\ UNCHANGED outside
     \/ Faulty /\ ResolveFails(runtimes)
  /\ UNCHANGED <<platform, programs, worker>>

MovesAside ==
  /\ launcher.pc = "moving"
  /\ LET v == launcher.version IN
     \/ /\ runtimes' = [runtimes EXCEPT !.previous = runtimes.at[v], !.at[v] = NoBundle]
        /\ launcher' = [launcher EXCEPT !.pc = "placing"]
        /\ UNCHANGED <<update, outside>>
     \/ Faulty /\ ResolveFails(runtimes)
  /\ UNCHANGED <<platform, programs, worker>>

\* The new directory gets its name and is validated again; when that fails, the
\* old one gets its name back, once here and once more before the error is thrown.
Places ==
  /\ launcher.pc = "placing"
  /\ LET v == launcher.version IN
     \/ /\ runtimes' = [runtimes EXCEPT !.at[v] = runtimes.temporary, !.temporary = NoBundle]
        /\ launcher' = [launcher EXCEPT !.pc = "clearing"]
        /\ UNCHANGED <<update, outside>>
     \/ Faulty /\ \/ ResolveFails([runtimes EXCEPT !.at[v] = runtimes.previous])
                  \/ ResolveFails(runtimes)
  /\ UNCHANGED <<platform, programs, worker>>

\* The old directory goes, and the one in place is validated a last time.
ClearsAside ==
  /\ launcher.pc = "clearing"
  /\ IF Accepted(runtimes.at[launcher.version]) THEN Resolves(runtimes) /\ UNCHANGED update
     ELSE ResolveFails(runtimes) /\ UNCHANGED outside
  /\ UNCHANGED <<platform, programs, worker>>

\* Something outside removes a runtime directory, or files of it.
RuntimeRemoved(v) ==
  /\ runtimes.at[v] # NoBundle
  /\ outside.faults < UpdateFaults
  /\ outside' = [outside EXCEPT !.faults = @ + 1, !.removed = @ \cup {v}]
  /\ \E b \in {NoBundle, Partial(v)} : runtimes' = [runtimes EXCEPT !.at[v] = b]
  /\ UNCHANGED <<platform, programs, launcher, update, worker>>

-----------------------------------------------------------------------------
\* A newer release is published.
Releases ==
  /\ outside.released < LastVersion
  /\ outside' = [outside EXCEPT !.released = @ + 1]
  /\ UNCHANGED <<platform, programs, runtimes, launcher, update, worker>>

\* checkOnce: a launcher asks for the newest release once.
Checks ==
  /\ launcher.pc = "up" /\ ~update.checked
  /\ \/ /\ update' = [status |-> IF outside.released > launcher.version THEN "available" ELSE "current",
                      candidate |-> IF outside.released > launcher.version THEN outside.released ELSE 0,
                      checked |-> TRUE]
        /\ UNCHANGED outside
     \/ Faulty /\ update' = [NoUpdate EXCEPT !.status = "error", !.checked = TRUE]
  /\ UNCHANGED <<platform, programs, runtimes, launcher, worker>>

\* beginInstall: one preparation at a time, and only of the release that was found.
InstallAsked ==
  /\ launcher.pc = "up" /\ update.status = "available"
  /\ update' = [update EXCEPT !.status = "downloading"]
  /\ UNCHANGED <<platform, programs, runtimes, launcher, worker, outside>>

\* The asset is there, matches its checksum, and a worker was spawned with the
\* job; or its directory is removed and the release can be asked for again.
Prepares ==
  /\ launcher.pc = "up" /\ update.status = "downloading"
  /\ \/ /\ worker.pc = "none"
        /\ worker' = Job(update.candidate, launcher.version)
        /\ update' = [update EXCEPT !.status = "installing"]
        /\ UNCHANGED outside
     \/ Faulty /\ update' = [update EXCEPT !.status = "available"] /\ UNCHANGED worker
  /\ UNCHANGED <<platform, programs, runtimes, launcher>>

\* The launcher quits for the worker; a quit that is refused kills the worker,
\* which has done nothing but wait.
QuitsForUpdate ==
  /\ launcher.pc = "up" /\ update.status = "installing"
  /\ \/ LauncherGoes /\ UNCHANGED <<worker, outside>>
     \/ /\ Faulty
        /\ update' = [update EXCEPT !.status = "available"]
        /\ worker' = IF worker.pc = "waiting" THEN NoWorker ELSE worker
        /\ UNCHANGED <<runtimes, launcher>>
  /\ UNCHANGED <<platform, programs>>

UserQuits ==
  /\ launcher.pc = "up" /\ update.status # "installing"
  /\ LauncherGoes
  /\ UNCHANGED <<platform, programs, worker, outside>>

-----------------------------------------------------------------------------
Worker(pc) == worker.pc = pc
WorkerGoes(pc) == worker' = [worker EXCEPT !.pc = pc]

\* A worker that failed starts what is there.
WorkerFails ==
  /\ Faulty
  /\ worker' = NoWorker
  /\ Launched
  /\ UNCHANGED runtimes

\* The process the worker was spawned by: the launcher whose install is under way.
ParentGone == update.status # "installing"

\* A launcher that does not exit within two minutes ends the worker.
WaitsInVain ==
  /\ Worker("waiting") /\ ~ParentGone
  /\ Faulty
  /\ worker' = NoWorker
  /\ UNCHANGED <<platform, programs, runtimes, launcher, update>>

\* Stages the new program beside the old one.
Stages(p) == IF platform = "linux" THEN [p EXCEPT !.apps = @ \cup {worker.version}]
             ELSE [p EXCEPT !.next = worker.version]

WorkerStages ==
  /\ Worker("waiting") /\ ParentGone
  /\ \/ /\ programs' = Stages(programs)
        /\ WorkerGoes("staged")
        /\ UNCHANGED <<runtimes, launcher, update, outside>>
     \/ UNCHANGED programs /\ WorkerFails
  /\ UNCHANGED platform

\* Mutant of SwapsIn: the old AppImage goes before the wrapper names the new one.
SwapsInEarly ==
  /\ Worker("staged") /\ platform # "darwin"
  /\ programs' = [programs EXCEPT !.apps = @ \ {worker.target}]
  /\ WorkerGoes("swapped")
  /\ UNCHANGED <<runtimes, launcher, update, outside>>

\* Linux: the wrapper is replaced by one that names the new AppImage.  Windows:
\* the installer replaces the program.
SwapsIn ==
  /\ Worker("staged") /\ platform # "darwin"
  /\ programs' = IF platform = "linux" THEN [programs EXCEPT !.wrapper = worker.version]
                 ELSE [programs EXCEPT !.target = worker.version, !.next = 0]
  /\ WorkerGoes("swapped")
  /\ UNCHANGED <<runtimes, launcher, update, outside>>

\* macOS: the old bundle moves aside, the new one moves in; when it cannot, the
\* old one moves back.
MovesBundleAside ==
  /\ Worker("staged") /\ platform = "darwin" /\ programs.target # 0
  /\ programs' = [programs EXCEPT !.target = 0, !.previous = programs.target]
  /\ WorkerGoes("aside")
  /\ UNCHANGED <<runtimes, launcher, update, outside>>

MovesBundleIn ==
  /\ Worker("aside")
  /\ \/ /\ programs' = [programs EXCEPT !.target = programs.next, !.next = 0]
        /\ WorkerGoes("swapped")
        /\ UNCHANGED <<runtimes, launcher, update, outside>>
     \/ /\ programs' \in {[programs EXCEPT !.target = programs.previous, !.previous = 0], programs}
        /\ WorkerFails

\* Either swap fails before it changed anything, and always when the bundle to
\* move aside is gone.
SwapFails ==
  /\ Worker("staged")
  /\ UNCHANGED programs
  /\ \/ WorkerFails
     \/ /\ platform = "darwin" /\ programs.target = 0
        /\ worker' = NoWorker
        /\ UNCHANGED <<runtimes, launcher, update, outside>>

WorkerSwaps ==
  /\ SwapsIn \/ MovesBundleAside \/ MovesBundleIn \/ SwapFails
  /\ UNCHANGED platform

\* The old program goes, the new one is started.
WorkerClears ==
  /\ Worker("swapped")
  /\ \/ /\ programs' = [programs EXCEPT !.previous = 0,
                          !.apps = IF platform = "linux" THEN @ \ ({worker.target} \ {worker.version})
                                   ELSE @]
        /\ worker' = NoWorker
        /\ Launched
        /\ UNCHANGED <<runtimes, outside>>
     \/ UNCHANGED programs /\ WorkerFails
  /\ UNCHANGED platform

WorkerKilled ==
  /\ ~Worker("none")
  /\ Faulty
  /\ worker' = NoWorker
  /\ UNCHANGED <<platform, programs, runtimes, launcher, update>>

-----------------------------------------------------------------------------
UpdateNext ==
  \/ UserStarts \/ LauncherKilled \/ Inspects \/ Copies \/ MovesAside \/ Places \/ ClearsAside
  \/ \E v \in Versions : RuntimeRemoved(v)
  \/ Releases \/ Checks \/ InstallAsked \/ Prepares \/ QuitsForUpdate \/ UserQuits
  \/ WaitsInVain \/ WorkerStages \/ WorkerSwaps \/ WorkerClears \/ WorkerKilled

UpdateSpec == UpdateInit /\ [][UpdateNext]_updateVars

-----------------------------------------------------------------------------
\* Whatever was killed or failed, and whoever started a launcher meanwhile, what
\* the user starts is there; on macOS, between the two renames, the old bundle
\* lies whole beside its place (update-worker.cjs).
SomethingToStart == Starts(programs) # 0 \/ programs.previous # 0

\* A launcher that is up uses a whole runtime of its own version, unless something
\* outside removed files of it since the launcher last asked for it: neither a
\* start that was killed half way, nor an update that put another package in
\* place, nor an incomplete directory left behind gives it another
\* (runtime-install.cjs).
RunsItsOwnRuntime ==
  launcher.pc = "up" /\ launcher.resolved =>
    \/ runtimes.at[launcher.version] = Bundle(launcher.version)
    \/ launcher.version \in outside.removed
=============================================================================
