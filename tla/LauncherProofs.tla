---------------------------- MODULE LauncherProofs ----------------------------
(* Proofs about the launcher: its update and the installation of its runtime  *)
(* (LauncherUpdate), the store of usage receipts (Limits), the supervisor of  *)
(* its runtime (RuntimeSupervisor) and its setup (LauncherSetup).             *)
EXTENDS LauncherUpdate, Limits, RuntimeSupervisor, LauncherSetup, TLAPS

Bundles == [of : 0..LastVersion, whole : BOOLEAN]

Programs == [apps : SUBSET Versions, wrapper : Versions, target : 0..LastVersion,
             next : 0..LastVersion, previous : 0..LastVersion]
Runtimes == [at : [Versions -> Bundles], temporary : Bundles, previous : Bundles]
Launchers == [pc : {"off", "waiting", "up", "copying", "moving", "placing", "clearing"},
              version : 0..LastVersion, started : BOOLEAN, resolved : BOOLEAN]
Updates == [status : {"idle", "available", "current", "error", "downloading", "installing"},
            candidate : 0..LastVersion, checked : BOOLEAN]
Workers == [pc : {"none", "waiting", "staged", "aside", "swapped"},
            version : 0..LastVersion, target : 0..LastVersion]

Outsides == [released : Versions, removed : SUBSET Versions, faults : Nat]

UpdateTypeOK ==
  /\ platform \in {"darwin", "win32", "linux"}
  /\ programs \in Programs
  /\ runtimes \in Runtimes
  /\ launcher \in Launchers
  /\ update \in Updates
  /\ worker \in Workers
  /\ outside \in Outsides

\* Launcher, update and worker are about versions that exist.
VersionsExist ==
  /\ launcher.pc # "off" => launcher.version # 0
  /\ update.status \in {"available", "downloading", "installing"} => update.candidate # 0
  /\ worker.pc # "none" => worker.version # 0

\* On Linux the wrapper names an AppImage that is there, the new one once it was swapped in.
WrapperNamesProgram ==
  platform = "linux" =>
    /\ programs.wrapper \in programs.apps
    /\ worker.pc # "aside"
    /\ worker.pc = "staged" => worker.version \in programs.apps
    /\ worker.pc = "swapped" => programs.wrapper = worker.version

\* Elsewhere a program is in its place, or the old bundle beside it; the one is removed only
\* when the other is there.
PlaceOrBeside ==
  platform # "linux" =>
    /\ programs.target # 0 \/ (platform = "darwin" /\ programs.previous # 0)
    /\ worker.pc = "swapped" => programs.target # 0
    /\ platform = "darwin" /\ worker.pc \in {"staged", "aside"} => programs.next # 0
    /\ worker.pc = "aside" => platform = "darwin" /\ programs.previous # 0

\* A launcher uses no runtime while it installs one.
InstallsUnresolved ==
  launcher.pc \in {"waiting", "copying", "moving", "placing", "clearing"} => ~launcher.resolved

UpdateIInv ==
  /\ UpdateTypeOK
  /\ VersionsExist
  /\ WrapperNamesProgram
  /\ PlaceOrBeside
  /\ InstallsUnresolved
  /\ RunsItsOwnRuntime

\* The worker stages, swaps and clears programs of versions that exist (update-worker.cjs).
LEMMA ProgramsTyped ==
  ASSUME UpdateTypeOK, VersionsExist, UpdateNext
  PROVE  programs' \in Programs
<1> USE DEF UpdateTypeOK, Programs
<1>0. 0 \in 0..LastVersion /\ Versions \subseteq 0..LastVersion
  BY UpdateAssumption DEF Versions
<1>1. CASE WorkerStages
  <2>1. CASE programs' = Stages(programs)
    <3>1. worker.version \in Versions
      BY <1>1, UpdateAssumption DEF WorkerStages, Worker, VersionsExist, Workers, Versions
    <3> QED BY <2>1, <3>1 DEF Stages, Versions
  <2> QED BY <1>1, <2>1 DEF WorkerStages
<1>2. CASE WorkerSwaps
  <2>1. worker.version \in Versions
    BY <1>2, UpdateAssumption
    DEF WorkerSwaps, SwapsIn, MovesBundleAside, MovesBundleIn, SwapFails, Worker, VersionsExist,
        Workers, Versions
  <2>2. CASE SwapsIn
    BY <1>0, <2>1, <2>2 DEF SwapsIn
  <2>3. CASE MovesBundleAside
    BY <1>0, <2>3 DEF MovesBundleAside
  <2>4. CASE MovesBundleIn
    BY <1>0, <2>4 DEF MovesBundleIn
  <2>5. CASE SwapFails
    BY <2>5 DEF SwapFails
  <2> QED BY <1>2, <2>2, <2>3, <2>4, <2>5 DEF WorkerSwaps
<1>3. CASE WorkerClears
  <2>1. CASE programs' = programs
    BY <2>1
  <2>2. CASE programs' # programs
    <3> DEFINE kept ==
          IF platform = "linux" THEN programs.apps \ ({worker.target} \ {worker.version})
          ELSE programs.apps
    <3>1. kept \in SUBSET Versions
      OBVIOUS
    <3>2. programs' = [programs EXCEPT !.previous = 0, !.apps = kept]
      BY <1>3, <2>2 DEF WorkerClears
    <3> HIDE DEF kept
    <3> QED BY <1>0, <3>1, <3>2
  <2> QED BY <2>1, <2>2
<1>4. CASE UNCHANGED programs
  BY <1>4
<1> QED
  BY <1>1, <1>2, <1>3, <1>4
  DEF UpdateNext, UserStarts, LauncherKilled, Inspects, Copies, MovesAside, Places, ClearsAside,
      RuntimeRemoved, Releases, Checks, InstallAsked, Prepares, QuitsForUpdate, UserQuits,
      WaitsInVain, WorkerKilled

\* A worker is spawned, makes a step, or is gone.
LEMMA WorkerMoves ==
  ASSUME UpdateNext
  PROVE  \/ UNCHANGED worker
         \/ worker' = NoWorker
         \/ Prepares /\ worker' = Job(update.candidate, launcher.version)
         \/ \E pc \in {"staged", "aside", "swapped"} : worker.pc # "none" /\ WorkerGoes(pc)
<1>1. CASE WorkerStages
  BY <1>1 DEF WorkerStages, WorkerFails, Worker
<1>2. CASE WorkerSwaps
  BY <1>2 DEF WorkerSwaps, SwapsIn, MovesBundleAside, MovesBundleIn, SwapFails, WorkerFails, Worker
<1>3. CASE WorkerClears
  BY <1>3 DEF WorkerClears, WorkerFails
<1> QED
  BY <1>1, <1>2, <1>3
  DEF UpdateNext, UserStarts, LauncherKilled, Inspects, Copies, MovesAside, Places, ClearsAside,
      RuntimeRemoved, Releases, Checks, InstallAsked, Prepares, QuitsForUpdate, UserQuits,
      WaitsInVain, WorkerKilled, LauncherGoes

\* Hence a worker has a version that was prepared for it.
LEMMA WorkerTyped ==
  ASSUME UpdateTypeOK, UpdateNext
  PROVE  worker' \in Workers
<1>1. Job(update.candidate, launcher.version) \in Workers
  BY DEF UpdateTypeOK, Updates, Launchers, Job, Workers
<1>2. NoWorker \in Workers
  BY UpdateAssumption DEF NoWorker, Workers
<1>3. \A pc \in {"staged", "aside", "swapped"} : [worker EXCEPT !.pc = pc] \in Workers
  BY DEF UpdateTypeOK, Workers
<1> QED BY <1>1, <1>2, <1>3, WorkerMoves DEF WorkerGoes, UpdateTypeOK

\* An update is found, asked for, prepared, or over with its launcher.
LEMMA UpdateMoves ==
  ASSUME UpdateNext
  PROVE  \/ UNCHANGED update
         \/ update' = NoUpdate
         \/ update' = [NoUpdate EXCEPT !.status = "error", !.checked = TRUE]
         \/ update' = [status |-> "current", candidate |-> 0, checked |-> TRUE]
         \/ update' = [status |-> "available", candidate |-> outside.released, checked |-> TRUE]
         \/ /\ update.status \in {"available", "downloading", "installing"}
            /\ \E s \in {"available", "downloading", "installing"} :
                 update' = [update EXCEPT !.status = s]
<1>1. CASE WorkerStages \/ WorkerSwaps \/ WorkerClears
  BY <1>1 DEF WorkerStages, WorkerSwaps, SwapsIn, MovesBundleAside, MovesBundleIn, SwapFails,
              WorkerClears, WorkerFails, Launched
<1>2. CASE UserStarts \/ LauncherKilled \/ UserQuits \/ QuitsForUpdate
  BY <1>2 DEF UserStarts, LauncherKilled, UserQuits, QuitsForUpdate, Launched, LauncherGoes
<1>3. CASE Inspects \/ Copies \/ MovesAside \/ Places \/ ClearsAside
  BY <1>3 DEF Inspects, Copies, MovesAside, Places, ClearsAside, ResolveFails
<1>4. CASE Checks
  BY <1>4 DEF Checks
<1> QED
  BY <1>1, <1>2, <1>3, <1>4
  DEF UpdateNext, RuntimeRemoved, Releases, InstallAsked, Prepares, WaitsInVain, WorkerKilled

\* Hence the launcher offers, downloads and installs releases only (updates.cjs).
LEMMA UpdateTyped ==
  ASSUME UpdateTypeOK, UpdateNext
  PROVE  update' \in Updates
<1>0. NoUpdate \in Updates
  BY UpdateAssumption DEF NoUpdate, Updates
<1>1. [NoUpdate EXCEPT !.status = "error", !.checked = TRUE] \in Updates
  BY <1>0 DEF Updates
<1>2. \A s \in {"available", "downloading", "installing"} : [update EXCEPT !.status = s] \in Updates
  BY DEF UpdateTypeOK, Updates
<1>3. \A s \in {"available", "current"}, v \in 0..LastVersion :
        [status |-> s, candidate |-> v, checked |-> TRUE] \in Updates
  BY DEF Updates
<1>4. outside.released \in 0..LastVersion /\ 0 \in 0..LastVersion
  BY UpdateAssumption DEF UpdateTypeOK, Outsides, Versions
<1> QED BY <1>0, <1>1, <1>2, <1>3, <1>4, UpdateMoves DEF UpdateTypeOK

\* A launcher starts, exits, installs its runtime, or has it.
LEMMA LauncherMoves ==
  ASSUME UpdateNext
  PROVE  \/ UNCHANGED launcher
         \/ launcher' = NoLauncher
         \/ /\ launcher.pc = "off" /\ Starts(programs') # 0
            /\ launcher' = [NoLauncher EXCEPT !.pc = "waiting", !.version = Starts(programs')]
         \/ launcher.pc # "off"
             /\ launcher' = [launcher EXCEPT !.pc = "copying", !.resolved = FALSE]
         \/ /\ launcher.pc # "off"
            /\ launcher' = [launcher EXCEPT !.pc = "up", !.started = TRUE, !.resolved = TRUE]
         \/ /\ launcher.pc # "off"
            /\ \E pc \in {"up", "moving", "placing", "clearing"} :
                 launcher' = [launcher EXCEPT !.pc = pc]
<1>1. CASE WorkerStages \/ WorkerSwaps \/ WorkerClears \/ UserStarts
  BY <1>1 DEF WorkerStages, WorkerSwaps, SwapsIn, MovesBundleAside, MovesBundleIn, SwapFails,
              WorkerClears, WorkerFails, Launched, UserStarts
<1>2. CASE LauncherKilled \/ UserQuits \/ QuitsForUpdate
  BY <1>2 DEF LauncherKilled, UserQuits, QuitsForUpdate, LauncherGoes
<1>3. CASE Inspects
  BY <1>3 DEF Inspects, ResolveFails, Resolves
<1>4. CASE Copies \/ MovesAside \/ Places \/ ClearsAside
  BY <1>4 DEF Copies, MovesAside, Places, ClearsAside, ResolveFails, Resolves
<1> QED
  BY <1>1, <1>2, <1>3, <1>4
  DEF UpdateNext, RuntimeRemoved, Releases, Checks, InstallAsked, Prepares, WaitsInVain,
      WorkerKilled

\* Hence a launcher is of a version that its program had.
LEMMA LauncherTyped ==
  ASSUME UpdateTypeOK, programs' \in Programs, UpdateNext
  PROVE  launcher' \in Launchers
<1>1. NoLauncher \in Launchers
  BY UpdateAssumption DEF NoLauncher, Launchers
<1>2. Starts(programs') \in 0..LastVersion
  BY UpdateAssumption DEF Starts, UpdateTypeOK, Programs, Versions
<1>3. [NoLauncher EXCEPT !.pc = "waiting", !.version = Starts(programs')] \in Launchers
  BY <1>1, <1>2 DEF Launchers
<1>4. \A pc \in {"up", "moving", "placing", "clearing"} : [launcher EXCEPT !.pc = pc] \in Launchers
  BY DEF UpdateTypeOK, Launchers
<1>5. [launcher EXCEPT !.pc = "copying", !.resolved = FALSE] \in Launchers
  BY DEF UpdateTypeOK, Launchers
<1>6. [launcher EXCEPT !.pc = "up", !.started = TRUE, !.resolved = TRUE] \in Launchers
  BY DEF UpdateTypeOK, Launchers
<1> QED BY <1>1, <1>3, <1>4, <1>5, <1>6, LauncherMoves DEF UpdateTypeOK

\* ensureRuntimeInstalled moves whole directories: copied, aside, in place, or back (runtime.cjs).
LEMMA RuntimesTyped ==
  ASSUME UpdateTypeOK, VersionsExist, UpdateNext
  PROVE  runtimes' \in Runtimes
<1> USE DEF UpdateTypeOK
<1>0. NoBundle \in Bundles /\ Source \in Bundles
  BY UpdateAssumption DEF NoBundle, Bundles, Source, Bundle, Launchers, Programs
<1>1. \A r \in Runtimes : [r EXCEPT !.temporary = NoBundle, !.previous = NoBundle] \in Runtimes
  BY <1>0 DEF Runtimes
<1>2. runtimes.at \in [Versions -> Bundles] /\ runtimes.temporary \in Bundles
    /\ runtimes.previous \in Bundles
  BY DEF Runtimes
<1>3. \A v \in Versions, b \in Bundles : [runtimes EXCEPT !.at[v] = b] \in Runtimes
  BY DEF Runtimes
<1>4. launcher.pc # "off" => launcher.version \in Versions
  BY UpdateAssumption DEF VersionsExist, Versions, Launchers
<1>5. CASE Inspects
  BY <1>1, <1>5 DEF Inspects, ResolveFails, Resolves
<1>6. CASE Copies
  <2>1. [runtimes EXCEPT !.temporary = Source] \in Runtimes
    BY <1>0 DEF Runtimes
  <2> QED BY <1>1, <1>6, <2>1 DEF Copies, ResolveFails
<1>7. CASE MovesAside
  <2> DEFINE v == launcher.version
  <2>1. v \in Versions
    BY <1>4, <1>7 DEF MovesAside
  <2>2. [runtimes EXCEPT !.previous = runtimes.at[v], !.at[v] = NoBundle] \in Runtimes
    BY <1>0, <1>2, <2>1 DEF Runtimes
  <2> QED BY <1>1, <1>7, <2>2 DEF MovesAside, ResolveFails
<1>8. CASE Places
  <2> DEFINE v == launcher.version
  <2>1. v \in Versions
    BY <1>4, <1>8 DEF Places
  <2>2. [runtimes EXCEPT !.at[v] = runtimes.temporary, !.temporary = NoBundle] \in Runtimes
    BY <1>0, <1>2, <2>1 DEF Runtimes
  <2>3. [runtimes EXCEPT !.at[v] = runtimes.previous] \in Runtimes
    BY <1>2, <1>3, <2>1
  <2> QED BY <1>1, <1>8, <2>2, <2>3 DEF Places, ResolveFails
<1>9. CASE ClearsAside
  BY <1>1, <1>9 DEF ClearsAside, ResolveFails, Resolves
<1>10. CASE LauncherKilled \/ UserQuits \/ QuitsForUpdate
  BY <1>1, <1>10 DEF LauncherKilled, UserQuits, QuitsForUpdate, LauncherGoes
<1>11. ASSUME NEW v \in Versions, RuntimeRemoved(v) PROVE runtimes' \in Runtimes
  <2>1. Partial(v) \in Bundles
    BY UpdateAssumption DEF Partial, Bundles, Versions
  <2> QED BY <1>0, <1>3, <1>11, <2>1 DEF RuntimeRemoved
<1> QED
  BY <1>5, <1>6, <1>7, <1>8, <1>9, <1>10, <1>11
  DEF UpdateNext, UserStarts, Releases, Checks, InstallAsked, Prepares, WaitsInVain, WorkerKilled,
      WorkerStages, WorkerSwaps, SwapsIn, MovesBundleAside, MovesBundleIn, SwapFails,
      WorkerClears, WorkerFails

\* What the world does: a fault, a release, a removed runtime, and its repair.
LEMMA OutsideMoves ==
  ASSUME UpdateNext
  PROVE  \/ UNCHANGED outside
         \/ outside' = [outside EXCEPT !.faults = @ + 1]
         \/ /\ outside.released < LastVersion
            /\ outside' = [outside EXCEPT !.released = @ + 1]
         \/ \E v \in Versions :
              outside' = [outside EXCEPT !.faults = @ + 1, !.removed = @ \cup {v}]
         \/ outside' = [outside EXCEPT !.removed = @ \ {launcher.version}] 
<1>1. CASE WorkerStages \/ WorkerSwaps \/ WorkerClears \/ UserStarts
  BY <1>1 DEF WorkerStages, WorkerSwaps, SwapsIn, MovesBundleAside, MovesBundleIn, SwapFails,
              WorkerClears, WorkerFails, UserStarts, Faulty
<1>2. CASE LauncherKilled \/ UserQuits \/ QuitsForUpdate
  BY <1>2 DEF LauncherKilled, UserQuits, QuitsForUpdate, Faulty
<1>3. CASE Inspects
  BY <1>3 DEF Inspects, Resolves
<1>4. CASE Copies \/ MovesAside \/ Places \/ ClearsAside
  BY <1>4 DEF Copies, MovesAside, Places, ClearsAside, Resolves, Faulty
<1> QED
  BY <1>1, <1>2, <1>3, <1>4
  DEF UpdateNext, RuntimeRemoved, Releases, Checks, InstallAsked, Prepares, WaitsInVain,
      WorkerKilled, Faulty

\* Hence releases are numbered, and runtimes that were removed are known.
LEMMA OutsideTyped ==
  ASSUME UpdateTypeOK, UpdateNext
  PROVE  outside' \in Outsides
<1> USE DEF UpdateTypeOK, Outsides
<1>1. [outside EXCEPT !.faults = @ + 1] \in Outsides
  OBVIOUS
<1>2. outside.released < LastVersion => [outside EXCEPT !.released = @ + 1] \in Outsides
  BY UpdateAssumption DEF Versions
<1>3. ASSUME NEW v \in Versions
      PROVE  [outside EXCEPT !.faults = @ + 1, !.removed = @ \cup {v}] \in Outsides
  <2>1. outside.faults + 1 \in Nat /\ outside.removed \cup {v} \in SUBSET Versions
    OBVIOUS
  <2> QED BY <2>1
<1>4. [outside EXCEPT !.removed = @ \ {launcher.version}] \in Outsides
  OBVIOUS
<1> QED BY <1>1, <1>2, <1>3, <1>4, OutsideMoves

\* Every step of the launcher, its update and its worker keeps the types.
LEMMA UpdateTypeNext ==
  ASSUME UpdateTypeOK, VersionsExist, UpdateNext
  PROVE  UpdateTypeOK'
<1>1. platform' = platform
  BY DEF UpdateNext, UserStarts, LauncherKilled, Inspects, Copies, MovesAside, Places, ClearsAside,
         RuntimeRemoved, Releases, Checks, InstallAsked, Prepares, QuitsForUpdate, UserQuits,
         WaitsInVain, WorkerStages, WorkerSwaps, WorkerClears, WorkerKilled
<1>2. programs' \in Programs
  BY ProgramsTyped
<1> QED
  BY <1>1, <1>2, RuntimesTyped, LauncherTyped, UpdateTyped, WorkerTyped, OutsideTyped
  DEF UpdateTypeOK

\* Versions do not come from nowhere.
LEMMA VersionsNext ==
  ASSUME UpdateTypeOK, VersionsExist, UpdateNext
  PROVE  VersionsExist'
<1> USE DEF UpdateTypeOK, VersionsExist
<1>1. launcher'.pc # "off" => launcher'.version # 0
  <2>1. CASE launcher' = NoLauncher
    BY <2>1 DEF NoLauncher
  <2>2. CASE /\ Starts(programs') # 0
             /\ launcher' = [NoLauncher EXCEPT !.pc = "waiting", !.version = Starts(programs')]
    BY <2>2 DEF NoLauncher
  <2>3. CASE launcher.pc # "off" /\ launcher'.version = launcher.version
    BY <2>3
  <2> QED BY <2>1, <2>2, <2>3, LauncherMoves DEF Launchers
<1>2. update'.status \in {"available", "downloading", "installing"} => update'.candidate # 0
  <2>1. outside.released # 0
    BY DEF Outsides, Versions
  <2>2. CASE update' = NoUpdate
    BY <2>2 DEF NoUpdate
  <2>4. CASE update' = [NoUpdate EXCEPT !.status = "error", !.checked = TRUE]
    BY <2>4 DEF NoUpdate
  <2>3. CASE /\ update.status \in {"available", "downloading", "installing"}
             /\ update'.candidate = update.candidate
    BY <2>3
  <2> QED BY <2>1, <2>2, <2>3, <2>4, UpdateMoves DEF Updates
<1>3. worker'.pc # "none" => worker'.version # 0
  BY WorkerMoves DEF NoWorker, Workers, WorkerGoes, Prepares, Job
<1> QED BY <1>1, <1>2, <1>3

\* No program is taken away before another is there.
LEMMA ProgramsNext ==
  ASSUME UpdateTypeOK, VersionsExist, WrapperNamesProgram, PlaceOrBeside, UpdateNext
  PROVE  WrapperNamesProgram' /\ PlaceOrBeside'
<1> USE DEF UpdateTypeOK, WrapperNamesProgram, PlaceOrBeside, Programs, Workers
<1>1. CASE WorkerStages
  <2>1. CASE programs' = Stages(programs) /\ WorkerGoes("staged")
    BY <1>1, <2>1 DEF WorkerStages, Stages, WorkerGoes, VersionsExist, Worker
  <2>2. CASE UNCHANGED programs /\ worker' = NoWorker
    BY <1>1, <2>2 DEF WorkerStages, NoWorker
  <2> QED BY <1>1, <2>1, <2>2 DEF WorkerStages, WorkerFails
<1>2. CASE SwapsIn /\ UNCHANGED platform
  BY <1>2 DEF SwapsIn, WorkerGoes, VersionsExist, Worker
<1>3. CASE MovesBundleAside /\ UNCHANGED platform
  BY <1>3 DEF MovesBundleAside, WorkerGoes, Worker
<1>4. CASE MovesBundleIn /\ UNCHANGED platform
  <2>1. CASE /\ programs' = [programs EXCEPT !.target = programs.next, !.next = 0]
             /\ WorkerGoes("swapped")
    BY <1>4, <2>1 DEF MovesBundleIn, WorkerGoes, Worker
  <2>2. CASE /\ programs' = [programs EXCEPT !.target = programs.previous, !.previous = 0]
             /\ worker' = NoWorker
    BY <1>4, <2>2 DEF MovesBundleIn, NoWorker, Worker
  <2>3. CASE UNCHANGED programs /\ worker' = NoWorker
    BY <1>4, <2>3 DEF NoWorker
  <2> QED BY <1>4, <2>1, <2>2, <2>3 DEF MovesBundleIn, WorkerFails
<1>5. CASE SwapFails /\ UNCHANGED platform
  BY <1>5 DEF SwapFails, WorkerFails, NoWorker
<1>6. CASE WorkerClears
  <2>1. CASE worker' = NoWorker /\ UNCHANGED programs
    BY <1>6, <2>1 DEF WorkerClears, NoWorker
  <2>2. CASE programs' # programs
    <3> DEFINE kept ==
          IF platform = "linux" THEN programs.apps \ ({worker.target} \ {worker.version})
          ELSE programs.apps
    <3>1. worker.pc = "swapped" /\ worker' = NoWorker /\ platform' = platform
      BY <1>6, <2>2 DEF WorkerClears, Worker, WorkerFails
    <3>2. programs' = [programs EXCEPT !.previous = 0, !.apps = kept]
      BY <1>6, <2>2 DEF WorkerClears
    <3>3. worker.version \in programs.apps => worker.version \in kept
      OBVIOUS
    <3> HIDE DEF kept
    <3> QED BY <3>1, <3>2, <3>3 DEF NoWorker
  <2> QED BY <1>6, <2>1, <2>2 DEF WorkerClears, WorkerFails
<1>7. CASE UNCHANGED <<programs, platform>> /\ (UNCHANGED worker \/ worker' = NoWorker \/ Prepares)
  BY <1>7 DEF NoWorker, Prepares, Job
<1> QED
  BY <1>1, <1>2, <1>3, <1>4, <1>5, <1>6, <1>7
  DEF UpdateNext, UserStarts, LauncherKilled, Inspects, Copies, MovesAside, Places, ClearsAside,
      RuntimeRemoved, Releases, Checks, InstallAsked, Prepares, QuitsForUpdate, UserQuits,
      WaitsInVain, WorkerSwaps, WorkerKilled

\* What a failing installation leaves: the launcher is off, or up with what it had.
LEMMA FailedResolve ==
  ASSUME UpdateTypeOK, NEW r, ResolveFails(r)
  PROVE  launcher' = NoLauncher \/ launcher' = [launcher EXCEPT !.pc = "up"]
BY DEF ResolveFails

\* A launcher that is up has checked the runtime of its own version, unless it was
\* removed since; a launcher that installs one uses none yet.
LEMMA RuntimeNext ==
  ASSUME UpdateTypeOK, UpdateTypeOK', InstallsUnresolved, RunsItsOwnRuntime, VersionsExist,
         UpdateNext
  PROVE  InstallsUnresolved' /\ RunsItsOwnRuntime'
<1> USE DEF UpdateTypeOK, InstallsUnresolved, RunsItsOwnRuntime, Launchers, Runtimes
<1>0. ~NoLauncher.resolved /\ NoLauncher.pc = "off"
  BY DEF NoLauncher
<1>1. CASE launcher' = NoLauncher
  BY <1>0, <1>1
<1>2. CASE launcher' = [NoLauncher EXCEPT !.pc = "waiting", !.version = Starts(programs')]
  <2>1. ~launcher'.resolved
    BY <1>2 DEF NoLauncher
  <2> QED BY <2>1
<1>3. CASE Inspects
  <2>1. CASE Resolves(runtimes) /\ Kept(runtimes.at[launcher.version])
    BY <2>1 DEF Resolves, Kept, Accepted
  <2>2. CASE launcher' = [launcher EXCEPT !.pc = "copying", !.resolved = FALSE]
    BY <2>2
  <2>3. CASE ResolveFails(runtimes) /\ UNCHANGED outside
    <3>1. CASE launcher' = [launcher EXCEPT !.pc = "up"]
      BY <1>3, <2>3, <3>1 DEF ResolveFails, Inspects
    <3> QED BY <1>1, <2>3, <3>1, FailedResolve
  <2> QED BY <1>3, <2>1, <2>2, <2>3 DEF Inspects
<1>4. CASE Copies \/ MovesAside \/ Places
  <2>1. launcher.pc \in {"copying", "moving", "placing"}
    BY <1>4 DEF Copies, MovesAside, Places
  <2>2. ~launcher.resolved
    BY <2>1
  <2>3. launcher' = NoLauncher \/ \E pc \in {"up", "moving", "placing", "clearing"} :
                                   launcher' = [launcher EXCEPT !.pc = pc]
    BY <1>4, FailedResolve DEF Copies, MovesAside, Places
  <2>4. ~launcher'.resolved
    BY <1>0, <2>2, <2>3
  <2> QED BY <2>4
<1>5. CASE ClearsAside
  <2>1. CASE Resolves(runtimes) /\ Accepted(runtimes.at[launcher.version])
    BY <2>1 DEF Resolves, Accepted
  <2>2. CASE ResolveFails(runtimes)
    <3>1. ~launcher.resolved
      BY <1>5 DEF ClearsAside
    <3>2. ~launcher'.resolved
      BY <1>0, <2>2, <3>1, FailedResolve
    <3> QED BY <3>2
  <2> QED BY <1>5, <2>1, <2>2 DEF ClearsAside
<1>6. ASSUME NEW v \in Versions, RuntimeRemoved(v)
      PROVE  InstallsUnresolved' /\ RunsItsOwnRuntime'
  <2>1. UNCHANGED launcher /\ outside'.removed = outside.removed \cup {v}
    BY <1>6 DEF RuntimeRemoved, Outsides
  <2>2. \A w \in Versions : w # v => runtimes'.at[w] = runtimes.at[w]
    BY <1>6 DEF RuntimeRemoved
  <2>3. launcher.pc = "up" => launcher.version \in Versions
    BY UpdateAssumption DEF VersionsExist, Versions
  <2> QED BY <2>1, <2>2, <2>3
<1>7. CASE UNCHANGED <<launcher, runtimes>> /\ outside'.removed = outside.removed
  BY <1>7
<1> QED
  <2>1. CASE WorkerStages \/ WorkerSwaps \/ WorkerClears \/ UserStarts
    BY <1>2, <1>7, <2>1
    DEF WorkerStages, WorkerSwaps, SwapsIn, MovesBundleAside, MovesBundleIn, SwapFails,
        WorkerClears, WorkerFails, Launched, UserStarts, Faulty, Outsides
  <2>2. CASE LauncherKilled \/ UserQuits \/ QuitsForUpdate
    BY <1>1, <1>7, <2>2
    DEF LauncherKilled, UserQuits, QuitsForUpdate, LauncherGoes, Faulty, Outsides
  <2> QED
    BY <1>3, <1>4, <1>5, <1>6, <1>7, <2>1, <2>2
    DEF UpdateNext, Releases, Checks, InstallAsked, Prepares, WaitsInVain, WorkerKilled, Faulty,
        Outsides

\* The inductive invariant of LauncherUpdate: whatever fails or is killed between two renames,
\* what start-up and the update worker rely on is there.
THEOREM UpdateConsistent == UpdateSpec => []UpdateIInv
<1>1. ASSUME UpdateInit PROVE UpdateIInv
  <2> USE UpdateAssumption DEF UpdateInit
  <2>1. programs \in Programs
    BY <1>1 DEF Programs, Versions
  <2>2. NoBundle \in Bundles
    BY DEF NoBundle, Bundles
  <2>3. runtimes \in Runtimes
    BY <1>1, <2>2 DEF Runtimes
  <2>4. launcher \in Launchers /\ launcher.pc = "off"
    BY <1>1 DEF NoLauncher, Launchers
  <2>5. update \in Updates /\ update.status = "idle"
    BY <1>1 DEF NoUpdate, Updates
  <2>6. worker \in Workers /\ worker.pc = "none"
    BY <1>1 DEF NoWorker, Workers
  <2>7. outside \in Outsides
    BY <1>1 DEF Outsides, Versions
  <2> QED
    BY <1>1, <2>1, <2>3, <2>4, <2>5, <2>6, <2>7
    DEF UpdateIInv, UpdateTypeOK, VersionsExist, WrapperNamesProgram, PlaceOrBeside,
        InstallsUnresolved, RunsItsOwnRuntime
<1>2. ASSUME UpdateIInv, [UpdateNext]_updateVars PROVE UpdateIInv'
  <2>1. CASE UpdateNext
    BY <1>2, <2>1, UpdateTypeNext, VersionsNext, ProgramsNext, RuntimeNext DEF UpdateIInv
  <2>2. CASE UNCHANGED updateVars
    BY <1>2, <2>2
    DEF updateVars, UpdateIInv, UpdateTypeOK, VersionsExist, WrapperNamesProgram, PlaceOrBeside,
        InstallsUnresolved, RunsItsOwnRuntime
  <2> QED BY <1>2, <2>1, <2>2
<1> QED BY <1>1, <1>2, PTL DEF UpdateSpec

\* An update never leaves the user without a program to start: in its place, named by the
\* wrapper, or as the old bundle beside it (update-worker.cjs).
THEOREM UpdateLeavesAProgram == UpdateSpec => []SomethingToStart
<1>1. UpdateIInv => SomethingToStart
  BY UpdateAssumption
  DEF UpdateIInv, UpdateTypeOK, WrapperNamesProgram, PlaceOrBeside, Starts, SomethingToStart,
      Programs, Versions
<1> QED BY <1>1, UpdateConsistent, PTL

\* The runtime a launcher uses is whole and of its own version, or was removed by hand
\* (ensureRuntimeInstalled, runtime.cjs).
THEOREM RuntimeIsItsOwn == UpdateSpec => []RunsItsOwnRuntime
BY UpdateConsistent, PTL DEF UpdateIInv

-----------------------------------------------------------------------------
Ledgers == [plan : {"none", "pro", "unsupported"}, since : Nat, events : SUBSET Sends]
Histories == [active : Accounts \cup {NoCheck}, of : [Accounts -> Ledgers]]
Receipts == [at : {"none", "silent", "tracked", "identified", "accepted", "counted"},
             as : Accounts \cup {NoCheck}, day : Nat]
Surroundings == [account : Accounts, day : Nat, faults : Nat]

LimitsTypeOK ==
  /\ history \in Histories
  /\ limitsError \in BOOLEAN
  /\ planCheck \in Accounts \cup {NoCheck}
  /\ send \in [Sends -> Receipts]
  /\ usage \in Surroundings

LimitsIInv == LimitsTypeOK /\ CountsAreHonest

\* What the store keeps of an account after a look at it.
StillKept(a) == {s \in history.of[a].events : InRetention(s)}

\* A look at the store leaves it as it was, but for what is too old.
LEMMA WeekKeeps ==
  ASSUME LimitsTypeOK
  PROVE  /\ WeekOf \in Histories
         /\ WeekOf.active = history.active
         /\ \A a \in Accounts : WeekOf.of[a].events = StillKept(a)
<1> USE DEF LimitsTypeOK, Histories, Ledgers, StillKept
<1>1. \A a \in Accounts :
        [history.of[a] EXCEPT !.events = {s \in @ : InRetention(s)}] \in Ledgers
  OBVIOUS
<1> QED BY <1>1 DEF WeekOf

\* A check names the account and its plan and touches no receipt.
LEMMA CheckKeeps ==
  ASSUME LimitsTypeOK, NEW a \in Accounts, NEW plan \in {"pro", "unsupported"}
  PROVE  /\ PlanChecked(WeekOf, a, plan) \in Histories
         /\ \A b \in Accounts : PlanChecked(WeekOf, a, plan).of[b].events = StillKept(b)
<1> DEFINE week == WeekOf
           since == IF week.of[a].since = 0 /\ plan = "pro" THEN usage.day ELSE week.of[a].since
           ledger == [week.of[a] EXCEPT !.plan = plan, !.since = since]
           kept == [week.of EXCEPT ![a] = ledger]
<1>1. week \in Histories /\ \A b \in Accounts : week.of[b].events = StillKept(b)
  BY WeekKeeps
<1>2. week.of \in [Accounts -> Ledgers] /\ week.of[a].since \in Nat
  BY <1>1 DEF Histories, Ledgers
<1>3. since \in Nat
  BY <1>2 DEF LimitsTypeOK, Surroundings
<1>4. PlanChecked(WeekOf, a, plan) = [week EXCEPT !.active = a, !.of = kept]
  BY <1>1 DEF PlanChecked, Histories, Ledgers
<1> HIDE DEF week, since
<1>5. ledger \in Ledgers /\ ledger.events = week.of[a].events
  BY <1>2, <1>3 DEF Ledgers
<1> HIDE DEF ledger
<1>6. kept \in [Accounts -> Ledgers] /\ \A b \in Accounts : kept[b].events = week.of[b].events
  BY <1>2, <1>5
<1> HIDE DEF kept
<1> QED BY <1>1, <1>4, <1>6 DEF Histories

\* A receipt is added to the checked account.
LEMMA ReceiptKeeps ==
  ASSUME LimitsTypeOK, NEW s \in Sends, Tracking
  PROVE  /\ Recorded(WeekOf, s) \in Histories
         /\ history.active \in Accounts
         /\ \A b \in Accounts : Recorded(WeekOf, s).of[b].events =
              IF b = history.active THEN StillKept(b) \cup {s} ELSE StillKept(b)
<1> DEFINE week == WeekOf
           a == history.active
           ledger == [week.of[a] EXCEPT !.events = @ \cup {s}]
<1>1. /\ week \in Histories /\ week.active = a
      /\ \A b \in Accounts : week.of[b].events = StillKept(b)
  BY WeekKeeps
<1>2. a \in Accounts
  BY DEF LimitsTypeOK, Histories, Tracking
<1>3. Recorded(WeekOf, s) = [week EXCEPT !.of[a] = ledger]
  BY <1>1 DEF Recorded
<1> HIDE DEF week, a
<1>4. ledger \in Ledgers /\ ledger.events = week.of[a].events \cup {s}
  BY <1>1, <1>2 DEF Histories, Ledgers
<1> HIDE DEF ledger
<1>5. /\ Recorded(WeekOf, s) \in Histories
      /\ \A b \in Accounts : Recorded(WeekOf, s).of[b].events =
           IF b = a THEN StillKept(b) \cup {s} ELSE StillKept(b)
  BY <1>1, <1>2, <1>3, <1>4 DEF Histories
<1> QED BY <1>2, <1>5 DEF a

\* The store as it is read at first.
LEMMA LimitsTypeInit == LimitsInit => LimitsTypeOK
<1> SUFFICES ASSUME LimitsInit PROVE LimitsTypeOK
  OBVIOUS
<1>1. Unchecked \in Ledgers
  BY DEF Unchecked, Ledgers
<1>2. history \in Histories
  BY <1>1 DEF LimitsInit, Histories
<1>3. Unsent \in Receipts
  BY DEF Unsent, Receipts
<1>4. send \in [Sends -> Receipts]
  BY <1>3 DEF LimitsInit
<1>5. usage \in Surroundings
  BY DEF LimitsInit, Surroundings
<1>6. limitsError \in BOOLEAN /\ planCheck \in Accounts \cup {NoCheck}
  BY DEF LimitsInit
<1> QED BY <1>2, <1>4, <1>5, <1>6 DEF LimitsTypeOK

\* A step counts this receipt.
Counts(s) ==
  /\ Tracking /\ history' = Recorded(WeekOf, s)
  /\ send'[s].at = "counted" /\ send'[s].as = history.active

\* What the store holds after a step.
LEMMA HistoryMoves ==
  ASSUME LimitsTypeOK, LimitsNext
  PROVE  \/ UNCHANGED history
         \/ history' = WeekOf
         \/ \E a \in Accounts, plan \in {"pro", "unsupported"} :
              history' = PlanChecked(WeekOf, a, plan)
         \/ \E s \in Sends : Counts(s)
<1>1. ASSUME NEW s \in Sends, SendBegins(s) PROVE UNCHANGED history \/ history' = WeekOf
  BY <1>1 DEF SendBegins, Looks, LookFails
<1>2. ASSUME NEW s \in Sends, Reports(s)
      PROVE UNCHANGED history \/ history' = WeekOf \/ Counts(s)
  BY <1>2 DEF Reports, Counts, MatchesAccount, Looks, LookFails, LimitsTypeOK, Receipts
<1>3. CASE LimitsShown
  BY <1>3 DEF LimitsShown, Looks, LookFails
<1>4. CASE CheckEnds
  BY <1>4 DEF CheckEnds, LimitsTypeOK
<1> QED BY <1>1, <1>2, <1>3, <1>4 DEF LimitsNext, Identifies, Accepts, CheckBegins,
      AccountChanges, DayPasses, LauncherRestarts

\* Hence the store keeps receipts of sends, by account.
LEMMA HistoryTyped == ASSUME LimitsTypeOK, LimitsNext PROVE history' \in Histories
<1>1. CASE UNCHANGED history
  BY <1>1 DEF LimitsTypeOK
<1> QED BY <1>1, HistoryMoves, WeekKeeps, CheckKeeps, ReceiptKeeps DEF Counts

\* A receipt has the account that was read and the day of the message.
LEMMA SendTyped == ASSUME LimitsTypeOK, LimitsNext PROVE send' \in [Sends -> Receipts]
<1>1. ASSUME NEW s \in Sends, SendBegins(s) PROVE send' \in [Sends -> Receipts]
  BY <1>1 DEF SendBegins, LimitsTypeOK, Receipts, Silent, Unsent
<1>2. ASSUME NEW s \in Sends, Identifies(s) PROVE send' \in [Sends -> Receipts]
  BY <1>2 DEF Identifies, AccountRead, LimitsTypeOK, Receipts, Surroundings
<1>3. ASSUME NEW s \in Sends, Accepts(s) PROVE send' \in [Sends -> Receipts]
  BY <1>3 DEF Accepts, LimitsTypeOK, Receipts, Surroundings, Silent, Unsent
<1>4. ASSUME NEW s \in Sends, Reports(s) PROVE send' \in [Sends -> Receipts]
  BY <1>4 DEF Reports, Misses, LimitsTypeOK, Receipts, Silent, Unsent
<1>5. Silent \in Receipts
  BY DEF Silent, Unsent, Receipts
<1>6. CASE CheckEnds
  BY <1>5, <1>6 DEF CheckEnds, LimitsTypeOK
<1>7. CASE LauncherRestarts
  BY <1>5, <1>7 DEF LauncherRestarts, LimitsTypeOK
<1>8. CASE LimitsShown \/ CheckBegins \/ AccountChanges \/ DayPasses
  BY <1>8 DEF LimitsShown, CheckBegins, AccountChanges, DayPasses, LimitsTypeOK
<1> QED BY <1>1, <1>2, <1>3, <1>4, <1>6, <1>7, <1>8 DEF LimitsNext

\* The day and the account move on their own; everything else at most counts a fault.
LEMMA UsageMoves ==
  ASSUME LimitsTypeOK, LimitsNext
  PROVE  \/ UNCHANGED usage
         \/ LimitsFault
         \/ DayPasses
         \/ AccountChanges
<1>1. ASSUME NEW s \in Sends, Reports(s) PROVE UNCHANGED usage \/ LimitsFault
  BY <1>1 DEF Reports, LookFails, Looks
<1>2. ASSUME NEW s \in Sends, SendBegins(s) \/ Identifies(s) \/ Accepts(s)
      PROVE UNCHANGED usage \/ LimitsFault
  BY <1>2 DEF SendBegins, Identifies, Accepts, LookFails, Looks
<1> QED BY <1>1, <1>2 DEF LimitsNext, LimitsShown, LookFails, Looks, CheckBegins, CheckEnds,
      LauncherRestarts

\* Hence days do not go back.
LEMMA UsageTyped ==
  ASSUME LimitsTypeOK, LimitsNext
  PROVE  usage' \in Surroundings /\ usage'.day >= usage.day
<1> QED BY UsageMoves DEF LimitsFault, DayPasses, AccountChanges, LimitsTypeOK, Surroundings

\* Every step of the store, the plan check and the receipts keeps the types.
LEMMA LimitsTypeNext == LimitsTypeOK /\ [LimitsNext]_limitsVars => LimitsTypeOK'
<1> SUFFICES ASSUME LimitsTypeOK, [LimitsNext]_limitsVars PROVE LimitsTypeOK'
  OBVIOUS
<1>1. CASE UNCHANGED limitsVars
  BY <1>1 DEF limitsVars, LimitsTypeOK
<1>2. CASE LimitsNext
  <2>1. limitsError' \in BOOLEAN
    BY <1>2 DEF LimitsNext, LimitsTypeOK, SendBegins, Identifies, Accepts, Reports, Misses,
      LimitsShown, Looks, LookFails, CheckBegins, CheckEnds, AccountChanges, DayPasses,
      LauncherRestarts
  <2>2. planCheck' \in Accounts \cup {NoCheck}
    BY <1>2
    DEF LimitsNext, LimitsTypeOK, Surroundings, AccountRead, SendBegins, Identifies, Accepts,
      Reports, LimitsShown, CheckBegins, CheckEnds, AccountChanges, DayPasses, LauncherRestarts
  <2> QED BY <1>2, <2>1, <2>2, HistoryTyped, SendTyped, UsageTyped DEF LimitsTypeOK
<1> QED BY <1>1, <1>2

\* The parts of CountsAreHonest.
CountedIsKept(s) ==
  send[s].at = "counted" /\ InRetention(s) =>
    send[s].as \in Accounts /\ s \in history.of[send[s].as].events
KeptIsCounted(a) == \A s \in history.of[a].events : send[s].at = "counted" /\ send[s].as = a

\* CountsAreHonest says this of each send and of each account.
LEMMA HonestParts ==
  CountsAreHonest <=> /\ \A s \in Sends : CountedIsKept(s)
                      /\ \A a \in Accounts : KeptIsCounted(a)
BY DEF CountsAreHonest, CountedIsKept, KeptIsCounted

\* A send that was counted stays as it is.
LEMMA CountedStays ==
  ASSUME LimitsTypeOK, LimitsNext, NEW s \in Sends
  PROVE  /\ send[s].at = "counted" => send'[s] = send[s]
         /\ send'[s].at = "counted" /\ send[s].at # "counted" =>
              /\ Reports(s) /\ Tracking /\ send[s].as = history.active
              /\ history' = Recorded(WeekOf, s)
              /\ send'[s].as = send[s].as
<1>1. ASSUME NEW z \in Sends, Reports(z)
      PROVE  /\ send[s].at = "counted" => send'[s] = send[s]
             /\ send'[s].at = "counted" /\ send[s].at # "counted" =>
                  /\ s = z /\ Tracking /\ send[s].as = history.active
                  /\ history' = Recorded(WeekOf, s)
                  /\ send'[s].as = send[s].as
  BY <1>1 DEF Reports, Misses, MatchesAccount, Silent, Unsent, LimitsTypeOK, Receipts
<1>2. ASSUME NEW z \in Sends, SendBegins(z) \/ Identifies(z) \/ Accepts(z)
      PROVE  (send[s].at = "counted" \/ send'[s].at = "counted") => send'[s] = send[s]
  BY <1>2 DEF SendBegins, Identifies, Accepts, Silent, Unsent, LimitsTypeOK, Receipts
<1>3. CASE CheckEnds \/ LauncherRestarts
  BY <1>3 DEF CheckEnds, LauncherRestarts, UnderWay, Silent, Unsent, LimitsTypeOK, Receipts
<1>4. CASE LimitsShown \/ CheckBegins \/ AccountChanges \/ DayPasses
  BY <1>4 DEF LimitsShown, CheckBegins, AccountChanges, DayPasses
<1> QED BY <1>1, <1>2, <1>3, <1>4 DEF LimitsNext

\* What the store keeps of an account after a step: what it kept, but for what is too
\* old, and a receipt that is being counted.
LEMMA EventsMove ==
  ASSUME LimitsTypeOK, LimitsNext, NEW a \in Accounts
  PROVE  \/ history'.of[a].events = history.of[a].events
         \/ history'.of[a].events = StillKept(a)
         \/ \E s \in Sends : /\ Counts(s) /\ a = history.active
                             /\ history'.of[a].events = StillKept(a) \cup {s}
<1>1. CASE UNCHANGED history
  BY <1>1
<1>2. CASE history' = WeekOf
  BY <1>2, WeekKeeps
<1>3. ASSUME NEW b \in Accounts, NEW plan \in {"pro", "unsupported"},
             history' = PlanChecked(WeekOf, b, plan)
      PROVE  history'.of[a].events = StillKept(a)
  BY <1>3, CheckKeeps
<1>4. ASSUME NEW s \in Sends, Counts(s)
      PROVE  \/ history'.of[a].events = StillKept(a)
             \/ a = history.active /\ history'.of[a].events = StillKept(a) \cup {s}
  BY <1>4, ReceiptKeeps DEF Counts
<1> QED BY <1>1, <1>2, <1>3, <1>4, HistoryMoves

\* A counted receipt stays in the file, under its account, for a week (limits-store.cjs).
LEMMA CountedIsKeptNext ==
  ASSUME LimitsTypeOK, CountsAreHonest, LimitsNext, NEW s \in Sends
  PROVE  CountedIsKept(s)'
<1> SUFFICES ASSUME send'[s].at = "counted", InRetention(s)'
             PROVE send'[s].as \in Accounts /\ s \in history'.of[send'[s].as].events
  BY DEF CountedIsKept
<1>1. CASE send[s].at = "counted"
  <2>1. send'[s] = send[s]
    BY <1>1, CountedStays
  <2>2. InRetention(s)
    BY <2>1, UsageTyped, LimitsAssumption
       DEF InRetention, LimitsTypeOK, Receipts, Surroundings
  <2>3. send[s].as \in Accounts /\ s \in history.of[send[s].as].events
    BY <1>1, <2>2, HonestParts DEF CountedIsKept
  <2>4. s \in StillKept(send[s].as)
    BY <2>2, <2>3 DEF StillKept
  <2> QED BY <2>1, <2>3, <2>4, EventsMove
<1>2. CASE send[s].at # "counted"
  <2>1. /\ Tracking /\ send'[s].as = history.active
        /\ history' = Recorded(WeekOf, s)
    BY <1>2, CountedStays
  <2> QED BY <2>1, ReceiptKeeps
<1> QED BY <1>1, <1>2

\* Nothing else gets into the file.
LEMMA KeptIsCountedNext ==
  ASSUME LimitsTypeOK, CountsAreHonest, LimitsNext, NEW a \in Accounts
  PROVE  KeptIsCounted(a)'
<1> SUFFICES ASSUME NEW s \in history'.of[a].events
             PROVE send'[s].at = "counted" /\ send'[s].as = a
  BY DEF KeptIsCounted
<1>0. history.of[a].events \subseteq Sends /\ StillKept(a) \subseteq history.of[a].events
  BY DEF LimitsTypeOK, Histories, Ledgers, StillKept
<1>1. CASE s \in history.of[a].events
  <2>1. s \in Sends /\ send[s].at = "counted" /\ send[s].as = a
    BY <1>0, <1>1, HonestParts DEF KeptIsCounted
  <2> QED BY <2>1, CountedStays
<1>2. CASE s \notin history.of[a].events
  <2>1. Counts(s) /\ a = history.active
    BY <1>0, <1>2, EventsMove
  <2> QED BY <2>1 DEF Counts
<1> QED BY <1>1, <1>2

\* The inductive invariant of Limits.
THEOREM LimitsConsistent == LimitsSpec => []LimitsIInv
<1>1. LimitsInit => LimitsIInv
  <2> SUFFICES ASSUME LimitsInit PROVE CountsAreHonest
    BY LimitsTypeInit DEF LimitsIInv
  <2>1. \A s \in Sends : send[s].at = "none"
    BY DEF LimitsInit, Unsent
  <2>2. \A a \in Accounts : history.of[a].events = {}
    BY DEF LimitsInit, Unchecked
  <2> QED BY <2>1, <2>2 DEF CountsAreHonest
<1>2. LimitsIInv /\ [LimitsNext]_limitsVars => LimitsIInv'
  <2> SUFFICES ASSUME LimitsIInv, [LimitsNext]_limitsVars PROVE LimitsIInv'
    OBVIOUS
  <2>1. LimitsTypeOK'
    BY LimitsTypeNext DEF LimitsIInv
  <2>2. CASE UNCHANGED limitsVars
    <3>1. CountsAreHonest'
      BY <2>2 DEF LimitsIInv, CountsAreHonest, InRetention, limitsVars
    <3> QED BY <2>1, <3>1 DEF LimitsIInv
  <2>3. CASE LimitsNext
    <3>1. \A s \in Sends : CountedIsKept(s)'
      BY <2>3, CountedIsKeptNext DEF LimitsIInv
    <3>2. \A a \in Accounts : KeptIsCounted(a)'
      BY <2>3, KeptIsCountedNext DEF LimitsIInv
    <3>3. CountsAreHonest'
      BY <3>1, <3>2 DEF CountsAreHonest, CountedIsKept, KeptIsCounted
    <3> QED BY <2>1, <3>3 DEF LimitsIInv
  <2> QED BY <2>2, <2>3
<1> QED BY <1>1, <1>2, PTL DEF LimitsSpec

\* Every receipt that was counted is kept for a week, under the account that was read
\* before Send and no other, and nothing else is (limits-store.cjs, control-server.cjs).
THEOREM SendsAreCounted == LimitsSpec => []CountsAreHonest
<1>1. LimitsIInv => CountsAreHonest
  BY DEF LimitsIInv
<1> QED BY LimitsConsistent, <1>1, PTL

-----------------------------------------------------------------------------
(* The supervisor of the runtime.                                             *)

Pids == Spawned \cup {NoPid}
Supervisors ==
  [daemon : Pids, tunnel : BOOLEAN, restartable : SUBSET Spawned, stopping : BOOLEAN,
   timers : SUBSET Names, attempts : [Names -> Nat], monitor : BOOLEAN, failures : Nat,
   probe : {"none", "current", "stale"}]
TaskPlaces ==
  {"idle", "inspect", "clear", "connect", "await", "probe", "undo", "daemon", "health", "kill",
   "recheck", "rewait", "give_up", "stale", "stale_tunnel", "clean_daemon", "clean_tunnel",
   "cancel", "wait", "settle", "drain", "poll", "stop_tunnel", "shut_down", "compensate",
   "restore", "verify", "verify_tunnel", "force", "force_tunnel", "force_daemon"}
TaskRecords ==
  [at : TaskPlaces, of : Names, child : Pids, spawned : BOOLEAN,
   drained : BOOLEAN, down : BOOLEAN, failed : BOOLEAN, quit : BOOLEAN]
ChildStates == {"unborn", "booting", "accepting", "draining", "gone"}
Statuses ==
  {"none", "starting", "ready", "degraded", "stopping", "failed", "external"}
Files == [status : Statuses, daemon : Pids, tunnel : BOOLEAN, live : BOOLEAN]

SupTypeOK ==
  /\ sup \in Supervisors
  /\ children \in [Spawned -> ChildStates]
  /\ alias \in {"stopped", "starting", "ready", "broken"}
  /\ busy \in BOOLEAN
  /\ saved \in Files
  /\ task \in [Tasks -> TaskRecords]
  /\ left \subseteq Spawned
  /\ faults \in Nat

SupIInv == SupTypeOK /\ NoOrphan

\* A field of a supervisor, and a supervisor with one of them changed.
LEMMA SupervisorFields ==
  ASSUME NEW s \in Supervisors
  PROVE  /\ s.daemon \in Pids /\ s.restartable \subseteq Spawned /\ s.tunnel \in BOOLEAN
         /\ s.timers \subseteq Names /\ s.attempts \in [Names -> Nat] /\ s.failures \in Nat
         /\ s.stopping \in BOOLEAN
  BY DEF Supervisors

LEMMA SupervisorChanges ==
  ASSUME NEW s \in Supervisors
  PROVE  /\ \A v \in BOOLEAN :
              /\ [s EXCEPT !.tunnel = v] \in Supervisors
              /\ [s EXCEPT !.tunnel = v].daemon = s.daemon
              /\ [s EXCEPT !.stopping = v] \in Supervisors
              /\ [s EXCEPT !.stopping = v].daemon = s.daemon
         /\ \A v \in SUBSET Spawned :
              /\ [s EXCEPT !.restartable = v] \in Supervisors
              /\ [s EXCEPT !.restartable = v].daemon = s.daemon
         /\ \A v \in [Names -> Nat] :
              /\ [s EXCEPT !.attempts = v] \in Supervisors
              /\ [s EXCEPT !.attempts = v].daemon = s.daemon
         /\ \A v \in SUBSET Names :
              /\ [s EXCEPT !.timers = v] \in Supervisors
              /\ [s EXCEPT !.timers = v].daemon = s.daemon
         /\ \A v \in Nat :
              /\ [s EXCEPT !.failures = v] \in Supervisors
              /\ [s EXCEPT !.failures = v].daemon = s.daemon
         /\ \A v \in {"none", "current", "stale"} :
              /\ [s EXCEPT !.probe = v] \in Supervisors
              /\ [s EXCEPT !.probe = v].daemon = s.daemon
         /\ \A v \in Pids :
              /\ [s EXCEPT !.daemon = v] \in Supervisors
              /\ [s EXCEPT !.daemon = v].daemon = v
  BY DEF Supervisors

\* What the supervisor's helpers make of a supervisor is one, and which daemon it then holds.
LEMMA SupervisorHelpers ==
  ASSUME NEW s \in Supervisors
  PROVE  /\ Unwatched(s) \in Supervisors /\ Unwatched(s).daemon = s.daemon
         /\ Watched(s) \in Supervisors /\ Watched(s).daemon = s.daemon
         /\ Halted(s) \in Supervisors /\ Halted(s).daemon = s.daemon
         /\ Dismissed(s) \in Supervisors /\ Dismissed(s).daemon = NoPid
<1>1. Unwatched(s) \in Supervisors /\ Unwatched(s).daemon = s.daemon
  BY DEF Unwatched, Supervisors
<1>2. Watched(s) \in Supervisors /\ Watched(s).daemon = s.daemon
  BY <1>1 DEF Watched, Supervisors
<1>3. Halted(s) \in Supervisors /\ Halted(s).daemon = s.daemon
  BY <1>1 DEF Halted, Supervisors
<1>4. Dismissed(s) \in Supervisors /\ Dismissed(s).daemon = NoPid
  BY DEF Dismissed, Supervisors, Pids, NoPid
<1> QED
  BY <1>1, <1>2, <1>3, <1>4

\* A supervisor in another that only lost what concerned its daemon.
LEMMA WithoutTyped ==
  ASSUME NEW s \in Supervisors, NEW c \in Spawned
  PROVE  LET without == [s EXCEPT !.daemon = IF @ = c THEN NoPid ELSE @,
                                  !.restartable = @ \ {c}]
         IN /\ without \in Supervisors
            /\ without.daemon = IF s.daemon = c THEN NoPid ELSE s.daemon
  BY DEF Supervisors, Pids

LEMMA ScheduledTyped ==
  ASSUME NEW s \in Supervisors, NEW name \in Names
  PROVE  Scheduled(s, name) \in Supervisors /\ Scheduled(s, name).daemon = s.daemon
<1>1. CASE s.stopping \/ name \in s.timers
  BY <1>1 DEF Scheduled
<1>2. CASE ~(s.stopping \/ name \in s.timers)
  <2> DEFINE tries == IF Exhausted(s, name) THEN s.attempts[name] ELSE s.attempts[name] + 1
             counted == [s.attempts EXCEPT ![name] = tries]
             waiting == IF Exhausted(s, name) THEN s.timers ELSE s.timers \cup {name}
  <2>1. tries \in Nat
    BY SupervisorFields
  <2>2. counted \in [Names -> Nat] /\ waiting \in SUBSET Names
    BY <2>1, SupervisorFields
  <2>3. Scheduled(s, name) = [s EXCEPT !.attempts = counted, !.timers = waiting]
    BY <1>2 DEF Scheduled, Supervisors
  <2> HIDE DEF counted, waiting
  <2> QED
    BY <2>2, <2>3 DEF Supervisors
<1> QED
  BY <1>1, <1>2

\* The flags that most steps clear.
LEMMA ResumedTyped ==
  ASSUME NEW s \in Supervisors
  PROVE  /\ [s EXCEPT !.stopping = FALSE] \in Supervisors
         /\ [s EXCEPT !.tunnel = FALSE] \in Supervisors
         /\ [s EXCEPT !.tunnel = FALSE, !.stopping = FALSE] \in Supervisors
  BY DEF Supervisors

LEMMA FailsTyped ==
  ASSUME NEW s \in Supervisors, NEW t, Fails(t, s)
  PROVE  sup' \in Supervisors /\ sup'.daemon = s.daemon
  BY SupervisorChanges DEF Fails

LEMMA SchedulesTyped ==
  ASSUME NEW s \in Supervisors, NEW name \in Names, NEW status, SchedulesAfter(s, name, status)
  PROVE  sup' \in Supervisors /\ sup'.daemon = s.daemon
  BY ScheduledTyped DEF SchedulesAfter

\* Every step leaves a supervisor.
LEMMA SupTyped ==
  ASSUME SupTypeOK, Runs
  PROVE  sup' \in Supervisors
<1>1. ASSUME NEW name \in Names, WindowPasses(name)
      PROVE  sup' \in Supervisors
  BY <1>1, SupervisorHelpers, ScheduledTyped DEF WindowPasses, SupTypeOK, Supervisors, Pids,
      NoPid
<1>2. ASSUME NEW name \in Names, NEW r \in Recoveries, TimerFires(name, r)
      PROVE  sup' \in Supervisors
  BY <1>2, SupervisorHelpers, ScheduledTyped DEF TimerFires, SupTypeOK, Supervisors, Pids, NoPid
<1>3. ASSUME MonitorProbes
      PROVE  sup' \in Supervisors
  BY <1>3, SupervisorHelpers, ScheduledTyped DEF MonitorProbes, SupTypeOK, Supervisors, Pids,
      NoPid
<1>4. ASSUME ProbeIgnored
      PROVE  sup' \in Supervisors
  BY <1>4, SupervisorHelpers, ScheduledTyped DEF ProbeIgnored, SupTypeOK, Supervisors, Pids,
      NoPid
<1>5. ASSUME ProbeFindsReady
      PROVE  sup' \in Supervisors
  BY <1>5, SupervisorHelpers, ScheduledTyped DEF ProbeFindsReady, SupTypeOK, Supervisors, Pids,
      NoPid
<1>6. ASSUME ProbeFindsLoss
      PROVE  sup' \in Supervisors
  <2> DEFINE seen == [sup EXCEPT !.probe = "none"]
             lost == [Unwatched(seen) EXCEPT !.tunnel = FALSE]
  <2>1. seen \in Supervisors /\ lost \in Supervisors
    BY SupervisorHelpers, SupervisorChanges DEF SupTypeOK
  <2>2. \/ sup' = [seen EXCEPT !.failures = seen.failures + 1]
        \/ SchedulesAfter(lost, "tunnel", "degraded")
    BY <1>6 DEF ProbeFindsLoss
  <2> HIDE DEF seen, lost
  <2>3. seen.failures + 1 \in Nat /\ "tunnel" \in Names
    BY <2>1, SupervisorFields DEF Names
  <2> QED
    <3>1. CASE sup' = [seen EXCEPT !.failures = seen.failures + 1]
      BY <2>1, <2>3, <3>1, SupervisorChanges
    <3>2. CASE SchedulesAfter(lost, "tunnel", "degraded")
      BY <2>1, <2>3, <3>2, SchedulesTyped
    <3> QED
      BY <2>2, <3>1, <3>2
<1>7. ASSUME NEW c \in Spawned, DaemonListens(c)
      PROVE  sup' \in Supervisors
  BY <1>7, SupervisorHelpers, ScheduledTyped DEF DaemonListens, SupTypeOK, Supervisors, Pids,
      NoPid
<1>8. ASSUME NEW c \in Spawned, DaemonExits(c)
      PROVE  sup' \in Supervisors
  <2> DEFINE without == [sup EXCEPT !.daemon = IF @ = c THEN NoPid ELSE @,
                                    !.restartable = @ \ {c}]
  <2>1. without \in Supervisors /\ "daemon" \in Names
    BY WithoutTyped DEF SupTypeOK, Names
  <2>2. \/ sup' = sup \/ sup' = without \/ SchedulesAfter(without, "daemon", "degraded")
    BY <1>8 DEF DaemonExits, HandlesExit
  <2> HIDE DEF without
  <2> QED
    BY <2>1, <2>2, SchedulesTyped DEF SupTypeOK
<1>9. ASSUME TurnArrives
      PROVE  sup' \in Supervisors
  BY <1>9, SupervisorHelpers, ScheduledTyped DEF TurnArrives, SupTypeOK, Supervisors, Pids,
      NoPid
<1>10. ASSUME TurnSettles
       PROVE  sup' \in Supervisors
  BY <1>10, SupervisorHelpers, ScheduledTyped DEF TurnSettles, SupTypeOK, Supervisors, Pids,
      NoPid
<1>11. ASSUME TunnelIsReady
       PROVE  sup' \in Supervisors
  BY <1>11, SupervisorHelpers, ScheduledTyped DEF TunnelIsReady, SupTypeOK, Supervisors, Pids,
      NoPid
<1>12. ASSUME TunnelFails
       PROVE  sup' \in Supervisors
  BY <1>12, SupervisorHelpers, ScheduledTyped DEF TunnelFails, SupTypeOK, Supervisors, Pids,
      NoPid
<1>13. ASSUME NEW t \in Tasks, Inspect(t)
       PROVE  sup' \in Supervisors
  BY <1>13, SupervisorHelpers, ScheduledTyped DEF Inspect, SupTypeOK, Supervisors, Pids, NoPid
<1>14. ASSUME NEW t \in Tasks, Clear(t)
       PROVE  sup' \in Supervisors
  BY <1>14, SupervisorHelpers, ScheduledTyped DEF Clear, SupTypeOK, Supervisors, Pids, NoPid
<1>15. ASSUME NEW t \in Tasks, Connect(t)
       PROVE  sup' \in Supervisors
  BY <1>15, SupervisorHelpers, ScheduledTyped DEF Connect, SupTypeOK, Supervisors, Pids, NoPid
<1>16. ASSUME NEW t \in Tasks, Await(t)
       PROVE  sup' \in Supervisors
  BY <1>16, SupervisorHelpers, ScheduledTyped DEF Await, SupTypeOK, Supervisors, Pids, NoPid
<1>17. ASSUME NEW t \in Tasks, Probe(t)
       PROVE  sup' \in Supervisors
  BY <1>17, SupervisorHelpers, ScheduledTyped DEF Probe, SupTypeOK, Supervisors, Pids, NoPid
<1>18. ASSUME NEW t \in Tasks, Undo(t)
       PROVE  sup' \in Supervisors
  BY <1>18, SupervisorHelpers, SupervisorFields, SupervisorChanges, FailsTyped DEF Undo, SupTypeOK
<1>19. ASSUME NEW t \in Tasks, StartDaemon(t)
       PROVE  sup' \in Supervisors
  <2>1. \/ sup' = sup \/ Fails(t, sup)
        \/ \E c \in Spawned : sup' = [sup EXCEPT !.daemon = c]
    BY <1>19 DEF StartDaemon, Unborn
  <2> QED
    BY <2>1, FailsTyped, SupervisorChanges DEF SupTypeOK, Pids
<1>20. ASSUME NEW t \in Tasks, Health(t)
       PROVE  sup' \in Supervisors
  <2> DEFINE confirmed == [sup EXCEPT !.restartable = @ \cup {sup.daemon}]
             fresh == [confirmed EXCEPT !.attempts = [n \in Names |-> 0]]
  <2>1. \/ Accepting(sup.daemon) /\ DaemonIsUp(t)
        \/ DaemonIsDown(t)
    BY <1>20 DEF Health
  <2>2. DaemonIsDown(t) => sup' \in Supervisors
    BY FailsTyped DEF DaemonIsDown, SupTypeOK
  <2>3. ASSUME Accepting(sup.daemon)
        PROVE  confirmed \in Supervisors /\ fresh \in Supervisors
    <3> DEFINE both == sup.restartable \cup {sup.daemon}
    <3>1. both \in SUBSET Spawned /\ sup \in Supervisors
      BY <2>3, SupervisorFields DEF SupTypeOK, Accepting, Pids
    <3>2. confirmed = [sup EXCEPT !.restartable = both]
      OBVIOUS
    <3> HIDE DEF both
    <3>3. confirmed \in Supervisors
      BY <3>1, <3>2, SupervisorChanges
    <3>4. [n \in Names |-> 0] \in [Names -> Nat]
      OBVIOUS
    <3> HIDE DEF confirmed
    <3> QED
      BY <3>3, <3>4, SupervisorChanges
  <2>4. DaemonIsUp(t) => sup' \in {confirmed, fresh}
    BY DEF DaemonIsUp
  <2> QED
    BY <2>1, <2>2, <2>3, <2>4
<1>21. ASSUME NEW t \in Tasks, Kill(t)
       PROVE  sup' \in Supervisors
  BY <1>21, SupervisorHelpers, SupervisorFields, SupervisorChanges, FailsTyped DEF Kill, SupTypeOK
<1>22. ASSUME NEW t \in {"start", "stop"}, StaleDaemon(t)
       PROVE  sup' \in Supervisors
  BY <1>22, SupervisorHelpers, ScheduledTyped DEF StaleDaemon, SupTypeOK, Supervisors, Pids,
      NoPid
<1>23. ASSUME NEW t \in {"start", "stop"}, StaleTunnel(t)
       PROVE  sup' \in Supervisors
  BY <1>23, SupervisorHelpers, ScheduledTyped DEF StaleTunnel, SupTypeOK, Supervisors, Pids,
      NoPid
<1>24. ASSUME NEW r \in Recoveries, Recheck(r)
       PROVE  sup' \in Supervisors
  BY <1>24, SupervisorHelpers, ScheduledTyped DEF Recheck, SupTypeOK, Supervisors, Pids, NoPid
<1>25. ASSUME NEW r \in Recoveries, Recovered(r)
       PROVE  sup' \in Supervisors
  BY <1>25, SupervisorHelpers, ScheduledTyped DEF Recovered, SupTypeOK, Supervisors, Pids, NoPid
<1>26. ASSUME NEW r \in Recoveries, RecoveryTunnelGone(r)
       PROVE  sup' \in Supervisors
  BY <1>26, SupervisorHelpers, ScheduledTyped DEF RecoveryTunnelGone, SupTypeOK, Supervisors,
      Pids, NoPid
<1>27. ASSUME NEW r \in Recoveries, GiveUp(r)
       PROVE  sup' \in Supervisors
  BY <1>27, SchedulesTyped DEF GiveUp, SupTypeOK, TaskRecords, Tasks
<1>28. ASSUME StartBegins
       PROVE  sup' \in Supervisors
  <2>1. sup' = sup \/ sup' = [sup EXCEPT !.stopping = FALSE]
    BY <1>28 DEF StartBegins
  <2> QED
    BY <2>1, ResumedTyped DEF SupTypeOK
<1>29. ASSUME CleanDaemon
       PROVE  sup' \in Supervisors
  BY <1>29, SupervisorHelpers, ScheduledTyped DEF CleanDaemon, SupTypeOK, Supervisors, Pids,
      NoPid
<1>30. ASSUME CleanTunnel
       PROVE  sup' \in Supervisors
  <2> DEFINE stopped == [Unwatched(sup) EXCEPT !.tunnel = FALSE, !.stopping = FALSE]
             watched == [Watched(sup) EXCEPT !.stopping = FALSE]
  <2>1. sup' \in {[sup EXCEPT !.stopping = FALSE], stopped, watched}
    BY <1>30 DEF CleanTunnel
  <2>2. stopped \in Supervisors /\ watched \in Supervisors
    BY SupervisorHelpers, ResumedTyped DEF SupTypeOK
  <2> QED
    BY <2>1, <2>2, ResumedTyped DEF SupTypeOK
<1>31. ASSUME StopBegins
       PROVE  sup' \in Supervisors
  BY <1>31, SupervisorHelpers, ScheduledTyped DEF StopBegins, SupTypeOK, Supervisors, Pids,
      NoPid
<1>32. ASSUME Cancel
       PROVE  sup' \in Supervisors
  BY <1>32, SupervisorHelpers, ScheduledTyped DEF Cancel, SupTypeOK, Supervisors, Pids, NoPid
<1>33. ASSUME WaitForStart
       PROVE  sup' \in Supervisors
  BY <1>33, SupervisorHelpers, ScheduledTyped DEF WaitForStart, SupTypeOK, Supervisors, Pids,
      NoPid
<1>34. ASSUME Settle
       PROVE  sup' \in Supervisors
  <2>1. \/ sup' = sup \/ sup' = [sup EXCEPT !.stopping = FALSE]
        \/ \E held \in BOOLEAN : sup' = [sup EXCEPT !.tunnel = held]
    <3> DEFINE adopts == ~sup.tunnel /\ alias # "stopped"
                           /\ (Serving # {} \/ MayBeLive \/ saved = NoFile)
               held == sup.tunnel \/ adopts
    <3>1. held \in BOOLEAN
      OBVIOUS
    <3>2. \/ sup' = sup \/ sup' = [sup EXCEPT !.stopping = FALSE]
          \/ sup' = [sup EXCEPT !.tunnel = held]
      BY <1>34, Zenon DEF Settle
    <3> QED
      BY <3>1, <3>2, Zenon
  <2> QED
    <3>1. ASSUME NEW held \in BOOLEAN, sup' = [sup EXCEPT !.tunnel = held]
          PROVE  sup' \in Supervisors
      BY <3>1 DEF SupTypeOK, Supervisors
    <3> QED
      BY <2>1, <3>1, ResumedTyped, Zenon DEF SupTypeOK
<1>35. ASSUME Drain
       PROVE  sup' \in Supervisors
  BY <1>35, SupervisorHelpers, ScheduledTyped DEF Drain, SupTypeOK, Supervisors, Pids, NoPid
<1>36. ASSUME Poll
       PROVE  sup' \in Supervisors
  BY <1>36, SupervisorHelpers, ScheduledTyped DEF Poll, SupTypeOK, Supervisors, Pids, NoPid
<1>37. ASSUME StopTunnel
       PROVE  sup' \in Supervisors
  <2>1. sup' \in {sup, [Unwatched(sup) EXCEPT !.tunnel = FALSE], Watched(sup)}
    BY <1>37 DEF StopTunnel
  <2>2. [Unwatched(sup) EXCEPT !.tunnel = FALSE] \in Supervisors
    BY SupervisorHelpers, ResumedTyped DEF SupTypeOK
  <2> QED
    BY <2>1, <2>2, SupervisorHelpers DEF SupTypeOK
<1>38. ASSUME ShutDown
       PROVE  sup' \in Supervisors
  BY <1>38, SupervisorHelpers, ScheduledTyped DEF ShutDown, SupTypeOK, Supervisors, Pids, NoPid
<1>39. ASSUME Compensate
       PROVE  sup' \in Supervisors
  BY <1>39, SupervisorHelpers, ScheduledTyped DEF Compensate, SupTypeOK, Supervisors, Pids,
      NoPid
<1>40. ASSUME Restore
       PROVE  sup' \in Supervisors
  BY <1>40, SupervisorHelpers, ScheduledTyped DEF Restore, SupTypeOK, Supervisors, Pids, NoPid
<1>41. ASSUME Verify
       PROVE  sup' \in Supervisors
  BY <1>41, SupervisorHelpers, ScheduledTyped DEF Verify, SupTypeOK, Supervisors, Pids, NoPid
<1>42. ASSUME VerifyTunnel
       PROVE  sup' \in Supervisors
  BY <1>42, SupervisorHelpers, ScheduledTyped DEF VerifyTunnel, SupTypeOK, Supervisors, Pids,
      NoPid
<1>43. ASSUME ForceStop
       PROVE  sup' \in Supervisors
  BY <1>43, SupervisorHelpers, ScheduledTyped DEF ForceStop, SupTypeOK, Supervisors, Pids, NoPid
<1>44. ASSUME ForceTunnel
       PROVE  sup' \in Supervisors
  BY <1>44, SupervisorHelpers, SupervisorFields, SupervisorChanges DEF ForceTunnel, SupTypeOK
<1>45. ASSUME ForceDaemon
       PROVE  sup' \in Supervisors
  BY <1>45, SupervisorHelpers, ScheduledTyped DEF ForceDaemon, SupTypeOK, Supervisors, Pids,
      NoPid
<1> QED
  BY <1>1, <1>2, <1>3, <1>4, <1>5, <1>6, <1>7, <1>8, <1>9, <1>10, <1>11, <1>12, <1>13, <1>14,
     <1>15, <1>16, <1>17, <1>18, <1>19, <1>20, <1>21, <1>22, <1>23, <1>24, <1>25, <1>26, <1>27,
     <1>28, <1>29, <1>30, <1>31, <1>32, <1>33, <1>34, <1>35, <1>36, <1>37, <1>38, <1>39, <1>40,
     <1>41, <1>42, <1>43, <1>44, <1>45,
     Zenon DEF Runs, StartsTunnel, StartsDaemon, Recovers, Stops

\* Every step leaves the daemons in states of theirs.
LEMMA ChildrenTyped ==
  ASSUME SupTypeOK, Runs
  PROVE  children' \in [Spawned -> ChildStates]
<1>1. ASSUME NEW name \in Names, WindowPasses(name)
      PROVE  children' \in [Spawned -> ChildStates]
  BY <1>1 DEF WindowPasses, SupTypeOK, ChildStates
<1>2. ASSUME NEW name \in Names, NEW r \in Recoveries, TimerFires(name, r)
      PROVE  children' \in [Spawned -> ChildStates]
  BY <1>2 DEF TimerFires, SupTypeOK, ChildStates
<1>3. ASSUME MonitorProbes
      PROVE  children' \in [Spawned -> ChildStates]
  BY <1>3 DEF MonitorProbes, SupTypeOK, ChildStates
<1>4. ASSUME ProbeIgnored
      PROVE  children' \in [Spawned -> ChildStates]
  BY <1>4 DEF ProbeIgnored, SupTypeOK, ChildStates
<1>5. ASSUME ProbeFindsReady
      PROVE  children' \in [Spawned -> ChildStates]
  BY <1>5 DEF ProbeFindsReady, SupTypeOK, ChildStates
<1>6. ASSUME ProbeFindsLoss
      PROVE  children' \in [Spawned -> ChildStates]
  BY <1>6 DEF ProbeFindsLoss, SupTypeOK, ChildStates
<1>7. ASSUME NEW c \in Spawned, DaemonListens(c)
      PROVE  children' \in [Spawned -> ChildStates]
  BY <1>7 DEF DaemonListens, SupTypeOK, ChildStates
<1>8. ASSUME NEW c \in Spawned, DaemonExits(c)
      PROVE  children' \in [Spawned -> ChildStates]
  BY <1>8 DEF DaemonExits, SupTypeOK, ChildStates
<1>9. ASSUME TurnArrives
      PROVE  children' \in [Spawned -> ChildStates]
  BY <1>9 DEF TurnArrives, SupTypeOK, ChildStates
<1>10. ASSUME TurnSettles
       PROVE  children' \in [Spawned -> ChildStates]
  BY <1>10 DEF TurnSettles, SupTypeOK, ChildStates
<1>11. ASSUME TunnelIsReady
       PROVE  children' \in [Spawned -> ChildStates]
  BY <1>11 DEF TunnelIsReady, SupTypeOK, ChildStates
<1>12. ASSUME TunnelFails
       PROVE  children' \in [Spawned -> ChildStates]
  BY <1>12 DEF TunnelFails, SupTypeOK, ChildStates
<1>13. ASSUME NEW t \in Tasks, Inspect(t)
       PROVE  children' \in [Spawned -> ChildStates]
  BY <1>13 DEF Inspect, SupTypeOK, ChildStates
<1>14. ASSUME NEW t \in Tasks, Clear(t)
       PROVE  children' \in [Spawned -> ChildStates]
  BY <1>14 DEF Clear, SupTypeOK, ChildStates
<1>15. ASSUME NEW t \in Tasks, Connect(t)
       PROVE  children' \in [Spawned -> ChildStates]
  BY <1>15 DEF Connect, SupTypeOK, ChildStates
<1>16. ASSUME NEW t \in Tasks, Await(t)
       PROVE  children' \in [Spawned -> ChildStates]
  BY <1>16 DEF Await, SupTypeOK, ChildStates
<1>17. ASSUME NEW t \in Tasks, Probe(t)
       PROVE  children' \in [Spawned -> ChildStates]
  BY <1>17 DEF Probe, SupTypeOK, ChildStates
<1>18. ASSUME NEW t \in Tasks, Undo(t)
       PROVE  children' \in [Spawned -> ChildStates]
  BY <1>18 DEF Undo, SupTypeOK, ChildStates
<1>19. ASSUME NEW t \in Tasks, StartDaemon(t)
       PROVE  children' \in [Spawned -> ChildStates]
  BY <1>19 DEF StartDaemon, Unborn, SupTypeOK, ChildStates
<1>20. ASSUME NEW t \in Tasks, Health(t)
       PROVE  children' \in [Spawned -> ChildStates]
  BY <1>20 DEF Health, SupTypeOK, ChildStates
<1>21. ASSUME NEW t \in Tasks, Kill(t)
       PROVE  children' \in [Spawned -> ChildStates]
  BY <1>21 DEF Kill, DaemonEnds, SupTypeOK, ChildStates
<1>22. ASSUME NEW t \in {"start", "stop"}, StaleDaemon(t)
       PROVE  children' \in [Spawned -> ChildStates]
  BY <1>22 DEF StaleDaemon, Serving, SupTypeOK, ChildStates
<1>23. ASSUME NEW t \in {"start", "stop"}, StaleTunnel(t)
       PROVE  children' \in [Spawned -> ChildStates]
  BY <1>23 DEF StaleTunnel, SupTypeOK, ChildStates
<1>24. ASSUME NEW r \in Recoveries, Recheck(r)
       PROVE  children' \in [Spawned -> ChildStates]
  BY <1>24 DEF Recheck, SupTypeOK, ChildStates
<1>25. ASSUME NEW r \in Recoveries, Recovered(r)
       PROVE  children' \in [Spawned -> ChildStates]
  BY <1>25 DEF Recovered, SupTypeOK, ChildStates
<1>26. ASSUME NEW r \in Recoveries, RecoveryTunnelGone(r)
       PROVE  children' \in [Spawned -> ChildStates]
  BY <1>26 DEF RecoveryTunnelGone, SupTypeOK, ChildStates
<1>27. ASSUME NEW r \in Recoveries, GiveUp(r)
       PROVE  children' \in [Spawned -> ChildStates]
  BY <1>27 DEF GiveUp, SupTypeOK, ChildStates
<1>28. ASSUME StartBegins
       PROVE  children' \in [Spawned -> ChildStates]
  BY <1>28 DEF StartBegins, SupTypeOK, ChildStates
<1>29. ASSUME CleanDaemon
       PROVE  children' \in [Spawned -> ChildStates]
  BY <1>29 DEF CleanDaemon, DaemonEnds, SupTypeOK, ChildStates
<1>30. ASSUME CleanTunnel
       PROVE  children' \in [Spawned -> ChildStates]
  BY <1>30 DEF CleanTunnel, SupTypeOK, ChildStates
<1>31. ASSUME StopBegins
       PROVE  children' \in [Spawned -> ChildStates]
  BY <1>31 DEF StopBegins, SupTypeOK, ChildStates
<1>32. ASSUME Cancel
       PROVE  children' \in [Spawned -> ChildStates]
  BY <1>32 DEF Cancel, SupTypeOK, ChildStates
<1>33. ASSUME WaitForStart
       PROVE  children' \in [Spawned -> ChildStates]
  BY <1>33 DEF WaitForStart, SupTypeOK, ChildStates
<1>34. ASSUME Settle
       PROVE  children' \in [Spawned -> ChildStates]
  BY <1>34 DEF Settle, SupTypeOK, ChildStates
<1>35. ASSUME Drain
       PROVE  children' \in [Spawned -> ChildStates]
  BY <1>35 DEF Drain, SupTypeOK, ChildStates
<1>36. ASSUME Poll
       PROVE  children' \in [Spawned -> ChildStates]
  BY <1>36 DEF Poll, Resumed, SupTypeOK, ChildStates
<1>37. ASSUME StopTunnel
       PROVE  children' \in [Spawned -> ChildStates]
  BY <1>37 DEF StopTunnel, SupTypeOK, ChildStates
<1>38. ASSUME ShutDown
       PROVE  children' \in [Spawned -> ChildStates]
  BY <1>38 DEF ShutDown, Exited, SupTypeOK, ChildStates
<1>39. ASSUME Compensate
       PROVE  children' \in [Spawned -> ChildStates]
  BY <1>39 DEF Compensate, SupTypeOK, ChildStates
<1>40. ASSUME Restore
       PROVE  children' \in [Spawned -> ChildStates]
  BY <1>40 DEF Restore, Resumed, SupTypeOK, ChildStates
<1>41. ASSUME Verify
       PROVE  children' \in [Spawned -> ChildStates]
  BY <1>41 DEF Verify, SupTypeOK, ChildStates
<1>42. ASSUME VerifyTunnel
       PROVE  children' \in [Spawned -> ChildStates]
  BY <1>42 DEF VerifyTunnel, SupTypeOK, ChildStates
<1>43. ASSUME ForceStop
       PROVE  children' \in [Spawned -> ChildStates]
  BY <1>43 DEF ForceStop, SupTypeOK, ChildStates
<1>44. ASSUME ForceTunnel
       PROVE  children' \in [Spawned -> ChildStates]
  BY <1>44 DEF ForceTunnel, SupTypeOK, ChildStates
<1>45. ASSUME ForceDaemon
       PROVE  children' \in [Spawned -> ChildStates]
  BY <1>45 DEF ForceDaemon, Exited, SupTypeOK, ChildStates
<1> QED
  BY <1>1, <1>2, <1>3, <1>4, <1>5, <1>6, <1>7, <1>8, <1>9, <1>10, <1>11, <1>12, <1>13, <1>14,
     <1>15, <1>16, <1>17, <1>18, <1>19, <1>20, <1>21, <1>22, <1>23, <1>24, <1>25, <1>26, <1>27,
     <1>28, <1>29, <1>30, <1>31, <1>32, <1>33, <1>34, <1>35, <1>36, <1>37, <1>38, <1>39, <1>40,
     <1>41, <1>42, <1>43, <1>44, <1>45,
     Zenon DEF Runs, StartsTunnel, StartsDaemon, Recovers, Stops

\* A task that goes somewhere, rests or changes its flags is a task.
LEMMA TaskRecordChanges ==
  ASSUME NEW x \in TaskRecords
  PROVE  /\ x.at \in TaskPlaces /\ x.of \in Names /\ x.child \in Pids /\ x.failed \in BOOLEAN
         /\ \A label \in TaskPlaces :
              /\ [x EXCEPT !.at = label] \in TaskRecords
              /\ [x EXCEPT !.at = label, !.failed = TRUE] \in TaskRecords
              /\ [x EXCEPT !.failed = TRUE, !.at = label] \in TaskRecords
              /\ [x EXCEPT !.at = label, !.failed = FALSE] \in TaskRecords
              /\ [x EXCEPT !.drained = TRUE, !.at = label] \in TaskRecords
              /\ [x EXCEPT !.down = TRUE, !.at = label] \in TaskRecords
  BY DEF TaskRecords

LEMMA TaskBeginnings ==
  ASSUME NEW x \in TaskRecords, NEW label \in TaskPlaces
  PROVE  /\ \A name \in Names : [x EXCEPT !.of = name, !.at = label] \in TaskRecords
         /\ [x EXCEPT !.at = label, !.quit = TRUE] \in TaskRecords
         /\ [x EXCEPT !.at = label, !.quit = FALSE] \in TaskRecords
  BY DEF TaskRecords

LEMMA TaskChanges ==
  ASSUME SupTypeOK, NEW t \in Tasks
  PROVE  /\ \A label \in TaskPlaces : Goes(t, label) => task' \in [Tasks -> TaskRecords]
         /\ Rests(t) => task' \in [Tasks -> TaskRecords]
         /\ \A s : Fails(t, s) => task' \in [Tasks -> TaskRecords]
<1>1. Resting \in TaskRecords
  BY DEF Resting, TaskRecords, TaskPlaces, Names, Pids
<1>2. \A label \in TaskPlaces : [task[t] EXCEPT !.at = label] \in TaskRecords
  BY TaskRecordChanges DEF SupTypeOK
<1>3. ASSUME NEW label \in TaskPlaces, Goes(t, label)
      PROVE  task' \in [Tasks -> TaskRecords]
  <2> DEFINE next == [task[t] EXCEPT !.at = label]
  <2>1. task' = [task EXCEPT ![t] = next] /\ next \in TaskRecords
    BY <1>2, <1>3 DEF Goes
  <2> HIDE DEF next
  <2> QED
    BY <2>1 DEF SupTypeOK
<1>4. Rests(t) => task' \in [Tasks -> TaskRecords]
  BY <1>1 DEF Rests, SupTypeOK
<1>5. ASSUME NEW s, Fails(t, s)
      PROVE  task' \in [Tasks -> TaskRecords]
  <2> DEFINE label == CASE t = "start" -> "clean_daemon"
                        [] t \notin {"start", "stop"} -> "give_up"
                        [] t = "stop" /\ task[t].at = "undo" -> "restore"
                        [] OTHER -> "verify"
             next == [task[t] EXCEPT !.at = label, !.failed = TRUE]
  <2>1. label \in TaskPlaces
    BY DEF TaskPlaces
  <2>2. task' = [task EXCEPT ![t] = next]
    BY <1>5 DEF Fails
  <2> HIDE DEF label
  <2>3. next \in TaskRecords
    BY <2>1, TaskRecordChanges DEF SupTypeOK
  <2> HIDE DEF next
  <2> QED
    BY <2>2, <2>3 DEF SupTypeOK
<1> QED
  BY <1>2, <1>3, <1>4, <1>5

\* Every step leaves tasks.
LEMMA TaskTyped ==
  ASSUME SupTypeOK, Runs
  PROVE  task' \in [Tasks -> TaskRecords]
<1>1. ASSUME NEW name \in Names, WindowPasses(name)
      PROVE  task' \in [Tasks -> TaskRecords]
  BY <1>1, TaskChanges DEF WindowPasses, SupTypeOK, TaskPlaces, Tasks
<1>2. ASSUME NEW name \in Names, NEW r \in Recoveries, TimerFires(name, r)
      PROVE  task' \in [Tasks -> TaskRecords]
  <2> DEFINE label == IF name = "tunnel" THEN "inspect" ELSE "daemon"
             next == [task[r] EXCEPT !.of = name, !.at = label]
  <2>1. task' = task \/ task' = [task EXCEPT ![r] = next]
    BY <1>2 DEF TimerFires
  <2>2. next \in TaskRecords
    <3>1. task[r] \in TaskRecords /\ label \in TaskPlaces
      BY DEF SupTypeOK, Tasks, TaskPlaces
    <3> HIDE DEF label
    <3> QED
      BY <3>1, TaskBeginnings
  <2> HIDE DEF next
  <2> QED
    BY <2>1, <2>2 DEF SupTypeOK, Tasks
<1>3. ASSUME MonitorProbes
      PROVE  task' \in [Tasks -> TaskRecords]
  BY <1>3, TaskChanges DEF MonitorProbes, SupTypeOK, TaskPlaces, Tasks
<1>4. ASSUME ProbeIgnored
      PROVE  task' \in [Tasks -> TaskRecords]
  BY <1>4, TaskChanges DEF ProbeIgnored, SupTypeOK, TaskPlaces, Tasks
<1>5. ASSUME ProbeFindsReady
      PROVE  task' \in [Tasks -> TaskRecords]
  BY <1>5, TaskChanges DEF ProbeFindsReady, SupTypeOK, TaskPlaces, Tasks
<1>6. ASSUME ProbeFindsLoss
      PROVE  task' \in [Tasks -> TaskRecords]
  BY <1>6, TaskChanges DEF ProbeFindsLoss, SupTypeOK, TaskPlaces, Tasks
<1>7. ASSUME NEW c \in Spawned, DaemonListens(c)
      PROVE  task' \in [Tasks -> TaskRecords]
  BY <1>7, TaskChanges DEF DaemonListens, SupTypeOK, TaskPlaces, Tasks
<1>8. ASSUME NEW c \in Spawned, DaemonExits(c)
      PROVE  task' \in [Tasks -> TaskRecords]
  BY <1>8, TaskChanges DEF DaemonExits, SupTypeOK, TaskPlaces, Tasks
<1>9. ASSUME TurnArrives
      PROVE  task' \in [Tasks -> TaskRecords]
  BY <1>9, TaskChanges DEF TurnArrives, SupTypeOK, TaskPlaces, Tasks
<1>10. ASSUME TurnSettles
       PROVE  task' \in [Tasks -> TaskRecords]
  BY <1>10, TaskChanges DEF TurnSettles, SupTypeOK, TaskPlaces, Tasks
<1>11. ASSUME TunnelIsReady
       PROVE  task' \in [Tasks -> TaskRecords]
  BY <1>11, TaskChanges DEF TunnelIsReady, SupTypeOK, TaskPlaces, Tasks
<1>12. ASSUME TunnelFails
       PROVE  task' \in [Tasks -> TaskRecords]
  BY <1>12, TaskChanges DEF TunnelFails, SupTypeOK, TaskPlaces, Tasks
<1>13. ASSUME NEW t \in Tasks, Inspect(t)
       PROVE  task' \in [Tasks -> TaskRecords]
  BY <1>13, TaskChanges DEF Inspect, SupTypeOK, TaskPlaces, Tasks
<1>14. ASSUME NEW t \in Tasks, Clear(t)
       PROVE  task' \in [Tasks -> TaskRecords]
  BY <1>14, TaskChanges DEF Clear, SupTypeOK, TaskPlaces, Tasks
<1>15. ASSUME NEW t \in Tasks, Connect(t)
       PROVE  task' \in [Tasks -> TaskRecords]
  BY <1>15, TaskChanges DEF Connect, SupTypeOK, TaskPlaces, Tasks
<1>16. ASSUME NEW t \in Tasks, Await(t)
       PROVE  task' \in [Tasks -> TaskRecords]
  BY <1>16, TaskChanges DEF Await, SupTypeOK, TaskPlaces, Tasks
<1>17. ASSUME NEW t \in Tasks, Probe(t)
       PROVE  task' \in [Tasks -> TaskRecords]
  BY <1>17, TaskChanges DEF Probe, TunnelIsUp, SupTypeOK, TaskPlaces, Tasks
<1>18. ASSUME NEW t \in Tasks, Undo(t)
       PROVE  task' \in [Tasks -> TaskRecords]
  BY <1>18, TaskChanges DEF Undo, SupTypeOK, TaskPlaces, Tasks
<1>19. ASSUME NEW t \in Tasks, StartDaemon(t)
       PROVE  task' \in [Tasks -> TaskRecords]
  <2>1. \/ \E c \in Pids, new \in BOOLEAN :
             task' = [task EXCEPT ![t].at = "health", ![t].child = c, ![t].spawned = new]
        \/ Fails(t, sup)
    BY <1>19, SupervisorFields DEF StartDaemon, SupTypeOK, Unborn, Pids
  <2>2. ASSUME NEW c \in Pids, NEW new \in BOOLEAN,
               task' = [task EXCEPT ![t].at = "health", ![t].child = c, ![t].spawned = new]
        PROVE  task' \in [Tasks -> TaskRecords]
    <3> DEFINE next == [task[t] EXCEPT !.at = "health", !.child = c, !.spawned = new]
    <3>1. next \in TaskRecords
      BY DEF SupTypeOK, TaskRecords, TaskPlaces
    <3>2. task' = [task EXCEPT ![t] = next]
      BY <2>2
    <3> HIDE DEF next
    <3> QED
      BY <3>1, <3>2 DEF SupTypeOK
  <2> QED
    BY <2>1, <2>2, TaskChanges
<1>20. ASSUME NEW t \in Tasks, Health(t)
       PROVE  task' \in [Tasks -> TaskRecords]
  BY <1>20, TaskChanges DEF Health, DaemonIsUp, DaemonIsDown, SupTypeOK, TaskPlaces, Tasks
<1>21. ASSUME NEW t \in Tasks, Kill(t)
       PROVE  task' \in [Tasks -> TaskRecords]
  BY <1>21, TaskChanges DEF Kill, SupTypeOK, TaskPlaces, Tasks
<1>22. ASSUME NEW t \in {"start", "stop"}, StaleDaemon(t)
       PROVE  task' \in [Tasks -> TaskRecords]
  BY <1>22, TaskChanges DEF StaleDaemon, StaleRefused, SupTypeOK, TaskPlaces, Tasks
<1>23. ASSUME NEW t \in {"start", "stop"}, StaleTunnel(t)
       PROVE  task' \in [Tasks -> TaskRecords]
  BY <1>23, TaskChanges DEF StaleTunnel, StaleRefused, SupTypeOK, TaskPlaces, Tasks
<1>24. ASSUME NEW r \in Recoveries, Recheck(r)
       PROVE  task' \in [Tasks -> TaskRecords]
  BY <1>24, TaskChanges DEF Recheck, SupTypeOK, TaskPlaces, Tasks
<1>25. ASSUME NEW r \in Recoveries, Recovered(r)
       PROVE  task' \in [Tasks -> TaskRecords]
  BY <1>25, TaskChanges DEF Recovered, SupTypeOK, TaskPlaces, Tasks
<1>26. ASSUME NEW r \in Recoveries, RecoveryTunnelGone(r)
       PROVE  task' \in [Tasks -> TaskRecords]
  BY <1>26, TaskChanges DEF RecoveryTunnelGone, SupTypeOK, TaskPlaces, Tasks
<1>27. ASSUME NEW r \in Recoveries, GiveUp(r)
       PROVE  task' \in [Tasks -> TaskRecords]
  BY <1>27, TaskChanges DEF GiveUp, SupTypeOK, TaskPlaces, Tasks
<1>28. ASSUME StartBegins
       PROVE  task' \in [Tasks -> TaskRecords]
  BY <1>28, TaskChanges DEF StartBegins, SupTypeOK, TaskPlaces, Tasks
<1>29. ASSUME CleanDaemon
       PROVE  task' \in [Tasks -> TaskRecords]
  BY <1>29, TaskChanges DEF CleanDaemon, SupTypeOK, TaskPlaces, Tasks
<1>30. ASSUME CleanTunnel
       PROVE  task' \in [Tasks -> TaskRecords]
  BY <1>30, TaskChanges DEF CleanTunnel, SupTypeOK, TaskPlaces, Tasks
<1>31. ASSUME StopBegins
       PROVE  task' \in [Tasks -> TaskRecords]
  <2>1. PICK leaving \in BOOLEAN :
          task' = [task EXCEPT !["stop"].at = IF leaving THEN "cancel" ELSE "wait",
                                !["stop"].quit = leaving]
    BY <1>31 DEF StopBegins
  <2> DEFINE label == IF leaving THEN "cancel" ELSE "wait"
             next == [task["stop"] EXCEPT !.at = label, !.quit = leaving]
  <2>2. next \in TaskRecords
    <3>1. task["stop"] \in TaskRecords /\ label \in TaskPlaces
      BY DEF SupTypeOK, Tasks, TaskPlaces
    <3> HIDE DEF label
    <3> QED
      BY <3>1, leaving = TRUE \/ leaving = FALSE, TaskBeginnings
  <2>3. task' = [task EXCEPT !["stop"] = next]
    BY <2>1
  <2> HIDE DEF next
  <2> QED
    BY <2>2, <2>3 DEF SupTypeOK, Tasks
<1>32. ASSUME Cancel
       PROVE  task' \in [Tasks -> TaskRecords]
  BY <1>32, TaskChanges DEF Cancel, SupTypeOK, TaskPlaces, Tasks
<1>33. ASSUME WaitForStart
       PROVE  task' \in [Tasks -> TaskRecords]
  BY <1>33, TaskChanges DEF WaitForStart, SupTypeOK, TaskPlaces, Tasks
<1>34. ASSUME Settle
       PROVE  task' \in [Tasks -> TaskRecords]
  BY <1>34, TaskChanges DEF Settle, SupTypeOK, TaskPlaces, Tasks
<1>35. ASSUME Drain
       PROVE  task' \in [Tasks -> TaskRecords]
  BY <1>35, TaskChanges DEF Drain, SupTypeOK, TaskPlaces, Tasks
<1>36. ASSUME Poll
       PROVE  task' \in [Tasks -> TaskRecords]
  <2>1. \/ task' = task \/ \E label \in TaskPlaces : Goes("stop", label)
        \/ task' = [task EXCEPT !["stop"] =
                       [task["stop"] EXCEPT !.drained = TRUE, !.at = "stop_tunnel"]]
    BY <1>36 DEF Poll, TaskPlaces, Goes
  <2>2. [task["stop"] EXCEPT !.drained = TRUE, !.at = "stop_tunnel"] \in TaskRecords
    <3>1. task["stop"] \in TaskRecords
      BY DEF SupTypeOK, Tasks
    <3> QED
      BY <3>1, TaskRecordChanges DEF TaskPlaces
  <2> QED
    BY <2>1, <2>2, TaskChanges DEF SupTypeOK, Tasks
<1>37. ASSUME StopTunnel
       PROVE  task' \in [Tasks -> TaskRecords]
  <2>1. \/ task' = task \/ \E label \in TaskPlaces : Goes("stop", label)
        \/ task' = [task EXCEPT !["stop"] = [task["stop"] EXCEPT !.down = TRUE, !.at = "shut_down"]]
    BY <1>37 DEF StopTunnel, TaskPlaces, Goes
  <2>2. [task["stop"] EXCEPT !.down = TRUE, !.at = "shut_down"] \in TaskRecords
    <3>1. task["stop"] \in TaskRecords
      BY DEF SupTypeOK, Tasks
    <3> QED
      BY <3>1, TaskRecordChanges DEF TaskPlaces
  <2> QED
    BY <2>1, <2>2, TaskChanges DEF SupTypeOK, Tasks
<1>38. ASSUME ShutDown
       PROVE  task' \in [Tasks -> TaskRecords]
  BY <1>38, TaskChanges DEF ShutDown, SupTypeOK, TaskPlaces, Tasks
<1>39. ASSUME Compensate
       PROVE  task' \in [Tasks -> TaskRecords]
  BY <1>39, TaskChanges DEF Compensate, SupTypeOK, TaskPlaces, Tasks
<1>40. ASSUME Restore
       PROVE  task' \in [Tasks -> TaskRecords]
  <2>1. \/ task' = task \/ \E label \in TaskPlaces : Goes("stop", label)
        \/ task' = [task EXCEPT !["stop"] = [task["stop"] EXCEPT !.failed = TRUE, !.at = "verify"]]
    BY <1>40 DEF Restore, TaskPlaces, Goes
  <2>2. [task["stop"] EXCEPT !.failed = TRUE, !.at = "verify"] \in TaskRecords
    <3>1. task["stop"] \in TaskRecords
      BY DEF SupTypeOK, Tasks
    <3> QED
      BY <3>1, TaskRecordChanges DEF TaskPlaces
  <2> QED
    BY <2>1, <2>2, TaskChanges DEF SupTypeOK, Tasks
<1>41. ASSUME Verify
       PROVE  task' \in [Tasks -> TaskRecords]
  <2>1. \/ task' = task \/ \E label \in TaskPlaces : Goes("stop", label)
        \/ task' = [task EXCEPT !["stop"] =
                       [task["stop"] EXCEPT !.failed = TRUE, !.at = "verify_tunnel"]]
    BY <1>41 DEF Verify, TaskPlaces, Goes
  <2>2. [task["stop"] EXCEPT !.failed = TRUE, !.at = "verify_tunnel"] \in TaskRecords
    <3>1. task["stop"] \in TaskRecords
      BY DEF SupTypeOK, Tasks
    <3> QED
      BY <3>1, TaskRecordChanges DEF TaskPlaces
  <2> QED
    BY <2>1, <2>2, TaskChanges DEF SupTypeOK, Tasks
<1>42. ASSUME VerifyTunnel
       PROVE  task' \in [Tasks -> TaskRecords]
  BY <1>42, TaskChanges DEF VerifyTunnel, SupTypeOK, TaskPlaces, Tasks
<1>43. ASSUME ForceStop
       PROVE  task' \in [Tasks -> TaskRecords]
  <2>1. \/ task' = task \/ \E label \in TaskPlaces : Goes("stop", label)
        \/ task' = [task EXCEPT !["stop"] =
                       [task["stop"] EXCEPT !.at = "force_tunnel", !.failed = FALSE]]
    BY <1>43 DEF ForceStop, TaskPlaces, Goes
  <2>2. [task["stop"] EXCEPT !.at = "force_tunnel", !.failed = FALSE] \in TaskRecords
    <3>1. task["stop"] \in TaskRecords
      BY DEF SupTypeOK, Tasks
    <3> QED
      BY <3>1, TaskRecordChanges DEF TaskPlaces
  <2> QED
    BY <2>1, <2>2, TaskChanges DEF SupTypeOK, Tasks
<1>44. ASSUME ForceTunnel
       PROVE  task' \in [Tasks -> TaskRecords]
  <2>1. \/ task' = task \/ \E label \in TaskPlaces : Goes("stop", label)
        \/ task' = [task EXCEPT !["stop"] =
                       [task["stop"] EXCEPT !.failed = TRUE, !.at = "force_daemon"]]
    BY <1>44 DEF ForceTunnel, TaskPlaces, Goes
  <2>2. [task["stop"] EXCEPT !.failed = TRUE, !.at = "force_daemon"] \in TaskRecords
    <3>1. task["stop"] \in TaskRecords
      BY DEF SupTypeOK, Tasks
    <3> QED
      BY <3>1, TaskRecordChanges DEF TaskPlaces
  <2> QED
    BY <2>1, <2>2, TaskChanges DEF SupTypeOK, Tasks
<1>45. ASSUME ForceDaemon
       PROVE  task' \in [Tasks -> TaskRecords]
  BY <1>45, TaskChanges DEF ForceDaemon, SupTypeOK, TaskPlaces, Tasks
<1> QED
  BY <1>1, <1>2, <1>3, <1>4, <1>5, <1>6, <1>7, <1>8, <1>9, <1>10, <1>11, <1>12, <1>13, <1>14,
     <1>15, <1>16, <1>17, <1>18, <1>19, <1>20, <1>21, <1>22, <1>23, <1>24, <1>25, <1>26, <1>27,
     <1>28, <1>29, <1>30, <1>31, <1>32, <1>33, <1>34, <1>35, <1>36, <1>37, <1>38, <1>39, <1>40,
     <1>41, <1>42, <1>43, <1>44, <1>45,
     Zenon DEF Runs, StartsTunnel, StartsDaemon, Recovers, Stops

\* What is saved of a supervisor is a file.
LEMMA SavesTyped ==
  ASSUME NEW s \in Supervisors, NEW status \in Statuses, Saves(status, s)
  PROVE  saved' \in Files
  BY DEF Saves, Supervisors, Files

LEMMA NoFileTyped == NoFile \in Files
  BY DEF NoFile, Files, Statuses, Pids

LEMMA SchedulesSaves ==
  ASSUME NEW s \in Supervisors, NEW name, NEW status \in {"degraded", "failed"},
         SchedulesAfter(s, name, status)
  PROVE  saved' \in Files
  BY SavesTyped DEF SchedulesAfter, Statuses

\* Every step leaves a file of a supervisor.
LEMMA SavedTyped ==
  ASSUME SupTypeOK, sup' \in Supervisors, Runs
  PROVE  saved' \in Files
<1>1. ASSUME NEW name \in Names, WindowPasses(name)
      PROVE  saved' \in Files
  BY <1>1, NoFileTyped, SupervisorFields, SupervisorChanges, SavesTyped, SchedulesSaves,
     SupervisorHelpers
     DEF WindowPasses, SupTypeOK, Statuses
<1>2. ASSUME NEW name \in Names, NEW r \in Recoveries, TimerFires(name, r)
      PROVE  saved' \in Files
  BY <1>2, NoFileTyped, SupervisorFields, SupervisorChanges, SavesTyped, SchedulesSaves,
     SupervisorHelpers
     DEF TimerFires, SupTypeOK, Statuses
<1>3. ASSUME MonitorProbes
      PROVE  saved' \in Files
  BY <1>3, NoFileTyped, SupervisorFields, SupervisorChanges, SavesTyped, SchedulesSaves,
     SupervisorHelpers
     DEF MonitorProbes, SupTypeOK, Statuses
<1>4. ASSUME ProbeIgnored
      PROVE  saved' \in Files
  BY <1>4, NoFileTyped, SupervisorFields, SupervisorChanges, SavesTyped, SchedulesSaves,
     SupervisorHelpers
     DEF ProbeIgnored, SupTypeOK, Statuses
<1>5. ASSUME ProbeFindsReady
      PROVE  saved' \in Files
  BY <1>5, NoFileTyped, SupervisorFields, SupervisorChanges, SavesTyped, SchedulesSaves,
     SupervisorHelpers
     DEF ProbeFindsReady, SupTypeOK, Statuses
<1>6. ASSUME ProbeFindsLoss
      PROVE  saved' \in Files
  <2> DEFINE lost == [Unwatched([sup EXCEPT !.probe = "none"]) EXCEPT !.tunnel = FALSE]
  <2>1. lost \in Supervisors
    BY SupervisorHelpers, SupervisorChanges, ResumedTyped DEF SupTypeOK
  <2>2. saved' = saved \/ SchedulesAfter(lost, "tunnel", "degraded")
    BY <1>6 DEF ProbeFindsLoss
  <2> HIDE DEF lost
  <2> QED
    BY <2>1, <2>2, SchedulesSaves DEF SupTypeOK
<1>7. ASSUME NEW c \in Spawned, DaemonListens(c)
      PROVE  saved' \in Files
  BY <1>7, NoFileTyped, SupervisorFields, SupervisorChanges, SavesTyped, SchedulesSaves,
     SupervisorHelpers
     DEF DaemonListens, SupTypeOK, Statuses
<1>8. ASSUME NEW c \in Spawned, DaemonExits(c)
      PROVE  saved' \in Files
  <2> DEFINE without == [sup EXCEPT !.daemon = IF @ = c THEN NoPid ELSE @,
                                    !.restartable = @ \ {c}]
  <2>1. without \in Supervisors
    BY WithoutTyped DEF SupTypeOK
  <2>2. \/ saved' = saved \/ SchedulesAfter(without, "daemon", "degraded")
        \/ Saves("stopping", without) \/ Saves("degraded", without)
    BY <1>8 DEF DaemonExits, HandlesExit
  <2> HIDE DEF without
  <2> QED
    BY <2>1, <2>2, SavesTyped, SchedulesSaves DEF SupTypeOK, Statuses
<1>9. ASSUME TurnArrives
      PROVE  saved' \in Files
  BY <1>9, NoFileTyped, SupervisorFields, SupervisorChanges, SavesTyped, SchedulesSaves,
     SupervisorHelpers
     DEF TurnArrives, SupTypeOK, Statuses
<1>10. ASSUME TurnSettles
       PROVE  saved' \in Files
  BY <1>10, NoFileTyped, SupervisorFields, SupervisorChanges, SavesTyped, SchedulesSaves,
     SupervisorHelpers
     DEF TurnSettles, SupTypeOK, Statuses
<1>11. ASSUME TunnelIsReady
       PROVE  saved' \in Files
  BY <1>11, NoFileTyped, SupervisorFields, SupervisorChanges, SavesTyped, SchedulesSaves,
     SupervisorHelpers
     DEF TunnelIsReady, SupTypeOK, Statuses
<1>12. ASSUME TunnelFails
       PROVE  saved' \in Files
  BY <1>12, NoFileTyped, SupervisorFields, SupervisorChanges, SavesTyped, SchedulesSaves,
     SupervisorHelpers
     DEF TunnelFails, SupTypeOK, Statuses
<1>13. ASSUME NEW t \in Tasks, Inspect(t)
       PROVE  saved' \in Files
  BY <1>13, NoFileTyped, SupervisorFields, SupervisorChanges, SavesTyped, SchedulesSaves,
     SupervisorHelpers
     DEF Inspect, SupTypeOK, Statuses
<1>14. ASSUME NEW t \in Tasks, Clear(t)
       PROVE  saved' \in Files
  BY <1>14, NoFileTyped, SupervisorFields, SupervisorChanges, SavesTyped, SchedulesSaves,
     SupervisorHelpers
     DEF Clear, SupTypeOK, Statuses
<1>15. ASSUME NEW t \in Tasks, Connect(t)
       PROVE  saved' \in Files
  BY <1>15, NoFileTyped, SupervisorFields, SupervisorChanges, SavesTyped, SchedulesSaves,
     SupervisorHelpers
     DEF Connect, SupTypeOK, Statuses
<1>16. ASSUME NEW t \in Tasks, Await(t)
       PROVE  saved' \in Files
  BY <1>16, NoFileTyped, SupervisorFields, SupervisorChanges, SavesTyped, SchedulesSaves,
     SupervisorHelpers
     DEF Await, SupTypeOK, Statuses
<1>17. ASSUME NEW t \in Tasks, Probe(t)
       PROVE  saved' \in Files
  BY <1>17, NoFileTyped, SupervisorFields, SupervisorChanges, SavesTyped, SchedulesSaves,
     SupervisorHelpers
     DEF Probe, SupTypeOK, Statuses
<1>18. ASSUME NEW t \in Tasks, Undo(t)
       PROVE  saved' \in Files
  BY <1>18, NoFileTyped, SupervisorFields, SupervisorChanges, SavesTyped, SchedulesSaves,
     SupervisorHelpers
     DEF Undo, SupTypeOK, Statuses
<1>19. ASSUME NEW t \in Tasks, StartDaemon(t)
       PROVE  saved' \in Files
  BY <1>19, NoFileTyped, SupervisorFields, SupervisorChanges, SavesTyped, SchedulesSaves,
     SupervisorHelpers
     DEF StartDaemon, SupTypeOK, Statuses
<1>20. ASSUME NEW t \in Tasks, Health(t)
       PROVE  saved' \in Files
  BY <1>20, NoFileTyped, SupervisorFields, SupervisorChanges, SavesTyped, SchedulesSaves,
     SupervisorHelpers
     DEF Health, DaemonIsUp, DaemonIsDown, SupTypeOK, Statuses
<1>21. ASSUME NEW t \in Tasks, Kill(t)
       PROVE  saved' \in Files
  BY <1>21, NoFileTyped, SupervisorFields, SupervisorChanges, SavesTyped, SchedulesSaves,
     SupervisorHelpers
     DEF Kill, DaemonEnds, SupTypeOK, Statuses
<1>22. ASSUME NEW t \in {"start", "stop"}, StaleDaemon(t)
       PROVE  saved' \in Files
  BY <1>22, NoFileTyped, SupervisorFields, SupervisorChanges, SavesTyped, SchedulesSaves,
     SupervisorHelpers
     DEF StaleDaemon, StaleRefused, SupTypeOK, Statuses
<1>23. ASSUME NEW t \in {"start", "stop"}, StaleTunnel(t)
       PROVE  saved' \in Files
  BY <1>23, NoFileTyped, SupervisorFields, SupervisorChanges, SavesTyped, SchedulesSaves,
     SupervisorHelpers
     DEF StaleTunnel, StaleRefused, SupTypeOK, Statuses
<1>24. ASSUME NEW r \in Recoveries, Recheck(r)
       PROVE  saved' \in Files
  BY <1>24, NoFileTyped, SupervisorFields, SupervisorChanges, SavesTyped, SchedulesSaves,
     SupervisorHelpers
     DEF Recheck, SupTypeOK, Statuses
<1>25. ASSUME NEW r \in Recoveries, Recovered(r)
       PROVE  saved' \in Files
  BY <1>25, NoFileTyped, SupervisorFields, SupervisorChanges, SavesTyped, SchedulesSaves,
     SupervisorHelpers
     DEF Recovered, SupTypeOK, Statuses
<1>26. ASSUME NEW r \in Recoveries, RecoveryTunnelGone(r)
       PROVE  saved' \in Files
  BY <1>26, NoFileTyped, SupervisorFields, SupervisorChanges, SavesTyped, SchedulesSaves,
     SupervisorHelpers
     DEF RecoveryTunnelGone, SupTypeOK, Statuses
<1>27. ASSUME NEW r \in Recoveries, GiveUp(r)
       PROVE  saved' \in Files
  BY <1>27, NoFileTyped, SupervisorFields, SupervisorChanges, SavesTyped, SchedulesSaves,
     SupervisorHelpers
     DEF GiveUp, SchedulesAfter, SupTypeOK, Statuses
<1>28. ASSUME StartBegins
       PROVE  saved' \in Files
  BY <1>28, NoFileTyped, SupervisorFields, SupervisorChanges, SavesTyped, SchedulesSaves,
     SupervisorHelpers
     DEF StartBegins, SupTypeOK, Statuses
<1>29. ASSUME CleanDaemon
       PROVE  saved' \in Files
  BY <1>29, NoFileTyped, SupervisorFields, SupervisorChanges, SavesTyped, SchedulesSaves,
     SupervisorHelpers
     DEF CleanDaemon, DaemonEnds, SupTypeOK, Statuses
<1>30. ASSUME CleanTunnel
       PROVE  saved' \in Files
  BY <1>30, NoFileTyped, SupervisorFields, SupervisorChanges, SavesTyped, SchedulesSaves,
     SupervisorHelpers
     DEF CleanTunnel, SupTypeOK, Statuses
<1>31. ASSUME StopBegins
       PROVE  saved' \in Files
  BY <1>31, NoFileTyped, SupervisorFields, SupervisorChanges, SavesTyped, SchedulesSaves,
     SupervisorHelpers
     DEF StopBegins, SupTypeOK, Statuses
<1>32. ASSUME Cancel
       PROVE  saved' \in Files
  BY <1>32, NoFileTyped, SupervisorFields, SupervisorChanges, SavesTyped, SchedulesSaves,
     SupervisorHelpers
     DEF Cancel, SupTypeOK, Statuses
<1>33. ASSUME WaitForStart
       PROVE  saved' \in Files
  BY <1>33, NoFileTyped, SupervisorFields, SupervisorChanges, SavesTyped, SchedulesSaves,
     SupervisorHelpers
     DEF WaitForStart, SupTypeOK, Statuses
<1>34. ASSUME Settle
       PROVE  saved' \in Files
  BY <1>34, NoFileTyped, SupervisorFields, SupervisorChanges, SavesTyped, SchedulesSaves,
     SupervisorHelpers
     DEF Settle, SupTypeOK, Statuses
<1>35. ASSUME Drain
       PROVE  saved' \in Files
  BY <1>35, NoFileTyped, SupervisorFields, SupervisorChanges, SavesTyped, SchedulesSaves,
     SupervisorHelpers
     DEF Drain, SupTypeOK, Statuses
<1>36. ASSUME Poll
       PROVE  saved' \in Files
  BY <1>36, NoFileTyped, SupervisorFields, SupervisorChanges, SavesTyped, SchedulesSaves,
     SupervisorHelpers
     DEF Poll, SupTypeOK, Statuses
<1>37. ASSUME StopTunnel
       PROVE  saved' \in Files
  BY <1>37, NoFileTyped, SupervisorFields, SupervisorChanges, SavesTyped, SchedulesSaves,
     SupervisorHelpers
     DEF StopTunnel, SupTypeOK, Statuses
<1>38. ASSUME ShutDown
       PROVE  saved' \in Files
  BY <1>38, NoFileTyped, SupervisorFields, SupervisorChanges, SavesTyped, SchedulesSaves,
     SupervisorHelpers
     DEF ShutDown, SupTypeOK, Statuses
<1>39. ASSUME Compensate
       PROVE  saved' \in Files
  BY <1>39, NoFileTyped, SupervisorFields, SupervisorChanges, SavesTyped, SchedulesSaves,
     SupervisorHelpers
     DEF Compensate, SupTypeOK, Statuses
<1>40. ASSUME Restore
       PROVE  saved' \in Files
  BY <1>40, NoFileTyped, SupervisorFields, SupervisorChanges, SavesTyped, SchedulesSaves,
     SupervisorHelpers
     DEF Restore, SupTypeOK, Statuses
<1>41. ASSUME Verify
       PROVE  saved' \in Files
  BY <1>41, NoFileTyped, SupervisorFields, SupervisorChanges, SavesTyped, SchedulesSaves,
     SupervisorHelpers
     DEF Verify, SupTypeOK, Statuses
<1>42. ASSUME VerifyTunnel
       PROVE  saved' \in Files
  BY <1>42, NoFileTyped, SupervisorFields, SupervisorChanges, SavesTyped, SchedulesSaves,
     SupervisorHelpers
     DEF VerifyTunnel, SupTypeOK, Statuses
<1>43. ASSUME ForceStop
       PROVE  saved' \in Files
  BY <1>43, NoFileTyped, SupervisorFields, SupervisorChanges, SavesTyped, SchedulesSaves,
     SupervisorHelpers
     DEF ForceStop, SupTypeOK, Statuses
<1>44. ASSUME ForceTunnel
       PROVE  saved' \in Files
  BY <1>44, NoFileTyped, SupervisorFields, SupervisorChanges, SavesTyped, SchedulesSaves,
     SupervisorHelpers
     DEF ForceTunnel, SupTypeOK, Statuses
<1>45. ASSUME ForceDaemon
       PROVE  saved' \in Files
  BY <1>45, NoFileTyped, SupervisorFields, SupervisorChanges, SavesTyped, SchedulesSaves,
     SupervisorHelpers
     DEF ForceDaemon, SupTypeOK, Statuses
<1> QED
  BY <1>1, <1>2, <1>3, <1>4, <1>5, <1>6, <1>7, <1>8, <1>9, <1>10, <1>11, <1>12, <1>13, <1>14,
     <1>15, <1>16, <1>17, <1>18, <1>19, <1>20, <1>21, <1>22, <1>23, <1>24, <1>25, <1>26, <1>27,
     <1>28, <1>29, <1>30, <1>31, <1>32, <1>33, <1>34, <1>35, <1>36, <1>37, <1>38, <1>39, <1>40,
     <1>41, <1>42, <1>43, <1>44, <1>45,
     Zenon DEF Runs, StartsTunnel, StartsDaemon, Recovers, Stops

RestTyped ==
  alias \in {"stopped", "starting", "ready", "broken"} /\ busy \in BOOLEAN /\ faults \in Nat

\* The tunnel, the turn and the count of the faults.
LEMMA RestKept ==
  ASSUME SupTypeOK, Runs
  PROVE  RestTyped'
<1>1. ASSUME NEW name \in Names, WindowPasses(name)
      PROVE  RestTyped'
  BY <1>1 DEF WindowPasses, SupTypeOK, RestTyped, Fault
<1>2. ASSUME NEW name \in Names, NEW r \in Recoveries, TimerFires(name, r)
      PROVE  RestTyped'
  BY <1>2 DEF TimerFires, SupTypeOK, RestTyped, Fault
<1>3. ASSUME MonitorProbes
      PROVE  RestTyped'
  BY <1>3 DEF MonitorProbes, SupTypeOK, RestTyped, Fault
<1>4. ASSUME ProbeIgnored
      PROVE  RestTyped'
  BY <1>4 DEF ProbeIgnored, SupTypeOK, RestTyped, Fault
<1>5. ASSUME ProbeFindsReady
      PROVE  RestTyped'
  BY <1>5 DEF ProbeFindsReady, SupTypeOK, RestTyped, Fault
<1>6. ASSUME ProbeFindsLoss
      PROVE  RestTyped'
  BY <1>6 DEF ProbeFindsLoss, SupTypeOK, RestTyped, Fault
<1>7. ASSUME NEW c \in Spawned, DaemonListens(c)
      PROVE  RestTyped'
  BY <1>7 DEF DaemonListens, SupTypeOK, RestTyped, Fault
<1>8. ASSUME NEW c \in Spawned, DaemonExits(c)
      PROVE  RestTyped'
  <2>1. alias' \in {"stopped", "starting", "ready", "broken"} /\ faults' \in Nat
    BY <1>8 DEF DaemonExits, SupTypeOK, Fault
  <2>2. busy' \in BOOLEAN
    BY <1>8, Zenon DEF DaemonExits, SupTypeOK
  <2> QED
    BY <2>1, <2>2 DEF RestTyped
<1>9. ASSUME TurnArrives
      PROVE  RestTyped'
  BY <1>9 DEF TurnArrives, SupTypeOK, RestTyped, Fault
<1>10. ASSUME TurnSettles
       PROVE  RestTyped'
  BY <1>10 DEF TurnSettles, SupTypeOK, RestTyped, Fault
<1>11. ASSUME TunnelIsReady
       PROVE  RestTyped'
  BY <1>11 DEF TunnelIsReady, SupTypeOK, RestTyped, Fault
<1>12. ASSUME TunnelFails
       PROVE  RestTyped'
  BY <1>12 DEF TunnelFails, SupTypeOK, RestTyped, Fault
<1>13. ASSUME NEW t \in Tasks, Inspect(t)
       PROVE  RestTyped'
  BY <1>13 DEF Inspect, SupTypeOK, RestTyped, Fault
<1>14. ASSUME NEW t \in Tasks, Clear(t)
       PROVE  RestTyped'
  BY <1>14 DEF Clear, SupTypeOK, RestTyped, Fault
<1>15. ASSUME NEW t \in Tasks, Connect(t)
       PROVE  RestTyped'
  BY <1>15 DEF Connect, SupTypeOK, RestTyped, Fault
<1>16. ASSUME NEW t \in Tasks, Await(t)
       PROVE  RestTyped'
  BY <1>16 DEF Await, SupTypeOK, RestTyped, Fault
<1>17. ASSUME NEW t \in Tasks, Probe(t)
       PROVE  RestTyped'
  BY <1>17 DEF Probe, SupTypeOK, RestTyped, Fault
<1>18. ASSUME NEW t \in Tasks, Undo(t)
       PROVE  RestTyped'
  BY <1>18 DEF Undo, SupTypeOK, RestTyped, Fault
<1>19. ASSUME NEW t \in Tasks, StartDaemon(t)
       PROVE  RestTyped'
  <2>1. alias' = alias /\ (faults' = faults \/ Fault) /\ (busy' = busy)
    BY <1>19, Zenon DEF StartDaemon
  <2> QED
    BY <2>1 DEF RestTyped, SupTypeOK, Fault
<1>20. ASSUME NEW t \in Tasks, Health(t)
       PROVE  RestTyped'
  BY <1>20 DEF Health, SupTypeOK, RestTyped, Fault
<1>21. ASSUME NEW t \in Tasks, Kill(t)
       PROVE  RestTyped'
  <2>1. alias' \in {"stopped", "starting", "ready", "broken"} /\ faults' \in Nat
    BY <1>21 DEF Kill, SupTypeOK, Fault
  <2>2. busy' \in BOOLEAN
    BY <1>21, Zenon DEF Kill, DaemonEnds, SupTypeOK
  <2> QED
    BY <2>1, <2>2 DEF RestTyped
<1>22. ASSUME NEW t \in {"start", "stop"}, StaleDaemon(t)
       PROVE  RestTyped'
  BY <1>22 DEF StaleDaemon, StaleRefused, SupTypeOK, RestTyped, Fault
<1>23. ASSUME NEW t \in {"start", "stop"}, StaleTunnel(t)
       PROVE  RestTyped'
  BY <1>23 DEF StaleTunnel, SupTypeOK, RestTyped, Fault
<1>24. ASSUME NEW r \in Recoveries, Recheck(r)
       PROVE  RestTyped'
  BY <1>24 DEF Recheck, SupTypeOK, RestTyped, Fault
<1>25. ASSUME NEW r \in Recoveries, Recovered(r)
       PROVE  RestTyped'
  BY <1>25 DEF Recovered, SupTypeOK, RestTyped, Fault
<1>26. ASSUME NEW r \in Recoveries, RecoveryTunnelGone(r)
       PROVE  RestTyped'
  BY <1>26 DEF RecoveryTunnelGone, SupTypeOK, RestTyped, Fault
<1>27. ASSUME NEW r \in Recoveries, GiveUp(r)
       PROVE  RestTyped'
  BY <1>27 DEF GiveUp, SupTypeOK, RestTyped, Fault
<1>28. ASSUME StartBegins
       PROVE  RestTyped'
  BY <1>28 DEF StartBegins, SupTypeOK, RestTyped, Fault
<1>29. ASSUME CleanDaemon
       PROVE  RestTyped'
  <2>1. alias' \in {"stopped", "starting", "ready", "broken"} /\ faults' \in Nat
    BY <1>29 DEF CleanDaemon, SupTypeOK, Fault
  <2>2. busy' \in BOOLEAN
    BY <1>29, Zenon DEF CleanDaemon, DaemonEnds, SupTypeOK
  <2> QED
    BY <2>1, <2>2 DEF RestTyped
<1>30. ASSUME CleanTunnel
       PROVE  RestTyped'
  BY <1>30 DEF CleanTunnel, SupTypeOK, RestTyped, Fault
<1>31. ASSUME StopBegins
       PROVE  RestTyped'
  BY <1>31 DEF StopBegins, SupTypeOK, RestTyped, Fault
<1>32. ASSUME Cancel
       PROVE  RestTyped'
  <2>1. alias' \in {"stopped", "starting", "ready", "broken"} /\ faults' \in Nat
    BY <1>32 DEF Cancel, SupTypeOK, Fault
  <2>2. busy' \in BOOLEAN
    BY <1>32, Zenon DEF Cancel, SupTypeOK
  <2> QED
    BY <2>1, <2>2 DEF RestTyped
<1>33. ASSUME WaitForStart
       PROVE  RestTyped'
  BY <1>33 DEF WaitForStart, SupTypeOK, RestTyped, Fault
<1>34. ASSUME Settle
       PROVE  RestTyped'
  BY <1>34 DEF Settle, SupTypeOK, RestTyped, Fault
<1>35. ASSUME Drain
       PROVE  RestTyped'
  BY <1>35 DEF Drain, SupTypeOK, RestTyped, Fault
<1>36. ASSUME Poll
       PROVE  RestTyped'
  BY <1>36 DEF Poll, SupTypeOK, RestTyped, Fault
<1>37. ASSUME StopTunnel
       PROVE  RestTyped'
  BY <1>37 DEF StopTunnel, SupTypeOK, RestTyped, Fault
<1>38. ASSUME ShutDown
       PROVE  RestTyped'
  <2>1. alias' \in {"stopped", "starting", "ready", "broken"} /\ faults' \in Nat
    BY <1>38 DEF ShutDown, SupTypeOK, Fault
  <2>2. busy' \in BOOLEAN
    BY <1>38, Zenon DEF ShutDown, SupTypeOK
  <2> QED
    BY <2>1, <2>2 DEF RestTyped
<1>39. ASSUME Compensate
       PROVE  RestTyped'
  BY <1>39 DEF Compensate, SupTypeOK, RestTyped, Fault
<1>40. ASSUME Restore
       PROVE  RestTyped'
  BY <1>40 DEF Restore, SupTypeOK, RestTyped, Fault
<1>41. ASSUME Verify
       PROVE  RestTyped'
  BY <1>41 DEF Verify, SupTypeOK, RestTyped, Fault
<1>42. ASSUME VerifyTunnel
       PROVE  RestTyped'
  BY <1>42 DEF VerifyTunnel, SupTypeOK, RestTyped, Fault
<1>43. ASSUME ForceStop
       PROVE  RestTyped'
  BY <1>43 DEF ForceStop, SupTypeOK, RestTyped, Fault
<1>44. ASSUME ForceTunnel
       PROVE  RestTyped'
  BY <1>44 DEF ForceTunnel, SupTypeOK, RestTyped, Fault
<1>45. ASSUME ForceDaemon
       PROVE  RestTyped'
  <2>1. alias' \in {"stopped", "starting", "ready", "broken"} /\ faults' \in Nat
    BY <1>45 DEF ForceDaemon, SupTypeOK, Fault
  <2>2. busy' \in BOOLEAN
    BY <1>45, Zenon DEF ForceDaemon, SupTypeOK
  <2> QED
    BY <2>1, <2>2 DEF RestTyped
<1> QED
  BY <1>1, <1>2, <1>3, <1>4, <1>5, <1>6, <1>7, <1>8, <1>9, <1>10, <1>11, <1>12, <1>13, <1>14,
     <1>15, <1>16, <1>17, <1>18, <1>19, <1>20, <1>21, <1>22, <1>23, <1>24, <1>25, <1>26, <1>27,
     <1>28, <1>29, <1>30, <1>31, <1>32, <1>33, <1>34, <1>35, <1>36, <1>37, <1>38, <1>39, <1>40,
     <1>41, <1>42, <1>43, <1>44, <1>45,
     Zenon DEF Runs, StartsTunnel, StartsDaemon, Recovers, Stops

\* The launcher dies: a new one begins with nothing.
LEMMA DeathTyped == SupTypeOK /\ LauncherDies => SupTypeOK'
<1> SUFFICES ASSUME SupTypeOK, LauncherDies PROVE SupTypeOK'
  OBVIOUS
<1>1. sup' \in Supervisors
  BY DEF LauncherDies, SupTypeOK, Supervisors, Pids, NoPid
<1>2. task' \in [Tasks -> TaskRecords]
  BY DEF LauncherDies, Resting, TaskRecords, TaskPlaces, Names, Pids
<1>3. saved' \in Files
  BY DEF LauncherDies, SupTypeOK, Files
<1>4. left' \subseteq Spawned
  BY DEF LauncherDies, SupTypeOK, Alive
<1>5. faults' \in Nat
  BY DEF LauncherDies, SupTypeOK, Fault
<1> QED
  BY <1>1, <1>2, <1>3, <1>4, <1>5 DEF LauncherDies, SupTypeOK

LEMMA SupTypeNext == SupTypeOK /\ [SupNext]_supVars => SupTypeOK'
<1> SUFFICES ASSUME SupTypeOK, [SupNext]_supVars PROVE SupTypeOK'
  OBVIOUS
<1>1. ASSUME Runs, UNCHANGED left PROVE SupTypeOK'
  <2>1. sup' \in Supervisors
    BY <1>1, SupTyped
  <2>2. children' \in [Spawned -> ChildStates]
    BY <1>1, ChildrenTyped
  <2>3. task' \in [Tasks -> TaskRecords]
    BY <1>1, TaskTyped
  <2>4. saved' \in Files
    BY <1>1, <2>1, SavedTyped
  <2>5. RestTyped'
    BY <1>1, RestKept
  <2> QED
    BY <1>1, <2>1, <2>2, <2>3, <2>4, <2>5 DEF SupTypeOK, RestTyped
<1>2. ASSUME UNCHANGED supVars PROVE SupTypeOK'
  BY <1>2 DEF supVars, SupTypeOK
<1> QED
  BY <1>1, <1>2, DeathTyped DEF SupNext

\* A supervisor that knows or forgets its tunnel, or goes on, holds its daemon.
LEMMA HeldThrough ==
  ASSUME NEW s \in Supervisors, NEW held \in BOOLEAN
  PROVE  /\ [s EXCEPT !.tunnel = held].daemon = s.daemon
         /\ [s EXCEPT !.stopping = held].daemon = s.daemon
  BY DEF Supervisors

LEMMA UnwatchedThrough ==
  ASSUME NEW s \in Supervisors
  PROVE  /\ [Unwatched(s) EXCEPT !.tunnel = FALSE] \in Supervisors
         /\ [Unwatched(s) EXCEPT !.tunnel = FALSE].daemon = s.daemon
         /\ [Unwatched(s) EXCEPT !.tunnel = FALSE, !.stopping = FALSE].daemon = s.daemon
         /\ [Watched(s) EXCEPT !.stopping = FALSE].daemon = s.daemon
<1>1. /\ Unwatched(s) \in Supervisors /\ Watched(s) \in Supervisors
      /\ Unwatched(s).daemon = s.daemon /\ Watched(s).daemon = s.daemon
  BY SupervisorHelpers
<1> QED
  BY <1>1 DEF Supervisors

LEMMA ClearedThrough ==
  ASSUME NEW s \in Supervisors
  PROVE  /\ [s EXCEPT !.stopping = FALSE].daemon = s.daemon
         /\ [s EXCEPT !.tunnel = FALSE].daemon = s.daemon
         /\ [s EXCEPT !.tunnel = FALSE, !.stopping = FALSE].daemon = s.daemon
  BY DEF Supervisors

\* The daemons are as they were and the supervisor holds the same one.
LEMMA SameDaemons ==
  ASSUME NoOrphan, UNCHANGED <<left, children>>, sup'.daemon = sup.daemon
  PROVE  NoOrphan'
  BY DEF NoOrphan, Alive

\* The daemon that the supervisor held is gone.
LEMMA DaemonGone ==
  ASSUME SupTypeOK, NoOrphan, UNCHANGED left, sup'.daemon = NoPid,
         \/ children' = [children EXCEPT ![sup.daemon] = "gone"]
         \/ children' = [c \in Spawned |-> IF c = sup.daemon THEN "gone" ELSE children[c]]
  PROVE  NoOrphan'
  BY DEF NoOrphan, Alive, SupTypeOK

\* A step of a launcher leaves no daemon alone.
LEMMA NoOrphanRuns ==
  ASSUME SupTypeOK, NoOrphan, UNCHANGED left, Runs
  PROVE  NoOrphan'
<1>1. ASSUME NEW name \in Names, WindowPasses(name)
      PROVE  NoOrphan'
  BY <1>1, SupervisorHelpers, SupervisorChanges DEF WindowPasses, SupTypeOK, ChildStates,
      NoOrphan, Alive
<1>2. ASSUME NEW name \in Names, NEW r \in Recoveries, TimerFires(name, r)
      PROVE  NoOrphan'
  BY <1>2, SupervisorHelpers, SupervisorChanges DEF TimerFires, SupTypeOK, ChildStates,
      NoOrphan, Alive
<1>3. ASSUME MonitorProbes
      PROVE  NoOrphan'
  BY <1>3, SupervisorHelpers, SupervisorChanges DEF MonitorProbes, SupTypeOK, ChildStates,
      NoOrphan, Alive
<1>4. ASSUME ProbeIgnored
      PROVE  NoOrphan'
  BY <1>4, SupervisorHelpers, SupervisorChanges DEF ProbeIgnored, SupTypeOK, ChildStates,
      NoOrphan, Alive
<1>5. ASSUME ProbeFindsReady
      PROVE  NoOrphan'
  BY <1>5, SupervisorHelpers, SupervisorChanges DEF ProbeFindsReady, SupTypeOK, ChildStates,
      NoOrphan, Alive
<1>6. ASSUME ProbeFindsLoss
      PROVE  NoOrphan'
  <2>1. children' = children
    BY <1>6, Zenon DEF ProbeFindsLoss
  <2>2. sup'.daemon = sup.daemon
    <3> DEFINE seen == [sup EXCEPT !.probe = "none"]
               lost == [Unwatched(seen) EXCEPT !.tunnel = FALSE]
               more == [seen EXCEPT !.failures = @ + 1]
    <3>1. seen \in Supervisors /\ seen.daemon = sup.daemon
      BY SupervisorChanges DEF SupTypeOK
    <3>2. lost \in Supervisors /\ lost.daemon = sup.daemon
      BY <3>1, SupervisorHelpers, UnwatchedThrough, ClearedThrough
    <3>3. more.daemon = sup.daemon
      BY DEF SupTypeOK, Supervisors
    <3>4. sup' = more \/ SchedulesAfter(lost, "tunnel", "degraded")
      BY <1>6, Zenon DEF ProbeFindsLoss
    <3> HIDE DEF lost, more
    <3> QED
      BY <3>2, <3>3, <3>4, SchedulesTyped DEF Names
  <2> QED
    BY <2>1, <2>2, SameDaemons
<1>7. ASSUME NEW c \in Spawned, DaemonListens(c)
      PROVE  NoOrphan'
  BY <1>7, SupervisorHelpers, SupervisorChanges DEF DaemonListens, SupTypeOK, ChildStates,
      NoOrphan, Alive
<1>8. ASSUME NEW c \in Spawned, DaemonExits(c)
      PROVE  NoOrphan'
  <2> DEFINE without == [sup EXCEPT !.daemon = IF @ = c THEN NoPid ELSE @,
                                    !.restartable = @ \ {c}]
  <2>1. /\ without \in Supervisors
        /\ without.daemon = IF sup.daemon = c THEN NoPid ELSE sup.daemon
    BY WithoutTyped DEF SupTypeOK
  <2>2. \/ sup' = without \/ SchedulesAfter(without, "daemon", "degraded")
        \/ sup' = sup /\ c \in left
    BY <1>8 DEF DaemonExits, HandlesExit
  <2>3. children' = [children EXCEPT ![c] = "gone"]
    BY <1>8 DEF DaemonExits
  <2> HIDE DEF without
  <2>4. \/ sup'.daemon = IF sup.daemon = c THEN NoPid ELSE sup.daemon
        \/ sup'.daemon = sup.daemon
    BY <2>1, <2>2, SchedulesTyped DEF Names
  <2> QED
    BY <2>3, <2>4 DEF NoOrphan, Alive, SupTypeOK
<1>9. ASSUME TurnArrives
      PROVE  NoOrphan'
  BY <1>9, SupervisorHelpers, SupervisorChanges DEF TurnArrives, SupTypeOK, ChildStates,
      NoOrphan, Alive
<1>10. ASSUME TurnSettles
       PROVE  NoOrphan'
  BY <1>10, SupervisorHelpers, SupervisorChanges DEF TurnSettles, SupTypeOK, ChildStates,
      NoOrphan, Alive
<1>11. ASSUME TunnelIsReady
       PROVE  NoOrphan'
  BY <1>11, SupervisorHelpers, SupervisorChanges DEF TunnelIsReady, SupTypeOK, ChildStates,
      NoOrphan, Alive
<1>12. ASSUME TunnelFails
       PROVE  NoOrphan'
  BY <1>12, SupervisorHelpers, SupervisorChanges DEF TunnelFails, SupTypeOK, ChildStates,
      NoOrphan, Alive
<1>13. ASSUME NEW t \in Tasks, Inspect(t)
       PROVE  NoOrphan'
  <2>1. PICK held \in BOOLEAN : sup' = sup \/ sup' = [sup EXCEPT !.tunnel = held]
    <3> DEFINE adopts == InventoryReady /\ ~Forced(t)
    <3>1. adopts \in BOOLEAN
      BY DEF InventoryReady, Forced
    <3>2. sup' = sup \/ sup' = [sup EXCEPT !.tunnel = adopts]
      BY <1>13, Zenon DEF Inspect
    <3> QED
      BY <3>1, <3>2, Zenon
  <2>2. sup'.daemon = sup.daemon
    BY <2>1, HeldThrough, ClearedThrough DEF SupTypeOK
  <2>3. children' = children
    BY <1>13, Zenon DEF Inspect
  <2> QED
    BY <2>2, <2>3, SameDaemons
<1>14. ASSUME NEW t \in Tasks, Clear(t)
       PROVE  NoOrphan'
  BY <1>14, SupervisorHelpers, SupervisorChanges DEF Clear, SupTypeOK, ChildStates, NoOrphan,
      Alive
<1>15. ASSUME NEW t \in Tasks, Connect(t)
       PROVE  NoOrphan'
  BY <1>15, SupervisorHelpers, SupervisorChanges DEF Connect, SupTypeOK, ChildStates, NoOrphan,
      Alive
<1>16. ASSUME NEW t \in Tasks, Await(t)
       PROVE  NoOrphan'
  BY <1>16, SupervisorHelpers, SupervisorChanges DEF Await, SupTypeOK, ChildStates, NoOrphan,
      Alive
<1>17. ASSUME NEW t \in Tasks, Probe(t)
       PROVE  NoOrphan'
  BY <1>17, SupervisorHelpers, SupervisorChanges DEF Probe, SupTypeOK, ChildStates, NoOrphan,
      Alive
<1>18. ASSUME NEW t \in Tasks, Undo(t)
       PROVE  NoOrphan'
  <2>1. children' = children
    BY <1>18, Zenon DEF Undo
  <2>2. sup'.daemon = sup.daemon
    BY <1>18, FailsTyped, SupervisorHelpers, UnwatchedThrough, ClearedThrough DEF Undo, SupTypeOK
  <2> QED
    BY <2>1, <2>2, SameDaemons
<1>19. ASSUME NEW t \in Tasks, StartDaemon(t)
       PROVE  NoOrphan'
  <2>1. CASE /\ \/ children' = children
                \/ children' =
                     [children EXCEPT ![sup.daemon] = IF @ = "draining" THEN "accepting" ELSE @]
             /\ sup' = sup \/ Fails(t, sup)
    <3>1. sup'.daemon = sup.daemon
      BY <2>1, FailsTyped DEF SupTypeOK
    <3> QED
      BY <2>1, <3>1 DEF NoOrphan, Alive, SupTypeOK
  <2>2. CASE \E c \in Unborn : /\ children' = [children EXCEPT ![c] = "booting"]
                               /\ sup' = [sup EXCEPT !.daemon = c] /\ sup.daemon = NoPid
    <3>1. PICK c \in Unborn : /\ children' = [children EXCEPT ![c] = "booting"]
                             /\ sup' = [sup EXCEPT !.daemon = c] /\ sup.daemon = NoPid
      BY <2>2
    <3>2. sup'.daemon = c
      BY <3>1 DEF SupTypeOK, Supervisors
    <3> QED
      BY <3>1, <3>2 DEF NoOrphan, Alive, SupTypeOK, Unborn, NoPid, Spawned
  <2> QED
    BY <1>19, <2>1, <2>2, Zenon DEF StartDaemon
<1>20. ASSUME NEW t \in Tasks, Health(t)
       PROVE  NoOrphan'
  <2>1. children' = children
    BY <1>20, Zenon DEF Health
  <2>2. sup'.daemon = sup.daemon
    <3> DEFINE confirmed == [sup EXCEPT !.restartable = @ \cup {sup.daemon}]
               fresh == [confirmed EXCEPT !.attempts = [n \in Names |-> 0]]
    <3>1. confirmed.daemon = sup.daemon /\ fresh.daemon = sup.daemon
      BY DEF SupTypeOK, Supervisors
    <3>2. DaemonIsDown(t) => sup'.daemon = sup.daemon
      BY FailsTyped DEF DaemonIsDown, SupTypeOK
    <3>3. DaemonIsUp(t) => sup' \in {confirmed, fresh}
      BY DEF DaemonIsUp
    <3>4. DaemonIsUp(t) \/ DaemonIsDown(t)
      BY <1>20, Zenon DEF Health
    <3> QED
      BY <3>1, <3>2, <3>3, <3>4
  <2> QED
    BY <2>1, <2>2, SameDaemons
<1>21. ASSUME NEW t \in Tasks, Kill(t)
       PROVE  NoOrphan'
  <2>1. CASE children' = children /\ Fails(t, sup)
    BY <2>1, FailsTyped, SameDaemons DEF SupTypeOK
  <2>2. CASE DaemonEnds /\ Fails(t, Dismissed(sup))
    BY <2>2, FailsTyped, DaemonGone, SupervisorHelpers DEF SupTypeOK, DaemonEnds
  <2> QED
    BY <1>21, <2>1, <2>2, Zenon DEF Kill
<1>22. ASSUME NEW t \in {"start", "stop"}, StaleDaemon(t)
       PROVE  NoOrphan'
  BY <1>22, SupervisorHelpers, SupervisorChanges DEF StaleDaemon, Serving, SupTypeOK,
      ChildStates, NoOrphan, Alive
<1>23. ASSUME NEW t \in {"start", "stop"}, StaleTunnel(t)
       PROVE  NoOrphan'
  <2>1. children' = children
    BY <1>23, Zenon DEF StaleTunnel
  <2>2. sup'.daemon = sup.daemon
    <3>1. sup' = sup \/ sup' = [sup EXCEPT !.stopping = FALSE]
      BY <1>23, Zenon DEF StaleTunnel
    <3> QED
      BY <3>1, SupervisorHelpers, UnwatchedThrough, ClearedThrough DEF SupTypeOK
  <2> QED
    BY <2>1, <2>2, SameDaemons
<1>24. ASSUME NEW r \in Recoveries, Recheck(r)
       PROVE  NoOrphan'
  BY <1>24, SupervisorHelpers, SupervisorChanges DEF Recheck, SupTypeOK, ChildStates, NoOrphan,
      Alive
<1>25. ASSUME NEW r \in Recoveries, Recovered(r)
       PROVE  NoOrphan'
  BY <1>25, SupervisorHelpers, SupervisorChanges DEF Recovered, SupTypeOK, ChildStates,
      NoOrphan, Alive
<1>26. ASSUME NEW r \in Recoveries, RecoveryTunnelGone(r)
       PROVE  NoOrphan'
  BY <1>26, SupervisorHelpers, SupervisorChanges DEF RecoveryTunnelGone, SupTypeOK, ChildStates,
      NoOrphan, Alive
<1>27. ASSUME NEW r \in Recoveries, GiveUp(r)
       PROVE  NoOrphan'
  <2>1. children' = children
    BY <1>27, Zenon DEF GiveUp
  <2>2. sup'.daemon = sup.daemon
    BY <1>27, SchedulesTyped DEF GiveUp, SupTypeOK, TaskRecords, Tasks
  <2> QED
    BY <2>1, <2>2, SameDaemons
<1>28. ASSUME StartBegins
       PROVE  NoOrphan'
  BY <1>28, SupervisorHelpers, SupervisorChanges DEF StartBegins, SupTypeOK, ChildStates,
      NoOrphan, Alive
<1>29. ASSUME CleanDaemon
       PROVE  NoOrphan'
  <2>1. CASE children' = children /\ sup' \in {sup, [sup EXCEPT !.stopping = FALSE]}
    BY <2>1, ClearedThrough, SameDaemons DEF SupTypeOK
  <2>2. CASE DaemonEnds /\ sup' = Dismissed(sup)
    BY <2>2, DaemonGone, SupervisorHelpers DEF SupTypeOK, DaemonEnds
  <2> QED
    BY <1>29, <2>1, <2>2 DEF CleanDaemon
<1>30. ASSUME CleanTunnel
       PROVE  NoOrphan'
  <2>1. children' = children
    BY <1>30, Zenon DEF CleanTunnel
  <2>2. sup'.daemon = sup.daemon
    <3>1. \/ sup' = [sup EXCEPT !.stopping = FALSE]
          \/ sup' = [Unwatched(sup) EXCEPT !.tunnel = FALSE, !.stopping = FALSE]
          \/ sup' = [Watched(sup) EXCEPT !.stopping = FALSE]
      BY <1>30, Zenon DEF CleanTunnel
    <3> QED
      BY <3>1, SupervisorHelpers, UnwatchedThrough, ClearedThrough DEF SupTypeOK
  <2> QED
    BY <2>1, <2>2, SameDaemons
<1>31. ASSUME StopBegins
       PROVE  NoOrphan'
  BY <1>31, SupervisorHelpers, SupervisorChanges DEF StopBegins, SupTypeOK, ChildStates,
      NoOrphan, Alive
<1>32. ASSUME Cancel
       PROVE  NoOrphan'
  BY <1>32, SupervisorHelpers, SupervisorChanges DEF Cancel, SupTypeOK, ChildStates, NoOrphan,
      Alive
<1>33. ASSUME WaitForStart
       PROVE  NoOrphan'
  BY <1>33, SupervisorHelpers, SupervisorChanges DEF WaitForStart, SupTypeOK, ChildStates,
      NoOrphan, Alive
<1>34. ASSUME Settle
       PROVE  NoOrphan'
  <2>1. PICK held \in BOOLEAN :
          \/ sup' = sup \/ sup' = [sup EXCEPT !.stopping = FALSE]
          \/ sup' = [sup EXCEPT !.tunnel = held]
    <3> DEFINE adopts == ~sup.tunnel /\ alias # "stopped"
                           /\ (Serving # {} \/ MayBeLive \/ saved = NoFile)
               known == sup.tunnel \/ adopts
    <3>1. known \in BOOLEAN
      OBVIOUS
    <3>2. \/ sup' = sup \/ sup' = [sup EXCEPT !.stopping = FALSE]
          \/ sup' = [sup EXCEPT !.tunnel = known]
      BY <1>34, Zenon DEF Settle
    <3> QED
      BY <3>1, <3>2, Zenon
  <2>2. sup'.daemon = sup.daemon
    BY <2>1, HeldThrough, ClearedThrough DEF SupTypeOK
  <2>3. children' = children
    BY <1>34, Zenon DEF Settle
  <2> QED
    BY <2>2, <2>3, SameDaemons
<1>35. ASSUME Drain
       PROVE  NoOrphan'
  BY <1>35, SupervisorHelpers, SupervisorChanges DEF Drain, Serving, SupTypeOK, ChildStates,
      NoOrphan, Alive
<1>36. ASSUME Poll
       PROVE  NoOrphan'
  BY <1>36, SupervisorHelpers, SupervisorChanges DEF Poll, Resumed, SupTypeOK, ChildStates,
      NoOrphan, Alive
<1>37. ASSUME StopTunnel
       PROVE  NoOrphan'
  <2>1. children' = children
    BY <1>37, Zenon DEF StopTunnel
  <2>2. sup'.daemon = sup.daemon
    <3>1. \/ sup' = sup \/ sup' = Watched(sup)
          \/ sup' = [Unwatched(sup) EXCEPT !.tunnel = FALSE]
      BY <1>37, Zenon DEF StopTunnel
    <3> QED
      BY <3>1, SupervisorHelpers, UnwatchedThrough, ClearedThrough DEF SupTypeOK
  <2> QED
    BY <2>1, <2>2, SameDaemons
<1>38. ASSUME ShutDown
       PROVE  NoOrphan'
  <2>1. CASE children' = children /\ sup' = sup
    BY <2>1, SameDaemons
  <2>2. CASE children' = Exited /\ sup' = [Dismissed(sup) EXCEPT !.stopping = FALSE]
    BY <2>2, DaemonGone, ClearedThrough, SupervisorHelpers DEF SupTypeOK, Exited
  <2> QED
    BY <1>38, <2>1, <2>2, Zenon DEF ShutDown
<1>39. ASSUME Compensate
       PROVE  NoOrphan'
  BY <1>39, SupervisorHelpers, SupervisorChanges DEF Compensate, SupTypeOK, ChildStates,
      NoOrphan, Alive
<1>40. ASSUME Restore
       PROVE  NoOrphan'
  BY <1>40, SupervisorHelpers, SupervisorChanges DEF Restore, Resumed, SupTypeOK, ChildStates,
      NoOrphan, Alive
<1>41. ASSUME Verify
       PROVE  NoOrphan'
  BY <1>41, SupervisorHelpers, SupervisorChanges DEF Verify, SupTypeOK, ChildStates, NoOrphan,
      Alive
<1>42. ASSUME VerifyTunnel
       PROVE  NoOrphan'
  BY <1>42, SupervisorHelpers, SupervisorChanges DEF VerifyTunnel, SupTypeOK, ChildStates,
      NoOrphan, Alive
<1>43. ASSUME ForceStop
       PROVE  NoOrphan'
  BY <1>43, SupervisorHelpers, SupervisorChanges DEF ForceStop, SupTypeOK, ChildStates,
      NoOrphan, Alive
<1>44. ASSUME ForceTunnel
       PROVE  NoOrphan'
  <2>1. children' = children
    BY <1>44, Zenon DEF ForceTunnel
  <2>2. sup'.daemon = sup.daemon
    <3>1. sup' = sup \/ sup' = [sup EXCEPT !.tunnel = FALSE]
      BY <1>44, Zenon DEF ForceTunnel
    <3> QED
      BY <3>1, SupervisorHelpers, UnwatchedThrough, ClearedThrough DEF SupTypeOK
  <2> QED
    BY <2>1, <2>2, SameDaemons
<1>45. ASSUME ForceDaemon
       PROVE  NoOrphan'
  <2>1. CASE children' = children /\ sup' = [sup EXCEPT !.stopping = FALSE]
    BY <2>1, ClearedThrough, SameDaemons DEF SupTypeOK
  <2>2. CASE children' = Exited /\ sup' = [Dismissed(sup) EXCEPT !.stopping = FALSE]
    BY <2>2, DaemonGone, ClearedThrough, SupervisorHelpers DEF SupTypeOK, Exited
  <2> QED
    BY <1>45, <2>1, <2>2, Zenon DEF ForceDaemon
<1> QED
  BY <1>1, <1>2, <1>3, <1>4, <1>5, <1>6, <1>7, <1>8, <1>9, <1>10, <1>11, <1>12, <1>13, <1>14,
     <1>15, <1>16, <1>17, <1>18, <1>19, <1>20, <1>21, <1>22, <1>23, <1>24, <1>25, <1>26, <1>27,
     <1>28, <1>29, <1>30, <1>31, <1>32, <1>33, <1>34, <1>35, <1>36, <1>37, <1>38, <1>39, <1>40,
     <1>41, <1>42, <1>43, <1>44, <1>45,
     Zenon DEF Runs, StartsTunnel, StartsDaemon, Recovers, Stops

LEMMA NoOrphanNext == SupIInv /\ [SupNext]_supVars => NoOrphan'
<1> SUFFICES ASSUME SupIInv, [SupNext]_supVars PROVE NoOrphan'
  OBVIOUS
<1>1. ASSUME Runs, UNCHANGED left PROVE NoOrphan'
  BY <1>1, NoOrphanRuns DEF SupIInv
<1>2. ASSUME LauncherDies PROVE NoOrphan'
  BY <1>2 DEF LauncherDies, NoOrphan, Alive
<1>3. ASSUME UNCHANGED supVars PROVE NoOrphan'
  BY <1>3 DEF supVars, SupIInv, NoOrphan, Alive
<1> QED
  BY <1>1, <1>2, <1>3 DEF SupNext

LEMMA SupStarts == SupInit => SupIInv
<1> SUFFICES ASSUME SupInit PROVE SupIInv
  OBVIOUS
<1>1. sup \in Supervisors
  BY DEF SupInit, Supervisors, Pids, Names
<1>2. task \in [Tasks -> TaskRecords]
  BY DEF SupInit, Resting, TaskRecords, TaskPlaces, Names, Pids
<1>3. children \in [Spawned -> ChildStates] /\ saved \in Files
  BY NoFileTyped DEF SupInit, ChildStates
<1>4. SupTypeOK
  BY <1>1, <1>2, <1>3 DEF SupInit, SupTypeOK
<1>5. Alive = {}
  BY DEF SupInit, Alive
<1> QED
  BY <1>4, <1>5 DEF SupIInv, NoOrphan

\* The supervisor, its tasks and its file are always well-formed, and the daemon that it holds
\* is the only one of this launcher's that lives.
THEOREM SupervisorConsistent == SupSpec => []SupIInv
<1>1. SupIInv /\ [SupNext]_supVars => SupIInv'
  BY SupTypeNext, NoOrphanNext DEF SupIInv
<1> QED
  BY <1>1, SupStarts, PTL DEF SupSpec

\* However starts, stops, recoveries, failing commands, exits and deaths of the launcher fall
\* together, no daemon of a living launcher runs that its supervisor has lost sight of
\* (runtime-supervisor.cjs: startDaemon, stopChild, spawnChild's exit handler).
THEOREM NoDaemonIsLost == SupSpec => []NoOrphan
<1>1. SupIInv => NoOrphan
  BY DEF SupIInv
<1> QED
  BY <1>1, SupervisorConsistent, PTL

-----------------------------------------------------------------------------
(* The setup transactions.                                                    *)

Works ==
  [kind : Kinds, at : {"idle", "preflight", "stop", "child", "start", "hook", "failed", "recover"},
   want : Disks, before : Disks, moved : BOOLEAN, ran : BOOLEAN, clean : BOOLEAN]
Strays == [at : ChildSteps, want : Disks, known : BOOLEAN]
States == [interaction : Interactions, flags : SUBSET (AutomaticOnly \cup ManualOnly),
           complete : BOOLEAN]
Phases == {"off", "auth", "upgrading", "starting", "checking", "lost", "done"}

\* The CLI writes for an operation that waits for it, and that stopped the runtime before.
WritesForItsOperation ==
  /\ child \notin {"none", "reads"} => setup.at = "child"
  /\ setup.at = "child" => setup.ran
  /\ child \in {"keys", "deletes"} => child = FirstStep

\* No process of an earlier operation writes beside one that is clean, that has begun to
\* write, or whose process is through.
WritesAlone ==
  /\ stray.at # "reads"
  /\ setup.at # "idle" /\ setup.clean => stray.at = "none"
  /\ setup.at \in {"start", "hook"} => stray.at = "none"
  /\ child \in {"service", "config", "exits"} => stray.at = "none"

\* As long as the CLI has not run the files are those of the checkpoint.
UntouchedYet ==
  setup.at # "idle" /\ setup.clean /\ ~setup.ran => disk = setup.before

\* What an operation wants is a configuration, and one is there when its daemon is up.
WantsConfiguration ==
  /\ setup.at # "idle" /\ setup.kind # "uninstall" => setup.want.config \in Configs
  /\ setup.at = "hook" => Configured

SetupIInv ==
  /\ SetupTypeOK
  /\ WritesForItsOperation
  /\ WritesAlone
  /\ UntouchedYet
  /\ WantsConfiguration
  /\ RolledBack

\* The fields of a configuration, of files and of an operation.
LEMMA DiskFields ==
  ASSUME NEW d \in Disks
  PROVE  /\ d.config \in Configs \cup {NoConfig} /\ d.keys \in [Interactions -> KeyFiles]
         /\ \A c \in Configs \cup {NoConfig} : [d EXCEPT !.config = c] \in Disks
         /\ \A k \in [Interactions -> KeyFiles] : [d EXCEPT !.keys = k] \in Disks
  BY DEF Disks

LEMMA NoFilesTyped == NoFiles \in Disks
  BY DEF NoFiles, Disks, KeyFiles

LEMMA WantedTyped ==
  ASSUME NEW c \in Configs, NEW keys \in [Interactions -> KeyFiles]
  PROVE  Wanted(c, keys) \in Disks /\ Wanted(c, keys).config \in Configs
<1> DEFINE next ==
      [c EXCEPT !.token = IF Configured THEN (c.token + 1) % 3 ELSE c.token,
                !.owner = "launcher", !.release = "new",
                !.flags = IF c.interaction = "manual" THEN c.flags \ Cleared ELSE c.flags,
                !.tunnels = IF c.mode = "full" THEN c.tunnels \cup {c.interaction} ELSE {}]
<1>1. (c.token + 1) % 3 \in 0 .. 2 /\ c.token \in 0 .. 2
  BY DEF Configs
<1>2. next \in Configs
  <2> DEFINE token == IF Configured THEN (c.token + 1) % 3 ELSE c.token
             flags == IF c.interaction = "manual" THEN c.flags \ Cleared ELSE c.flags
             tunnels == IF c.mode = "full" THEN c.tunnels \cup {c.interaction} ELSE {}
  <2>1. token \in 0 .. 2
    BY <1>1
  <2>2. flags \in SUBSET (AutomaticOnly \cup ManualOnly) /\ tunnels \in SUBSET Interactions
    BY DEF Configs
  <2>3. next = [c EXCEPT !.token = token, !.owner = "launcher", !.release = "new",
                         !.flags = flags, !.tunnels = tunnels]
    OBVIOUS
  <2> HIDE DEF token, flags, tunnels, next
  <2> QED
    BY <2>1, <2>2, <2>3 DEF Configs
<1>3. Wanted(c, keys) = [config |-> next, keys |-> keys]
  BY DEF Wanted
<1> HIDE DEF next
<1> QED
  BY <1>2, <1>3 DEF Disks

\* What an operation that begins wants.
LEMMA ConfigChanges ==
  ASSUME NEW c \in Configs
  PROVE  /\ c.flags \subseteq AutomaticOnly \cup ManualOnly
         /\ \A i \in Interactions :
              /\ [c EXCEPT !.interaction = i] \in Configs
              /\ [c EXCEPT !.mode = "full", !.interaction = i] \in Configs
         /\ \A s \in SUBSET (AutomaticOnly \cup ManualOnly) : [c EXCEPT !.flags = s] \in Configs
  BY DEF Configs

LEMMA ExistingTyped == SetupTypeOK => Existing \in Configs
<1> SUFFICES ASSUME SetupTypeOK PROVE Existing \in Configs
  OBVIOUS
<1>1. Fresh \in Configs /\ ui.interaction \in Interactions
  BY DEF Fresh, Configs, SetupTypeOK, Interactions
<1>2. [Fresh EXCEPT !.interaction = ui.interaction] \in Configs
  BY <1>1, ConfigChanges
<1>3. disk.config \in Configs \cup {NoConfig}
  BY DiskFields DEF SetupTypeOK
<1> QED
  BY <1>2, <1>3 DEF Existing, Configured

\* An operation that begins, of what kind it is and what it wants.
LEMMA BeginsTyped ==
  ASSUME SetupTypeOK, NEW kind \in Kinds, NEW want \in Disks, Begins(kind, want)
  PROVE  /\ setup' \in Works /\ setup'.kind = kind /\ setup'.want = want
         /\ setup'.at \in {"preflight", "stop"} /\ setup'.before = disk
         /\ ~setup'.ran /\ (setup'.clean <=> stray.at = "none")
         /\ child' \in {"none", "reads"} /\ setups' \in 0 .. MaxSetups
         /\ UNCHANGED <<disk, daemon, mine, service, stray, ui, quit, disturbed, setupFaults>>
<1> DEFINE fresh == stray.at = "none"
           place == IF kind = "uninstall" THEN "stop" ELSE "preflight"
<1>1. fresh \in BOOLEAN /\ place \in {"preflight", "stop"}
  OBVIOUS
<1>2. setup' = [kind |-> kind, at |-> place, want |-> want, before |-> disk, moved |-> FALSE,
                ran |-> FALSE, clean |-> fresh]
  BY DEF Begins
<1>3. child' \in {"none", "reads"} /\ setups' \in 0 .. MaxSetups
  BY SetupAssumption DEF Begins, SetupTypeOK
<1>4. UNCHANGED <<disk, daemon, mine, service, stray, ui, quit, disturbed, setupFaults>>
  BY DEF Begins
<1>5. setup' \in Works
  <2> HIDE DEF fresh, place
  <2> QED
    BY <1>1, <1>2 DEF Works, SetupTypeOK
<1> QED
  BY <1>1, <1>2, <1>3, <1>4, <1>5, Zenon

\* An operation begins, and wants a configuration unless it is the uninstallation.
SomethingBegins ==
  \E kind \in Kinds, want \in Disks :
    Begins(kind, want) /\ (kind # "uninstall" => want.config \in Configs)

Asks ==
  \/ SetupCore \/ UninstallIntegration \/ StartupUpgrades
  \/ \E i \in Interactions : SetupMcp(i) \/ SetBrowserInteractionMode(i)
  \/ \E f \in AutomaticOnly \cup ManualOnly : SetPreference(f)

LEMMA AsksBegin == SetupTypeOK /\ Asks => SomethingBegins
<1> SUFFICES ASSUME SetupTypeOK, Asks PROVE SomethingBegins
  OBVIOUS
<1>0. /\ disk.keys \in [Interactions -> KeyFiles] /\ Existing \in Configs
      /\ disk.config \in Configs \cup {NoConfig}
  BY DiskFields, ExistingTyped DEF SetupTypeOK
<1>7. \A kind \in {"core", "mcp", "interaction", "preference", "upgrade", "uninstall"} :
        kind \in Kinds
  BY DEF Kinds
<1>1. ASSUME SetupCore PROVE SomethingBegins
  BY <1>0, <1>1, <1>7, WantedTyped DEF SetupCore, SomethingBegins
<1>2. ASSUME UninstallIntegration PROVE SomethingBegins
  BY <1>2, <1>7, NoFilesTyped DEF UninstallIntegration, SomethingBegins
<1>3. ASSUME NEW i \in Interactions, SetupMcp(i) PROVE SomethingBegins
  <2> DEFINE keys == [disk.keys EXCEPT ![i] = IF @ = "new" THEN "old" ELSE "new"]
             next == [Existing EXCEPT !.mode = "full", !.interaction = i]
  <2>1. keys \in [Interactions -> KeyFiles] /\ next \in Configs
    BY <1>0, ConfigChanges DEF KeyFiles
  <2>2. Begins("mcp", Wanted(next, disk.keys)) \/ Begins("mcp", Wanted(next, keys))
    BY <1>3 DEF SetupMcp
  <2> HIDE DEF keys, next
  <2> QED
    BY <1>0, <1>7, <2>1, <2>2, WantedTyped DEF SomethingBegins
<1>4. ASSUME NEW i \in Interactions, SetBrowserInteractionMode(i) PROVE SomethingBegins
  <2> DEFINE next == [disk.config EXCEPT !.interaction = i]
  <2>1. next \in Configs
    BY <1>0, <1>4, ConfigChanges DEF SetBrowserInteractionMode, HasCredentials, Configured
  <2>2. Begins("interaction", Wanted(next, disk.keys))
    BY <1>4 DEF SetBrowserInteractionMode
  <2> HIDE DEF next
  <2> QED
    BY <1>0, <1>7, <2>1, <2>2, WantedTyped DEF SomethingBegins
<1>5. ASSUME NEW f \in AutomaticOnly \cup ManualOnly, SetPreference(f) PROVE SomethingBegins
  <2> DEFINE flags == disk.config.flags
             toggled == IF f \in flags THEN flags \ {f} ELSE flags \cup {f}
             next == [disk.config EXCEPT !.flags = toggled]
  <2>1. disk.config \in Configs
    BY <1>0, <1>5 DEF SetPreference, Configured
  <2>2. toggled \in SUBSET (AutomaticOnly \cup ManualOnly)
    BY <2>1, ConfigChanges
  <2>3. next \in Configs
    <3> HIDE DEF toggled
    <3> QED
      BY <2>1, <2>2, ConfigChanges
  <2>4. Begins("preference", Wanted(next, disk.keys))
    BY <1>5 DEF SetPreference
  <2> HIDE DEF next
  <2> QED
    BY <1>0, <1>7, <2>3, <2>4, WantedTyped DEF SomethingBegins
<1>6. ASSUME StartupUpgrades PROVE SomethingBegins
  BY <1>0, <1>6, <1>7, WantedTyped DEF StartupUpgrades, Configured, SomethingBegins
<1> QED
  BY <1>1, <1>2, <1>3, <1>4, <1>5, <1>6 DEF Asks

LEMMA NoSetupTyped == NoSetup \in Works /\ NoSetup.at = "idle"
  BY NoFilesTyped DEF NoSetup, Works, Kinds

\* What becomes of an operation.
LEMMA WorkChanges ==
  ASSUME NEW s \in Works
  PROVE  /\ s.kind \in Kinds /\ s.want \in Disks /\ s.before \in Disks
         /\ Failing(s) \in Works /\ Failing(s).at \in {"idle", "failed"}
         /\ Failing(s).before = s.before /\ Failing(s).ran = s.ran
         /\ Failing(s).clean = s.clean
         /\ Failing(s).kind = s.kind /\ Failing(s).want = s.want
         /\ \A label \in {"idle", "preflight", "stop", "child", "start", "hook", "failed",
                          "recover"} : [s EXCEPT !.at = label] \in Works
  BY DEF Works, Failing

\* The operation that stops the runtime, and the one whose process may survive it.
LEMMA WorkMarks ==
  ASSUME NEW s \in Works
  PROVE  /\ [s EXCEPT !.moved = TRUE] \in Works
         /\ [s EXCEPT !.clean = FALSE] \in Works
         /\ [[s EXCEPT !.moved = TRUE] EXCEPT !.at = "child", !.ran = TRUE] \in Works
  BY DEF Works

\* Every step leaves an operation.
LEMMA SetupTyped ==
  ASSUME SetupTypeOK, setup \in Works, SetupNext
  PROVE  setup' \in Works
<1>1. ASSUME Asks
      PROVE  setup' \in Works
  BY <1>1, AsksBegin, BeginsTyped DEF SomethingBegins
<1>2. ASSUME Preflight
      PROVE  setup' \in Works
  BY <1>2, NoSetupTyped, WorkChanges, WorkMarks DEF Preflight, At, Aborts
<1>3. ASSUME StopRuntime
      PROVE  setup' \in Works
  <2> DEFINE begun == [setup EXCEPT !.moved = TRUE]
             working == [begun EXCEPT !.at = "child", !.ran = TRUE]
  <2>1. begun \in Works /\ working \in Works
    BY WorkMarks
  <2>2. setup' = working \/ setup' = Failing(begun)
    BY <1>3, Zenon DEF StopRuntime
  <2> HIDE DEF begun, working
  <2> QED
    BY <2>1, <2>2, WorkChanges
<1>4. ASSUME ChildWorks
      PROVE  setup' \in Works
  BY <1>4, NoSetupTyped, WorkChanges, WorkMarks DEF ChildWorks, At, Aborts
<1>5. ASSUME ChildRefused
      PROVE  setup' \in Works
  BY <1>5, NoSetupTyped, WorkChanges, WorkMarks DEF ChildRefused, At, Aborts
<1>6. ASSUME ChildExits
      PROVE  setup' \in Works
  BY <1>6, NoSetupTyped, WorkChanges, WorkMarks DEF ChildExits, At, Aborts
<1>7. ASSUME ChildFails
      PROVE  setup' \in Works
  <2> DEFINE survived == [setup EXCEPT !.clean = FALSE]
  <2>1. survived \in Works
    BY WorkMarks
  <2>2. setup' = Failing(setup) \/ setup' = Failing(survived)
    BY <1>7, Zenon DEF ChildFails, Aborts
  <2> HIDE DEF survived
  <2> QED
    BY <2>1, <2>2, WorkChanges
<1>8. ASSUME StrayWorks
      PROVE  setup' \in Works
  BY <1>8, NoSetupTyped, WorkChanges, WorkMarks DEF StrayWorks, At, Aborts
<1>9. ASSUME StartRuntime
      PROVE  setup' \in Works
  BY <1>9, NoSetupTyped, WorkChanges, WorkMarks DEF StartRuntime, Commits, At,
      Aborts
<1>10. ASSUME Hook
       PROVE  setup' \in Works
  BY <1>10, NoSetupTyped, WorkChanges, WorkMarks DEF Hook, Commits, At, Aborts
<1>11. ASSUME RestoreCheckpoint
       PROVE  setup' \in Works
  <2>1. PICK ok \in BOOLEAN :
          setup' = [setup EXCEPT !.at = "recover", !.clean = setup.clean /\ ok]
    <3> DEFINE refused == /\ setup.before.config = NoConfig /\ setup.ran
                          /\ daemon # NoConfig /\ ~Stoppable
    <3>1. \/ setup' = [setup EXCEPT !.at = "recover", !.clean = setup.clean /\ ~refused]
          \/ setup' = [setup EXCEPT !.at = "recover", !.clean = setup.clean /\ FALSE]
      BY <1>11, Zenon DEF RestoreCheckpoint
    <3>2. (~refused) \in BOOLEAN /\ FALSE \in BOOLEAN
      OBVIOUS
    <3> QED
      BY <3>1, <3>2, Zenon
  <2> DEFINE clean == setup.clean /\ ok
  <2>2. setup' = [setup EXCEPT !.at = "recover", !.clean = clean]
    BY <2>1
  <2>3. clean \in BOOLEAN
    BY DEF SetupTypeOK
  <2> HIDE DEF clean
  <2> QED
    BY <2>2, <2>3 DEF SetupTypeOK, Works
<1>12. ASSUME RestorePreviousRuntime
       PROVE  setup' \in Works
  BY <1>12, NoSetupTyped, WorkChanges, WorkMarks DEF RestorePreviousRuntime,
      Ends, At, Aborts
<1>13. ASSUME Launch
       PROVE  setup' \in Works
  BY <1>13, NoSetupTyped, WorkChanges, WorkMarks DEF Launch, At, Aborts
<1>14. ASSUME StartupStarts
       PROVE  setup' \in Works
  BY <1>14, NoSetupTyped, WorkChanges, WorkMarks DEF StartupStarts, At, Aborts
<1>15. ASSUME StartupIsReady
       PROVE  setup' \in Works
  BY <1>15, NoSetupTyped, WorkChanges, WorkMarks DEF StartupIsReady, At, Aborts
<1>16. ASSUME StartupRefused
       PROVE  setup' \in Works
  BY <1>16, NoSetupTyped, WorkChanges, WorkMarks DEF StartupRefused, At, Aborts
<1>17. ASSUME StartupCompletes
       PROVE  setup' \in Works
  BY <1>17, NoSetupTyped, WorkChanges, WorkMarks DEF StartupCompletes, At,
      Aborts
<1>18. ASSUME StartupFails
       PROVE  setup' \in Works
  BY <1>18, NoSetupTyped, WorkChanges, WorkMarks DEF StartupFails, At, Aborts
<1>19. ASSUME RequestQuit
       PROVE  setup' \in Works
  BY <1>19, NoSetupTyped, WorkChanges, WorkMarks DEF RequestQuit, At, Aborts
<1>20. ASSUME QuitStops
       PROVE  setup' \in Works
  BY <1>20, NoSetupTyped, WorkChanges, WorkMarks DEF QuitStops, At, Aborts
<1>21. ASSUME QuitExits
       PROVE  setup' \in Works
  BY <1>21, NoSetupTyped, WorkChanges, WorkMarks DEF QuitExits, LauncherEnds,
      At, Aborts
<1>22. ASSUME LauncherCrashes
       PROVE  setup' \in Works
  BY <1>22, NoSetupTyped, WorkChanges, WorkMarks DEF LauncherCrashes,
      LauncherEnds, At, Aborts
<1> QED
  BY <1>1, <1>2, <1>3, <1>4, <1>5, <1>6, <1>7, <1>8, <1>9, <1>10, <1>11, <1>12, <1>13, <1>14,
     <1>15, <1>16, <1>17, <1>18, <1>19, <1>20, <1>21, <1>22, Zenon DEF SetupNext, Asks

\* What a process of the CLI leaves in a step.
LEMMA ChildStepTyped ==
  ASSUME SetupTypeOK, NEW want \in Disks, NEW step \in ChildSteps \ {"none", "reads", "exits"}
  PROVE  /\ ChildStep(step, want).disk \in Disks /\ ChildStep(step, want).service \in BOOLEAN
         /\ ChildStep(step, want).next \in {"service", "config", "exits"}
         /\ ChildStep(step, want).disk.config \in {disk.config, want.config, NoConfig}
<1>0. disk \in Disks /\ service \in BOOLEAN
  BY DEF SetupTypeOK
<1>1. CASE step = "keys"
  <2> DEFINE written == [disk EXCEPT !.keys = want.keys]
  <2>1. ChildStep(step, want) = [next |-> "service", disk |-> written, service |-> service]
    BY <1>1 DEF ChildStep
  <2>2. written \in Disks /\ written.config = disk.config
    BY <1>0 DEF Disks
  <2> HIDE DEF written
  <2> QED
    BY <1>0, <2>1, <2>2
<1>2. CASE step = "service"
  <2>1. ChildStep(step, want) = [next |-> "config", disk |-> disk, service |-> FALSE]
    BY <1>2 DEF ChildStep
  <2> QED
    BY <1>0, <2>1
<1>3. CASE step = "config"
  <2> DEFINE written == [disk EXCEPT !.config = want.config]
  <2>1. ChildStep(step, want) = [next |-> "exits", disk |-> written, service |-> service]
    BY <1>3 DEF ChildStep
  <2>2. written \in Disks /\ written.config = want.config
    BY <1>0 DEF Disks
  <2> HIDE DEF written
  <2> QED
    BY <1>0, <2>1, <2>2
<1>4. CASE step = "deletes"
  <2>1. ChildStep(step, want) = [next |-> "exits", disk |-> NoFiles, service |-> FALSE]
    BY <1>4 DEF ChildStep
  <2> QED
    BY <2>1, NoFilesTyped DEF NoFiles
<1> QED
  BY <1>1, <1>2, <1>3, <1>4 DEF ChildSteps

\* The files change by the CLI's steps, and by the restoration of the checkpoint.
LEMMA RestoredTyped ==
  ASSUME SetupTypeOK, setup \in Works
  PROVE  Restored \in Disks /\ RestoredConfig \in Disks
<1>1. disk \in Disks /\ setup.before \in Disks
  BY WorkChanges DEF SetupTypeOK
<1>2. setup.before.config \in Configs \cup {NoConfig}
  BY <1>1, DiskFields
<1> QED
  BY <1>1, <1>2, DiskFields DEF Restored, RestoredConfig

\* Every step leaves files, and a service that is loaded or not.
LEMMA DiskTyped ==
  ASSUME SetupTypeOK, setup \in Works, stray.at # "reads", SetupNext
  PROVE  disk' \in Disks
<1>1. ASSUME Asks
      PROVE  disk' \in Disks
  BY <1>1, AsksBegin, BeginsTyped DEF SomethingBegins, SetupTypeOK
<1>2. ASSUME Preflight
      PROVE  disk' \in Disks
  BY <1>2 DEF Preflight, SetupTypeOK
<1>3. ASSUME StopRuntime
      PROVE  disk' \in Disks
  BY <1>3 DEF StopRuntime, SetupTypeOK
<1>4. ASSUME ChildWorks
      PROVE  disk' \in Disks
  <2>1. child \in ChildSteps \ {"none", "reads", "exits"} /\ setup.want \in Disks
    BY <1>4, WorkChanges DEF ChildWorks, SetupTypeOK
  <2> QED
    BY <1>4, <2>1, ChildStepTyped DEF ChildWorks
<1>5. ASSUME ChildRefused
      PROVE  disk' \in Disks
  BY <1>5 DEF ChildRefused, SetupTypeOK
<1>6. ASSUME ChildExits
      PROVE  disk' \in Disks
  BY <1>6 DEF ChildExits, SetupTypeOK
<1>7. ASSUME ChildFails
      PROVE  disk' \in Disks
  BY <1>7 DEF ChildFails, SetupTypeOK
<1>8. ASSUME StrayWorks
      PROVE  disk' \in Disks
  <2>1. CASE stray.at = "exits"
    BY <1>8, <2>1 DEF StrayWorks, SetupTypeOK
  <2>2. CASE stray.at # "exits"
    <3>1. stray.at \in ChildSteps \ {"none", "reads", "exits"} /\ stray.want \in Disks
      BY <1>8, <2>2 DEF StrayWorks, SetupTypeOK
    <3> QED
      BY <1>8, <2>2, <3>1, ChildStepTyped DEF StrayWorks
  <2> QED
    BY <2>1, <2>2
<1>9. ASSUME StartRuntime
      PROVE  disk' \in Disks
  BY <1>9 DEF StartRuntime, SetupTypeOK
<1>10. ASSUME Hook
       PROVE  disk' \in Disks
  BY <1>10 DEF Hook, SetupTypeOK
<1>11. ASSUME RestoreCheckpoint
       PROVE  disk' \in Disks
  BY <1>11, RestoredTyped DEF RestoreCheckpoint, SetupTypeOK
<1>12. ASSUME RestorePreviousRuntime
       PROVE  disk' \in Disks
  BY <1>12 DEF RestorePreviousRuntime, SetupTypeOK
<1>13. ASSUME Launch
       PROVE  disk' \in Disks
  BY <1>13 DEF Launch, SetupTypeOK
<1>14. ASSUME StartupStarts
       PROVE  disk' \in Disks
  BY <1>14 DEF StartupStarts, SetupTypeOK
<1>15. ASSUME StartupIsReady
       PROVE  disk' \in Disks
  BY <1>15 DEF StartupIsReady, SetupTypeOK
<1>16. ASSUME StartupRefused
       PROVE  disk' \in Disks
  BY <1>16 DEF StartupRefused, SetupTypeOK
<1>17. ASSUME StartupCompletes
       PROVE  disk' \in Disks
  BY <1>17 DEF StartupCompletes, SetupTypeOK
<1>18. ASSUME StartupFails
       PROVE  disk' \in Disks
  BY <1>18 DEF StartupFails, SetupTypeOK
<1>19. ASSUME RequestQuit
       PROVE  disk' \in Disks
  BY <1>19 DEF RequestQuit, SetupTypeOK
<1>20. ASSUME QuitStops
       PROVE  disk' \in Disks
  BY <1>20 DEF QuitStops, SetupTypeOK
<1>21. ASSUME QuitExits
       PROVE  disk' \in Disks
  BY <1>21 DEF QuitExits, LauncherEnds, SetupTypeOK
<1>22. ASSUME LauncherCrashes
       PROVE  disk' \in Disks
  BY <1>22 DEF LauncherCrashes, LauncherEnds, SetupTypeOK
<1> QED
  BY <1>1, <1>2, <1>3, <1>4, <1>5, <1>6, <1>7, <1>8, <1>9, <1>10, <1>11, <1>12, <1>13, <1>14,
     <1>15, <1>16, <1>17, <1>18, <1>19, <1>20, <1>21, <1>22, Zenon DEF SetupNext, Asks

\* The service is loaded or not.
LEMMA ServiceTyped ==
  ASSUME SetupTypeOK, setup \in Works, stray.at # "reads", SetupNext
  PROVE  service' \in BOOLEAN
<1>1. ASSUME Asks
      PROVE  service' \in BOOLEAN
  BY <1>1, AsksBegin, BeginsTyped DEF SomethingBegins, SetupTypeOK
<1>2. ASSUME Preflight
      PROVE  service' \in BOOLEAN
  BY <1>2 DEF Preflight, SetupTypeOK
<1>3. ASSUME StopRuntime
      PROVE  service' \in BOOLEAN
  BY <1>3 DEF StopRuntime, SetupTypeOK
<1>4. ASSUME ChildWorks
      PROVE  service' \in BOOLEAN
  <2>1. child \in ChildSteps \ {"none", "reads", "exits"} /\ setup.want \in Disks
    BY <1>4, WorkChanges DEF ChildWorks, SetupTypeOK
  <2> QED
    BY <1>4, <2>1, ChildStepTyped DEF ChildWorks
<1>5. ASSUME ChildRefused
      PROVE  service' \in BOOLEAN
  BY <1>5 DEF ChildRefused, SetupTypeOK
<1>6. ASSUME ChildExits
      PROVE  service' \in BOOLEAN
  BY <1>6 DEF ChildExits, SetupTypeOK
<1>7. ASSUME ChildFails
      PROVE  service' \in BOOLEAN
  BY <1>7 DEF ChildFails, SetupTypeOK
<1>8. ASSUME StrayWorks
      PROVE  service' \in BOOLEAN
  <2>1. CASE stray.at = "exits"
    BY <1>8, <2>1 DEF StrayWorks, SetupTypeOK
  <2>2. CASE stray.at # "exits"
    <3>1. stray.at \in ChildSteps \ {"none", "reads", "exits"} /\ stray.want \in Disks
      BY <1>8, <2>2 DEF StrayWorks, SetupTypeOK
    <3> QED
      BY <1>8, <2>2, <3>1, ChildStepTyped DEF StrayWorks
  <2> QED
    BY <2>1, <2>2
<1>9. ASSUME StartRuntime
      PROVE  service' \in BOOLEAN
  BY <1>9 DEF StartRuntime, SetupTypeOK
<1>10. ASSUME Hook
       PROVE  service' \in BOOLEAN
  BY <1>10 DEF Hook, SetupTypeOK
<1>11. ASSUME RestoreCheckpoint
       PROVE  service' \in BOOLEAN
  BY <1>11 DEF RestoreCheckpoint, SetupTypeOK
<1>12. ASSUME RestorePreviousRuntime
       PROVE  service' \in BOOLEAN
  <2> DEFINE loaded == service \/ (setup.ran /\ MayRun /\ daemon = NoConfig)
  <2>1. service' = service \/ service' = loaded
    BY <1>12, Zenon DEF RestorePreviousRuntime
  <2>2. loaded \in BOOLEAN
    OBVIOUS
  <2> QED
    BY <2>1, <2>2, Zenon DEF SetupTypeOK
<1>13. ASSUME Launch
       PROVE  service' \in BOOLEAN
  BY <1>13 DEF Launch, SetupTypeOK
<1>14. ASSUME StartupStarts
       PROVE  service' \in BOOLEAN
  BY <1>14 DEF StartupStarts, SetupTypeOK
<1>15. ASSUME StartupIsReady
       PROVE  service' \in BOOLEAN
  BY <1>15 DEF StartupIsReady, SetupTypeOK
<1>16. ASSUME StartupRefused
       PROVE  service' \in BOOLEAN
  BY <1>16 DEF StartupRefused, SetupTypeOK
<1>17. ASSUME StartupCompletes
       PROVE  service' \in BOOLEAN
  BY <1>17 DEF StartupCompletes, SetupTypeOK
<1>18. ASSUME StartupFails
       PROVE  service' \in BOOLEAN
  BY <1>18 DEF StartupFails, SetupTypeOK
<1>19. ASSUME RequestQuit
       PROVE  service' \in BOOLEAN
  BY <1>19 DEF RequestQuit, SetupTypeOK
<1>20. ASSUME QuitStops
       PROVE  service' \in BOOLEAN
  BY <1>20 DEF QuitStops, SetupTypeOK
<1>21. ASSUME QuitExits
       PROVE  service' \in BOOLEAN
  BY <1>21 DEF QuitExits, LauncherEnds, SetupTypeOK
<1>22. ASSUME LauncherCrashes
       PROVE  service' \in BOOLEAN
  BY <1>22 DEF LauncherCrashes, LauncherEnds, SetupTypeOK
<1> QED
  BY <1>1, <1>2, <1>3, <1>4, <1>5, <1>6, <1>7, <1>8, <1>9, <1>10, <1>11, <1>12, <1>13, <1>14,
     <1>15, <1>16, <1>17, <1>18, <1>19, <1>20, <1>21, <1>22, Zenon DEF SetupNext, Asks

\* The process of the operation does something that such a process does.
LEMMA ChildTyped ==
  ASSUME SetupTypeOK, setup \in Works, stray.at # "reads", SetupNext
  PROVE  child' \in ChildSteps
<1>1. ASSUME Asks
      PROVE  child' \in ChildSteps
  BY <1>1, AsksBegin, BeginsTyped DEF SomethingBegins, ChildSteps
<1>2. ASSUME Preflight
      PROVE  child' \in ChildSteps
  BY <1>2 DEF Preflight, SetupTypeOK, ChildSteps
<1>3. ASSUME StopRuntime
      PROVE  child' \in ChildSteps
  BY <1>3 DEF StopRuntime, FirstStep, SetupTypeOK, ChildSteps
<1>4. ASSUME ChildWorks
      PROVE  child' \in ChildSteps
  <2>1. child \in ChildSteps \ {"none", "reads", "exits"} /\ setup.want \in Disks
    BY <1>4, WorkChanges DEF ChildWorks, SetupTypeOK
  <2> QED
    BY <1>4, <2>1, ChildStepTyped DEF ChildWorks, ChildSteps
<1>5. ASSUME ChildRefused
      PROVE  child' \in ChildSteps
  BY <1>5 DEF ChildRefused, SetupTypeOK, ChildSteps
<1>6. ASSUME ChildExits
      PROVE  child' \in ChildSteps
  BY <1>6 DEF ChildExits, SetupTypeOK, ChildSteps
<1>7. ASSUME ChildFails
      PROVE  child' \in ChildSteps
  BY <1>7 DEF ChildFails, SetupTypeOK, ChildSteps
<1>8. ASSUME StrayWorks
      PROVE  child' \in ChildSteps
  BY <1>8 DEF StrayWorks, SetupTypeOK, ChildSteps
<1>9. ASSUME StartRuntime
      PROVE  child' \in ChildSteps
  BY <1>9 DEF StartRuntime, SetupTypeOK, ChildSteps
<1>10. ASSUME Hook
       PROVE  child' \in ChildSteps
  BY <1>10 DEF Hook, SetupTypeOK, ChildSteps
<1>11. ASSUME RestoreCheckpoint
       PROVE  child' \in ChildSteps
  BY <1>11 DEF RestoreCheckpoint, SetupTypeOK, ChildSteps
<1>12. ASSUME RestorePreviousRuntime
       PROVE  child' \in ChildSteps
  BY <1>12 DEF RestorePreviousRuntime, SetupTypeOK, ChildSteps
<1>13. ASSUME Launch
       PROVE  child' \in ChildSteps
  BY <1>13 DEF Launch, SetupTypeOK, ChildSteps
<1>14. ASSUME StartupStarts
       PROVE  child' \in ChildSteps
  BY <1>14 DEF StartupStarts, SetupTypeOK, ChildSteps
<1>15. ASSUME StartupIsReady
       PROVE  child' \in ChildSteps
  BY <1>15 DEF StartupIsReady, SetupTypeOK, ChildSteps
<1>16. ASSUME StartupRefused
       PROVE  child' \in ChildSteps
  BY <1>16 DEF StartupRefused, SetupTypeOK, ChildSteps
<1>17. ASSUME StartupCompletes
       PROVE  child' \in ChildSteps
  BY <1>17 DEF StartupCompletes, SetupTypeOK, ChildSteps
<1>18. ASSUME StartupFails
       PROVE  child' \in ChildSteps
  BY <1>18 DEF StartupFails, SetupTypeOK, ChildSteps
<1>19. ASSUME RequestQuit
       PROVE  child' \in ChildSteps
  BY <1>19 DEF RequestQuit, SetupTypeOK, ChildSteps
<1>20. ASSUME QuitStops
       PROVE  child' \in ChildSteps
  BY <1>20 DEF QuitStops, SetupTypeOK, ChildSteps
<1>21. ASSUME QuitExits
       PROVE  child' \in ChildSteps
  BY <1>21 DEF QuitExits, LauncherEnds, SetupTypeOK, ChildSteps
<1>22. ASSUME LauncherCrashes
       PROVE  child' \in ChildSteps
  BY <1>22 DEF LauncherCrashes, LauncherEnds, SetupTypeOK, ChildSteps
<1> QED
  BY <1>1, <1>2, <1>3, <1>4, <1>5, <1>6, <1>7, <1>8, <1>9, <1>10, <1>11, <1>12, <1>13, <1>14,
     <1>15, <1>16, <1>17, <1>18, <1>19, <1>20, <1>21, <1>22, Zenon DEF SetupNext, Asks

LEMMA NoChildTyped == NoChild \in Strays
  BY NoFilesTyped DEF NoChild, Strays, ChildSteps

\* A process that outlives its operation or its launcher.
LEMMA StraysMade ==
  ASSUME NEW want \in Disks
  PROVE  /\ \A step \in ChildSteps : /\ [at |-> step, want |-> want, known |-> TRUE] \in Strays
                                     /\ [at |-> step, want |-> want, known |-> FALSE] \in Strays
         /\ \A s \in Strays : [s EXCEPT !.known = FALSE] \in Strays
  BY DEF Strays

\* What an earlier operation has left is such a process.
LEMMA StrayTyped ==
  ASSUME SetupTypeOK, setup \in Works, stray.at # "reads", SetupNext
  PROVE  stray' \in Strays
<1>1. ASSUME Asks
      PROVE  stray' \in Strays
  BY <1>1, AsksBegin, BeginsTyped DEF SomethingBegins, SetupTypeOK, Strays
<1>2. ASSUME Preflight
      PROVE  stray' \in Strays
  BY <1>2 DEF Preflight, SetupTypeOK, Strays
<1>3. ASSUME StopRuntime
      PROVE  stray' \in Strays
  BY <1>3 DEF StopRuntime, SetupTypeOK, Strays
<1>4. ASSUME ChildWorks
      PROVE  stray' \in Strays
  BY <1>4 DEF ChildWorks, SetupTypeOK, Strays
<1>5. ASSUME ChildRefused
      PROVE  stray' \in Strays
  BY <1>5 DEF ChildRefused, SetupTypeOK, Strays
<1>6. ASSUME ChildExits
      PROVE  stray' \in Strays
  BY <1>6 DEF ChildExits, SetupTypeOK, Strays
<1>7. ASSUME ChildFails
      PROVE  stray' \in Strays
  <2>1. \/ stray' = stray
        \/ \E step \in ChildSteps : stray' = [at |-> step, want |-> setup.want, known |-> TRUE]
    BY <1>7 DEF ChildFails, SetupTypeOK, ChildSteps
  <2>2. stray \in Strays /\ setup.want \in Disks
    BY WorkChanges DEF SetupTypeOK, Strays
  <2> QED
    BY <2>1, <2>2, StraysMade
<1>8. ASSUME StrayWorks
      PROVE  stray' \in Strays
  <2>1. CASE stray.at = "exits"
    BY <1>8, <2>1, NoChildTyped DEF StrayWorks
  <2>2. CASE stray.at # "exits"
    <3>1. stray.at \in ChildSteps \ {"none", "reads", "exits"} /\ stray.want \in Disks
      BY <1>8, <2>2 DEF StrayWorks, SetupTypeOK
    <3> DEFINE next == ChildStep(stray.at, stray.want).next
    <3>2. next \in ChildSteps
      BY <3>1, ChildStepTyped DEF ChildSteps
    <3>3. stray' = [stray EXCEPT !.at = next]
      BY <1>8, <2>2, Zenon DEF StrayWorks
    <3> HIDE DEF next
    <3> QED
      BY <3>2, <3>3 DEF Strays, SetupTypeOK
  <2> QED
    BY <2>1, <2>2
<1>9. ASSUME StartRuntime
      PROVE  stray' \in Strays
  BY <1>9 DEF StartRuntime, SetupTypeOK, Strays
<1>10. ASSUME Hook
       PROVE  stray' \in Strays
  BY <1>10 DEF Hook, SetupTypeOK, Strays
<1>11. ASSUME RestoreCheckpoint
       PROVE  stray' \in Strays
  BY <1>11 DEF RestoreCheckpoint, SetupTypeOK, Strays
<1>12. ASSUME RestorePreviousRuntime
       PROVE  stray' \in Strays
  BY <1>12 DEF RestorePreviousRuntime, SetupTypeOK, Strays
<1>13. ASSUME Launch
       PROVE  stray' \in Strays
  BY <1>13 DEF Launch, SetupTypeOK, Strays
<1>14. ASSUME StartupStarts
       PROVE  stray' \in Strays
  BY <1>14 DEF StartupStarts, SetupTypeOK, Strays
<1>15. ASSUME StartupIsReady
       PROVE  stray' \in Strays
  BY <1>15 DEF StartupIsReady, SetupTypeOK, Strays
<1>16. ASSUME StartupRefused
       PROVE  stray' \in Strays
  BY <1>16 DEF StartupRefused, SetupTypeOK, Strays
<1>17. ASSUME StartupCompletes
       PROVE  stray' \in Strays
  BY <1>17 DEF StartupCompletes, SetupTypeOK, Strays
<1>18. ASSUME StartupFails
       PROVE  stray' \in Strays
  BY <1>18 DEF StartupFails, SetupTypeOK, Strays
<1>19. ASSUME RequestQuit
       PROVE  stray' \in Strays
  BY <1>19 DEF RequestQuit, SetupTypeOK, Strays
<1>20. ASSUME QuitStops
       PROVE  stray' \in Strays
  BY <1>20 DEF QuitStops, SetupTypeOK, Strays
<1>21. ASSUME QuitExits
       PROVE  stray' \in Strays
  <2>1. \/ stray' = [stray EXCEPT !.known = FALSE]
        \/ \E step \in ChildSteps : stray' = [at |-> step, want |-> setup.want, known |-> FALSE]
    BY <1>21 DEF QuitExits, LauncherEnds, SetupTypeOK, ChildSteps
  <2>2. stray \in Strays /\ setup.want \in Disks
    BY WorkChanges DEF SetupTypeOK, Strays
  <2> QED
    BY <2>1, <2>2, StraysMade
<1>22. ASSUME LauncherCrashes
       PROVE  stray' \in Strays
  <2>1. \/ stray' = [stray EXCEPT !.known = FALSE]
        \/ \E step \in ChildSteps : stray' = [at |-> step, want |-> setup.want, known |-> FALSE]
    BY <1>22 DEF LauncherCrashes, LauncherEnds, SetupTypeOK, ChildSteps
  <2>2. stray \in Strays /\ setup.want \in Disks
    BY WorkChanges DEF SetupTypeOK, Strays
  <2> QED
    BY <2>1, <2>2, StraysMade
<1> QED
  BY <1>1, <1>2, <1>3, <1>4, <1>5, <1>6, <1>7, <1>8, <1>9, <1>10, <1>11, <1>12, <1>13, <1>14,
     <1>15, <1>16, <1>17, <1>18, <1>19, <1>20, <1>21, <1>22, Zenon DEF SetupNext, Asks

\* A daemon runs or not, and was started by this launcher or not.
DaemonTyped == daemon \in Configs \cup {NoConfig} /\ mine \in BOOLEAN

LEMMA RuntimeTyped ==
  ASSUME SetupTypeOK
  PROVE  /\ StopsRuntime => DaemonTyped'
         /\ StartsRuntime => DaemonTyped'
         /\ StartRefused => DaemonTyped'
         /\ UNCHANGED <<daemon, mine>> => DaemonTyped'
<1>1. daemon \in Configs \cup {NoConfig} /\ disk.config \in Configs \cup {NoConfig}
  BY DiskFields DEF SetupTypeOK
<1>2. mine \in BOOLEAN
  BY DEF SetupTypeOK
<1>3. StopsRuntime => DaemonTyped'
  BY DEF StopsRuntime, DaemonTyped
<1>4. StartsRuntime => DaemonTyped'
  <2>1. StartsRuntime => daemon' \in Configs \cup {NoConfig}
    BY <1>1 DEF StartsRuntime
  <2>2. StartsRuntime => mine' \in BOOLEAN
    BY Zenon DEF StartsRuntime
  <2> QED
    BY <2>1, <2>2 DEF DaemonTyped
<1>5. StartRefused => DaemonTyped'
  <2>1. StartRefused => daemon' \in Configs \cup {NoConfig}
    BY <1>1 DEF StartRefused
  <2>2. StartRefused => mine' \in BOOLEAN
    BY <1>2, Zenon DEF StartRefused
  <2> QED
    BY <2>1, <2>2 DEF DaemonTyped
<1>6. UNCHANGED <<daemon, mine>> => DaemonTyped'
  BY <1>1, <1>2 DEF DaemonTyped
<1> QED
  BY <1>3, <1>4, <1>5, <1>6

\* The daemon after a step.
LEMMA DaemonKept ==
  ASSUME SetupTypeOK, SetupNext
  PROVE  DaemonTyped'
<1>1. ASSUME Asks
      PROVE  DaemonTyped'
  <2>1. UNCHANGED <<daemon, mine>>
    BY <1>1, AsksBegin, BeginsTyped DEF SomethingBegins
  <2> QED
    BY <2>1, RuntimeTyped
<1>2. ASSUME Preflight
      PROVE  DaemonTyped'
  BY <1>2, RuntimeTyped DEF Preflight
<1>3. ASSUME StopRuntime
      PROVE  DaemonTyped'
  <2>1. StopsRuntime \/ StartsRuntime \/ StartRefused \/ UNCHANGED <<daemon, mine>>
    BY <1>3, Zenon DEF StopRuntime
  <2> QED
    BY <2>1, RuntimeTyped
<1>4. ASSUME ChildWorks
      PROVE  DaemonTyped'
  BY <1>4, RuntimeTyped DEF ChildWorks
<1>5. ASSUME ChildRefused
      PROVE  DaemonTyped'
  BY <1>5, RuntimeTyped DEF ChildRefused
<1>6. ASSUME ChildExits
      PROVE  DaemonTyped'
  BY <1>6, RuntimeTyped DEF ChildExits
<1>7. ASSUME ChildFails
      PROVE  DaemonTyped'
  BY <1>7, RuntimeTyped DEF ChildFails
<1>8. ASSUME StrayWorks
      PROVE  DaemonTyped'
  BY <1>8, RuntimeTyped DEF StrayWorks
<1>9. ASSUME StartRuntime
      PROVE  DaemonTyped'
  <2>1. StopsRuntime \/ StartsRuntime \/ StartRefused \/ UNCHANGED <<daemon, mine>>
    BY <1>9, Zenon DEF StartRuntime
  <2> QED
    BY <2>1, RuntimeTyped
<1>10. ASSUME Hook
       PROVE  DaemonTyped'
  BY <1>10, RuntimeTyped DEF Hook
<1>11. ASSUME RestoreCheckpoint
       PROVE  DaemonTyped'
  <2>1. StopsRuntime \/ StartsRuntime \/ StartRefused \/ UNCHANGED <<daemon, mine>>
    BY <1>11, Zenon DEF RestoreCheckpoint
  <2> QED
    BY <2>1, RuntimeTyped
<1>12. ASSUME RestorePreviousRuntime
       PROVE  DaemonTyped'
  <2>1. StopsRuntime \/ StartsRuntime \/ StartRefused \/ UNCHANGED <<daemon, mine>>
    BY <1>12, Zenon DEF RestorePreviousRuntime
  <2> QED
    BY <2>1, RuntimeTyped
<1>13. ASSUME Launch
       PROVE  DaemonTyped'
  BY <1>13, RuntimeTyped DEF Launch
<1>14. ASSUME StartupStarts
       PROVE  DaemonTyped'
  BY <1>14, RuntimeTyped DEF StartupStarts
<1>15. ASSUME StartupIsReady
       PROVE  DaemonTyped'
  <2>1. StopsRuntime \/ StartsRuntime \/ StartRefused \/ UNCHANGED <<daemon, mine>>
    BY <1>15, Zenon DEF StartupIsReady
  <2> QED
    BY <2>1, RuntimeTyped
<1>16. ASSUME StartupRefused
       PROVE  DaemonTyped'
  <2>1. StopsRuntime \/ StartsRuntime \/ StartRefused \/ UNCHANGED <<daemon, mine>>
    BY <1>16, Zenon DEF StartupRefused
  <2> QED
    BY <2>1, RuntimeTyped
<1>17. ASSUME StartupCompletes
       PROVE  DaemonTyped'
  BY <1>17, RuntimeTyped DEF StartupCompletes
<1>18. ASSUME StartupFails
       PROVE  DaemonTyped'
  BY <1>18, RuntimeTyped DEF StartupFails
<1>19. ASSUME RequestQuit
       PROVE  DaemonTyped'
  BY <1>19, RuntimeTyped DEF RequestQuit
<1>20. ASSUME QuitStops
       PROVE  DaemonTyped'
  <2>1. daemon' \in {daemon, NoConfig} /\ mine' = FALSE
    BY <1>20 DEF QuitStops
  <2> QED
    BY <2>1, Zenon DEF DaemonTyped, SetupTypeOK
<1>21. ASSUME QuitExits
       PROVE  DaemonTyped'
  <2>1. daemon' = daemon /\ mine' = FALSE
    BY <1>21 DEF QuitExits, LauncherEnds
  <2> QED
    BY <2>1, Zenon DEF DaemonTyped, SetupTypeOK
<1>22. ASSUME LauncherCrashes
       PROVE  DaemonTyped'
  <2>1. daemon' = daemon /\ mine' = FALSE
    BY <1>22 DEF LauncherCrashes, LauncherEnds
  <2> QED
    BY <2>1, Zenon DEF DaemonTyped, SetupTypeOK
<1> QED
  BY <1>1, <1>2, <1>3, <1>4, <1>5, <1>6, <1>7, <1>8, <1>9, <1>10, <1>11, <1>12, <1>13, <1>14,
     <1>15, <1>16, <1>17, <1>18, <1>19, <1>20, <1>21, <1>22, Zenon DEF SetupNext, Asks

\* How far the launcher and its end have come, and what is counted.
CountsTyped ==
  /\ phase \in Phases
  /\ quit \in {"no", "stopping", "closing"}
  /\ setups \in 0 .. MaxSetups
  /\ setupFaults \in 0 .. SetupFaults

\* They stay in their ranges.
LEMMA CountsKept ==
  ASSUME SetupTypeOK, SetupNext
  PROVE  CountsTyped'
<1>1. ASSUME Asks
      PROVE  CountsTyped'
  <2>1. phase' \in Phases
    BY <1>1 DEF Asks, SetupCore, UninstallIntegration, SetupMcp, SetBrowserInteractionMode,
        SetPreference, StartupUpgrades, SetupTypeOK, Phases
  <2>2. UNCHANGED <<quit, setupFaults>> /\ setups' \in 0 .. MaxSetups
    BY <1>1, AsksBegin, BeginsTyped DEF SomethingBegins
  <2> QED
    BY <2>1, <2>2 DEF CountsTyped, SetupTypeOK
<1>2. ASSUME Preflight
      PROVE  CountsTyped'
  BY <1>2, SetupAssumption DEF Preflight, SetupTypeOK, Phases, CountsTyped, LosesRequest,
      SetupFault
<1>3. ASSUME StopRuntime
      PROVE  CountsTyped'
  BY <1>3, SetupAssumption DEF StopRuntime, SetupTypeOK, Phases, CountsTyped, LosesRequest,
      SetupFault
<1>4. ASSUME ChildWorks
      PROVE  CountsTyped'
  BY <1>4, SetupAssumption DEF ChildWorks, SetupTypeOK, Phases, CountsTyped, LosesRequest,
      SetupFault
<1>5. ASSUME ChildRefused
      PROVE  CountsTyped'
  BY <1>5, SetupAssumption DEF ChildRefused, SetupTypeOK, Phases, CountsTyped, LosesRequest,
      SetupFault
<1>6. ASSUME ChildExits
      PROVE  CountsTyped'
  BY <1>6, SetupAssumption DEF ChildExits, SetupTypeOK, Phases, CountsTyped, LosesRequest,
      SetupFault
<1>7. ASSUME ChildFails
      PROVE  CountsTyped'
  BY <1>7, SetupAssumption DEF ChildFails, SetupTypeOK, Phases, CountsTyped, LosesRequest,
      SetupFault
<1>8. ASSUME StrayWorks
      PROVE  CountsTyped'
  BY <1>8, SetupAssumption DEF StrayWorks, SetupTypeOK, Phases, CountsTyped, LosesRequest,
      SetupFault
<1>9. ASSUME StartRuntime
      PROVE  CountsTyped'
  BY <1>9, SetupAssumption DEF StartRuntime, Commits, StartRefused, SetupTypeOK, Phases,
      CountsTyped, LosesRequest, SetupFault
<1>10. ASSUME Hook
       PROVE  CountsTyped'
  BY <1>10, SetupAssumption DEF Hook, Commits, SetupTypeOK, Phases, CountsTyped, LosesRequest,
      SetupFault
<1>11. ASSUME RestoreCheckpoint
       PROVE  CountsTyped'
  BY <1>11, SetupAssumption DEF RestoreCheckpoint, SetupTypeOK, Phases, CountsTyped,
      LosesRequest, SetupFault
<1>12. ASSUME RestorePreviousRuntime
       PROVE  CountsTyped'
  BY <1>12, SetupAssumption DEF RestorePreviousRuntime, Ends, StartRefused, SetupTypeOK, Phases,
      CountsTyped, LosesRequest, SetupFault
<1>13. ASSUME Launch
       PROVE  CountsTyped'
  BY <1>13, SetupAssumption DEF Launch, SetupTypeOK, Phases, CountsTyped, LosesRequest,
      SetupFault
<1>14. ASSUME StartupStarts
       PROVE  CountsTyped'
  BY <1>14, SetupAssumption DEF StartupStarts, SetupTypeOK, Phases, CountsTyped, LosesRequest,
      SetupFault
<1>15. ASSUME StartupIsReady
       PROVE  CountsTyped'
  BY <1>15, SetupAssumption DEF StartupIsReady, SetupTypeOK, Phases, CountsTyped, LosesRequest,
      SetupFault
<1>16. ASSUME StartupRefused
       PROVE  CountsTyped'
  BY <1>16, SetupAssumption DEF StartupRefused, StartRefused, SetupTypeOK, Phases, CountsTyped,
      LosesRequest, SetupFault
<1>17. ASSUME StartupCompletes
       PROVE  CountsTyped'
  BY <1>17, SetupAssumption DEF StartupCompletes, SetupTypeOK, Phases, CountsTyped,
      LosesRequest, SetupFault
<1>18. ASSUME StartupFails
       PROVE  CountsTyped'
  BY <1>18, SetupAssumption DEF StartupFails, SetupTypeOK, Phases, CountsTyped, LosesRequest,
      SetupFault
<1>19. ASSUME RequestQuit
       PROVE  CountsTyped'
  BY <1>19, SetupAssumption DEF RequestQuit, SetupTypeOK, Phases, CountsTyped, LosesRequest,
      SetupFault
<1>20. ASSUME QuitStops
       PROVE  CountsTyped'
  BY <1>20, SetupAssumption DEF QuitStops, SetupTypeOK, Phases, CountsTyped, LosesRequest,
      SetupFault
<1>21. ASSUME QuitExits
       PROVE  CountsTyped'
  BY <1>21, SetupAssumption DEF QuitExits, LauncherEnds, SetupTypeOK, Phases, CountsTyped,
      LosesRequest, SetupFault
<1>22. ASSUME LauncherCrashes
       PROVE  CountsTyped'
  BY <1>22, SetupAssumption DEF LauncherCrashes, LauncherEnds, SetupTypeOK, Phases, CountsTyped,
      LosesRequest, SetupFault
<1> QED
  BY <1>1, <1>2, <1>3, <1>4, <1>5, <1>6, <1>7, <1>8, <1>9, <1>10, <1>11, <1>12, <1>13, <1>14,
     <1>15, <1>16, <1>17, <1>18, <1>19, <1>20, <1>21, <1>22, Zenon DEF SetupNext, Asks

\* Whether files were changed that the launcher does not know of.
LEMMA DisturbedTyped ==
  ASSUME SetupTypeOK, SetupNext
  PROVE  disturbed' \in BOOLEAN
<1>1. ASSUME Asks
      PROVE  disturbed' \in BOOLEAN
  BY <1>1, AsksBegin, BeginsTyped DEF SomethingBegins, SetupTypeOK
<1>2. ASSUME Preflight
      PROVE  disturbed' \in BOOLEAN
  BY <1>2 DEF Preflight, SetupTypeOK
<1>3. ASSUME StopRuntime
      PROVE  disturbed' \in BOOLEAN
  BY <1>3 DEF StopRuntime, SetupTypeOK
<1>4. ASSUME ChildWorks
      PROVE  disturbed' \in BOOLEAN
  BY <1>4 DEF ChildWorks, SetupTypeOK
<1>5. ASSUME ChildRefused
      PROVE  disturbed' \in BOOLEAN
  BY <1>5 DEF ChildRefused, SetupTypeOK
<1>6. ASSUME ChildExits
      PROVE  disturbed' \in BOOLEAN
  BY <1>6 DEF ChildExits, SetupTypeOK
<1>7. ASSUME ChildFails
      PROVE  disturbed' \in BOOLEAN
  BY <1>7 DEF ChildFails, SetupTypeOK
<1>8. ASSUME StrayWorks
      PROVE  disturbed' \in BOOLEAN
  <2>1. disturbed' = (disturbed \/ disk' # disk)
    BY <1>8, Zenon DEF StrayWorks
  <2> QED
    BY <2>1
<1>9. ASSUME StartRuntime
      PROVE  disturbed' \in BOOLEAN
  BY <1>9 DEF StartRuntime, SetupTypeOK
<1>10. ASSUME Hook
       PROVE  disturbed' \in BOOLEAN
  BY <1>10 DEF Hook, SetupTypeOK
<1>11. ASSUME RestoreCheckpoint
       PROVE  disturbed' \in BOOLEAN
  BY <1>11 DEF RestoreCheckpoint, SetupTypeOK
<1>12. ASSUME RestorePreviousRuntime
       PROVE  disturbed' \in BOOLEAN
  BY <1>12 DEF RestorePreviousRuntime, SetupTypeOK
<1>13. ASSUME Launch
       PROVE  disturbed' \in BOOLEAN
  BY <1>13 DEF Launch, SetupTypeOK
<1>14. ASSUME StartupStarts
       PROVE  disturbed' \in BOOLEAN
  BY <1>14 DEF StartupStarts, SetupTypeOK
<1>15. ASSUME StartupIsReady
       PROVE  disturbed' \in BOOLEAN
  BY <1>15 DEF StartupIsReady, SetupTypeOK
<1>16. ASSUME StartupRefused
       PROVE  disturbed' \in BOOLEAN
  BY <1>16 DEF StartupRefused, SetupTypeOK
<1>17. ASSUME StartupCompletes
       PROVE  disturbed' \in BOOLEAN
  BY <1>17 DEF StartupCompletes, SetupTypeOK
<1>18. ASSUME StartupFails
       PROVE  disturbed' \in BOOLEAN
  BY <1>18 DEF StartupFails, SetupTypeOK
<1>19. ASSUME RequestQuit
       PROVE  disturbed' \in BOOLEAN
  BY <1>19 DEF RequestQuit, SetupTypeOK
<1>20. ASSUME QuitStops
       PROVE  disturbed' \in BOOLEAN
  BY <1>20 DEF QuitStops, SetupTypeOK
<1>21. ASSUME QuitExits
       PROVE  disturbed' \in BOOLEAN
  BY <1>21 DEF QuitExits, LauncherEnds, SetupTypeOK
<1>22. ASSUME LauncherCrashes
       PROVE  disturbed' \in BOOLEAN
  BY <1>22 DEF LauncherCrashes, LauncherEnds, SetupTypeOK
<1> QED
  BY <1>1, <1>2, <1>3, <1>4, <1>5, <1>6, <1>7, <1>8, <1>9, <1>10, <1>11, <1>12, <1>13, <1>14,
     <1>15, <1>16, <1>17, <1>18, <1>19, <1>20, <1>21, <1>22, Zenon DEF SetupNext, Asks

\* What launcher-state.json may become.
LEMMA StatesMade ==
  ASSUME NEW s \in States, NEW i \in Interactions,
         NEW flags \in SUBSET (AutomaticOnly \cup ManualOnly)
  PROVE  /\ [interaction |-> i, flags |-> flags, complete |-> TRUE] \in States
         /\ [interaction |-> i, flags |-> flags, complete |-> FALSE] \in States
         /\ [s EXCEPT !.interaction = i] \in States
         /\ [s EXCEPT !.flags = flags] \in States
         /\ [s EXCEPT !.complete = TRUE] \in States
         /\ [s EXCEPT !.complete = FALSE] \in States
         /\ [s EXCEPT !.interaction = i, !.flags = flags] \in States
         /\ [s EXCEPT !.flags = flags, !.complete = TRUE] \in States
         /\ [s EXCEPT !.complete = TRUE, !.flags = flags] \in States
  BY DEF States

LEMMA PublishedTyped ==
  ASSUME SetupTypeOK, setup \in Works,
         setup.kind # "uninstall" => setup.want.config \in Configs /\ disk.config \in Configs
  PROVE  Published \in States
<1>1. ui \in States /\ setup.kind \in Kinds
  BY WorkChanges DEF SetupTypeOK, States
<1>2. CASE setup.kind = "uninstall"
  <2>1. Published = [interaction |-> "automatic", flags |-> {}, complete |-> FALSE]
    BY <1>2 DEF Published
  <2>2. "automatic" \in Interactions
    BY DEF Interactions
  <2> QED
    BY <1>1, <2>1, <2>2, StatesMade
<1>3. CASE setup.kind # "uninstall"
  <2> DEFINE asked == setup.want.config.interaction
             kept == disk.config.flags
  <2>1. asked \in Interactions /\ kept \in SUBSET (AutomaticOnly \cup ManualOnly)
    BY <1>3 DEF Configs
  <2>2. setup.kind \in {"core", "mcp", "interaction", "preference", "upgrade"}
    BY <1>1, <1>3 DEF Kinds
  <2>3. \/ Published = [ui EXCEPT !.complete = TRUE]
        \/ Published = [interaction |-> asked, complete |-> TRUE, flags |-> kept]
        \/ Published = [ui EXCEPT !.interaction = asked, !.flags = kept]
        \/ Published = [ui EXCEPT !.flags = kept]
        \/ Published = [ui EXCEPT !.flags = kept, !.complete = TRUE]
    BY <2>2 DEF Published
  <2> HIDE DEF asked, kept
  <2> QED
    BY <1>1, <2>1, <2>3, StatesMade
<1> QED
  BY <1>2, <1>3

\* What the launcher publishes comes from a configuration.
LEMMA UiTyped ==
  ASSUME SetupTypeOK, WantsConfiguration, setup \in Works, SetupNext
  PROVE  ui' \in States
<1>1. ASSUME Asks
      PROVE  ui' \in States
  BY <1>1, AsksBegin, BeginsTyped DEF SomethingBegins, SetupTypeOK, States
<1>2. ASSUME Preflight
      PROVE  ui' \in States
  BY <1>2 DEF Preflight, SetupTypeOK, States
<1>3. ASSUME StopRuntime
      PROVE  ui' \in States
  BY <1>3 DEF StopRuntime, SetupTypeOK, States
<1>4. ASSUME ChildWorks
      PROVE  ui' \in States
  BY <1>4 DEF ChildWorks, SetupTypeOK, States
<1>5. ASSUME ChildRefused
      PROVE  ui' \in States
  BY <1>5 DEF ChildRefused, SetupTypeOK, States
<1>6. ASSUME ChildExits
      PROVE  ui' \in States
  BY <1>6 DEF ChildExits, SetupTypeOK, States
<1>7. ASSUME ChildFails
      PROVE  ui' \in States
  BY <1>7 DEF ChildFails, SetupTypeOK, States
<1>8. ASSUME StrayWorks
      PROVE  ui' \in States
  BY <1>8 DEF StrayWorks, SetupTypeOK, States
<1>9. ASSUME StartRuntime
      PROVE  ui' \in States
  <2>1. ui' = ui \/ ui' = Published
    BY <1>9 DEF StartRuntime, Commits
  <2>2. CASE ui' = ui
    BY <2>2 DEF SetupTypeOK, States
  <2>3. CASE StartsRuntime /\ ui' = Published
    <3>1. disk.config \in Configs
      BY <2>3, DiskFields DEF StartsRuntime, Configured, SetupTypeOK
    <3> QED
      BY <1>9, <2>3, <3>1, PublishedTyped DEF StartRuntime, WantsConfiguration
  <2>4. CASE setup.kind = "uninstall" /\ ui' = Published
    BY <2>4, PublishedTyped
  <2> QED
    BY <1>9, <2>1, <2>2, <2>3, <2>4, Zenon DEF StartRuntime
<1>10. ASSUME Hook
       PROVE  ui' \in States
  <2>1. ui' = ui \/ ui' = Published
    BY <1>10 DEF Hook, Commits
  <2>2. disk.config \in Configs
    BY <1>10, DiskFields DEF Hook, WantsConfiguration, Configured, SetupTypeOK
  <2>3. Published \in States
    BY <1>10, <2>2, PublishedTyped DEF Hook, WantsConfiguration
  <2> QED
    BY <2>1, <2>3 DEF SetupTypeOK, States
<1>11. ASSUME RestoreCheckpoint
       PROVE  ui' \in States
  BY <1>11 DEF RestoreCheckpoint, SetupTypeOK, States
<1>12. ASSUME RestorePreviousRuntime
       PROVE  ui' \in States
  BY <1>12 DEF RestorePreviousRuntime, SetupTypeOK, States
<1>13. ASSUME Launch
       PROVE  ui' \in States
  <2>1. ui' = [ui EXCEPT !.interaction = ConfiguredMode]
    BY <1>13 DEF Launch
  <2>2. ui \in States /\ ui.interaction \in Interactions
    BY DEF SetupTypeOK, States
  <2>3. disk.config \in Configs \cup {NoConfig}
    BY DiskFields DEF SetupTypeOK
  <2>4. ConfiguredMode \in Interactions
    BY <2>2, <2>3 DEF ConfiguredMode, Configured, Configs
  <2>5. {} \in SUBSET (AutomaticOnly \cup ManualOnly)
    OBVIOUS
  <2> QED
    BY <2>1, <2>2, <2>4, <2>5, StatesMade
<1>14. ASSUME StartupStarts
       PROVE  ui' \in States
  <2>1. ui \in States /\ disk.config \in Configs \cup {NoConfig}
    BY DiskFields DEF SetupTypeOK, States
  <2>2. "automatic" \in Interactions
    BY DEF Interactions
  <2>3. CASE Configured
    <3>1. ui' = [ui EXCEPT !.flags = disk.config.flags]
      BY <1>14, <2>3 DEF StartupStarts
    <3>2. disk.config.flags \in SUBSET (AutomaticOnly \cup ManualOnly)
      BY <2>1, <2>3, ConfigChanges DEF Configured
    <3> QED
      BY <2>1, <2>2, <3>1, <3>2, StatesMade
  <2>4. CASE ~Configured
    BY <1>14, <2>1, <2>4 DEF StartupStarts
  <2> QED
    BY <2>3, <2>4
<1>15. ASSUME StartupIsReady
       PROVE  ui' \in States
  BY <1>15 DEF StartupIsReady, SetupTypeOK, States
<1>16. ASSUME StartupRefused
       PROVE  ui' \in States
  BY <1>16 DEF StartupRefused, SetupTypeOK, States
<1>17. ASSUME StartupCompletes
       PROVE  ui' \in States
  <2>1. ui \in States /\ disk.config \in Configs
    BY <1>17, DiskFields DEF StartupCompletes, Configured, SetupTypeOK, States
  <2>2. "automatic" \in Interactions
    BY DEF Interactions
  <2>3. disk.config.flags \in SUBSET (AutomaticOnly \cup ManualOnly)
    BY <2>1, ConfigChanges
  <2>4. ui' = [ui EXCEPT !.complete = TRUE, !.flags = disk.config.flags]
    BY <1>17 DEF StartupCompletes
  <2> QED
    BY <2>1, <2>2, <2>3, <2>4, StatesMade
<1>18. ASSUME StartupFails
       PROVE  ui' \in States
  <2>1. ui \in States /\ ui' = [ui EXCEPT !.complete = FALSE]
    BY <1>18 DEF StartupFails, SetupTypeOK, States
  <2>2. "automatic" \in Interactions /\ {} \in SUBSET (AutomaticOnly \cup ManualOnly)
    BY DEF Interactions
  <2> QED
    BY <2>1, <2>2, StatesMade
<1>19. ASSUME RequestQuit
       PROVE  ui' \in States
  BY <1>19 DEF RequestQuit, SetupTypeOK, States
<1>20. ASSUME QuitStops
       PROVE  ui' \in States
  BY <1>20 DEF QuitStops, SetupTypeOK, States
<1>21. ASSUME QuitExits
       PROVE  ui' \in States
  BY <1>21 DEF QuitExits, LauncherEnds, SetupTypeOK, States
<1>22. ASSUME LauncherCrashes
       PROVE  ui' \in States
  BY <1>22 DEF LauncherCrashes, LauncherEnds, SetupTypeOK, States
<1> QED
  BY <1>1, <1>2, <1>3, <1>4, <1>5, <1>6, <1>7, <1>8, <1>9, <1>10, <1>11, <1>12, <1>13, <1>14,
     <1>15, <1>16, <1>17, <1>18, <1>19, <1>20, <1>21, <1>22, Zenon DEF SetupNext, Asks

LEMMA SetupTypeNext == SetupIInv /\ SetupNext => SetupTypeOK'
<1> SUFFICES ASSUME SetupIInv, SetupNext PROVE SetupTypeOK'
  OBVIOUS
<1>1. SetupTypeOK /\ WantsConfiguration /\ setup \in Works /\ stray.at # "reads"
  BY DEF SetupIInv, SetupTypeOK, Works, WritesAlone
<1>2. /\ disk' \in Disks /\ service' \in BOOLEAN /\ setup' \in Works /\ child' \in ChildSteps
      /\ stray' \in Strays /\ ui' \in States /\ disturbed' \in BOOLEAN
  BY <1>1, DiskTyped, ServiceTyped, SetupTyped, ChildTyped, StrayTyped, UiTyped, DisturbedTyped
<1>3. DaemonTyped' /\ CountsTyped'
  BY <1>1, DaemonKept, CountsKept
<1> QED
  BY <1>2, <1>3, Zenon DEF SetupTypeOK, Works, Strays, States, Phases, DaemonTyped, CountsTyped

-----------------------------------------------------------------------------
\* How the fields of an operation change.
LEMMA WorkFields ==
  ASSUME NEW s \in Works, NEW clean \in BOOLEAN,
         NEW label \in {"idle", "preflight", "stop", "child", "start", "hook", "failed", "recover"}
  PROVE  /\ LET t == [s EXCEPT !.at = label]
            IN /\ t.at = label /\ t.kind = s.kind /\ t.want = s.want /\ t.before = s.before
               /\ t.ran = s.ran /\ t.clean = s.clean
         /\ LET t == [s EXCEPT !.at = "recover", !.clean = clean]
            IN /\ t.at = "recover" /\ t.kind = s.kind /\ t.want = s.want /\ t.before = s.before
               /\ t.ran = s.ran /\ t.clean = clean
         /\ LET t == [s EXCEPT !.clean = FALSE]
            IN /\ t.at = s.at /\ t.kind = s.kind /\ t.want = s.want /\ t.before = s.before
               /\ t.ran = s.ran /\ t.clean = FALSE
         /\ LET t == [s EXCEPT !.moved = TRUE]
            IN /\ t.at = s.at /\ t.kind = s.kind /\ t.want = s.want /\ t.before = s.before
               /\ t.ran = s.ran /\ t.clean = s.clean
         /\ LET t == [[s EXCEPT !.moved = TRUE] EXCEPT !.at = "child", !.ran = TRUE]
            IN /\ t.at = "child" /\ t.kind = s.kind /\ t.want = s.want /\ t.before = s.before
               /\ t.ran = TRUE /\ t.clean = s.clean
  BY DEF Works

\* An operation that fails is over, or goes on to undo what it did.
LEMMA AbortFields ==
  ASSUME setup \in Works, Aborts
  PROVE  /\ setup'.at \in {"idle", "failed"} /\ setup'.kind = setup.kind
         /\ setup'.want = setup.want /\ setup'.before = setup.before
         /\ setup'.ran = setup.ran /\ setup'.clean = setup.clean
  BY WorkChanges, Zenon DEF Aborts

LEMMA AtFields ==
  ASSUME setup \in Works, NEW label \in {"stop", "start", "hook"}, At(label)
  PROVE  /\ setup'.at = label /\ setup'.kind = setup.kind
         /\ setup'.want = setup.want /\ setup'.before = setup.before
         /\ setup'.ran = setup.ran /\ setup'.clean = setup.clean
  BY WorkFields DEF At

\* What the invariant says of the operation and the processes, without the types.
SetupParts ==
  /\ WritesForItsOperation
  /\ WritesAlone
  /\ UntouchedYet
  /\ WantsConfiguration
  /\ RolledBack

LEMMA PartsHold == SetupIInv => SetupParts /\ setup \in Works /\ stray.at # "reads"
  BY Zenon DEF SetupIInv, SetupParts, SetupTypeOK, Works, WritesAlone

\* An operation that begins is clean when no process is left of an earlier one.
LEMMA AskedParts ==
  ASSUME SetupIInv, Asks
  PROVE  SetupParts'
<1>0. SetupParts /\ setup \in Works /\ stray.at # "reads"
  BY PartsHold
<1>1. /\ setup'.at \in {"preflight", "stop"} /\ setup'.before = disk /\ ~setup'.ran
      /\ setup'.kind # "uninstall" => setup'.want.config \in Configs
      /\ (setup'.clean <=> stray.at = "none")
      /\ child' \in {"none", "reads"} /\ UNCHANGED <<disk, stray>>
  BY AsksBegin, BeginsTyped DEF SomethingBegins, SetupIInv
<1> QED
  BY <1>0, <1>1
   DEF SetupParts, WritesForItsOperation, WritesAlone, UntouchedYet, WantsConfiguration,
       RolledBack, FirstStep, MayRun, Configured

\* The preflight reads.
LEMMA PreflightParts ==
  ASSUME SetupIInv, Preflight
  PROVE  SetupParts'
<1>0. SetupParts /\ setup \in Works /\ stray.at # "reads"
  BY PartsHold
<1>1. /\ setup'.at \in {"idle", "failed", "stop"} /\ setup'.kind = setup.kind
      /\ setup'.want = setup.want /\ setup'.before = setup.before
      /\ setup'.ran = setup.ran /\ setup'.clean = setup.clean
  BY <1>0, AbortFields, AtFields DEF Preflight
<1>2. setup.at # "idle" /\ child' = "none" /\ UNCHANGED <<disk, stray>>
  BY DEF Preflight
<1> QED
  BY <1>0, <1>1, <1>2
   DEF SetupParts, WritesForItsOperation, WritesAlone, UntouchedYet, WantsConfiguration,
       RolledBack, FirstStep, MayRun, Configured

\* The runtime is stopped, and the CLI runs.
LEMMA StopParts ==
  ASSUME SetupIInv, StopRuntime
  PROVE  SetupParts'
<1>0. SetupParts /\ setup \in Works /\ stray.at # "reads"
  BY PartsHold
<1>1. \/ /\ setup'.at = "child" /\ setup'.ran /\ child' = FirstStep
         /\ UNCHANGED <<disk, stray>>
      \/ /\ setup'.at \in {"idle", "failed"} /\ setup'.ran = setup.ran
         /\ UNCHANGED <<disk, stray, child>>
  <2> DEFINE begun == [setup EXCEPT !.moved = TRUE]
             working == [begun EXCEPT !.at = "child", !.ran = TRUE]
  <2>1. \/ setup' = working /\ child' = FirstStep
        \/ setup' = Failing(begun) /\ UNCHANGED child
    BY Zenon DEF StopRuntime
  <2>2. UNCHANGED <<disk, stray>>
    BY DEF StopRuntime
  <2>3. begun \in Works /\ begun.ran = setup.ran /\ working.at = "child" /\ working.ran = TRUE
    BY <1>0, WorkMarks, WorkFields
  <2>4. Failing(begun).at \in {"idle", "failed"} /\ Failing(begun).ran = setup.ran
    BY <2>3, WorkChanges
  <2> HIDE DEF begun, working
  <2> QED
    BY <2>1, <2>2, <2>3, <2>4
<1>2. /\ setup'.kind = setup.kind /\ setup'.want = setup.want /\ setup'.before = setup.before
      /\ setup'.clean = setup.clean
  <2> DEFINE begun == [setup EXCEPT !.moved = TRUE]
             working == [begun EXCEPT !.at = "child", !.ran = TRUE]
  <2>1. setup' = working \/ setup' = Failing(begun)
    BY Zenon DEF StopRuntime
  <2>2. /\ begun \in Works /\ begun.kind = setup.kind /\ begun.want = setup.want
        /\ begun.before = setup.before /\ begun.clean = setup.clean
        /\ working.kind = setup.kind /\ working.want = setup.want
        /\ working.before = setup.before /\ working.clean = setup.clean
    BY <1>0, WorkMarks, WorkFields
  <2>3. /\ Failing(begun).kind = setup.kind /\ Failing(begun).want = setup.want
        /\ Failing(begun).before = setup.before /\ Failing(begun).clean = setup.clean
    BY <2>2, WorkChanges
  <2> HIDE DEF begun, working
  <2> QED
    BY <2>1, <2>2, <2>3
<1>3. setup.at = "stop"
  BY DEF StopRuntime
<1> QED
  BY <1>0, <1>1, <1>2, <1>3
   DEF SetupParts, WritesForItsOperation, WritesAlone, UntouchedYet, WantsConfiguration,
       RolledBack, FirstStep, MayRun, Configured

\* The CLI writes when nothing else does.
LEMMA ChildWorksParts ==
  ASSUME SetupIInv, ChildWorks
  PROVE  SetupParts'
<1>0. SetupParts /\ setup \in Works /\ stray.at # "reads"
  BY PartsHold
<1>1. child \in ChildSteps \ {"none", "reads", "exits"} /\ setup.want \in Disks
  BY <1>0, WorkChanges DEF ChildWorks, SetupIInv, SetupTypeOK
<1>2. child' \in {"service", "config", "exits"} /\ UNCHANGED <<setup, stray>>
  BY <1>1, ChildStepTyped DEF ChildWorks, SetupIInv
<1>3. setup.at = "child" /\ setup.ran /\ stray.at = "none"
  <2>1. setup.at = "child" /\ setup.ran
    BY <1>0, <1>1 DEF SetupParts, WritesForItsOperation
  <2>2. CASE child = FirstStep
    BY <2>1, <2>2 DEF ChildWorks, MayRun
  <2>3. CASE child # FirstStep
    BY <1>0, <1>1, <2>1, <2>3
       DEF SetupParts, WritesForItsOperation, WritesAlone, ChildSteps
  <2> QED
    BY <2>1, <2>2, <2>3
<1> QED
  BY <1>0, <1>2, <1>3
   DEF SetupParts, WritesForItsOperation, WritesAlone, UntouchedYet, WantsConfiguration,
       RolledBack, FirstStep, MayRun, Configured

\* A process that is refused has not written.
LEMMA ChildRefusedParts ==
  ASSUME SetupIInv, ChildRefused
  PROVE  SetupParts'
<1>0. SetupParts /\ setup \in Works /\ stray.at # "reads"
  BY PartsHold
<1>1. child' = "none" /\ setup.at = "child" /\ UNCHANGED <<disk, stray>>
  BY DEF ChildRefused
<1>2. Aborts
  BY DEF ChildRefused
<1> QED
  BY <1>0, <1>1, <1>2, AbortFields
   DEF SetupParts, WritesForItsOperation, WritesAlone, UntouchedYet, WantsConfiguration,
       RolledBack, FirstStep, MayRun, Configured

\* The process is through.
LEMMA ChildExitsParts ==
  ASSUME SetupIInv, ChildExits
  PROVE  SetupParts'
<1>0. SetupParts /\ setup \in Works /\ stray.at # "reads"
  BY PartsHold
<1>1. child = "exits" /\ child' = "none" /\ setup.at = "child" /\ UNCHANGED <<disk, stray>>
  BY DEF ChildExits
<1>2. At("start")
  BY DEF ChildExits
<1> QED
  BY <1>0, <1>1, <1>2, AtFields
   DEF SetupParts, WritesForItsOperation, WritesAlone, UntouchedYet, WantsConfiguration,
       RolledBack, FirstStep, MayRun, Configured

\* A process that fails has ended, or its operation is not clean.
LEMMA ChildFailsParts ==
  ASSUME SetupIInv, ChildFails
  PROVE  SetupParts'
<1>0. SetupParts /\ setup \in Works /\ stray.at # "reads"
  BY PartsHold
<1>1. child' = "none" /\ setup.at \in {"preflight", "child"} /\ UNCHANGED disk
  BY DEF ChildFails
<1>2. /\ setup'.at \in {"idle", "failed"} /\ setup'.kind = setup.kind
      /\ setup'.want = setup.want /\ setup'.before = setup.before /\ setup'.ran = setup.ran
      /\ \/ setup'.clean = setup.clean /\ UNCHANGED stray
         \/ setup'.clean = FALSE /\ stray'.at # "reads"
  <2> DEFINE survived == [setup EXCEPT !.clean = FALSE]
  <2>1. CASE Aborts /\ UNCHANGED stray
    BY <1>0, <2>1, AbortFields
  <2>2. CASE ~(Aborts /\ UNCHANGED stray)
    <3>1. /\ stray' = [at |-> IF child = "reads" THEN "exits" ELSE child,
                       want |-> setup.want, known |-> TRUE]
          /\ setup' = Failing(survived)
      BY <2>2, Zenon DEF ChildFails
    <3>2. /\ survived \in Works /\ survived.kind = setup.kind /\ survived.want = setup.want
          /\ survived.before = setup.before /\ survived.ran = setup.ran
          /\ survived.clean = FALSE
      BY <1>0, WorkMarks, WorkFields
    <3> HIDE DEF survived
    <3>3. stray'.at # "reads"
      BY <3>1
    <3> QED
      BY <3>1, <3>2, <3>3, WorkChanges
  <2> QED
    BY <2>1, <2>2
<1> QED
  BY <1>0, <1>1, <1>2
   DEF SetupParts, WritesForItsOperation, WritesAlone, UntouchedYet, WantsConfiguration,
       RolledBack, FirstStep, MayRun, Configured

\* A process of an earlier operation writes beside one that is not clean.
LEMMA StrayParts ==
  ASSUME SetupIInv, StrayWorks
  PROVE  SetupParts'
<1>0. SetupParts /\ setup \in Works /\ stray.at # "reads"
  BY PartsHold
<1>1. stray.at # "none" /\ UNCHANGED <<setup, child>>
  BY DEF StrayWorks
<1>2. /\ stray'.at # "reads"
      /\ disk' = disk \/ disk'.config \in {disk.config, stray.want.config, NoConfig}
  <2>1. CASE stray.at = "exits"
    BY <2>1 DEF StrayWorks, NoChild
  <2>2. CASE stray.at # "exits"
    <3>1. stray.at \in ChildSteps \ {"none", "reads", "exits"} /\ stray.want \in Disks
      BY <1>0, <2>2 DEF StrayWorks, SetupIInv, SetupTypeOK
    <3> DEFINE next == ChildStep(stray.at, stray.want).next
    <3>2. next \in {"service", "config", "exits"}
      BY <3>1, ChildStepTyped DEF SetupIInv
    <3>3. stray' = [stray EXCEPT !.at = next]
      BY <2>2, Zenon DEF StrayWorks
    <3>4. disk' = ChildStep(stray.at, stray.want).disk
      BY <2>2 DEF StrayWorks
    <3> HIDE DEF next
    <3> QED
      BY <3>1, <3>2, <3>3, <3>4, ChildStepTyped DEF SetupIInv, SetupTypeOK
  <2> QED
    BY <2>1, <2>2
<1>3. ~setup.clean \/ setup.at = "idle"
  BY <1>0, <1>1 DEF SetupParts, WritesAlone
<1>4. setup.at \notin {"start", "hook"} /\ child \notin {"service", "config", "exits"}
  BY <1>0, <1>1 DEF SetupParts, WritesAlone
<1> QED
  BY <1>0, <1>1, <1>2, <1>3, <1>4
   DEF SetupParts, WritesForItsOperation, WritesAlone, UntouchedYet, WantsConfiguration,
       RolledBack, FirstStep, MayRun, Configured

\* A runtime that is ready was started with a configuration.
LEMMA StartParts ==
  ASSUME SetupIInv, StartRuntime
  PROVE  SetupParts'
<1>0. SetupParts /\ setup \in Works /\ stray.at # "reads"
  BY PartsHold
<1>1. setup.at = "start" /\ UNCHANGED <<disk, stray, child>>
  BY DEF StartRuntime
<1>2. \/ setup'.at = "idle"
      \/ /\ setup'.at \in {"idle", "failed", "hook"} /\ setup'.kind = setup.kind
         /\ setup'.want = setup.want /\ setup'.before = setup.before
         /\ setup'.ran = setup.ran /\ setup'.clean = setup.clean
         /\ setup'.at = "hook" => Configured
  <2>1. CASE Aborts
    BY <1>0, <2>1, AbortFields
  <2>2. CASE Commits
    BY <2>2, NoSetupTyped DEF Commits
  <2>3. CASE StartsRuntime /\ At("hook")
    BY <1>0, <2>3, AtFields DEF StartsRuntime
  <2> QED
    BY <2>1, <2>2, <2>3, Zenon DEF StartRuntime
<1> QED
  BY <1>0, <1>1, <1>2
   DEF SetupParts, WritesForItsOperation, WritesAlone, UntouchedYet, WantsConfiguration,
       RolledBack, FirstStep, MayRun, Configured

\* The hook commits, or the operation fails.
LEMMA HookParts ==
  ASSUME SetupIInv, Hook
  PROVE  SetupParts'
<1>0. SetupParts /\ setup \in Works /\ stray.at # "reads"
  BY PartsHold
<1>1. setup.at = "hook" /\ UNCHANGED <<disk, stray, child>>
  BY DEF Hook
<1>2. setup'.at = "idle" \/ Aborts
  BY NoSetupTyped DEF Hook, Commits
<1> QED
  BY <1>0, <1>1, <1>2, AbortFields
   DEF SetupParts, WritesForItsOperation, WritesAlone, UntouchedYet, WantsConfiguration,
       RolledBack, FirstStep, MayRun, Configured

\* The checkpoint is put back, or the operation is not clean.
LEMMA RestoreParts ==
  ASSUME SetupIInv, RestoreCheckpoint
  PROVE  SetupParts'
<1>0. SetupParts /\ setup \in Works /\ stray.at # "reads"
  BY PartsHold
<1> DEFINE firstSetup == setup.before.config = NoConfig
           refused == /\ firstSetup /\ setup.ran /\ daemon # NoConfig /\ ~Stoppable
<1>1. setup.at = "failed" /\ UNCHANGED <<stray, child>>
  BY DEF RestoreCheckpoint
<1>2. \/ /\ disk' = (IF firstSetup /\ ~setup.ran THEN disk ELSE setup.before)
         /\ setup' = [setup EXCEPT !.at = "recover", !.clean = setup.clean /\ ~refused]
      \/ setup' = [setup EXCEPT !.at = "recover", !.clean = setup.clean /\ FALSE]
  BY Zenon DEF RestoreCheckpoint, Restored
<1>3. \E clean \in BOOLEAN :
        /\ setup' = [setup EXCEPT !.at = "recover", !.clean = clean]
        /\ clean => setup.clean
        /\ clean => disk' = (IF firstSetup /\ ~setup.ran THEN disk ELSE setup.before)
  <2>1. (setup.clean /\ ~refused) \in BOOLEAN /\ (setup.clean /\ FALSE) \in BOOLEAN
    OBVIOUS
  <2> HIDE DEF refused, firstSetup
  <2> QED
    BY <1>2, <2>1, Zenon
<1>4. PICK clean \in BOOLEAN :
        /\ setup' = [setup EXCEPT !.at = "recover", !.clean = clean]
        /\ clean => setup.clean
        /\ clean => disk' = (IF firstSetup /\ ~setup.ran THEN disk ELSE setup.before)
  BY <1>3
<1>5. /\ setup'.at = "recover" /\ setup'.kind = setup.kind /\ setup'.want = setup.want
      /\ setup'.before = setup.before /\ setup'.ran = setup.ran /\ setup'.clean = clean
  BY <1>0, <1>4, WorkFields
<1>6. clean => disk' = setup.before
  BY <1>0, <1>1, <1>4 DEF SetupParts, UntouchedYet
<1> QED
  BY <1>0, <1>1, <1>4, <1>5, <1>6
   DEF SetupParts, WritesForItsOperation, WritesAlone, UntouchedYet, WantsConfiguration,
       RolledBack, FirstStep, MayRun, Configured

\* With the previous runtime restored the operation is over.
LEMMA RecoverParts ==
  ASSUME SetupIInv, RestorePreviousRuntime
  PROVE  SetupParts'
<1>0. SetupParts /\ setup \in Works /\ stray.at # "reads"
  BY PartsHold
<1>1. setup' = NoSetup /\ setup.at = "recover" /\ UNCHANGED <<disk, stray, child>>
  BY DEF RestorePreviousRuntime, Ends
<1> QED
  BY <1>0, <1>1, NoSetupTyped
   DEF SetupParts, WritesForItsOperation, WritesAlone, UntouchedYet, WantsConfiguration,
       RolledBack, FirstStep, MayRun, Configured

\* A launcher that ends has no operation.
LEMMA EndParts ==
  ASSUME SetupIInv, LauncherEnds
  PROVE  SetupParts'
<1>0. SetupParts /\ setup \in Works /\ stray.at # "reads"
  BY PartsHold
<1>1. setup'.at = "idle" /\ child' = "none" /\ UNCHANGED disk
  BY NoSetupTyped DEF LauncherEnds
<1>2. stray'.at # "reads"
  BY <1>0 DEF LauncherEnds, SetupIInv, SetupTypeOK
<1> QED
  BY <1>0, <1>1, <1>2
   DEF SetupParts, WritesForItsOperation, WritesAlone, UntouchedYet, WantsConfiguration,
       RolledBack, FirstStep, MayRun, Configured

\* What the launcher does beside its operations.
LEMMA OtherParts ==
  ASSUME SetupIInv, UNCHANGED <<disk, setup, child, stray>>
  PROVE  SetupParts'
<1>0. SetupParts /\ setup \in Works /\ stray.at # "reads"
  BY PartsHold
<1> QED
  BY <1>0
   DEF SetupParts, WritesForItsOperation, WritesAlone, UntouchedYet, WantsConfiguration,
       RolledBack, FirstStep, MayRun, Configured

LEMMA SetupPartsNext == SetupIInv /\ SetupNext => SetupParts'
<1> SUFFICES ASSUME SetupIInv, SetupNext PROVE SetupParts'
  OBVIOUS
<1>1. CASE QuitExits \/ LauncherCrashes
  BY <1>1, EndParts DEF QuitExits, LauncherCrashes
<1>2. CASE Launch \/ StartupStarts \/ StartupIsReady \/ StartupRefused \/ StartupCompletes
  BY <1>2, OtherParts
     DEF Launch, StartupStarts, StartupIsReady, StartupRefused, StartupCompletes
<1>3. CASE StartupFails \/ RequestQuit \/ QuitStops
  BY <1>3, OtherParts DEF StartupFails, RequestQuit, QuitStops
<1> QED
  BY <1>1, <1>2, <1>3, AskedParts, PreflightParts, StopParts, ChildWorksParts,
     ChildRefusedParts, ChildExitsParts, ChildFailsParts, StrayParts, StartParts, HookParts,
     RestoreParts, RecoverParts, Zenon DEF SetupNext, Asks

LEMMA SetupStarts == SetupInit => SetupIInv
<1> SUFFICES ASSUME SetupInit PROVE SetupIInv
  OBVIOUS
<1> DEFINE old == [Fresh EXCEPT !.release = "old"]
           theirs == [Fresh EXCEPT !.mode = "full", !.tunnels = {"automatic"},
                                   !.owner = "terminal"]
           keys == [NoFiles.keys EXCEPT !["automatic"] = "old"]
<1>1. old \in Configs /\ theirs \in Configs
  <2>1. Fresh \in Configs
    BY DEF Fresh, Configs, Interactions
  <2>2. \A c \in Configs :
          /\ [c EXCEPT !.release = "old"] \in Configs
          /\ [c EXCEPT !.mode = "full", !.tunnels = {"automatic"}, !.owner = "terminal"]
             \in Configs
    BY DEF Configs, Interactions
  <2> QED
    BY <2>1, <2>2
<1>2. NoFiles.keys \in [Interactions -> KeyFiles] /\ keys \in [Interactions -> KeyFiles]
  BY DEF NoFiles, KeyFiles
<1>3. disk \in {NoFiles, [config |-> old, keys |-> NoFiles.keys],
                [config |-> theirs, keys |-> keys]}
  BY DEF SetupInit
<1> HIDE DEF old, theirs, keys
<1>4. disk \in Disks
  BY <1>1, <1>2, <1>3, NoFilesTyped DEF Disks
<1>5. setup \in Works /\ setup.at = "idle" /\ child = "none" /\ stray.at = "none"
  BY NoSetupTyped DEF SetupInit, NoChild
<1>6. ui \in States
  BY DEF SetupInit, States, Interactions
<1>7. /\ daemon \in Configs \cup {NoConfig} /\ mine \in BOOLEAN /\ disturbed \in BOOLEAN
      /\ child \in ChildSteps /\ phase \in Phases /\ quit \in {"no", "stopping", "closing"}
  BY DEF SetupInit, ChildSteps, Phases
<1>8. setups \in 0 .. MaxSetups /\ setupFaults \in 0 .. SetupFaults
  BY SetupAssumption DEF SetupInit
<1>9. service \in BOOLEAN
  BY Zenon DEF SetupInit
<1>10. stray \in Strays
  BY NoChildTyped DEF SetupInit
<1>11. SetupTypeOK
  BY <1>4, <1>5, <1>6, <1>7, <1>8, <1>9, <1>10, Zenon
     DEF SetupTypeOK, Works, Strays, States, Phases
<1> QED
  BY <1>5, <1>11
     DEF SetupIInv, WritesForItsOperation, WritesAlone, UntouchedYet, WantsConfiguration,
         RolledBack

\* At every step of setup, quit and crash, who writes the installation's files and whether
\* alone, and what the checkpoint and the files have to do with each other.
THEOREM SetupConsistent == SetupSpec => []SetupIInv
<1>1. SetupIInv /\ [SetupNext]_setupVars => SetupIInv'
  <2> SUFFICES ASSUME SetupIInv, [SetupNext]_setupVars PROVE SetupIInv'
    OBVIOUS
  <2>1. CASE SetupNext
    BY <2>1, SetupTypeNext, SetupPartsNext, Zenon DEF SetupIInv, SetupParts
  <2>2. CASE UNCHANGED setupVars
    <3>1. SetupTypeOK'
      <4>1. /\ disk' = disk /\ daemon' = daemon /\ mine' = mine /\ service' = service
            /\ setup' = setup /\ child' = child /\ stray' = stray /\ ui' = ui /\ phase' = phase
            /\ quit' = quit /\ disturbed' = disturbed /\ setups' = setups
            /\ setupFaults' = setupFaults
        BY <2>2 DEF setupVars
      <4>2. /\ disk \in Disks /\ daemon \in Configs \cup {NoConfig} /\ setup \in Works
            /\ child \in ChildSteps /\ stray \in Strays /\ ui \in States /\ phase \in Phases
            /\ quit \in {"no", "stopping", "closing"} /\ setups \in 0 .. MaxSetups
            /\ setupFaults \in 0 .. SetupFaults
        BY Zenon DEF SetupIInv, SetupTypeOK, Works, Strays, States, Phases
      <4>3. mine \in BOOLEAN /\ service \in BOOLEAN /\ disturbed \in BOOLEAN
        BY Zenon DEF SetupIInv, SetupTypeOK
      <4>4. /\ disk' \in Disks /\ daemon' \in Configs \cup {NoConfig} /\ setup' \in Works
            /\ child' \in ChildSteps /\ stray' \in Strays /\ ui' \in States /\ phase' \in Phases
            /\ quit' \in {"no", "stopping", "closing"} /\ setups' \in 0 .. MaxSetups
            /\ setupFaults' \in 0 .. SetupFaults
        BY <4>1, <4>2
      <4>5. mine' \in BOOLEAN /\ service' \in BOOLEAN /\ disturbed' \in BOOLEAN
        BY <4>1, <4>3, Zenon
      <4> QED
        BY <4>4, <4>5, Zenon DEF SetupTypeOK, Works, Strays, States, Phases
    <3>2. SetupParts'
      BY <2>2, OtherParts DEF setupVars
    <3> QED
      BY <3>1, <3>2, Zenon DEF SetupIInv, SetupParts
  <2> QED
    BY <2>1, <2>2
<1> QED
  BY <1>1, SetupStarts, PTL DEF SetupSpec

\* A setup that fails, and whose undoing nothing disturbs, leaves the configuration and the
\* keys as its checkpoint has them (runtime.cjs, the catch block of runSetup).
THEOREM FailedSetupRollsBack == SetupSpec => []RolledBack
<1>1. SetupIInv => RolledBack
  BY DEF SetupIInv
<1> QED
  BY <1>1, SetupConsistent, PTL
=============================================================================
