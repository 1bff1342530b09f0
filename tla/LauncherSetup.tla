--------------------------- MODULE LauncherSetup ---------------------------
(* The launcher's setup transactions: RuntimeHost (launcher/electron/         *)
(* runtime.cjs) changes the installation through a child process of the CLI   *)
(* (src/setup.ts, src/cli.ts), with a checkpoint of the files, a stop and a   *)
(* start of the runtime and a hook before it commits; the launcher's start,   *)
(* its handlers and its quit (main.cjs) run beside it.  Production profile.   *)
(* What the supervisor does inside a stop or a start is RuntimeSupervisor's.  *)
EXTENDS Naturals

CONSTANTS
  AutomaticOnly,    \* preferences that exist in automatic mode
  ManualOnly,       \* preferences that exist in Zero Risk mode
  Cleared,          \* preferences that Zero Risk switches off
  NoConfig,         \* no config.json; no daemon
  SetupFaults,      \* bound: children that fail, stops refused, crashes
  MaxSetups         \* bound: operations that begin

ASSUME SetupAssumption == {SetupFaults, MaxSetups} \subseteq Nat /\ Cleared \subseteq AutomaticOnly

VARIABLES
  disk,       \* config.json and the managed key file of each interaction mode
  daemon,     \* the configuration that the running daemon was started with
  mine,       \* whether this launcher started that daemon
  service,    \* whether the daemon of a terminal's installation is loaded
  setup,      \* the lifecycle operation in progress
  child,      \* what its CLI process does next
  stray,      \* a CLI process that outlived its operation or its launcher
  ui,         \* launcher-state.json
  phase,      \* how far the launcher has started
  quit,       \* how far it has quit
  disturbed,  \* history: since its start, files were changed that it does not know of
  setups,     \* operations begun
  setupFaults

setupVars ==
  <<disk, daemon, mine, service, setup, child, stray, ui, phase, quit, disturbed, setups,
    setupFaults>>

Interactions == {"automatic", "manual"}
KeyFiles == {"none", "old", "new"}
Kinds == {"core", "mcp", "interaction", "preference", "upgrade", "uninstall"}
ChildSteps == {"none", "reads", "keys", "service", "config", "deletes", "exits"}

\* A token stands for the control token and all else that only equality tells.
Configs ==
  [mode : {"browser_only", "full"}, interaction : Interactions,
   flags : SUBSET (AutomaticOnly \cup ManualOnly), tunnels : SUBSET Interactions,
   token : 0 .. 2, owner : {"launcher", "terminal"}, release : {"old", "new"}]
Disks == [config : Configs \cup {NoConfig}, keys : [Interactions -> KeyFiles]]

Fresh ==
  [mode |-> "browser_only", interaction |-> "automatic", flags |-> {}, tunnels |-> {},
   token |-> 0, owner |-> "launcher", release |-> "new"]
NoFiles == [config |-> NoConfig, keys |-> [i \in Interactions |-> "none"]]
NoSetup ==
  [kind |-> "core", at |-> "idle", want |-> NoFiles, before |-> NoFiles,
   moved |-> FALSE, ran |-> FALSE, clean |-> TRUE]
NoChild == [at |-> "none", want |-> NoFiles, known |-> FALSE]

SetupTypeOK ==
  /\ disk \in Disks
  /\ daemon \in Configs \cup {NoConfig} /\ mine \in BOOLEAN /\ service \in BOOLEAN
  /\ setup \in [kind : Kinds, at : {"idle", "preflight", "stop", "child", "start", "hook",
                                    "failed", "recover"},
                want : Disks, before : Disks, moved : BOOLEAN, ran : BOOLEAN, clean : BOOLEAN]
  /\ child \in ChildSteps
  /\ stray \in [at : ChildSteps, want : Disks, known : BOOLEAN]
  /\ ui \in [interaction : Interactions, flags : SUBSET (AutomaticOnly \cup ManualOnly),
             complete : BOOLEAN]
  /\ phase \in {"off", "auth", "upgrading", "starting", "checking", "lost", "done"}
  /\ quit \in {"no", "stopping", "closing"} /\ disturbed \in BOOLEAN
  /\ setups \in 0 .. MaxSetups /\ setupFaults \in 0 .. SetupFaults

SetupFault == setupFaults < SetupFaults /\ setupFaults' = setupFaults + 1

\* The launcher has never run here, or finds a configuration that it or a terminal's
\* installation, with its service, has left.
SetupInit ==
  /\ disk \in {NoFiles,
               [config |-> [Fresh EXCEPT !.release = "old"], keys |-> NoFiles.keys],
               [config |-> [Fresh EXCEPT !.mode = "full", !.tunnels = {"automatic"},
                                         !.owner = "terminal"],
                keys |-> [NoFiles.keys EXCEPT !["automatic"] = "old"]]}
  /\ daemon = NoConfig /\ mine = FALSE
  /\ service = (disk.config # NoConfig /\ disk.config.owner = "terminal")
  /\ setup = NoSetup /\ child = "none" /\ stray = NoChild
  /\ ui = [interaction |-> "automatic", flags |-> {}, complete |-> FALSE]
  /\ phase = "off" /\ quit = "no" /\ disturbed = FALSE
  /\ setups = 0 /\ setupFaults = 0

Configured == disk.config # NoConfig
OfTerminal(c) == c # NoConfig /\ c.owner = "terminal"

-----------------------------------------------------------------------------
(* Which operations the handlers and RuntimeHost let begin, and what for.     *)

\* currentOperation(): an operation, or a child of a former one that did not end.
NoOperation == setup.at = "idle" /\ ~(stray.at # "none" /\ stray.known)

\* mcpCredentialsConfigured
HasCredentials(i) ==
  Configured /\ disk.config.mode = "full" /\ i \in disk.config.tunnels /\ disk.keys[i] # "none"

Existing == IF Configured THEN disk.config ELSE [Fresh EXCEPT !.interaction = ui.interaction]

\* baseConfig and configureTunnel: what an operation leaves alone is carried over, the
\* release, the owner and the control token are always new.
Wanted(c, keys) ==
  [config |->
     [c EXCEPT !.token = IF Configured THEN (c.token + 1) % 3 ELSE c.token,
               !.owner = "launcher", !.release = "new",
               !.flags = IF c.interaction = "manual" THEN c.flags \ Cleared ELSE c.flags,
               !.tunnels = IF c.mode = "full" THEN c.tunnels \cup {c.interaction} ELSE {}],
   keys |-> keys]

Begins(kind, want) ==
  /\ NoOperation /\ phase # "off" /\ setups < MaxSetups /\ setups' = setups + 1
  /\ setup' = [kind |-> kind, at |-> IF kind = "uninstall" THEN "stop" ELSE "preflight",
               want |-> want, before |-> disk, moved |-> FALSE, ran |-> FALSE,
               clean |-> stray.at = "none"]
  /\ child' = IF kind = "uninstall" THEN "none" ELSE "reads"
  /\ UNCHANGED <<disk, daemon, mine, service, stray, ui, quit, disturbed, setupFaults>>

SetupCore ==
  /\ ~Configured => ui.interaction = "automatic"
  /\ Begins("core", Wanted(Existing, disk.keys)) /\ UNCHANGED phase

\* With a key that the user enters, or with the saved one.
SetupMcp(i) ==
  /\ \/ HasCredentials(i) /\ Begins("mcp", Wanted([Existing EXCEPT !.mode = "full",
                                                                   !.interaction = i], disk.keys))
     \/ Begins("mcp", Wanted([Existing EXCEPT !.mode = "full", !.interaction = i],
                             [disk.keys EXCEPT ![i] = IF @ = "new" THEN "old" ELSE "new"]))
  /\ UNCHANGED phase

SetBrowserInteractionMode(i) ==
  /\ ui.interaction # i /\ HasCredentials(i)
  /\ Begins("interaction", Wanted([disk.config EXCEPT !.interaction = i], disk.keys))
  /\ UNCHANGED phase

\* setBiggerContext and its like; connectors of a name of their own count as one of them.
SetPreference(f) ==
  /\ Configured
  /\ f \in IF disk.config.interaction = "manual" THEN ManualOnly ELSE AutomaticOnly
  /\ LET flags == disk.config.flags
         toggled == IF f \in flags THEN flags \ {f} ELSE flags \cup {f}
     IN Begins("preference", Wanted([disk.config EXCEPT !.flags = toggled], disk.keys))
  /\ UNCHANGED phase

UninstallIntegration == Begins("uninstall", NoFiles) /\ UNCHANGED phase

-----------------------------------------------------------------------------
(* The supervisor, as a transaction sees it.                                  *)

SameHealth(c, d) == c.mode = d.mode /\ c.release = d.release

\* A daemon obeys who knows its control token.
Stoppable ==
  /\ Configured /\ daemon # NoConfig
  /\ daemon.token = disk.config.token /\ SameHealth(daemon, disk.config)

\* stopForSetup
StopsRuntime ==
  /\ daemon = NoConfig \/ Stoppable
  /\ daemon' = NoConfig /\ mine' = FALSE

StartSettled == phase # "starting"
StopSettled == quit # "stopping"

\* A request of the starting launcher to the daemon does not outlive it.
LosesRequest == phase' = IF phase = "checking" THEN "lost" ELSE phase

\* startIfConfigured is ready: a daemon of this launcher is kept when its health fits,
\* one that a former launcher left is replaced.
StartsRuntime ==
  /\ Configured /\ disk.config.owner = "launcher" /\ disk.config.release = "new"
  /\ mine' = TRUE
  /\ \/ daemon = NoConfig /\ daemon' = disk.config
     \/ daemon # NoConfig /\ mine /\ SameHealth(daemon, disk.config) /\ daemon' = daemon
     \/ daemon # NoConfig /\ ~mine /\ Stoppable /\ daemon' = disk.config

\* It is not: what does not fit is stopped by the clean-up, what belongs to nobody is left.
StartRefused ==
  \/ /\ Configured /\ disk.config.owner = "launcher" /\ disk.config.release = "new"
     /\ daemon # NoConfig /\ mine /\ ~SameHealth(daemon, disk.config)
     /\ daemon' = NoConfig /\ mine' = FALSE /\ UNCHANGED setupFaults
  \/ /\ \/ ~Configured
        \/ Configured /\ (disk.config.owner = "terminal" \/ disk.config.release = "old")
        \/ daemon # NoConfig /\ ~mine /\ ~Stoppable
     /\ UNCHANGED <<daemon, mine, setups, setupFaults>>
  \/ /\ Configured /\ daemon = NoConfig /\ SetupFault /\ UNCHANGED <<daemon, mine>>

-----------------------------------------------------------------------------
(* A transaction: runSetup and uninstallIntegration.                          *)

At(label) == setup' = [setup EXCEPT !.at = label]

\* The catch block: nothing to undo before the runtime was touched.
Failing(s) == [s EXCEPT !.at = IF s.kind = "uninstall" \/ ~s.moved THEN "idle" ELSE "failed"]
Aborts == setup' = Failing(setup)

Preflight ==
  /\ setup.at = "preflight" /\ child = "reads" /\ child' = "none"
  /\ \/ At("stop") /\ UNCHANGED setupFaults
     \/ SetupFault /\ Aborts
  /\ UNCHANGED <<disk, daemon, mine, service, stray, ui, phase, quit, disturbed, setups>>

FirstStep == IF setup.kind = "uninstall" THEN "deletes" ELSE "keys"

StopRuntime ==
  /\ setup.at = "stop" /\ StartSettled /\ StopSettled
  /\ LET begun == [setup EXCEPT !.moved = TRUE]
         terminals == OfTerminal(setup.before.config)
     IN \/ /\ IF terminals THEN ~(mine /\ daemon # NoConfig) /\ UNCHANGED <<daemon, mine>>
                           ELSE StopsRuntime
           /\ setup' = [begun EXCEPT !.at = "child", !.ran = TRUE] /\ child' = FirstStep
           /\ LosesRequest /\ UNCHANGED setupFaults
        \/ /\ \/ SetupFault
              \/ /\ IF terminals THEN mine /\ daemon # NoConfig
                                 ELSE daemon # NoConfig /\ ~Stoppable
                 /\ UNCHANGED setupFaults
           /\ setup' = Failing(begun) /\ UNCHANGED <<daemon, mine, child, phase>>
  /\ UNCHANGED <<disk, service, stray, ui, quit, disturbed, setups>>

\* What the CLI does in a step, the next one, and what it leaves.
ChildStep(step, want) ==
  CASE step = "keys" -> [next |-> "service", disk |-> [disk EXCEPT !.keys = want.keys],
                         service |-> service]
    [] step = "service" -> [next |-> "config", disk |-> disk, service |-> FALSE]
    [] step = "config" -> [next |-> "exits", disk |-> [disk EXCEPT !.config = want.config],
                           service |-> service]
    [] step = "deletes" -> [next |-> "exits", disk |-> NoFiles, service |-> FALSE]

\* The lifecycle lock, and run() while the child of a former operation is alive.
MayRun == stray.at = "none"

ChildWorks ==
  /\ child \notin {"none", "reads", "exits"} /\ (child = FirstStep => MayRun)
  /\ LET done == ChildStep(child, setup.want)
     IN child' = done.next /\ disk' = done.disk /\ service' = done.service
  /\ UNCHANGED <<daemon, mine, setup, stray, ui, phase, quit, disturbed, setups, setupFaults>>

ChildRefused ==
  /\ setup.at = "child" /\ child = FirstStep /\ ~MayRun /\ child' = "none" /\ Aborts
  /\ UNCHANGED <<disk, daemon, mine, service, stray, ui, phase, quit, disturbed, setups,
                 setupFaults>>

ChildExits ==
  /\ setup.at = "child" /\ child = "exits" /\ child' = "none" /\ At("start")
  /\ UNCHANGED <<disk, daemon, mine, service, stray, ui, phase, quit, disturbed, setups,
                 setupFaults>>

\* The child fails, or is ended for its time is up, and may survive that.
ChildFails ==
  /\ child # "none" /\ setup.at \in {"preflight", "child"} /\ SetupFault /\ child' = "none"
  /\ \/ Aborts /\ UNCHANGED stray
     \/ /\ stray' = [at |-> IF child = "reads" THEN "exits" ELSE child,
                     want |-> setup.want, known |-> TRUE]
        /\ setup' = Failing([setup EXCEPT !.clean = FALSE])
  /\ UNCHANGED <<disk, daemon, mine, service, ui, phase, quit, disturbed, setups>>

StrayWorks ==
  /\ stray.at # "none"
  /\ IF stray.at = "exits"
     THEN stray' = NoChild /\ UNCHANGED <<disk, service>>
     ELSE LET done == ChildStep(stray.at, stray.want)
          IN /\ stray' = [stray EXCEPT !.at = done.next]
             /\ disk' = done.disk /\ service' = done.service
  /\ disturbed' = (disturbed \/ disk' # disk)
  /\ UNCHANGED <<daemon, mine, setup, child, ui, phase, quit, setups, setupFaults>>

\* What launcher-state.json says once the operation has succeeded.
Published ==
  LET c == disk.config
  IN CASE setup.kind = "uninstall" ->
            [interaction |-> "automatic", flags |-> {}, complete |-> FALSE]
       [] setup.kind = "core" -> [ui EXCEPT !.complete = TRUE]
       [] setup.kind = "mcp" ->
            [interaction |-> setup.want.config.interaction, complete |-> TRUE, flags |-> c.flags]
       [] setup.kind = "interaction" ->
            [ui EXCEPT !.interaction = setup.want.config.interaction, !.flags = c.flags]
       [] setup.kind = "preference" -> [ui EXCEPT !.flags = c.flags]
       [] setup.kind = "upgrade" -> [ui EXCEPT !.flags = c.flags, !.complete = TRUE]

Commits ==
  /\ setup' = NoSetup /\ ui' = Published
  /\ phase' = IF setup.kind = "upgrade" THEN "auth" ELSE phase

StartRuntime ==
  /\ setup.at = "start" /\ StopSettled
  /\ \/ /\ setup.kind = "uninstall"
        /\ IF Configured THEN Aborts /\ UNCHANGED <<ui, phase>> ELSE Commits
        /\ UNCHANGED <<daemon, mine, setups, setupFaults>>
     \/ /\ setup.kind # "uninstall" /\ StartsRuntime /\ UNCHANGED setupFaults
        /\ IF setup.kind = "upgrade" THEN Commits ELSE At("hook") /\ UNCHANGED <<ui, phase>>
     \/ setup.kind # "uninstall" /\ StartRefused /\ Aborts /\ UNCHANGED <<ui, phase>>
  /\ UNCHANGED <<disk, service, child, stray, quit, disturbed, setups>>

\* afterRuntimeReady: the browser's part of a change of mode, and the daemon's health.
Hook ==
  /\ setup.at = "hook"
  /\ \/ Commits /\ UNCHANGED setupFaults
     \/ SetupFault /\ Aborts /\ UNCHANGED <<ui, phase>>
  /\ UNCHANGED <<disk, daemon, mine, service, child, stray, quit, disturbed, setups>>

\* The files of the checkpoint are put back; the mutant forgets the keys.
RestoredConfig == [disk EXCEPT !.config = setup.before.config]
Restored == setup.before

\* rollbackFirstSetup stops what the setup has started; a configured installation only
\* gets its files back.  Either may fail; what cannot be restored is reported.
RestoreCheckpoint ==
  /\ setup.at = "failed"
  /\ LET firstSetup == setup.before.config = NoConfig
         stops == firstSetup /\ setup.ran
         refused == stops /\ daemon # NoConfig /\ ~Stoppable
         Recovers(ok) == setup' = [setup EXCEPT !.at = "recover", !.clean = setup.clean /\ ok]
     IN /\ stops => StartSettled /\ StopSettled
        /\ IF stops /\ ~refused THEN StopsRuntime /\ LosesRequest
                               ELSE UNCHANGED <<daemon, mine, phase>>
        /\ \/ /\ disk' = (IF firstSetup /\ ~setup.ran THEN disk ELSE Restored)
              /\ Recovers(~refused) /\ UNCHANGED <<disturbed, setupFaults>>
           \/ /\ SetupFault /\ disk' \in {disk, RestoredConfig} /\ disturbed' = TRUE
              /\ Recovers(FALSE)
  /\ UNCHANGED <<service, child, stray, ui, quit, setups>>

Ends ==
  /\ setup' = NoSetup
  /\ phase' = IF setup.kind = "upgrade" THEN "lost" ELSE phase

\* restorePreviousRuntime; whatever goes wrong is added to the message.
RestorePreviousRuntime ==
  /\ setup.at = "recover" /\ StopSettled /\ Ends
  /\ LET c == setup.before.config
     IN \/ disk.config # c /\ UNCHANGED <<daemon, mine, service, setups, setupFaults>>
        \/ /\ disk.config = c /\ OfTerminal(c)
           /\ service' = (service \/ (setup.ran /\ MayRun /\ daemon = NoConfig))
           /\ UNCHANGED <<daemon, mine, setups, setupFaults>>
        \/ /\ disk.config = c /\ ~OfTerminal(c)
           /\ \/ StartsRuntime /\ UNCHANGED setupFaults
              \/ StartRefused
           /\ UNCHANGED service
  /\ UNCHANGED <<disk, child, stray, ui, quit, disturbed, setups>>

-----------------------------------------------------------------------------
(* The launcher: start, quit and death.                                       *)

\* The launcher believes in the interaction mode of the configuration from the first.
ConfiguredMode == IF Configured THEN disk.config.interaction ELSE ui.interaction

Launch ==
  /\ phase = "off" /\ phase' = "auth" /\ quit' = "no" /\ disturbed' = FALSE
  /\ ui' = [ui EXCEPT !.interaction = ConfiguredMode]
  /\ UNCHANGED <<disk, daemon, mine, service, setup, child, stray, setups, setupFaults>>

\* upgradeManagedRuntime refuses beside another operation.
StartupUpgrades ==
  /\ phase = "auth" /\ Configured /\ disk.config.owner = "launcher" /\ disk.config.release = "old"
  /\ phase' = "upgrading"
  /\ Begins("upgrade", Wanted(disk.config, disk.keys))

StartupStarts ==
  /\ phase = "auth" /\ NoOperation
  /\ ~(Configured /\ disk.config.owner = "launcher" /\ disk.config.release = "old")
  /\ phase' = "starting"
  /\ ui' = IF Configured THEN [ui EXCEPT !.flags = disk.config.flags] ELSE ui
  /\ UNCHANGED <<disk, daemon, mine, service, setup, child, stray, quit, disturbed, setups,
                 setupFaults>>

StartupIsReady ==
  /\ phase = "starting" /\ phase' = "checking" /\ StartsRuntime
  /\ UNCHANGED <<disk, service, setup, child, stray, ui, quit, disturbed, setups, setupFaults>>

StartupRefused ==
  /\ phase = "starting" /\ phase' = "lost" /\ StartRefused
  /\ UNCHANGED <<disk, service, setup, child, stray, ui, quit, disturbed, setups>>

\* completeStartupReadyState
StartupCompletes ==
  /\ phase = "checking" /\ Configured /\ daemon # NoConfig /\ phase' = "done"
  /\ ui' = [ui EXCEPT !.complete = TRUE, !.flags = disk.config.flags]
  /\ UNCHANGED <<disk, daemon, mine, service, setup, child, stray, quit, disturbed, setups,
                 setupFaults>>

StartupFails ==
  /\ phase = "lost" \/ (phase = "auth" /\ ~NoOperation)
  /\ phase' = "done" /\ ui' = [ui EXCEPT !.complete = FALSE]
  /\ UNCHANGED <<disk, daemon, mine, service, setup, child, stray, quit, disturbed, setups,
                 setupFaults>>

\* requestQuit looks for an operation once.
RequestQuit ==
  /\ phase # "off" /\ quit = "no" /\ NoOperation /\ quit' = "stopping"
  /\ UNCHANGED <<disk, daemon, mine, service, setup, child, stray, ui, phase, disturbed,
                 setups, setupFaults>>

\* The forced stop ends this launcher's daemon whatever it answers.
QuitStops ==
  /\ quit = "stopping" /\ StartSettled /\ quit' = "closing"
  /\ IF mine \/ Stoppable THEN daemon' = NoConfig ELSE UNCHANGED daemon
  /\ mine' = FALSE /\ LosesRequest
  /\ UNCHANGED <<disk, service, setup, child, stray, ui, disturbed, setups, setupFaults>>

\* Children are detached: they outlive the launcher, and the next one does not know them.
LauncherEnds ==
  /\ phase' = "off" /\ quit' = "no" /\ mine' = FALSE
  /\ setup' = NoSetup /\ child' = "none"
  /\ stray' = IF child = "none" THEN [stray EXCEPT !.known = FALSE]
              ELSE [at |-> IF child = "reads" THEN "exits" ELSE child,
                    want |-> setup.want, known |-> FALSE]
  /\ UNCHANGED <<disk, daemon, service, ui, disturbed, setups>>

QuitExits == quit = "closing" /\ LauncherEnds /\ UNCHANGED setupFaults

LauncherCrashes == phase # "off" /\ SetupFault /\ LauncherEnds

SetupNext ==
  \/ SetupCore \/ UninstallIntegration
  \/ \E i \in Interactions : SetupMcp(i) \/ SetBrowserInteractionMode(i)
  \/ \E f \in AutomaticOnly \cup ManualOnly : SetPreference(f)
  \/ Preflight \/ StopRuntime \/ ChildWorks \/ ChildRefused \/ ChildExits \/ ChildFails
  \/ StrayWorks \/ StartRuntime \/ Hook \/ RestoreCheckpoint \/ RestorePreviousRuntime
  \/ Launch \/ StartupUpgrades \/ StartupStarts \/ StartupIsReady \/ StartupRefused
  \/ StartupCompletes \/ StartupFails
  \/ RequestQuit \/ QuitStops \/ QuitExits \/ LauncherCrashes

SetupSpec == SetupInit /\ [][SetupNext]_setupVars

-----------------------------------------------------------------------------
\* A transaction that fails, and whose undoing does not fail in its turn, leaves the
\* configuration and the keys as it found them (runSetup's catch block).
RolledBack ==
  (setup.at = "recover" /\ setup.clean) => disk = setup.before

\* "restoring the previous launcher runtime": the daemon that runs between operations was
\* started with the configuration on disk.
RunsWhatIsSaved ==
  (setup.at = "idle" /\ phase = "done" /\ mine /\ daemon # NoConfig /\ ~disturbed)
  => daemon = disk.config
=============================================================================
