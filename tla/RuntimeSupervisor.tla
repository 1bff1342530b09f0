-------------------------- MODULE RuntimeSupervisor --------------------------
(* The launcher's supervisor of the two processes it owns, the Responses      *)
(* daemon and the tunnel (launcher/electron/runtime-supervisor.cjs): starts,  *)
(* stops with drain and compensation, forced stops, automatic recovery within *)
(* a budget of restarts, the tunnel's monitor, adoption and the recovery of   *)
(* what a launcher that died has left.  Full mode, production profile.        *)
(*                                                                            *)
(* The daemon is a child process with an exit handler.  The tunnel is run by  *)
(* the native tunnel manager under an alias and is only known by asking.  An  *)
(* operation is a task that awaits between its steps: one start and one stop  *)
(* at a time, and any number of recoveries.                                   *)
EXTENDS Naturals, FiniteSets

CONSTANTS
  Recoveries,       \* slots for the recoveries in progress
  MaxSpawns,        \* bound: daemons that are started
  MaxFaults,        \* bound: commands that fail, processes that end, crashes
  MaxRestarts,      \* MAX_RESTARTS_PER_WINDOW
  Threshold         \* TUNNEL_MONITOR_FAILURE_THRESHOLD

ASSUME SupervisorAssumption ==
  /\ {MaxSpawns, MaxFaults, MaxRestarts} \subseteq Nat /\ Threshold \in Nat \ {0}
  /\ Recoveries \cap {"start", "stop"} = {}

VARIABLES
  sup,        \* the fields of the RuntimeSupervisor that its tasks share
  children,   \* the daemon processes, by the order in which they were started
  alias,      \* the tunnel: "broken" is ready for the inventory, not for MCP
  busy,       \* the daemon has a turn
  saved,      \* launcher-supervisor.json
  task,       \* where each operation is, and its local variables
  left,       \* the daemons that a launcher left when it died
  faults

supVars == <<sup, children, alias, busy, saved, task, left, faults>>

Names == {"daemon", "tunnel"}
Tasks == Recoveries \cup {"start", "stop"}
Spawned == 1 .. MaxSpawns
NoPid == 0

Alive == {c \in Spawned : children[c] \in {"booting", "accepting", "draining"}}
Serving == {c \in Spawned : children[c] \in {"accepting", "draining"}}
InventoryReady == alias \in {"ready", "broken"}

Resting ==
  [at |-> "idle", of |-> "daemon", child |-> NoPid, spawned |-> FALSE,
   drained |-> FALSE, down |-> FALSE, failed |-> FALSE, quit |-> FALSE]

NoFile == [status |-> "none", daemon |-> NoPid, tunnel |-> FALSE, live |-> FALSE]

Saves(status, s) == 
  saved' = [status |-> status, daemon |-> s.daemon, tunnel |-> s.tunnel, live |-> TRUE]

Goes(t, label) == task' = [task EXCEPT ![t].at = label]
Rests(t) == task' = [task EXCEPT ![t] = Resting]

\* A command, a request or a wait fails.
Fault == faults < MaxFaults /\ faults' = faults + 1

SupInit ==
  /\ sup = [daemon |-> NoPid, tunnel |-> FALSE, restartable |-> {}, stopping |-> FALSE,
            timers |-> {}, attempts |-> [n \in Names |-> 0],
            monitor |-> FALSE, failures |-> 0, probe |-> "none"]
  /\ children = [c \in Spawned |-> "unborn"] /\ alias = "stopped" /\ busy = FALSE
  /\ saved = NoFile /\ task = [t \in Tasks |-> Resting]
  /\ left = {} /\ faults = 0

-----------------------------------------------------------------------------
(* The monitor and the recovery's timers.                                    *)

\* A probe in flight belongs to the generation in which it was begun.
Unwatched(s) ==
  [s EXCEPT !.monitor = FALSE, !.failures = 0, !.probe = IF @ = "none" THEN @ ELSE "stale"]
Watched(s) == [Unwatched(s) EXCEPT !.monitor = TRUE]

\* scheduleRecovery: the supervisor that results, and whether its budget is exhausted.
Exhausted(s, name) ==
  ~s.stopping /\ name \notin s.timers /\ s.attempts[name] >= MaxRestarts
Scheduled(s, name) ==
  IF s.stopping \/ name \in s.timers THEN s
  ELSE [s EXCEPT !.attempts[name] = IF Exhausted(s, name) THEN @ ELSE @ + 1,
                 !.timers = IF Exhausted(s, name) THEN @ ELSE @ \cup {name}]

SchedulesAfter(s, name, status) ==
  /\ sup' = Scheduled(s, name)
  /\ Saves(IF Exhausted(s, name) THEN "failed" ELSE status, s)

\* The restarts of the last minute are forgotten.
WindowPasses(name) ==
  /\ sup.attempts[name] > 0
  /\ sup' = [sup EXCEPT !.attempts[name] = 0]
  /\ UNCHANGED <<children, alias, busy, saved, task, faults>>

\* recover returns at once while the supervisor stops.
TimerFires(name, r) ==
  /\ name \in sup.timers /\ task[r].at = "idle"
  /\ sup' = [sup EXCEPT !.timers = @ \ {name}]
  /\ IF sup.stopping THEN UNCHANGED task
     ELSE task' = [task EXCEPT ![r].of = name,
                               ![r].at = IF name = "tunnel" THEN "inspect" ELSE "daemon"]
  /\ UNCHANGED <<children, alias, busy, saved, faults>>

MonitorProbes ==
  /\ sup.monitor /\ sup.probe = "none" /\ ~sup.stopping /\ "tunnel" \notin sup.timers
  /\ sup' = [sup EXCEPT !.probe = "current"]
  /\ UNCHANGED <<children, alias, busy, saved, task, faults>>

ProbeIgnored ==
  /\ sup.probe # "none"
  /\ sup' = [sup EXCEPT !.probe = "none"]
  /\ UNCHANGED <<children, alias, busy, saved, task, faults>>

ProbeFindsReady ==
  /\ sup.probe = "current" /\ ~sup.stopping /\ alias = "ready"
  /\ sup' = [sup EXCEPT !.probe = "none", !.failures = 0, !.tunnel = TRUE]
  /\ IF sup.tunnel THEN UNCHANGED saved ELSE Saves("ready", sup')
  /\ UNCHANGED <<children, alias, busy, task, faults>>

\* A fatal failure counts for all of the threshold.
ProbeFindsLoss ==
  /\ sup.probe = "current" /\ ~sup.stopping /\ alias # "ready"
  /\ LET seen == [sup EXCEPT !.probe = "none"]
     IN IF alias # "broken" /\ sup.failures + 1 < Threshold
        THEN sup' = [seen EXCEPT !.failures = @ + 1] /\ UNCHANGED saved
        ELSE SchedulesAfter([Unwatched(seen) EXCEPT !.tunnel = FALSE], "tunnel", "degraded")
  /\ UNCHANGED <<children, alias, busy, task, faults>>

-----------------------------------------------------------------------------
(* The processes.                                                            *)

DaemonListens(c) ==
  /\ children[c] = "booting" /\ Serving = {}
  /\ children' = [children EXCEPT ![c] = "accepting"]
  /\ UNCHANGED <<sup, alias, busy, saved, task, faults>>

\* What spawnChild's exit handler does, unless the launcher that spawned it has died.
HandlesExit(c) ==
  LET without == [sup EXCEPT !.daemon = IF @ = c THEN NoPid ELSE @, !.restartable = @ \ {c}]
  IN IF sup.stopping THEN sup' = without /\ Saves("stopping", without)
     ELSE IF c \in sup.restartable THEN SchedulesAfter(without, "daemon", "degraded")
     ELSE sup' = without /\ Saves("degraded", without)

DaemonExits(c) ==
  /\ c \in Alive /\ Fault
  /\ children' = [children EXCEPT ![c] = "gone"] /\ busy' = FALSE
  /\ IF c \in left THEN UNCHANGED <<sup, saved>> ELSE HandlesExit(c)
  /\ UNCHANGED <<alias, task>>

TurnArrives ==
  /\ ~busy /\ \E c \in Spawned : children[c] = "accepting"
  /\ busy' = TRUE
  /\ UNCHANGED <<sup, children, alias, saved, task, faults>>

TurnSettles ==
  /\ busy /\ busy' = FALSE
  /\ UNCHANGED <<sup, children, alias, saved, task, faults>>

TunnelIsReady ==
  /\ alias = "starting" /\ alias' = "ready"
  /\ UNCHANGED <<sup, children, busy, saved, task, faults>>

TunnelFails ==
  /\ alias # "stopped" /\ Fault
  /\ alias' \in {"stopped", "broken"} \ {alias}
  /\ UNCHANGED <<sup, children, busy, saved, task>>

\* The launcher dies; what it started lives on, and so does its file.
LauncherDies ==
  /\ Fault
  /\ sup' = [sup EXCEPT !.daemon = NoPid, !.tunnel = FALSE, !.restartable = {}, !.stopping = FALSE,
                        !.timers = {}, !.attempts = [n \in Names |-> 0],
                        !.monitor = FALSE, !.failures = 0, !.probe = "none"]
  /\ task' = [t \in Tasks |-> Resting] /\ saved' = [saved EXCEPT !.live = FALSE]
  /\ left' = left \cup Alive
  /\ UNCHANGED <<children, alias, busy>>

-----------------------------------------------------------------------------
(* startTunnel and startDaemon, which a start, a stop's compensation and the *)
(* recoveries have in common.                                                *)

\* The operation fails with the supervisor s: a start cleans up, a stop has compensated in
\* part, a recovery gives up.
Fails(t, s) ==
  /\ sup' = IF t = "start" THEN [s EXCEPT !.stopping = TRUE] ELSE s
  /\ task' = [task EXCEPT ![t].at = CASE t = "start" -> "clean_daemon"
                                      [] t \notin {"start", "stop"} -> "give_up"
                                      [] t = "stop" /\ @ = "undo" -> "restore"
                                      [] OTHER -> "verify",
                          ![t].failed = TRUE]

TunnelIsUp(t) ==
  Goes(t, CASE t = "start" -> "daemon" [] t = "stop" -> "restore" [] OTHER -> "recheck")

\* A recovery of the tunnel replaces a runtime that looks ready.
Forced(t) == t \in Recoveries

Inspect(t) ==
  /\ task[t].at = "inspect"
  /\ \/ /\ UNCHANGED faults
        /\ LET adopts == InventoryReady /\ ~Forced(t)
           IN /\ sup' = [sup EXCEPT !.tunnel = adopts]
              /\ Goes(t, IF adopts THEN "probe" ELSE "clear")
     \/ Fault /\ UNCHANGED sup /\ Goes(t, "undo")
  /\ UNCHANGED <<children, alias, busy, saved>>

Clear(t) ==
  /\ task[t].at = "clear"
  /\ \/ UNCHANGED faults /\ alias' = "stopped" /\ Goes(t, "connect")
     \/ Fault /\ UNCHANGED alias /\ Goes(t, "undo")
  /\ UNCHANGED <<sup, children, busy, saved>>

Connect(t) ==
  /\ task[t].at = "connect"
  /\ \/ /\ UNCHANGED faults /\ Goes(t, "await")
        /\ alias' = IF InventoryReady THEN alias ELSE "starting"
     \/ Fault /\ alias' \in {alias, "starting"} /\ Goes(t, "undo")
  /\ UNCHANGED <<sup, children, busy, saved>>

\* The identity of the managed process is taken as soon as it is reported.
Await(t) ==
  /\ task[t].at = "await"
  /\ \/ /\ alias # "stopped" /\ UNCHANGED faults
        /\ sup' = [sup EXCEPT !.tunnel = TRUE]
        /\ IF InventoryReady THEN Goes(t, "probe") ELSE UNCHANGED task
     \/ alias = "stopped" /\ UNCHANGED <<faults, sup>> /\ Goes(t, "undo")
     \/ Fault /\ UNCHANGED sup /\ Goes(t, "undo")
  /\ UNCHANGED <<children, alias, busy, saved>>

\* waitForTunnelMcpTransport; the monitor starts with the task's next step.
Probe(t) ==
  /\ task[t].at = "probe"
  /\ \/ alias = "ready" /\ UNCHANGED faults /\ sup' = Watched(sup) /\ TunnelIsUp(t)
     \/ alias # "ready" /\ UNCHANGED <<faults, sup>> /\ Goes(t, "undo")
     \/ Fault /\ UNCHANGED sup /\ Goes(t, "undo")
  /\ UNCHANGED <<children, alias, busy, saved>>

\* The cleanup of a tunnel that did not start.
Undo(t) ==
  /\ task[t].at = "undo"
  /\ \/ /\ UNCHANGED faults /\ alias' = "stopped"
        /\ Fails(t, [Unwatched(sup) EXCEPT !.tunnel = FALSE])
     \/ Fault /\ UNCHANGED alias /\ Fails(t, Unwatched(sup))
  /\ UNCHANGED <<children, busy, saved>>

Unborn == {c \in Spawned : children[c] = "unborn"}

\* An existing child is resumed if it drains, otherwise one is spawned.
StartDaemon(t) ==
  /\ task[t].at = "daemon"
  /\ \/ /\ sup.daemon # NoPid /\ UNCHANGED <<faults, sup, saved>>
        /\ task' = [task EXCEPT ![t].at = "health", ![t].child = sup.daemon, ![t].spawned = FALSE]
        /\ children' = [children EXCEPT ![sup.daemon] = IF @ = "draining" THEN "accepting" ELSE @]
     \/ sup.daemon # NoPid /\ Fault /\ UNCHANGED <<children, saved>> /\ Fails(t, sup)
     \/ /\ sup.daemon = NoPid /\ UNCHANGED faults
        /\ \E c \in Unborn :
             /\ \A d \in Unborn : c <= d
             /\ children' = [children EXCEPT ![c] = "booting"]
             /\ sup' = [sup EXCEPT !.daemon = c] /\ Saves("starting", sup')
             /\ task' = [task EXCEPT ![t].at = "health", ![t].child = c, ![t].spawned = TRUE]
  /\ UNCHANGED <<alias, busy>>

Accepting(c) == c # NoPid /\ children[c] = "accepting"

DaemonIsUp(t) ==
  LET confirmed == [sup EXCEPT !.restartable = @ \cup {sup.daemon}]
  IN IF t = "start"
     THEN /\ sup' = [confirmed EXCEPT !.attempts = [n \in Names |-> 0]]
          /\ Saves("ready", sup') /\ Rests(t)
     ELSE /\ sup' = confirmed /\ UNCHANGED saved
          /\ IF t = "stop" THEN Goes(t, "verify")
             ELSE Goes(t, IF sup.tunnel THEN "recheck" ELSE "give_up")

DaemonIsDown(t) ==
  IF task[t].spawned THEN Goes(t, "kill") /\ UNCHANGED sup ELSE Fails(t, sup)

\* waitForProxy looks at the supervisor's daemon of the moment, and then for the own child.
Health(t) ==
  /\ task[t].at = "health"
  /\ \/ Accepting(sup.daemon) /\ sup.daemon = task[t].child /\ UNCHANGED faults /\ DaemonIsUp(t)
     \/ /\ sup.daemon = NoPid \/ (Accepting(sup.daemon) /\ sup.daemon # task[t].child)
        /\ UNCHANGED <<faults, saved>> /\ DaemonIsDown(t)
     \/ Fault /\ UNCHANGED saved /\ DaemonIsDown(t)
  /\ UNCHANGED <<children, alias, busy>>

\* The daemon ends as it was told to; its exit handler sees that the exit is expected.
Dismissed(s) == [s EXCEPT !.restartable = @ \ {s.daemon}, !.daemon = NoPid]
DaemonEnds ==
  /\ children' = [children EXCEPT ![sup.daemon] = "gone"] /\ busy' = FALSE
  /\ Saves("stopping", Dismissed(sup))

\* stopChild stops the daemon that the supervisor holds now.
Kill(t) ==
  /\ task[t].at = "kill"
  /\ \/ sup.daemon = NoPid /\ UNCHANGED <<faults, children, busy, saved>> /\ Fails(t, sup)
     \/ sup.daemon # NoPid /\ UNCHANGED faults /\ DaemonEnds /\ Fails(t, Dismissed(sup))
     \/ sup.daemon # NoPid /\ Fault /\ UNCHANGED <<children, busy, saved>> /\ Fails(t, sup)
  /\ UNCHANGED <<alias>>

-----------------------------------------------------------------------------
(* The rest of a recovery.                                                   *)

Recheck(r) ==
  /\ task[r].at = "recheck"
  /\ \/ sup.daemon = NoPid /\ UNCHANGED faults /\ Goes(r, "give_up")
     \/ Accepting(sup.daemon) /\ UNCHANGED faults /\ Goes(r, "rewait")
     \/ Fault /\ Goes(r, "give_up")
  /\ UNCHANGED <<sup, children, alias, busy, saved>>

Recovered(r) ==
  /\ task[r].at = "rewait" /\ InventoryReady
  /\ sup' = [sup EXCEPT !.tunnel = TRUE] /\ Saves("ready", sup') /\ Rests(r)
  /\ UNCHANGED <<children, alias, busy, faults>>

RecoveryTunnelGone(r) ==
  /\ task[r].at = "rewait"
  /\ (alias = "stopped" /\ UNCHANGED faults) \/ Fault
  /\ Goes(r, "give_up")
  /\ UNCHANGED <<sup, children, alias, busy, saved>>

\* A recovery that failed schedules another one.
GiveUp(r) ==
  /\ r \in Recoveries /\ task[r].at = "give_up"
  /\ SchedulesAfter(sup, task[r].of, "failed")
  /\ Rests(r)
  /\ UNCHANGED <<children, alias, busy, faults>>

-----------------------------------------------------------------------------
(* startIfConfigured.                                                        *)

OwnsLiving == saved.daemon \in Alive \/ (saved.tunnel /\ alias # "stopped")
MayBeLive == OwnsLiving \/ saved.status \in {"starting", "ready", "degraded", "stopping"}

\* A stop that has published its promise; one that is forced has none.
Quitting == {"cancel", "force", "force_tunnel", "force_daemon"}
StopPending == task["stop"].at \notin {"idle"} \cup Quitting

StartBegins ==
  /\ task["start"].at = "idle" /\ ~StopPending
  /\ IF sup.daemon = NoPid /\ ~sup.tunnel /\ (Serving # {} \/ MayBeLive)
     THEN Goes("start", "stale") /\ UNCHANGED sup
     ELSE Goes("start", "inspect") /\ sup' = [sup EXCEPT !.stopping = FALSE]
  /\ UNCHANGED <<children, alias, busy, saved, faults>>

\* What a launcher has left cannot be taken down safely: the start leaves it alone.
StaleRefused(t) ==
  IF t = "start"
  THEN /\ Rests(t)
       /\ IF OwnsLiving \/ saved.live THEN UNCHANGED saved ELSE Saves("external", sup)
  ELSE Goes(t, "compensate") /\ UNCHANGED saved

StaleDaemon(t) ==
  LET refused == \/ saved = NoFile
                 \/ Serving # {} /\ saved.daemon \notin Serving
                 \/ Serving = {} /\ saved.daemon \in Alive
                 \/ Serving # {} /\ busy
  IN /\ task[t].at = "stale"
     /\ \/ refused /\ UNCHANGED <<children, faults>> /\ StaleRefused(t)
        \/ /\ ~refused /\ UNCHANGED <<faults, saved>> /\ Goes(t, "stale_tunnel")
           /\ children' = [c \in Spawned |-> IF c \in Serving THEN "gone" ELSE children[c]]
        \/ /\ ~refused /\ Serving # {} /\ Fault /\ StaleRefused(t)
           /\ children' \in {children, [children EXCEPT ![saved.daemon] = "draining"]}
     /\ UNCHANGED <<sup, alias, busy>>

StaleTunnel(t) ==
  /\ task[t].at = "stale_tunnel"
  /\ \/ /\ alias' = "stopped" /\ UNCHANGED faults /\ saved' = NoFile
        /\ sup' = [sup EXCEPT !.stopping = FALSE]
        /\ IF t = "start" THEN Goes(t, "inspect") ELSE Rests(t)
     \/ Fault /\ UNCHANGED <<sup, alias>> /\ StaleRefused(t)
  /\ UNCHANGED <<children, busy>>

\* cleanupFailedStart: a daemon that answers is drained and shut down, or resumed if that fails.
CleanDaemon ==
  /\ task["start"].at = "clean_daemon"
  /\ \/ /\ sup.daemon = NoPid /\ UNCHANGED <<sup, children, busy, saved, faults>>
        /\ Goes("start", "clean_tunnel")
     \/ /\ sup.daemon # NoPid /\ (children[sup.daemon] = "booting" \/ ~busy) /\ UNCHANGED faults
        /\ DaemonEnds /\ sup' = Dismissed(sup) /\ Goes("start", "clean_tunnel")
     \/ /\ sup.daemon # NoPid /\ (Fault \/ (busy /\ UNCHANGED faults))
        /\ sup' = [sup EXCEPT !.stopping = FALSE] /\ Saves("failed", sup) /\ Rests("start")
        /\ UNCHANGED <<children, busy>>
  /\ UNCHANGED <<alias>>

CleanTunnel ==
  /\ task["start"].at = "clean_tunnel"
  /\ \/ ~sup.tunnel /\ UNCHANGED <<alias, faults>> /\ sup' = [sup EXCEPT !.stopping = FALSE]
     \/ /\ sup.tunnel /\ alias' = "stopped" /\ UNCHANGED faults
        /\ sup' = [Unwatched(sup) EXCEPT !.tunnel = FALSE, !.stopping = FALSE]
     \/ sup.tunnel /\ Fault /\ UNCHANGED alias /\ sup' = [Watched(sup) EXCEPT !.stopping = FALSE]
  /\ Saves("failed", sup') /\ Rests("start")
  /\ UNCHANGED <<children, busy>>

-----------------------------------------------------------------------------
(* stopForSetup and shutdown.                                                *)

\* A quit first cancels the active turns.
StopBegins ==
  /\ task["stop"].at = "idle"
  /\ \E quit \in BOOLEAN :
       task' = [task EXCEPT !["stop"].at = IF quit THEN "cancel" ELSE "wait",
                             !["stop"].quit = quit]
  /\ UNCHANGED <<sup, children, alias, busy, saved, faults>>

Cancel ==
  /\ task["stop"].at = "cancel"
  /\ \/ /\ busy' = (busy /\ sup.daemon = NoPid) /\ UNCHANGED faults
        /\ Goes("stop", "wait")
     \/ sup.daemon # NoPid /\ Fault /\ UNCHANGED busy /\ Goes("stop", "force")
  /\ UNCHANGED <<sup, children, alias, saved>>

\* Stopping, no timer fires and no monitor looks any more.
Halted(s) == [Unwatched(s) EXCEPT !.stopping = TRUE, !.timers = {}]

WaitForStart ==
  /\ task["stop"].at = "wait" /\ task["start"].at = "idle"
  /\ sup' = Halted(sup) /\ Goes("stop", "settle")
  /\ UNCHANGED <<children, alias, busy, saved, faults>>

RecoveriesSettled == \A r \in Recoveries : task[r].at = "idle"

\* adoptConfiguredTunnelForStop, between a monitor that gave up and its recovery.
Settle ==
  /\ task["stop"].at = "settle" /\ RecoveriesSettled
  /\ \/ LET adopts == ~sup.tunnel /\ alias # "stopped"
                        /\ (Serving # {} \/ MayBeLive \/ saved = NoFile)
            held == sup.tunnel \/ adopts
        IN /\ UNCHANGED faults
           /\ IF sup.daemon = NoPid /\ ~held
              THEN IF Serving # {} \/ MayBeLive
                   THEN Goes("stop", "stale") /\ UNCHANGED <<sup, saved>>
                   ELSE /\ saved' = NoFile /\ Rests("stop")
                        /\ sup' = [sup EXCEPT !.stopping = FALSE]
              ELSE /\ sup' = [sup EXCEPT !.tunnel = held]
                   /\ Goes("stop", "drain") /\ UNCHANGED <<saved>>
     \/ Fault /\ Goes("stop", "compensate") /\ UNCHANGED <<sup, saved>>
  /\ UNCHANGED <<children, alias, busy>>

Drain ==
  /\ task["stop"].at = "drain"
  /\ \/ sup.daemon = NoPid /\ UNCHANGED <<children, faults>> /\ Goes("stop", "stop_tunnel")
     \/ /\ sup.daemon \in Serving /\ UNCHANGED faults /\ Goes("stop", "poll")
        /\ children' = [children EXCEPT ![sup.daemon] = "draining"]
     \/ /\ sup.daemon \in Alive \ Serving /\ UNCHANGED <<children, faults>>
        /\ Goes("stop", "compensate")
     \/ /\ sup.daemon # NoPid /\ Fault /\ Goes("stop", "compensate")
        /\ children' \in {children,
                         [children EXCEPT ![sup.daemon] =
                            IF @ = "accepting" THEN "draining" ELSE @]}
  /\ UNCHANGED <<sup, alias, busy, saved>>

\* The daemon with a request to resume that reached it.
Resumed ==
  [c \in Spawned |->
     IF c = sup.daemon /\ children[c] = "draining" THEN "accepting" ELSE children[c]]

\* The daemon is idle, or resumed when it is not by the deadline.
Poll ==
  /\ task["stop"].at = "poll"
  /\ \/ /\ sup.daemon # NoPid /\ ~busy /\ UNCHANGED <<children, faults>>
        /\ task' = [task EXCEPT !["stop"].drained = TRUE, !["stop"].at = "stop_tunnel"]
     \/ /\ busy \/ sup.daemon = NoPid
        /\ children' = Resumed /\ UNCHANGED faults /\ Goes("stop", "compensate")
     \/ Fault /\ children' \in {children, Resumed} /\ Goes("stop", "compensate")
  /\ UNCHANGED <<sup, alias, busy, saved>>

\* stopTunnelGracefully; a tunnel whose end is not proved stays watched.
StopTunnel ==
  /\ task["stop"].at = "stop_tunnel"
  /\ \/ ~sup.tunnel /\ UNCHANGED <<sup, alias, faults>> /\ Goes("stop", "shut_down")
     \/ /\ sup.tunnel /\ UNCHANGED faults /\ alias' = "stopped"
        /\ sup' = [Unwatched(sup) EXCEPT !.tunnel = FALSE]
        /\ task' = [task EXCEPT !["stop"].down = TRUE, !["stop"].at = "shut_down"]
     \/ /\ sup.tunnel /\ Fault /\ alias' \in {alias, "stopped"}
        /\ sup' = Watched(sup) /\ Goes("stop", "compensate")
  /\ UNCHANGED <<children, busy, saved>>

\* Mutant of Exited: a shutdown that was acknowledged is not waited for.
Acknowledged == children

\* The daemon has exited and its port is free.
Exited == [c \in Spawned |-> IF c = sup.daemon THEN "gone" ELSE children[c]]

ShutDown ==
  /\ task["stop"].at = "shut_down"
  /\ \/ /\ sup.daemon # NoPid => task["stop"].drained
        /\ UNCHANGED faults /\ busy' = FALSE
        /\ children' = Exited
        /\ sup' = [Dismissed(sup) EXCEPT !.stopping = FALSE]
        /\ saved' = NoFile /\ Rests("stop")
     \/ /\ sup.daemon # NoPid /\ (Fault \/ (~task["stop"].drained /\ UNCHANGED faults))
        /\ UNCHANGED <<sup, children, busy, saved>> /\ Goes("stop", "compensate")
  /\ UNCHANGED alias

\* The stop failed: the tunnel that it stopped is started, the daemon that it drained resumed.
Compensate ==
  /\ task["stop"].at = "compensate"
  /\ Goes("stop", IF task["stop"].down /\ ~sup.tunnel THEN "inspect" ELSE "restore")
  /\ UNCHANGED <<sup, children, alias, busy, saved, faults>>

Restore ==
  /\ task["stop"].at = "restore"
  /\ \/ ~task["stop"].drained /\ UNCHANGED <<children, faults>> /\ Goes("stop", "verify")
     \/ /\ task["stop"].drained /\ sup.daemon \in Serving /\ UNCHANGED faults
        /\ children' = Resumed /\ Goes("stop", "verify")
     \/ /\ task["stop"].drained /\ sup.daemon = NoPid /\ UNCHANGED <<children, faults>>
        /\ Goes("stop", "daemon")
     \/ /\ task["stop"].drained /\ Fault /\ UNCHANGED children
        /\ task' = [task EXCEPT !["stop"].failed = TRUE, !["stop"].at = "verify"]
  /\ UNCHANGED <<sup, alias, busy, saved>>

\* ownedRuntimeReady asks the daemon first, then the tunnel.
Verify ==
  /\ task["stop"].at = "verify"
  /\ IF task["stop"].failed \/ ~Accepting(sup.daemon) \/ ~sup.tunnel
     THEN task' = [task EXCEPT !["stop"].failed = TRUE, !["stop"].at = "verify_tunnel"]
     ELSE Goes("stop", "verify_tunnel")
  /\ UNCHANGED <<sup, children, alias, busy, saved, faults>>

VerifyTunnel ==
  /\ task["stop"].at = "verify_tunnel"
  /\ sup' = [sup EXCEPT !.stopping = FALSE]
  /\ Saves(IF task["stop"].failed \/ alias # "ready" THEN "failed" ELSE "ready", sup)
  /\ IF task["stop"].quit THEN Goes("stop", "force") ELSE Rests("stop")
  /\ UNCHANGED <<children, alias, busy, faults>>

\* forceStopOwnedRuntime: whatever the turns do.
ForceStop ==
  /\ task["stop"].at = "force"
  /\ sup' = Halted(sup)
  /\ task' = [task EXCEPT !["stop"].at = "force_tunnel", !["stop"].failed = FALSE]
  /\ UNCHANGED <<children, alias, busy, saved, faults>>

ForceTunnel ==
  /\ task["stop"].at = "force_tunnel" /\ RecoveriesSettled
  /\ \/ ~sup.tunnel /\ UNCHANGED <<sup, alias, faults>> /\ Goes("stop", "force_daemon")
     \/ /\ sup.tunnel /\ UNCHANGED faults /\ alias' = "stopped"
        /\ sup' = [sup EXCEPT !.tunnel = FALSE]
        /\ Goes("stop", "force_daemon")
     \/ /\ sup.tunnel /\ Fault /\ UNCHANGED <<sup, alias>>
        /\ task' = [task EXCEPT !["stop"].failed = TRUE, !["stop"].at = "force_daemon"]
  /\ UNCHANGED <<children, busy, saved>>

ForceDaemon ==
  /\ task["stop"].at = "force_daemon"
  /\ \/ /\ UNCHANGED faults /\ busy' = FALSE
        /\ children' = Exited
        /\ sup' = [Dismissed(sup) EXCEPT !.stopping = FALSE]
        /\ IF task["stop"].failed THEN Saves("failed", sup') ELSE saved' = NoFile
     \/ /\ sup.daemon # NoPid /\ Fault /\ UNCHANGED <<children, busy>>
        /\ sup' = [sup EXCEPT !.stopping = FALSE] /\ Saves("failed", sup)
  /\ Rests("stop")
  /\ UNCHANGED <<alias>>

-----------------------------------------------------------------------------
StartsTunnel(t) ==
  Inspect(t) \/ Clear(t) \/ Connect(t) \/ Await(t) \/ Probe(t) \/ Undo(t)
StartsDaemon(t) == StartDaemon(t) \/ Health(t) \/ Kill(t)
Recovers(r) == Recheck(r) \/ Recovered(r) \/ RecoveryTunnelGone(r) \/ GiveUp(r)
Stops ==
  \/ StopBegins \/ Cancel \/ WaitForStart \/ Settle \/ Drain \/ Poll \/ StopTunnel \/ ShutDown
  \/ Compensate \/ Restore \/ Verify \/ VerifyTunnel \/ ForceStop \/ ForceTunnel \/ ForceDaemon

Runs ==
  \/ \E name \in Names : WindowPasses(name) \/ \E r \in Recoveries : TimerFires(name, r)
  \/ MonitorProbes \/ ProbeIgnored \/ ProbeFindsReady \/ ProbeFindsLoss
  \/ \E c \in Spawned : DaemonListens(c) \/ DaemonExits(c)
  \/ TurnArrives \/ TurnSettles \/ TunnelIsReady \/ TunnelFails
  \/ \E t \in Tasks : StartsTunnel(t) \/ StartsDaemon(t)
  \/ \E t \in {"start", "stop"} : StaleDaemon(t) \/ StaleTunnel(t)
  \/ \E r \in Recoveries : Recovers(r)
  \/ StartBegins \/ CleanDaemon \/ CleanTunnel
  \/ Stops

SupNext == (Runs /\ UNCHANGED left) \/ LauncherDies

SupSpec == SupInit /\ [][SupNext]_supVars

-----------------------------------------------------------------------------

\* No daemon of this launcher lives that the supervisor does not hold.
NoOrphan == Alive \subseteq left \cup {sup.daemon}
=============================================================================
