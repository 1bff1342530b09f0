-------------------------- MODULE TerminalService --------------------------
(* The terminal-managed installation on macOS (src/service.ts,                *)
(* src/tunnel-service.ts, src/tunnel.ts, and their commands in src/cli.ts and *)
(* src/setup.ts): the daemon and the tunnel as launchd services, the commands *)
(* that drain the daemon before they stop or replace it, and the installation *)
(* of the tunnel client.  Only setup and uninstall take the lifecycle lock;   *)
(* commands of several terminals interleave, any of their calls may fail or   *)
(* have its answer lost, and a command may be interrupted between two steps.  *)
EXTENDS Naturals, Sequences

CONSTANTS
  Terminals,      \* where commands are given
  LastToken,      \* bound: control tokens a setup generates
  ServiceFaults   \* bound: failing calls, lost answers, interrupted commands

ASSUME ServiceAssumption == LastToken \in Nat /\ ServiceFaults \in Nat

VARIABLES
  service,    \* the daemon's service; draining, busy and token are the running daemon's
  saved,      \* the control token in the saved configuration
  tunnelJob,  \* the tunnel's service, and the temporary runtime that validates a profile
  client,     \* the installed tunnel client and its manifest
  terminal,   \* what the command of each terminal still has to do
  admitted,   \* what a command that ended said it could not put back, or was cut off in
  setbacks    \* faults so far

serviceVars == <<service, saved, tunnelJob, client, terminal, admitted, setbacks>>

AtPrompt == [todo |-> <<>>, token |-> 0, lease |-> FALSE, locked |-> FALSE, previous |-> "none"]

ServiceInit ==
  /\ service = [installed |-> TRUE, loaded |-> TRUE, draining |-> FALSE, busy |-> FALSE,
                token |-> 0]
  /\ saved = 0
  /\ tunnelJob \in [installed : {TRUE}, loaded : BOOLEAN, temporary : {FALSE}]
  /\ client \in [binary : {"none", "old"}, manifest : {"none", "old"}]
  /\ client.binary = client.manifest
  /\ terminal = [c \in Terminals |-> AtPrompt]
  /\ admitted = {} /\ setbacks = 0

Setback == setbacks < ServiceFaults /\ setbacks' = setbacks + 1

-----------------------------------------------------------------------------
\* A command is a sequence of steps.  Nothing is stopped that was not proved idle.
IdleProof == <<"drain", "release">>
StopsService == <<"drain", "bootout">>
StopsTunnel == IdleProof \o <<"tunneldown">>

\* What a setup does with the tunnel: its service is made anew with a validated
\* profile, or restarted with its new program, or is as it should be.
TunnelPlans ==
  {StopsTunnel \o <<"connect", "disconnect", "tunnelup">>}
  \cup (IF tunnelJob.loaded THEN {StopsTunnel \o <<"tunnelup">>, <<>>} ELSE {})

\* A setup of a loaded service proves it idle first and restarts it at the end.
SetupPlan ==
  IF service.loaded
  THEN IdleProof \o <<"client", "save", "install">>
       \o StopsService \o <<"bootstrap", "proxy", "tunnel">>
  ELSE <<"client", "save", "install", "proxy", "tunnel">>

Commands ==
  {<<"cancel">>, <<"install">>, <<"start">>, StopsService, StopsService \o <<"bootstrap">>,
   <<"tunnelup">>, StopsTunnel \o <<"tunnelup">>, StopsTunnel \o <<"disconnect">>}

UninstallPlan ==
  StopsTunnel \o <<"tunnelunlist", "disconnect">> \o StopsService \o <<"unlist">>

Begins(c, todo, locked) ==
  /\ terminal[c] = AtPrompt
  /\ terminal' = [terminal EXCEPT ![c] =
       [AtPrompt EXCEPT !.todo = todo, !.token = saved, !.locked = locked]]
  /\ UNCHANGED <<service, saved, tunnelJob, client, admitted, setbacks>>

Given(c) == \E todo \in Commands : Begins(c, todo, FALSE)

\* Setup and uninstall hold the lifecycle lock.
Locked == \E c \in Terminals : terminal[c].locked
SetUp(c) == ~Locked /\ saved < LastToken /\ Begins(c, SetupPlan, TRUE)
Uninstalled(c) == ~Locked /\ Begins(c, UninstallPlan, TRUE)

At(c, step) == terminal[c].todo # <<>> /\ Head(terminal[c].todo) = step
Rest(c) == Tail(terminal[c].todo)

Goes(c, todo) ==
  terminal' = [terminal EXCEPT ![c] = IF todo = <<>> THEN AtPrompt ELSE [@ EXCEPT !.todo = todo]]
Advances(c) == Goes(c, Rest(c))

\* A command that fails while it has the drain gives it back and then ends.
GivesBack(c) == Goes(c, IF terminal[c].lease THEN <<"release">> ELSE <<>>)

-----------------------------------------------------------------------------
\* Calls to the daemon need its token.
Heard(c) == service.loaded /\ service.token = terminal[c].token

\* Whatever was said of a drain is over with it.
Accepting(s) == service' = [s EXCEPT !.draining = FALSE] /\ admitted' = admitted \ {"drain"}

\* Mutant of Compensates: a drain that was not answered did not happen.
CompensatesIfAnswered(answered) == answered

\* A drain that was asked for is taken back when idleness is not proved, whether or
\* not an answer came.
Compensates(answered) == TRUE
Refuses(c, answered) == Goes(c, IF Compensates(answered) THEN <<"release">> ELSE <<>>)

\* A service that is not loaded needs no drain; there is nothing to stop or to resume,
\* and what was to be restarted is started.
Undrained(c) ==
  LET rest == Rest(c) IN
  IF Len(rest) > 1 /\ rest[2] = "bootstrap"
  THEN <<"start">> \o SubSeq(rest, 3, Len(rest)) ELSE Tail(rest)

NegotiatesDrain(c) ==
  /\ At(c, "drain")
  /\ \/ ~service.loaded /\ Goes(c, Undrained(c)) /\ UNCHANGED <<service, setbacks>>
     \/ /\ Heard(c)
        /\ service' = [service EXCEPT !.draining = TRUE]
        /\ \/ /\ ~service.busy
              /\ terminal' = [terminal EXCEPT ![c].todo = Tail(@), ![c].lease = TRUE]
              /\ UNCHANGED setbacks
           \/ service.busy /\ Refuses(c, TRUE) /\ UNCHANGED setbacks
           \/ Setback /\ Refuses(c, FALSE)
     \/ service.loaded /\ ~Heard(c) /\ Refuses(c, TRUE) /\ UNCHANGED <<service, setbacks>>
     \/ service.loaded /\ Setback /\ Refuses(c, FALSE) /\ UNCHANGED service
  /\ UNCHANGED <<saved, tunnelJob, client, admitted>>

\* A resume that fails ends the command, which says so.
Resume(c) ==
  /\ At(c, "release")
  /\ \/ /\ Heard(c) /\ Accepting(service)
        /\ terminal' = [terminal EXCEPT ![c] = IF Rest(c) = <<>> THEN AtPrompt
                                               ELSE [@ EXCEPT !.todo = Rest(c), !.lease = FALSE]]
        /\ UNCHANGED setbacks
     \/ /\ IF Heard(c) THEN Setback ELSE UNCHANGED setbacks
        /\ Goes(c, <<>>)
        /\ admitted' = IF service.draining THEN admitted \cup {"drain"} ELSE admitted
        /\ UNCHANGED service
  /\ UNCHANGED <<saved, tunnelJob, client>>

\* launchd starts the daemon, which reads the configuration; or it reports a failure.
Loads(c) ==
  \/ /\ Accepting([service EXCEPT !.installed = TRUE, !.loaded = TRUE, !.busy = FALSE,
                                   !.token = saved])
     /\ terminal' = [terminal EXCEPT ![c] = IF Rest(c) = <<>> THEN AtPrompt
                                            ELSE [@ EXCEPT !.todo = Rest(c), !.lease = FALSE]]
     /\ UNCHANGED setbacks
  \/ Setback /\ GivesBack(c) /\ UNCHANGED <<service, admitted>>

\* launchd stops the daemon within its time, or later, or not at all.
Bootout(c) ==
  /\ At(c, "bootout")
  /\ LET down == Accepting([service EXCEPT !.loaded = FALSE, !.busy = FALSE]) IN
     \/ /\ service.loaded /\ down /\ UNCHANGED setbacks
        /\ terminal' = [terminal EXCEPT ![c] = IF Rest(c) = <<>> THEN AtPrompt
             ELSE [@ EXCEPT !.todo = Rest(c), !.lease = Head(Rest(c)) = "bootstrap"]]
     \/ service.loaded /\ Setback /\ GivesBack(c) /\ (down \/ UNCHANGED <<service, admitted>>)
     \/ ~service.loaded /\ GivesBack(c) /\ UNCHANGED <<service, admitted, setbacks>>
  /\ UNCHANGED <<saved, tunnelJob, client>>

\* bootstrapService: a service that another command has loaded meanwhile is refused.
Bootstrap(c) ==
  /\ At(c, "bootstrap")
  /\ \/ ~service.loaded /\ service.installed /\ Loads(c)
     \/ /\ service.loaded \/ ~service.installed
        /\ GivesBack(c) /\ UNCHANGED <<service, admitted, setbacks>>
  /\ UNCHANGED <<saved, tunnelJob, client>>

StartService(c) ==
  /\ At(c, "start")
  /\ \/ ~service.loaded /\ service.installed /\ Loads(c)
     \/ /\ IF service.installed THEN Advances(c) ELSE GivesBack(c)
        /\ service.loaded \/ ~service.installed
        /\ UNCHANGED <<service, admitted, setbacks>>
  /\ UNCHANGED <<saved, tunnelJob, client>>

InstallService(c) ==
  /\ At(c, "install")
  /\ \/ ~service.loaded /\ Loads(c)
     \/ /\ service.loaded /\ service' = [service EXCEPT !.installed = TRUE]
        /\ Advances(c) /\ UNCHANGED <<admitted, setbacks>>
  /\ UNCHANGED <<saved, tunnelJob, client>>

\* uninstallService and uninstallTunnelService, after the stop.
Unlist(c) ==
  /\ \/ /\ At(c, "unlist") /\ service' = [service EXCEPT !.installed = FALSE]
        /\ UNCHANGED tunnelJob
     \/ /\ At(c, "tunnelunlist") /\ tunnelJob' = [tunnelJob EXCEPT !.installed = FALSE]
        /\ UNCHANGED service
  /\ Advances(c)
  /\ UNCHANGED <<saved, client, admitted, setbacks>>

CancelsTurns(c) ==
  /\ At(c, "cancel")
  /\ \/ Heard(c) /\ service' = [service EXCEPT !.busy = FALSE] /\ Advances(c) /\ UNCHANGED setbacks
     \/ /\ IF Heard(c) THEN Setback ELSE UNCHANGED setbacks
        /\ GivesBack(c) /\ UNCHANGED service
  /\ UNCHANGED <<saved, tunnelJob, client, admitted>>

-----------------------------------------------------------------------------
\* Setup saves the configuration with a new token, and later waits for a daemon; what
\* it asks of that one, it asks with the new token.
SaveConfig(c) ==
  /\ At(c, "save") /\ Advances(c)
  /\ saved' = saved + 1
  /\ UNCHANGED <<service, tunnelJob, client, admitted, setbacks>>

Proxy(c) ==
  /\ At(c, "proxy")
  /\ \/ /\ service.loaded
        /\ terminal' = [terminal EXCEPT ![c].todo = Tail(@), ![c].token = saved]
        /\ UNCHANGED setbacks
     \/ GivesBack(c) /\ IF service.loaded THEN Setback ELSE UNCHANGED setbacks
  /\ UNCHANGED <<service, saved, tunnelJob, client, admitted>>

\* installTunnelClient: a client that is complete is used or upgraded, one that does
\* not match its manifest is refused, half a client is removed first.
FindClient(c) ==
  /\ At(c, "client")
  /\ \/ /\ client.binary = client.manifest
        /\ IF client.binary = "new" THEN Advances(c)
           ELSE terminal' = [terminal EXCEPT ![c].todo = <<"binary", "manifest">> \o Tail(@),
                                             ![c].previous = client.binary]
        /\ UNCHANGED <<client, admitted>>
     \/ /\ client.binary # client.manifest
        /\ IF "none" \in {client.binary, client.manifest}
           THEN /\ client' = [binary |-> "none", manifest |-> "none"]
                /\ terminal' = [terminal EXCEPT ![c].todo = <<"binary", "manifest">> \o Tail(@)]
                /\ admitted' = admitted \ {"client"}
           ELSE GivesBack(c) /\ UNCHANGED <<client, admitted>>
  /\ UNCHANGED <<service, saved, tunnelJob, setbacks>>

\* Both files are written; a write that fails puts back the client that was there, if
\* that can be done.
WriteClient(c) ==
  /\ \E file \in {"binary", "manifest"} :
       /\ At(c, file)
       /\ \/ client' = [client EXCEPT ![file] = "new"] /\ Advances(c) /\ UNCHANGED setbacks
          \/ Setback /\ Goes(c, <<"rollback">>) /\ UNCHANGED client
  /\ UNCHANGED <<service, saved, tunnelJob, admitted>>

RollBackClient(c) ==
  /\ At(c, "rollback") /\ Goes(c, <<>>)
  /\ LET before == terminal[c].previous IN
     \/ client' = [binary |-> before, manifest |-> before] /\ UNCHANGED admitted
     \/ /\ admitted' = admitted \cup {"client"}
        /\ client' \in {client, [client EXCEPT !.binary = before]}
  /\ UNCHANGED <<service, saved, tunnelJob, setbacks>>

\* Which of its plans a setup follows for the tunnel.
PlanTunnel(c) ==
  /\ At(c, "tunnel")
  /\ \E plan \in TunnelPlans : Goes(c, plan \o Rest(c))
  /\ UNCHANGED <<service, saved, tunnelJob, client, admitted, setbacks>>

StopTunnelService(c) ==
  /\ At(c, "tunneldown")
  /\ \/ tunnelJob' = [tunnelJob EXCEPT !.loaded = FALSE] /\ Advances(c) /\ UNCHANGED setbacks
     \/ tunnelJob.loaded /\ Setback /\ GivesBack(c) /\ UNCHANGED tunnelJob
  /\ UNCHANGED <<service, saved, client, admitted>>

StartTunnelService(c) ==
  /\ At(c, "tunnelup")
  /\ \/ /\ tunnelJob.installed \/ terminal[c].locked
        /\ tunnelJob' = [tunnelJob EXCEPT !.installed = TRUE, !.loaded = TRUE]
        /\ Advances(c) /\ UNCHANGED setbacks
     \/ /\ IF tunnelJob.installed \/ terminal[c].locked THEN Setback ELSE UNCHANGED setbacks
        /\ GivesBack(c) /\ UNCHANGED tunnelJob
  /\ UNCHANGED <<service, saved, client, admitted>>

\* A profile is validated by a runtime that is stopped again, whether it became ready
\* or not.
Connect(c) ==
  /\ At(c, "connect")
  /\ \/ tunnelJob' = [tunnelJob EXCEPT !.temporary = TRUE] /\ Advances(c) /\ UNCHANGED setbacks
     \/ /\ Setback /\ Goes(c, <<"disconnect">>)
        /\ \E b \in BOOLEAN : tunnelJob' = [tunnelJob EXCEPT !.temporary = b]
  /\ UNCHANGED <<service, saved, client, admitted>>

StopTunnel(c) ==
  /\ At(c, "disconnect")
  /\ \/ /\ tunnelJob' = [tunnelJob EXCEPT !.temporary = FALSE] /\ admitted' = admitted \ {"runtime"}
        /\ Advances(c) /\ UNCHANGED setbacks
     \/ /\ Setback /\ GivesBack(c) /\ admitted' = admitted \cup {"runtime"}
        /\ UNCHANGED tunnelJob
  /\ UNCHANGED <<service, saved, client>>

-----------------------------------------------------------------------------
\* A command is cut off between two of its steps.
Interrupted(c) ==
  /\ terminal[c] # AtPrompt /\ Setback
  /\ terminal' = [terminal EXCEPT ![c] = AtPrompt]
  /\ admitted' = {"drain", "client", "runtime"}
  /\ UNCHANGED <<service, saved, tunnelJob, client>>

TurnComes ==
  /\ service.loaded /\ ~service.draining /\ ~service.busy
  /\ service' = [service EXCEPT !.busy = TRUE]
  /\ UNCHANGED <<saved, tunnelJob, client, terminal, admitted, setbacks>>

TurnEnds ==
  /\ service.busy
  /\ service' = [service EXCEPT !.busy = FALSE]
  /\ UNCHANGED <<saved, tunnelJob, client, terminal, admitted, setbacks>>

\* launchd starts a daemon that died again.
DaemonRestarts ==
  /\ service.loaded /\ Setback
  /\ Accepting([service EXCEPT !.busy = FALSE, !.token = saved])
  /\ UNCHANGED <<saved, tunnelJob, client, terminal>>

ServiceNext ==
  \/ \E c \in Terminals :
       \/ Given(c) \/ SetUp(c) \/ Uninstalled(c) \/ Interrupted(c)
       \/ NegotiatesDrain(c) \/ Resume(c) \/ Bootout(c) \/ Bootstrap(c) \/ StartService(c)
       \/ InstallService(c) \/ Unlist(c) \/ CancelsTurns(c) \/ SaveConfig(c) \/ Proxy(c)
       \/ FindClient(c) \/ WriteClient(c) \/ RollBackClient(c)
       \/ PlanTunnel(c) \/ StopTunnelService(c) \/ StartTunnelService(c)
       \/ Connect(c) \/ StopTunnel(c)
  \/ TurnComes \/ TurnEnds \/ DaemonRestarts

ServiceSpec == ServiceInit /\ [][ServiceNext]_serviceVars

-----------------------------------------------------------------------------
Owing(what) ==
  \E c \in Terminals : CASE what = "drain" -> terminal[c].lease \/ At(c, "release")
                         [] what = "client" -> At(c, "manifest") \/ At(c, "rollback")
                         [] what = "runtime" -> At(c, "disconnect")

\* Whatever fails, is lost or comes between, a command that ends by itself leaves the
\* daemon accepting turns or gone, the tunnel client as its manifest says or absent, and
\* no runtime that only validates a profile; or it says that it could not
\* (negotiateDrain, releaseDrainAfterFailure, installTunnelClient, bootstrapTunnelProfile).
LeavesNothingHalf ==
  /\ service.draining => "drain" \in admitted \/ Owing("drain")
  /\ client.binary # client.manifest => "client" \in admitted \/ Owing("client")
  /\ tunnelJob.temporary => "runtime" \in admitted \/ Owing("runtime")
=============================================================================
