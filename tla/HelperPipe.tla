------------------------------ MODULE HelperPipe ------------------------------
(***************************************************************************)
(* Browser turns that the daemon runs in the browser helper process:       *)
(* LauncherBrowserHelperClient (launcher-helper-client.ts), the helper's   *)
(* main loop (browser-helper-main.ts) and the pipes between them, with the *)
(* progress mirror (turn-progress.ts).                                     *)
(*                                                                         *)
(* A frame carries the trace id of its turn and nothing else that tells    *)
(* one run of a trace from the next.  The field "run" of a frame is a      *)
(* history field: no guard reads it.                                       *)
(***************************************************************************)
EXTENDS Naturals, Sequences, FiniteSets

CONSTANTS
  Calls,         \* calls of run(turn)
  TraceOf,      \* the trace id of a run: derived from the request, so it repeats
  MaxChildren,  \* bound: helper processes spawned
  MaxFences,    \* bound: completionFenceRequestId
  MaxMirrored    \* bound: tool batches recorded for a run

ASSUME PipeShapes ==
  /\ Calls \subseteq Nat \ {0} /\ DOMAIN TraceOf = Calls
  /\ MaxChildren \in Nat /\ MaxFences \in Nat /\ MaxMirrored \in Nat

VARIABLES
  run,       \* PendingTurn and the turn it runs, with its ChatGptExternalTurnProgress
  jobs,      \* callbacks of turns that the daemon has started and awaits
  notices,   \* traces whose end handleExit reports to the launcher
  client,    \* this.child: none, starting or ready
  children,  \* helper processes spawned so far
  alive,     \* the current one runs
  toHelper,  \* its stdin
  toDaemon,  \* its stdout
  helperTurn,      \* what the helper keeps under a trace
  fences     \* completionFenceRequestId

pipeVars == <<run, jobs, notices, client, children, alive, toHelper, toDaemon, helperTurn, fences>>
helperVars == <<client, children, alive, helperTurn, fences>>

Traces == {TraceOf[r] : r \in Calls}

\* batches: recorded; sent: mirrored; observed: acknowledged by the browser;
\* committed: by the broker, for its completion fence.
RunState == [phase : {"new", "waiting", "pending", "resolved", "rejected"},
             aborted : BOOLEAN, failed : BOOLEAN, activated : BOOLEAN, committed : BOOLEAN,
             batches : 0 .. MaxMirrored, sent : 0 .. MaxMirrored, observed : 0 .. MaxMirrored]

Stages == {"opening", "prompting", "prepared", "activating", "sent", "beginning", "begun",
           "committing", "answered"}

\* served: history, the run that the helper serves; mirror and captured: its
\* ChatGptMirroredTurnProgress; fence: the requestId it awaits.
TurnState == [stage : Stages \cup {"none"}, aborted : BOOLEAN, served : Calls \cup {0},
              fence : 0 .. MaxFences, mirror : 0 .. MaxMirrored, captured : 0 .. MaxMirrored]

NoTurn == [stage |-> "none", aborted |-> FALSE, served |-> 0, fence |-> 0,
           mirror |-> 0, captured |-> 0]

Job == [kind : {"prompt", "send", "begin", "commit"}, run : Calls, n : 0 .. MaxFences]

PipeTypeOK ==
  /\ run \in [Calls -> RunState]
  /\ jobs \subseteq Job /\ notices \subseteq Traces
  /\ client \in {"none", "starting", "ready"} /\ children \in 0 .. MaxChildren
  /\ alive \in BOOLEAN
  /\ helperTurn \in [Traces -> TurnState] /\ fences \in 0 .. MaxFences

PipeInit ==
  /\ run = [r \in Calls |->
       [phase |-> "new", aborted |-> FALSE, failed |-> FALSE, activated |-> FALSE,
        committed |-> FALSE, batches |-> 0, sent |-> 0, observed |-> 0]]
  /\ jobs = {} /\ notices = {}
  /\ client = "none" /\ children = 0 /\ alive = FALSE
  /\ toHelper = <<>> /\ toDaemon = <<>>
  /\ helperTurn = [t \in Traces |-> NoTurn] /\ fences = 0

Frame(kind, r, n) == [kind |-> kind, trace |-> TraceOf[r], run |-> r, n |-> n]

-----------------------------------------------------------------------------
(* The daemon's side.                                                      *)

Awaits(r) == run[r].phase = "pending"
AwaitedAs(t) == {r \in Calls : Awaits(r) /\ TraceOf[r] = t}

\* sendTo: what a dead helper is sent is lost.
Sends(f) == toHelper' = IF alive THEN Append(toHelper, f) ELSE toHelper

\* finishWithError
RejectAll(R) == [r \in Calls |-> IF r \in R THEN [run[r] EXCEPT !.phase = "rejected"] ELSE run[r]]

\* ensureChild spawns a helper if there is none; run waits until it is ready.
Ask(r) ==
  /\ run[r].phase = "new" /\ ~run[r].aborted
  /\ run' = [run EXCEPT ![r].phase = "waiting"]
  /\ IF client # "none"
     THEN UNCHANGED <<helperVars, toHelper, toDaemon>>
     ELSE /\ children < MaxChildren /\ children' = children + 1
          /\ client' = "starting" /\ alive' = TRUE
          /\ toHelper' = <<>> /\ toDaemon' = <<>>
          /\ helperTurn' = [t \in Traces |-> NoTurn] /\ fences' = 0
  /\ UNCHANGED <<jobs, notices>>

\* The helper announces its features.
Ready ==
  /\ client = "starting" /\ alive /\ client' = "ready"
  /\ UNCHANGED <<run, jobs, notices, children, alive, toHelper, toDaemon, helperTurn, fences>>

\* The helper is ready: the run is registered and its frame sent, unless it was
\* aborted or its trace is pending.
Dispatch(r) ==
  /\ run[r].phase = "waiting" /\ client = "ready"
  /\ IF run[r].aborted \/ AwaitedAs(TraceOf[r]) # {}
     THEN run' = RejectAll({r}) /\ UNCHANGED toHelper
     ELSE run' = [run EXCEPT ![r].phase = "pending"] /\ Sends(Frame("run", r, 0))
  /\ UNCHANGED <<jobs, notices, helperVars, toDaemon>>

\* The turn's abortSignal fires.  A pending run tells the helper, and fails at once
\* when there is none.
Abort(r) ==
  /\ run[r].phase \in {"waiting", "pending"} /\ ~run[r].aborted
  /\ run' = [run EXCEPT ![r].aborted = TRUE,
                        ![r].phase = IF Awaits(r) /\ client = "none" THEN "rejected" ELSE @]
  /\ IF Awaits(r) THEN Sends(Frame("abort", r, 0)) ELSE UNCHANGED toHelper
  /\ UNCHANGED <<jobs, notices, helperVars, toDaemon>>

\* abortWithLocalFailure
FailsLocally(r) ==
  IF Awaits(r) /\ ~run[r].failed
  THEN /\ run' = [run EXCEPT ![r].failed = TRUE,
                             ![r].phase = IF client = "none" THEN "rejected" ELSE @]
       /\ Sends(Frame("abort", r, 0))
  ELSE UNCHANGED <<run, toHelper>>

\* The daemon records a tool batch that the broker delivered for the turn, which it does
\* no more once the fence is committed.
RecordBatch(r) ==
  /\ Awaits(r) /\ run[r].activated /\ ~run[r].committed /\ run[r].batches < MaxMirrored
  /\ run' = [run EXCEPT ![r].batches = @ + 1]
  /\ UNCHANGED <<jobs, notices, helperVars, toHelper, toDaemon>>

\* forwardProgress mirrors what changed.
Forward(r) ==
  /\ Awaits(r) /\ run[r].sent < run[r].batches /\ client # "none"
  /\ run' = [run EXCEPT ![r].sent = run[r].batches]
  /\ Sends(Frame("progress", r, run[r].batches))
  /\ UNCHANGED <<jobs, notices, helperVars, toDaemon>>

Receives(f) ==
  /\ client # "none" /\ toDaemon # <<>>
  /\ f = Head(toDaemon) /\ toDaemon' = Tail(toDaemon)

\* handleLine of an event that starts a callback of the pending turn.
StartJob(f) ==
  /\ Receives(f) /\ f.kind \in {"prompt", "send", "begin", "commit"}
  /\ jobs' = jobs \cup {[kind |-> f.kind, run |-> r, n |-> f.n] : r \in AwaitedAs(f.trace)}
  /\ UNCHANGED <<run, notices, helperVars, toHelper>>

\* The answers of a fence are withheld from a turn that is being aborted.
Told(j) ==
  /\ Awaits(j.run)
  /\ j.kind \in {"begin", "commit"} => ~run[j.run].failed /\ ~run[j.run].aborted

\* A callback has its result, and the helper is told if its turn is still the pending
\* one.  Without a helper the answer cannot be sent and the turn fails.
JobDone(j, granted) ==
  LET r == j.run IN
  /\ j \in jobs /\ jobs' = jobs \ {j}
  /\ j.kind \in {"prompt", "send"} => granted
  /\ run' = [run EXCEPT ![r].activated = @ \/ j.kind = "send",
                        ![r].committed = @ \/ (j.kind = "commit" /\ granted),
                        ![r].phase = IF Told(j) /\ client = "none" THEN "rejected" ELSE @]
  /\ IF Told(j)
     THEN Sends([kind |-> j.kind, trace |-> TraceOf[r], run |-> r, n |-> j.n, granted |-> granted])
     ELSE UNCHANGED toHelper
  /\ UNCHANGED <<notices, helperVars, toDaemon>>

JobFails(j) ==
  /\ j \in jobs /\ jobs' = jobs \ {j}
  /\ FailsLocally(j.run)
  /\ UNCHANGED <<notices, helperVars, toDaemon>>

\* acknowledgeToolBatch: a revision the recorder has not reached fails the turn.
ReceiveObservation(f) ==
  /\ Receives(f) /\ f.kind = "batch"
  /\ IF AwaitedAs(f.trace) = {} THEN UNCHANGED <<run, toHelper>>
     ELSE \E r \in AwaitedAs(f.trace) :
            IF f.n > run[r].batches THEN FailsLocally(r)
            ELSE /\ run' = [run EXCEPT ![r].observed = IF f.n > @ THEN f.n ELSE @]
                 /\ UNCHANGED toHelper
  /\ UNCHANGED <<jobs, notices, helperVars>>

\* handleLine of a result or an error: whoever is pending under that trace has it.
ReceiveOutcome(f) ==
  /\ Receives(f) /\ f.kind \in {"result", "error"}
  /\ run' = [r \in Calls |->
       IF r \notin AwaitedAs(f.trace) THEN run[r]
       ELSE [run[r] EXCEPT !.phase = IF f.kind = "result" /\ ~run[r].failed
                                     THEN "resolved" ELSE "rejected"]]
  /\ UNCHANGED <<jobs, notices, helperVars, toHelper>>

\* Mutant of Reported: a turn that was told to abort is taken for settled.
ReportedIfWanted == {t \in Traces : \E r \in AwaitedAs(t) : ~run[r].aborted}

\* The turns that the helper served when it exited.
Reported == {t \in Traces : AwaitedAs(t) # {}}

\* handleExit: the process exited, its pipe failed, or it wrote what is no frame.
\* Runs that wait for it fail; those that it served fail when the launcher has been
\* told.
Exit ==
  /\ client # "none" /\ client' = "none" /\ alive' = FALSE
  /\ run' = RejectAll({r \in Calls : run[r].phase = "waiting"})
  /\ notices' = notices \cup Reported
  /\ toDaemon' = <<>> /\ toHelper' = <<>>
  /\ helperTurn' = [t \in Traces |-> NoTurn] /\ fences' = 0
  /\ UNCHANGED <<jobs, children>>

\* The launcher has answered: whoever is pending under the trace now fails.
Noticed(t) ==
  /\ t \in notices /\ notices' = notices \ {t}
  /\ run' = RejectAll(AwaitedAs(t))
  /\ UNCHANGED <<jobs, helperVars, toHelper, toDaemon>>

\* close: every run fails, and the helper is shut down.
CloseClient ==
  /\ client # "none" /\ client' = "none" /\ alive' = FALSE
  /\ run' = RejectAll({r \in Calls : run[r].phase \in {"waiting", "pending"}})
  /\ toDaemon' = <<>> /\ toHelper' = <<>>
  /\ helperTurn' = [t \in Traces |-> NoTurn] /\ fences' = 0
  /\ UNCHANGED <<jobs, notices, children>>

-----------------------------------------------------------------------------
(* The helper's side.                                                      *)

Tells(f) == toDaemon' = Append(toDaemon, f)
ErrorFor(f) == [kind |-> "error", trace |-> f.trace, run |-> f.run, n |-> 0]

\* A frame of a turn that cannot have it is answered with an error.
Refuses(f) == Tells(ErrorFor(f))

Reads(f) ==
  /\ alive /\ client = "ready"
  /\ toHelper # <<>> /\ f = Head(toHelper) /\ toHelper' = Tail(toHelper)

Reading == <<run, jobs, notices, client, children, alive, fences>>

Fresh(t, r) == [NoTurn EXCEPT !.stage = "opening", !.served = r]

\* run: a trace that is being served is refused; a new one starts with a fresh mirror.
ReadRun(f) ==
  /\ Reads(f) /\ f.kind = "run"
  /\ IF helperTurn[f.trace].stage # "none"
     THEN Refuses(f) /\ UNCHANGED helperTurn
     ELSE /\ helperTurn' = [helperTurn EXCEPT ![f.trace] = Fresh(f.trace, f.run)]
          /\ UNCHANGED toDaemon
  /\ UNCHANGED Reading

\* The abort signal reaches the worker, and whatever the turn awaits is rejected.
ReadAbort(f) ==
  /\ Reads(f) /\ f.kind = "abort"
  /\ helperTurn' = IF helperTurn[f.trace].stage = "none" THEN helperTurn
             ELSE [helperTurn EXCEPT ![f.trace].aborted = TRUE, ![f.trace].fence = 0]
  /\ UNCHANGED <<Reading, toDaemon>>

\* The fence answer that a turn awaits, by its request id.
Resumes(f, s) ==
  s.fence = f.n /\ s.stage = [begin |-> "beginning", commit |-> "committing"][f.kind]

\* A fence that is not granted is retried when the page has settled again.
ReadFence(f) ==
  /\ Reads(f) /\ f.kind \in {"begin", "commit"}
  /\ LET s == helperTurn[f.trace]
         next == IF ~f.granted THEN "sent" ELSE IF f.kind = "begin" THEN "begun" ELSE "answered"
     IN helperTurn' = IF ~s.aborted /\ Resumes(f, s)
                THEN [helperTurn EXCEPT ![f.trace].stage = next, ![f.trace].fence = 0]
                ELSE helperTurn
  /\ UNCHANGED <<Reading, toDaemon>>

\* prepared_selected_ack.  A turn that has ended has no selection: an error frame.  A
\* cancelled selection ignores it.
ReadPrompt(f) ==
  /\ Reads(f) /\ f.kind = "prompt"
  /\ LET s == helperTurn[f.trace] IN
     /\ helperTurn' = IF s.stage = "prompting" /\ ~s.aborted
                THEN [helperTurn EXCEPT ![f.trace].stage = "prepared"] ELSE helperTurn
     /\ IF s.stage = "none" THEN Refuses(f) ELSE UNCHANGED toDaemon
  /\ UNCHANGED Reading

\* send_activation_ack.  Without a waiter: an error frame.
ReadActivation(f) ==
  /\ Reads(f) /\ f.kind = "send"
  /\ LET s == helperTurn[f.trace] IN
     IF s.stage = "activating" /\ ~s.aborted
     THEN helperTurn' = [helperTurn EXCEPT ![f.trace].stage = "sent"] /\ UNCHANGED toDaemon
     ELSE UNCHANGED helperTurn /\ Refuses(f)
  /\ UNCHANGED Reading

\* A progress frame: meaningful for a turn that is being served; older ones are ignored.
ReadProgress(f) ==
  /\ Reads(f) /\ f.kind = "progress"
  /\ helperTurn' = IF helperTurn[f.trace].stage = "none" \/ f.n <= helperTurn[f.trace].mirror
             THEN helperTurn ELSE [helperTurn EXCEPT ![f.trace].mirror = f.n]
  /\ UNCHANGED <<Reading, toDaemon>>

\* Mutant of Ahead: Send is pressed while its activation is asked for.
AheadUnasked == [opening |-> "prompting", prepared |-> "sent", sent |-> "beginning",
                 begun |-> "committing"]

\* The worker gets on with its turn: it asks for the prompt, for the activation of
\* Send, for the fence and for its commit.
Ahead == [opening |-> "prompting", prepared |-> "activating", sent |-> "beginning",
          begun |-> "committing"]
Asks == [opening |-> "prompt", prepared |-> "send", sent |-> "begin", begun |-> "commit"]

Advance(t) ==
  LET s == helperTurn[t] fenced == s.stage \in {"sent", "begun"} IN
  /\ alive /\ s.stage \in DOMAIN Ahead /\ ~s.aborted
  /\ fenced => fences < MaxFences
  /\ fences' = IF fenced THEN fences + 1 ELSE fences
  /\ helperTurn' = [helperTurn EXCEPT ![t].stage = Ahead[s.stage],
                                      ![t].fence = IF fenced THEN fences' ELSE 0]
  /\ Tells([kind |-> Asks[s.stage], trace |-> t, run |-> s.served,
            n |-> IF fenced THEN fences' ELSE 0])
  /\ UNCHANGED <<run, jobs, notices, client, children, alive, toHelper>>

\* The worker has captured its answer before the batch: acknowledgeToolBatch.
Capture(t) ==
  LET s == helperTurn[t] IN
  /\ alive /\ s.stage # "none" /\ s.captured < s.mirror
  /\ helperTurn' = [helperTurn EXCEPT ![t].captured = s.mirror]
  /\ Tells([kind |-> "batch", trace |-> t, run |-> s.served, n |-> s.mirror])
  /\ UNCHANGED <<Reading, toHelper>>

\* The turn ends with its answer, once its fence is committed, or fails in any stage.
EndTurn(t) ==
  LET s == helperTurn[t] IN
  /\ alive /\ s.stage # "none"
  /\ \E kind \in {"result", "error"} :
       /\ kind = "result" => s.stage = "answered"
       /\ Tells([kind |-> kind, trace |-> t, run |-> s.served, n |-> 0])
  /\ helperTurn' = [helperTurn EXCEPT ![t] = NoTurn]
  /\ UNCHANGED <<Reading, toHelper>>

-----------------------------------------------------------------------------
DaemonReads ==
  \E f \in {Head(toDaemon)} : StartJob(f) \/ ReceiveObservation(f) \/ ReceiveOutcome(f)

HelperReads ==
  \E f \in {Head(toHelper)} :
    \/ ReadRun(f) \/ ReadAbort(f) \/ ReadFence(f)
    \/ ReadPrompt(f) \/ ReadActivation(f) \/ ReadProgress(f)

PipeNext ==
  \/ \E r \in Calls : Ask(r) \/ Dispatch(r) \/ Abort(r) \/ RecordBatch(r) \/ Forward(r)
  \/ Ready \/ Exit \/ CloseClient
  \/ toDaemon # <<>> /\ DaemonReads
  \/ toHelper # <<>> /\ HelperReads
  \/ \E j \in jobs : JobFails(j) \/ \E granted \in BOOLEAN : JobDone(j, granted)
  \/ \E t \in notices : Noticed(t)
  \/ \E t \in Traces : Advance(t) \/ Capture(t) \/ EndTurn(t)

PipeSpec == PipeInit /\ [][PipeNext]_pipeVars

-----------------------------------------------------------------------------
\* As long as a run is pending, what its turn in the helper was told is its own: the turn
\* has pressed Send only after this run's onSendActivated; the result that it reports came
\* after this run's fence was committed; the tool batches that it acknowledges were
\* mirrored to it for this run.  Retries share the trace id, and the pipes nothing else.
OwnAnswers ==
  /\ \A t \in Traces :
       LET s == helperTurn[t] IN
       s.stage \in {"sent", "beginning", "begun", "committing", "answered"} /\ Awaits(s.served)
         => run[s.served].activated
  /\ \A i \in DOMAIN toDaemon :
       LET f == toDaemon[i] IN
       Awaits(f.run) => /\ f.kind = "result" => run[f.run].committed
                        /\ f.kind = "batch" => f.n <= run[f.run].sent

\* Fairness: both ends read their pipes, a helper becomes ready or is given up, a turn
\* ends (its worker has timeouts), and the launcher's answer has a timeout.
PipeFairness ==
  /\ WF_pipeVars(toDaemon # <<>> /\ DaemonReads)
  /\ WF_pipeVars(toHelper # <<>> /\ HelperReads)
  /\ WF_pipeVars(Ready \/ (client = "starting" /\ Exit))
  /\ \A r \in Calls : WF_pipeVars(Dispatch(r))
  /\ \A t \in Traces : WF_pipeVars(EndTurn(t)) /\ WF_pipeVars(Noticed(t))

FairPipeSpec == PipeSpec /\ PipeFairness

\* A run whose turn is aborted settles, although its helper may exit, its trace may be
\* refused by the helper, or its frames may be those of an earlier run.
AbortedRunsSettle ==
  \A r \in Calls : run[r].phase \in {"waiting", "pending"} /\ run[r].aborted
                    ~> run[r].phase \in {"resolved", "rejected"}
=============================================================================
