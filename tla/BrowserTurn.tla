----------------------------- MODULE BrowserTurn -----------------------------
(***************************************************************************)
(* One turn of the browser worker (runExclusive and runBrowserTurn of      *)
(* browser-worker.ts): the launcher's lease, the prompt's attachment and   *)
(* its messages, the observation of the answer against the tool batches of *)
(* the broker, the completion fence and the release.                       *)
(*                                                                         *)
(* The page of ChatGPT and the broker are environment.  Texts are numbers: *)
(* 0 is no text, and whoever writes makes the text a greater one.  The     *)
(* windows of time (settling, grace, staleness) are choices: a window that *)
(* is open may have run out at any later look at the page.                 *)
(***************************************************************************)
EXTENDS Integers, FiniteSets

CONSTANTS
  TurnKinds,   \* the turns: [tools, compaction, required, resumable, stages]
  MaxText,     \* bound: texts of the answer
  MaxBatches,  \* bound: tool batches of the turn
  MaxRebinds,  \* MAX_CHATGPT_BROWSER_PAGE_REBINDS
  MaxFaults,   \* MAX_CHATGPT_INTERNAL_OBSERVATION_FAULTS
  MaxTriggers  \* MAX_CHATGPT_CONNECTOR_TRIGGER_ATTEMPTS

ASSUME TurnShapes ==
  /\ TurnKinds \subseteq [tools : BOOLEAN, compaction : BOOLEAN, required : BOOLEAN,
                          resumable : BOOLEAN, stages : Nat]
  /\ {MaxText, MaxBatches, MaxRebinds, MaxFaults, MaxTriggers} \subseteq Nat

VARIABLES
  asked,     \* the turn, one of TurnKinds
  reused,    \* its lease is a retained conversation's
  step,      \* where the turn is
  acked,     \* multipart stages that ChatGPT acknowledged
  attach,    \* what is left to try: connector triggers, catalog refresh, retry
  page,      \* ChatGPT: composer, messages, phase and text of the answer
  progress,  \* externalProgress: batches recorded and observed, calls in flight
  quietSince,\* the broker's fence: no activity since begin was granted
  tracker,   \* ChatGptCompletionTracker, and whether the fence was begun
  snap,      \* the response snapshot that is being judged
  budget,    \* rebinds and internal faults in a row
  aborted,   \* abortSignal: "no", "client" or "handoff"
  outcome,   \* how the turn ended, and its answer
  receipts,  \* usage writes not yet drained
  lease,     \* the launcher's lease
  missed     \* history: a boundary was acknowledged that was not on the page

turnVars == <<asked, reused, step, acked, attach, page, progress, quietSince, tracker, snap,
              budget, aborted, outcome, receipts, lease, missed>>

Texts == 0 .. MaxText
NoText == -1
NoSnap == [present |-> FALSE, text |-> NoText, action |-> FALSE]
Steps == {"leasing", "paging", "preparing", "attaching", "verifying", "filing", "sending",
          "accepting", "binding", "staging", "observing", "draining", "releasing", "ended"}
Phases == {"idle", "thinking", "writing", "calling", "resuming", "done"}

TurnTypeOK ==
  /\ asked \in TurnKinds /\ reused \in BOOLEAN /\ step \in Steps
  /\ acked \in 0 .. asked.stages
  /\ attach \in [triggers : 0 .. MaxTriggers, refresh : BOOLEAN, retry : BOOLEAN]
  /\ page \in [composer : {"empty", "prompt"}, messages : Nat, phase : Phases, text : Texts]
  /\ progress \in [batches : 0 .. MaxBatches, observed : 0 .. MaxBatches,
                   active : BOOLEAN, stale : BOOLEAN]
  /\ quietSince \in BOOLEAN
  /\ tracker \in [seen : 0 .. MaxBatches, boundary : Texts \cup {NoText},
                  candidate : Texts \cup {NoText}, fence : BOOLEAN]
  /\ snap \in [present : BOOLEAN, text : Texts \cup {NoText}, action : BOOLEAN]
  /\ budget \in [rebinds : 0 .. MaxRebinds, faults : 0 .. MaxFaults]
  /\ aborted \in {"no", "client", "handoff"}
  /\ outcome \in [status : {"none", "completed", "failed", "aborted", "handoff"}, answer : Texts \cup {NoText}]
  /\ receipts \in Nat /\ lease \in {"none", "held", "released"} /\ missed \in BOOLEAN

TurnInit ==
  /\ asked \in TurnKinds /\ reused = FALSE /\ step = "leasing" /\ acked = 0
  /\ attach = [triggers |-> 0, refresh |-> FALSE, retry |-> FALSE]
  /\ page = [composer |-> "empty", messages |-> 0, phase |-> "idle", text |-> 0]
  /\ progress = [batches |-> 0, observed |-> 0, active |-> FALSE, stale |-> FALSE]
  /\ quietSince = FALSE
  /\ tracker = [seen |-> 0, boundary |-> NoText, candidate |-> NoText, fence |-> FALSE]
  /\ snap = NoSnap /\ budget = [rebinds |-> 0, faults |-> 0] /\ aborted = "no"
  /\ outcome = [status |-> "none", answer |-> NoText]
  /\ receipts = 0 /\ lease = "none" /\ missed = FALSE

environment == <<page, progress, quietSince>>
answering == <<tracker, snap, budget, missed>>

\* The turn's try block is left; its finally blocks follow.
EndsWith(status, answer) ==
  /\ outcome' = [status |-> status, answer |-> answer] /\ step' = "draining"
TurnFails == EndsWith("failed", NoText)
Goes(to) == step' = to /\ UNCHANGED outcome

LastMessage == acked = asked.stages

\* Mutant of Noticing: the observation loop does not look at the signal.
NoticingBefore == {"attaching", "verifying", "sending", "accepting", "binding", "staging"}

\* Where the signal is looked at or raced.  A turn that its accepted handoff has ended
\* is completed for the launcher.
Noticing == {"attaching", "verifying", "sending", "accepting", "binding", "staging", "observing"}

\* The turn is aborted, and about to notice.
Heeded == aborted # "no" /\ step \in Noticing

-----------------------------------------------------------------------------
(* The lease and the page.                                                 *)

\* notifyLauncherTurn(start): refused, or granted with a retained conversation or a
\* new tab.  A lease that does not fit the turn is given back.
Lease(granted, retained) ==
  /\ step = "leasing"
  /\ IF aborted # "no" \/ ~granted
     THEN /\ outcome' = [status |-> IF aborted # "no" THEN "aborted" ELSE "failed", answer |-> NoText]
          /\ step' = "ended" /\ UNCHANGED <<lease, reused>>
     ELSE /\ lease' = "held" /\ reused' = retained
          /\ IF (asked.required /\ ~retained) \/ (retained /\ ~asked.resumable)
             THEN TurnFails ELSE Goes("paging")
  /\ UNCHANGED <<asked, acked, attach, environment, answering, aborted, receipts>>

\* The page is acquired; a stage that times out or a closed tab fails the turn.
AcquirePage ==
  /\ step = "paging"
  /\ IF aborted # "no" THEN EndsWith("aborted", NoText) ELSE Goes("preparing")
  /\ UNCHANGED <<asked, reused, acked, attach, environment, answering, aborted, receipts, lease>>

\* prepareChatSurface, selectModelAndEffort and the baseline.  The catalog may be
\* refreshed once for a final message that has to select its connector.
Prepare ==
  /\ step = "preparing" /\ Goes("attaching")
  /\ attach' = [triggers |-> 0, retry |-> asked.compaction /\ LastMessage,
                refresh |-> asked.tools /\ ~reused /\ asked.stages = 0]
  /\ UNCHANGED <<asked, reused, acked, environment, answering, aborted, receipts, lease>>

-----------------------------------------------------------------------------
(* Attaching the prompt and sending it.                                    *)

NeedsConnector == asked.tools /\ ~reused /\ LastMessage

\* selectConnector: up to three triggers; a stale catalog is refreshed once.
TriggerFails ==
  /\ step = "attaching" /\ NeedsConnector /\ ~Heeded
  /\ IF attach.triggers + 1 >= MaxTriggers
     THEN TurnFails /\ UNCHANGED attach
     ELSE /\ attach' = [attach EXCEPT !.triggers = @ + 1] /\ Goes(step)
  /\ UNCHANGED <<asked, reused, acked, environment, answering, aborted, receipts, lease>>

\* The page is reloaded and prepared again, and the baseline taken anew; the triggers
\* are counted on.
RefreshCatalog ==
  /\ step = "attaching" /\ NeedsConnector /\ ~Heeded /\ attach.refresh
  /\ attach.triggers + 1 < MaxTriggers
  /\ attach' = [attach EXCEPT !.triggers = @ + 1, !.refresh = FALSE]
  /\ UNCHANGED <<asked, reused, step, acked, environment, answering, aborted, outcome, receipts, lease>>

\* The prompt is put into the composer.
Insert ==
  /\ step = "attaching" /\ ~Heeded
  /\ page' = [page EXCEPT !.composer = "prompt"] /\ Goes("verifying")
  /\ UNCHANGED <<asked, reused, acked, attach, progress, quietSince, answering, aborted, receipts, lease>>

\* currentSubmissionEvidence
Evidence == page.messages > acked

\* Mutant of SafeToRetry: what was submitted meanwhile is not looked for.
RetryBlindly == attach.retry

\* attachPromptWithCompactionRetry: an attachment that failed is repeated once, for a
\* compaction, and only while there is no evidence of a submission.
SafeToRetry == attach.retry /\ ~Evidence

\* assertPromptAttached.  What it rejects is cleared away before anything else.
Verify ==
  /\ step = "verifying" /\ ~Heeded
  /\ \/ /\ page.composer = "prompt" /\ UNCHANGED <<page, attach>>
        /\ Goes(IF LastMessage THEN "filing" ELSE "sending")
     \/ /\ page' = [page EXCEPT !.composer = "empty"]
        /\ IF SafeToRetry
           THEN attach' = [attach EXCEPT !.retry = FALSE] /\ Goes("attaching")
           ELSE TurnFails /\ UNCHANGED attach
  /\ UNCHANGED <<asked, reused, acked, progress, quietSince, answering, aborted, receipts, lease>>

AttachFiles ==
  /\ step = "filing" /\ Goes("sending")
  /\ UNCHANGED <<asked, reused, acked, attach, environment, answering, aborted, receipts, lease>>

\* sendAttachedPrompt: Send is enabled, its activation reported, and Enter pressed.
PressSend ==
  /\ step = "sending" /\ ~Heeded /\ page.composer = "prompt" /\ Goes("accepting")
  /\ \/ UNCHANGED page
     \/ page' = [page EXCEPT !.composer = "empty", !.messages = @ + 1,
                             !.phase = "thinking", !.text = 0]
  /\ UNCHANGED <<asked, reused, acked, attach, progress, quietSince, answering, aborted, receipts, lease>>

-----------------------------------------------------------------------------
(* The tool boundary.                                                      *)

\* A batch the tracker has not seen: the visible text becomes the boundary, and the
\* batch is acknowledged, so that its tools may run.
NewBatch == progress.batches > tracker.seen

Boundary(text) ==
  [tracker EXCEPT !.seen = progress.batches, !.boundary = text, !.candidate = NoText]

Acknowledges(text) ==
  IF NewBatch
  THEN /\ tracker' = Boundary(text)
       /\ progress' = [progress EXCEPT !.observed = progress.batches]
       /\ missed' = (missed \/ text # page.text)
  ELSE UNCHANGED <<tracker, progress, missed>>

\* A probe of the answer: its text, or nothing when the response is not there or the
\* probe has not answered in time.
Probed == {page.text, 0}

\* waitForSubmissionAccepted: evidence in the page, or a tool batch.
Accept ==
  /\ step = "accepting" /\ ~Heeded /\ (Evidence \/ NewBatch)
  /\ \E text \in Probed : Acknowledges(text)
  /\ receipts' = receipts + 1 /\ Goes("binding")
  /\ budget' = [budget EXCEPT !.rebinds = 0]
  /\ UNCHANGED <<asked, reused, acked, attach, page, quietSince, snap, aborted, lease>>

Mounted == page.phase \in {"writing", "calling", "resuming", "done"}

\* waitForNewAssistantTurn: the progress is read again after the probe.
Bind ==
  /\ step = "binding" /\ ~Heeded
  /\ \E text \in Probed : Acknowledges(text)
  /\ IF Mounted THEN Goes(IF LastMessage THEN "observing" ELSE "staging") ELSE Goes(step)
  /\ budget' = [budget EXCEPT !.rebinds = 0]
  /\ UNCHANGED <<asked, reused, acked, attach, page, quietSince, snap, aborted, receipts, lease>>

\* waitForMultipartAcknowledgement: the stage is answered with its acknowledgement.
StageAcknowledged ==
  /\ step = "staging" /\ ~Heeded /\ page.phase = "done"
  /\ acked' = acked + 1 /\ Goes("preparing")
  /\ UNCHANGED <<asked, reused, attach, environment, answering, aborted, receipts, lease>>

-----------------------------------------------------------------------------
(* The observation loop.                                                   *)

\* Is the copy action, or Stop, visible?  While ChatGPT writes the one is not and the
\* other is, and afterwards the reverse; around a tool call either may be.
ActionVisible == CASE page.phase = "done" -> BOOLEAN
                   [] page.phase \in {"calling", "resuming"} -> BOOLEAN
                   [] OTHER -> {FALSE}
StopVisible == CASE page.phase \in {"calling", "resuming"} -> BOOLEAN
                 [] page.phase = "done" -> {FALSE}
                 [] OTHER -> {TRUE}

\* responseDomSnapshot: what the page shows now.
Look ==
  /\ step = "observing" /\ snap = NoSnap /\ ~Heeded
  /\ \/ snap' = [present |-> FALSE, text |-> 0, action |-> FALSE]
     \/ \E action \in ActionVisible :
          snap' = [present |-> TRUE, text |-> page.text, action |-> action]
  /\ budget' = [rebinds |-> IF snap'.present THEN 0 ELSE budget.rebinds, faults |-> 0]
  /\ UNCHANGED <<asked, reused, step, acked, attach, environment, tracker, missed, aborted,
                 outcome, receipts, lease>>

\* chatGptExternalProgressSuppressesDomHealth
ProgressLive == progress.batches > 0 /\ ~progress.stale

Complete(running) == snap.present /\ ~running /\ snap.text > 0 /\ snap.action

\* ChatGptCompletionTracker.update on a tracker that has seen all batches: what it
\* keeps as its candidate, and whether that has settled.
Candidate(t, running) ==
  IF progress.active \/ t.boundary = snap.text \/ ~Complete(running) THEN NoText ELSE snap.text
Settled(t, running) == Candidate(t, running) # NoText /\ t.candidate = snap.text

\* Mutant of Quiet: work the broker knows of does not hold the fence.
AlwaysQuiet == TRUE

\* The broker has no activity of the turn.
Quiet == page.phase # "calling"

\* The answer's snapshot is judged against the progress as it is by now.
Judge(running) ==
  LET t == IF NewBatch THEN Boundary(snap.text) ELSE tracker IN
  /\ step = "observing" /\ snap # NoSnap /\ running \in StopVisible /\ snap' = NoSnap
  /\ progress' = [progress EXCEPT !.observed = IF NewBatch THEN progress.batches ELSE @]
  /\ missed' = (missed \/ (NewBatch /\ snap.text # page.text))
  /\ IF ~snap.present
     THEN tracker' = t /\ Goes(step) /\ UNCHANGED quietSince
     ELSE \/ /\ tracker' = [t EXCEPT !.candidate = Candidate(t, running), !.fence = FALSE]
             /\ Goes(step) /\ UNCHANGED quietSince
          \/ /\ Settled(t, running) /\ asked.tools
             /\ IF t.fence /\ quietSince /\ Quiet
                THEN tracker' = t /\ EndsWith("completed", snap.text) /\ UNCHANGED quietSince
                ELSE /\ tracker' = [t EXCEPT !.fence = ~@ /\ Quiet]
                     /\ quietSince' = Quiet /\ Goes(step)
          \/ /\ Settled(t, running) /\ ~asked.tools
             /\ tracker' = t /\ EndsWith("completed", snap.text) /\ UNCHANGED quietSince
  /\ UNCHANGED <<asked, reused, acked, attach, page, budget, aborted, receipts, lease>>

\* ChatGptTurnDomHealthTracker, and the missing answer after the last tool: a window
\* has run out.
Unhealthy(running) ==
  /\ ~ProgressLive
  /\ ~snap.present \/ (~running /\ (snap.text = 0) = snap.action)
AnswerMissing(running) ==
  /\ ~progress.active /\ tracker.boundary = snap.text /\ Complete(running)

DomVerdict ==
  /\ step = "observing" /\ snap # NoSnap
  /\ \E running \in StopVisible : Unhealthy(running) \/ AnswerMissing(running)
  /\ TurnFails /\ snap' = NoSnap
  /\ UNCHANGED <<asked, reused, acked, attach, environment, tracker, budget, missed, aborted,
                 receipts, lease>>

\* A probe that does not answer: the page is bound again, for a limited number of times.
ProbeStalls ==
  /\ step \in {"accepting", "binding", "observing"} /\ snap = NoSnap
  /\ IF budget.rebinds < MaxRebinds
     THEN budget' = [budget EXCEPT !.rebinds = @ + 1] /\ Goes(step)
     ELSE TurnFails /\ UNCHANGED budget
  /\ UNCHANGED <<asked, reused, acked, attach, environment, tracker, snap, missed, aborted,
                 receipts, lease>>

\* A fault of the worker itself while it reads the page is tolerated.
InternalFault ==
  /\ step = "observing" /\ snap = NoSnap /\ ~Heeded
  /\ IF budget.faults < MaxFaults
     THEN budget' = [budget EXCEPT !.faults = @ + 1] /\ Goes(step)
     ELSE TurnFails /\ UNCHANGED budget
  /\ UNCHANGED <<asked, reused, acked, attach, environment, tracker, snap, missed, aborted,
                 receipts, lease>>

-----------------------------------------------------------------------------
(* Ends.                                                                   *)

\* A stage timed out, an alert or a dialog was shown, the tab was closed.
StageFails ==
  /\ step \notin {"leasing", "observing", "draining", "releasing", "ended"} /\ TurnFails
  /\ UNCHANGED <<asked, reused, acked, attach, environment, answering, aborted, receipts, lease>>
LoopFails ==
  /\ step = "observing" /\ snap = NoSnap /\ TurnFails
  /\ UNCHANGED <<asked, reused, acked, attach, environment, answering, aborted, receipts, lease>>

AbortTurn ==
  /\ aborted = "no" /\ step # "ended"
  /\ aborted' \in {"client", "handoff"}
  /\ UNCHANGED <<asked, reused, step, acked, attach, environment, answering, outcome, receipts, lease>>

NoticeAbort ==
  /\ Heeded /\ snap = NoSnap
  /\ EndsWith(IF aborted = "handoff" THEN "handoff" ELSE "aborted", NoText)
  /\ UNCHANGED <<asked, reused, acked, attach, environment, answering, aborted, receipts, lease>>

\* The finally blocks: the usage writes are awaited, the prompt and the connection
\* released, and then the launcher is told how the turn ended.
Drain ==
  /\ step = "draining" /\ receipts' = 0 /\ Goes("releasing")
  /\ UNCHANGED <<asked, reused, acked, attach, environment, answering, aborted, lease>>

\* The launcher may answer that the user closed the tab or must sign in, or nothing.
Release(reply) ==
  /\ step = "releasing" /\ lease' = "released" /\ step' = "ended"
  /\ outcome' =
       IF \/ reply = "cancelledByUser"
          \/ reply = "authenticationRequired" /\ outcome.status # "aborted"
          \/ reply = "lost" /\ outcome.status = "completed"
       THEN [status |-> "failed", answer |-> NoText] ELSE outcome
  /\ UNCHANGED <<asked, reused, acked, attach, environment, answering, aborted, receipts>>

-----------------------------------------------------------------------------
(* The environment: ChatGPT, the tools and time.                           *)

worker == <<asked, reused, step, acked, attach, tracker, snap, budget, aborted, outcome,
            receipts, lease, missed>>

\* While text is put into the composer, the composer may take it for a finished message.
SubmitsItself ==
  /\ step = "verifying" /\ page.composer = "prompt"
  /\ page' = [page EXCEPT !.composer = "empty", !.messages = @ + 1, !.phase = "thinking", !.text = 0]
  /\ UNCHANGED <<worker, progress, quietSince>>

Writes ==
  /\ page.phase \in {"thinking", "writing", "resuming"} /\ page.text < MaxText
  /\ page' = [page EXCEPT !.phase = "writing", !.text = @ + 1]
  /\ UNCHANGED <<worker, progress, quietSince>>

FinishesAnswer ==
  /\ page.phase \in {"writing", "resuming"} /\ page' = [page EXCEPT !.phase = "done"]
  /\ UNCHANGED <<worker, progress, quietSince>>

\* A call reaches the broker: no text is written until it is answered.
CallsTool ==
  /\ asked.tools /\ LastMessage /\ page.phase \in {"thinking", "writing", "resuming"}
  /\ progress.batches < MaxBatches
  /\ page' = [page EXCEPT !.phase = "calling"] /\ quietSince' = FALSE
  /\ UNCHANGED <<worker, progress>>

\* recordToolBatch
BatchRecorded ==
  /\ page.phase = "calling" /\ ~progress.active
  /\ progress' = [progress EXCEPT !.batches = @ + 1, !.active = TRUE, !.stale = FALSE]
  /\ UNCHANGED <<worker, page, quietSince>>

\* waitForToolBatchObservation, the tool itself, and recordToolResult
ToolAnswered ==
  /\ progress.active /\ progress.observed = progress.batches
  /\ progress' = [progress EXCEPT !.active = FALSE, !.stale = FALSE]
  /\ page' = [page EXCEPT !.phase = "resuming"] /\ quietSince' = FALSE
  /\ UNCHANGED worker

\* No progress for CHATGPT_EXTERNAL_PROGRESS_STALL_CEILING_MS.
GoesStale ==
  /\ progress.batches > 0 /\ ~progress.stale
  /\ progress' = [progress EXCEPT !.stale = TRUE]
  /\ UNCHANGED <<worker, page, quietSince>>

WorkerStep ==
  \/ \E granted, retained \in BOOLEAN : Lease(granted, retained)
  \/ AcquirePage \/ Prepare \/ TriggerFails \/ RefreshCatalog \/ Insert \/ Verify
  \/ AttachFiles \/ PressSend \/ Accept \/ Bind \/ StageAcknowledged
  \/ Look \/ DomVerdict \/ ProbeStalls \/ InternalFault
  \/ \E running \in BOOLEAN : Judge(running)
  \/ StageFails \/ LoopFails \/ NoticeAbort \/ Drain
  \/ \E reply \in {"ok", "cancelledByUser", "authenticationRequired", "lost"} : Release(reply)

TurnNext ==
  \/ WorkerStep \/ AbortTurn
  \/ SubmitsItself \/ Writes \/ FinishesAnswer \/ CallsTool \/ BatchRecorded
  \/ ToolAnswered \/ GoesStale

TurnSpec == TurnInit /\ [][TurnNext]_turnVars

\* The worker never rests while its stages have timeouts, an abort is noticed in the
\* end, and silence gets stale.
TurnFairness ==
  /\ WF_turnVars(WorkerStep) /\ SF_turnVars(NoticeAbort) /\ SF_turnVars(DomVerdict)
  /\ WF_turnVars(GoesStale)
FairTurnSpec == TurnSpec /\ TurnFairness

-----------------------------------------------------------------------------
\* The answer that a turn returns is the last text of an answer that ChatGPT has
\* finished: never a draft, nor what was written before a tool call or during one.  The
\* broker's fence, the tracker's candidate and the copy action have to agree for that.
\* A boundary that was not read off the page (missed) is excepted.
AnswerIsFinal ==
  outcome.status = "completed" =>
    missed \/ (page.phase = "done" /\ outcome.answer = page.text)

\* A message is submitted once: no retry of an attachment sends another one, although
\* ChatGPT may have submitted the composer's text on its own.
NoSecondSubmission == page.messages <= acked + 1

\* A turn that is aborted ends, wherever it is.
AbortedTurnEnds == aborted # "no" ~> step = "ended"

=============================================================================
