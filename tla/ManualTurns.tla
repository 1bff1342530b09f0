----------------------------- MODULE ManualTurns -----------------------------
(***************************************************************************)
(* A Zero Risk turn: the daemon's runManual (index.ts), its requests to    *)
(* the launcher (launcher-browser-host.ts, control-server.cjs), the        *)
(* launcher's manual tabs (browser-host.cjs) and the user, who pastes the  *)
(* prompt, sends it and says so.  The code never looks at the page: that a *)
(* retained tab still shows the conversation it was kept for is all the    *)
(* launcher knows when it hands out a prompt without the history.          *)
(*                                                                         *)
(* A request that the daemon gave up on took effect before that, or never. *)
(***************************************************************************)
EXTENDS Naturals, FiniteSets

CONSTANTS
  LastTurn,    \* the turns are 1 .. LastTurn; those of a thread run one after another
  ThreadOf,    \* the Codex thread of a turn
  ModelOf,     \* its model, effort and compaction epoch: the rest of its key
  Kept,        \* the turns whose conversation is retained; not so a compaction
  MaxManual,   \* MAX_BROWSER_TABS
  MaxPages,    \* bound: pages opened
  MaxLost,     \* bound: requests and acknowledgements lost
  MaxHelpers,  \* bound: daemons; the next one begins when one dies
  MaxNudges    \* bound: pages left, pages that fail, tabs closed, turns aborted or refused

ManualTurn == 1 .. LastTurn
Page == 1 .. MaxPages
Helper == 1 .. MaxHelpers

ASSUME ManualAssumption ==
  /\ {LastTurn, MaxManual, MaxPages, MaxLost, MaxHelpers, MaxNudges} \subseteq Nat
  /\ MaxHelpers # 0  \* a daemon runs
  /\ DOMAIN ThreadOf = ManualTurn /\ DOMAIN ModelOf = ManualTurn /\ Kept \subseteq ManualTurn

VARIABLES
  manualTabs,   \* turnTabs, by page
  opened,       \* pages opened so far
  terminals,    \* manualTerminalSignals
  completions,  \* manualCompletionSignals
  helper,       \* the daemon that runs
  manual,       \* what each turn of that daemon is at
  answered,     \* the turns that have an answer; Codex has it once the turn is over
  lost,         \* requests and acknowledgements lost
  nudges

manualVars ==
  <<manualTabs, opened, terminals, completions, helper, manual, answered, lost, nudges>>

NoKey == <<>>
NoSignal == [pid |-> 0, status |-> "none"]
NoTab == [turn |-> 0]

(* chatGptConversationKey. *)
KeyOfTurn(t) == IF t \in Kept THEN <<ThreadOf[t], ModelOf[t]>> ELSE NoKey

(* The accumulated history of the turn's request, and the part that came from its epoch. *)
HistoryOf(t) == {u \in answered : u < t /\ ThreadOf[u] = ThreadOf[t]}
EpochOf(t) == {u \in HistoryOf(t) : KeyOfTurn(u) = KeyOfTurn(t)}

Waiting == {"starting", "sending", "connecting", "marking", "working"}
Ending == {"completed", "failed", "aborted"}
ManualPlaces == {"idle"} \cup Waiting \cup Ending \cup {"over"}
TabStates == {"awaiting-user", "sent", "running", "completed", "timed-out", "failed", "cancelled"}

ManualTypeOK ==
  /\ opened \in 0 .. MaxPages /\ helper \in Helper
  /\ \A p \in Page : manualTabs[p] # NoTab =>
       manualTabs[p] \in
         [turn : ManualTurn, key : {KeyOfTurn(t) : t \in ManualTurn} \cup {NoKey}, pid : Helper,
          status : {"running", "ready", "error"}, state : TabStates,
          reused : BOOLEAN, armed : BOOLEAN, posted : BOOLEAN, closing : BOOLEAN,
          strayed : BOOLEAN,  \* the user left it between sending the prompt and pressing Sent
          knows : SUBSET ManualTurn]
  /\ terminals \in [ManualTurn -> [pid : 0 .. MaxHelpers,
                                   status : {"none", "timeout", "failed", "cancelled"}]]
  /\ completions \in [ManualTurn -> 0 .. MaxHelpers]
  /\ manual \in [ManualTurn -> [at : ManualPlaces, tries : 0 .. 2, aborted : BOOLEAN]]
  /\ answered \subseteq ManualTurn /\ lost \in 0 .. MaxLost /\ nudges \in 0 .. MaxNudges

Nudge == nudges < MaxNudges /\ nudges' = nudges + 1

IdleTurn == [at |-> "idle", tries |-> 0, aborted |-> FALSE]

ManualInit ==
  /\ manualTabs = [p \in Page |-> NoTab] /\ opened = 0
  /\ terminals = [t \in ManualTurn |-> NoSignal] /\ completions = [t \in ManualTurn |-> 0]
  /\ helper = 1 /\ manual = [t \in ManualTurn |-> IdleTurn]
  /\ answered = {} /\ lost = 0 /\ nudges = 0

-----------------------------------------------------------------------------
(* The launcher's tabs. *)

Tabs == {p \in Page : manualTabs[p] # NoTab}
TabsOf(t) == {p \in Tabs : manualTabs[p].turn = t}
OwnTabs(t) == {p \in TabsOf(t) : manualTabs[p].pid = helper}
Retained(key) == {p \in Tabs : manualTabs[p].status = "ready" /\ manualTabs[p].key = key}

(* signalManualTerminal: the deadline no longer runs. *)
Signalled(tab, status) ==
  [tab EXCEPT !.state = IF status = "timeout" THEN "timed-out" ELSE status, !.armed = FALSE]

Remember(p, status) ==
  terminals' =
    [terminals EXCEPT ![manualTabs[p].turn] = [pid |-> manualTabs[p].pid, status |-> status]]

Without(p) == manualTabs' = [manualTabs EXCEPT ![p] = NoTab]

(* evictOldestReclaimableTurnTab: first the tabs of turns that ended without an answer. *)
Reclaimable ==
  LET failed == {p \in Tabs : /\ manualTabs[p].status = "error"
                              /\ manualTabs[p].state \in {"timed-out", "failed", "cancelled"}}
  IN IF failed # {} THEN failed ELSE {p \in Tabs : manualTabs[p].status = "ready"}

NewTab(t) ==
  [turn |-> t, key |-> KeyOfTurn(t), pid |-> helper, status |-> "running",
   state |-> "awaiting-user", reused |-> FALSE, armed |-> TRUE, posted |-> FALSE,
   closing |-> FALSE, strayed |-> FALSE, knows |-> {}]

(* createManualTurnTab makes room where there is none; the clipboard may fail afterwards. *)
OpenTab(t, ok) ==
  /\ opened < MaxPages /\ opened' = opened + 1
  /\ \E gone \in SUBSET Reclaimable :
       /\ IF Cardinality(Tabs) < MaxManual THEN gone = {} ELSE Cardinality(gone) = 1
       /\ manualTabs' = [p \in Page |-> IF p \in gone THEN NoTab
                                        ELSE IF p = opened' /\ ok THEN NewTab(t)
                                        ELSE manualTabs[p]]
  /\ IF ok THEN UNCHANGED terminals
     ELSE terminals' = [terminals EXCEPT ![t] = [pid |-> helper, status |-> "failed"]]

ReuseTab(p, t) ==
  manualTabs' = [manualTabs EXCEPT ![p] =
    [manualTabs[p] EXCEPT !.turn = t, !.pid = helper, !.status = "running",
      !.state = "awaiting-user", !.reused = TRUE, !.armed = TRUE, !.posted = FALSE]]

(* A turn that has ended here does not begin again. *)
Refused(t) == completions[t] # 0 \/ terminals[t].pid = helper
Unstarted(t) == ~Refused(t) /\ TabsOf(t) = {}
Continued(t) == IF t \in Kept THEN Retained(KeyOfTurn(t)) ELSE {}

Full == Cardinality(Tabs) = MaxManual /\ Reclaimable = {}
Denied(t) ==
  \/ Refused(t)
  \/ Unstarted(t) /\ IF Continued(t) = {} THEN Full
                     ELSE Cardinality(Continued(t)) > 1 \/ HistoryOf(t) = {}

(* beginManualTurn; what a first request did, the second one finds. *)
HostStart(t, ok) ==
  /\ UNCHANGED completions
  /\ \/ ~ok /\ Denied(t) /\ UNCHANGED <<manualTabs, opened, terminals>>
     \/ /\ ~ok /\ ~Refused(t) /\ UNCHANGED opened
        /\ \E p \in TabsOf(t) \ OwnTabs(t) : Without(p)
        /\ terminals' = [terminals EXCEPT ![t] = [pid |-> helper, status |-> "failed"]]
     \/ ok /\ ~Refused(t) /\ OwnTabs(t) # {} /\ UNCHANGED <<manualTabs, opened, terminals>>
     \/ /\ Unstarted(t) /\ ~Denied(t)
        /\ IF Continued(t) = {} THEN OpenTab(t, ok)
           ELSE ok /\ (\E p \in Continued(t) : ReuseTab(p, t)) /\ UNCHANGED <<opened, terminals>>

(* The launcher is busy with something else, a prompt too long, its clipboard out of order. *)
HostBusy == UNCHANGED <<manualTabs, opened, terminals, completions>>

(* markManualTurnStarted. *)
HostMark(t, ok) ==
  /\ UNCHANGED <<opened, terminals, completions>>
  /\ ok <=> \E p \in OwnTabs(t) : manualTabs[p].state \in {"sent", "running"}
  /\ IF ok THEN \E p \in OwnTabs(t) :
                  manualTabs' = [manualTabs EXCEPT ![p].state = "running", ![p].armed = FALSE]
     ELSE UNCHANGED manualTabs

(* endManualTurn keeps the page for its conversation, if it still shows it. *)
Keeps(p, t) == t \in Kept /\ manualTabs[p].key # NoKey

KeepTab(p) ==
  manualTabs' = [manualTabs EXCEPT ![p] =
    [manualTabs[p] EXCEPT !.state = "completed", !.status = "ready", !.armed = FALSE]]

(* What endManualTurn finds out first, whatever it is asked: the turn is already completed. *)
IsCompleted(t) ==
  completions[t] = helper \/ \E p \in OwnTabs(t) : manualTabs[p].state = "completed"
RecordCompletion(t) == completions' = [completions EXCEPT ![t] = helper]

(* endManualTurn, of a turn that answered. *)
HostCompleted(t, ok) ==
  /\ UNCHANGED <<opened, terminals>>
  /\ \/ ok /\ IsCompleted(t) /\ RecordCompletion(t) /\ UNCHANGED manualTabs
     \/ /\ ~IsCompleted(t) /\ UNCHANGED <<manualTabs, completions>>
        /\ IF OwnTabs(t) = {} THEN ok <=> terminals[t].pid = helper
           ELSE ~ok /\ \A p \in OwnTabs(t) : manualTabs[p].state \notin {"sent", "running"}
     \/ /\ ok /\ ~IsCompleted(t) /\ RecordCompletion(t)
        /\ \E p \in OwnTabs(t) :
             /\ manualTabs[p].state \in {"sent", "running"}
             /\ IF Keeps(p, t) THEN KeepTab(p) ELSE Without(p)

(* endManualTurn, of one that did not. *)
HostEnded(t, ok) ==
  /\ UNCHANGED opened
  /\ IF IsCompleted(t)
     THEN ok /\ RecordCompletion(t) /\ UNCHANGED <<manualTabs, terminals>>
     ELSE /\ UNCHANGED completions
          /\ IF OwnTabs(t) = {}
             THEN (ok <=> terminals[t].pid = helper) /\ UNCHANGED <<manualTabs, terminals>>
             ELSE ok /\ \E p \in OwnTabs(t) : Without(p) /\
                    Remember(p, IF manual[t].at = "failed" THEN "failed" ELSE "cancelled")

-----------------------------------------------------------------------------
(* The daemon: runManual. *)

(* Its catch: a turn that was never acknowledged has nothing to release. *)
Failing(m) ==
  [m EXCEPT !.tries = 2, !.at = IF m.at = "starting" THEN "over"
                                ELSE IF m.aborted THEN "aborted" ELSE "failed"]

ManualFails(t) == manual' = [manual EXCEPT ![t] = Failing(@)]
GoesTo(t, to) == manual' = [manual EXCEPT ![t].at = to, ![t].tries = 2]

(* reconcileLauncherManualMutation asks a second time, then gives up. *)
Unheard(t) ==
  /\ lost < MaxLost /\ lost' = lost + 1
  /\ IF manual[t].tries = 2 THEN manual' = [manual EXCEPT ![t].tries = 1]
     ELSE IF manual[t].at \in Ending THEN GoesTo(t, "over") ELSE ManualFails(t)

Elsewhere == <<manualTabs, opened, terminals, completions, helper, answered, nudges>>

BeginManual(t) ==
  /\ manual[t].at = "idle"
  /\ \A u \in ManualTurn : u < t /\ ThreadOf[u] = ThreadOf[t] => manual[u].at = "over"
  /\ GoesTo(t, "starting") /\ UNCHANGED <<Elsewhere, lost>>

(* A mutation that does not reach the launcher. *)
LoseRequest(t) ==
  manual[t].at \in {"starting", "marking"} \cup Ending /\ Unheard(t) /\ UNCHANGED Elsewhere

StartTurn(t) ==
  /\ manual[t].at = "starting" /\ UNCHANGED <<helper, answered>>
  /\ \E ok \in BOOLEAN :
       /\ (HostStart(t, ok) /\ UNCHANGED nudges) \/ (~ok /\ HostBusy /\ Nudge)
       /\ \/ Unheard(t)
          \/ UNCHANGED lost /\ IF ok THEN GoesTo(t, "sending") ELSE ManualFails(t)

(* waitManualSent answers as soon as it has something to say. *)
HasBeenSent(t) == \E p \in OwnTabs(t) : manualTabs[p].state \in {"sent", "running", "completed"}
CannotBeSent(t) ==
  \A p \in OwnTabs(t) : manualTabs[p].state \in {"timed-out", "failed", "cancelled"}

WaitSent(t) ==
  /\ manual[t].at = "sending" /\ UNCHANGED <<Elsewhere, lost>>
  /\ \/ HasBeenSent(t) /\ ~manual[t].aborted /\ GoesTo(t, "connecting")
     \/ CannotBeSent(t) /\ ManualFails(t)

AbortSeen(t) ==
  /\ manual[t].at \in {"sending", "connecting", "working"} /\ manual[t].aborted
  /\ ManualFails(t) /\ UNCHANGED <<Elsewhere, lost>>

(* waitManualTerminal. *)
HasEnded(t) == terminals[t].pid = helper \/ OwnTabs(t) = {}

TerminalSeen(t) ==
  /\ manual[t].at \in {"connecting", "working"} /\ HasEnded(t)
  /\ ManualFails(t) /\ UNCHANGED <<Elsewhere, lost>>

(* A wait that the launcher does not answer. *)
LoseWait(t) ==
  /\ manual[t].at \in {"sending", "connecting", "working"} /\ lost < MaxLost /\ lost' = lost + 1
  /\ ManualFails(t) /\ UNCHANGED Elsewhere

(* ChatGPT has the prompt, and connects to the daemon. *)
ConnectorStarts(t) ==
  /\ manual[t].at = "connecting" /\ \E p \in OwnTabs(t) : manualTabs[p].posted
  /\ GoesTo(t, "marking") /\ UNCHANGED <<Elsewhere, lost>>

MarkStarted(t) ==
  /\ manual[t].at = "marking" /\ UNCHANGED <<helper, answered, nudges>>
  /\ \E ok \in BOOLEAN :
       /\ HostMark(t, ok)
       /\ \/ Unheard(t)
          \/ UNCHANGED lost /\ IF ok THEN GoesTo(t, "working") ELSE ManualFails(t)

(* The round returns its answer to Codex when finishLauncher is done. *)
AnswerArrives(t) ==
  /\ manual[t].at = "working" /\ GoesTo(t, "completed")
  /\ answered' = answered \cup {t}
  /\ UNCHANGED <<manualTabs, opened, terminals, completions, helper, lost, nudges>>

(* finishLauncher; what the launcher says to it changes nothing. *)
EndManual(t) ==
  /\ manual[t].at \in Ending /\ UNCHANGED <<helper, answered, nudges>>
  /\ \E ok \in BOOLEAN : IF manual[t].at = "completed" THEN HostCompleted(t, ok)
                         ELSE HostEnded(t, ok)
  /\ Unheard(t) \/ (UNCHANGED lost /\ GoesTo(t, "over"))

(* The daemon exits; Codex asks the next one for what it has no answer to. *)
NextDaemon ==
  /\ helper < MaxHelpers /\ helper' = helper + 1
  /\ manual' = [t \in ManualTurn |->
       IF manual[t].at = "over" THEN [IdleTurn EXCEPT !.at = "over"] ELSE IdleTurn]
  /\ answered' = {t \in answered : manual[t].at = "over"}
  /\ UNCHANGED <<manualTabs, opened, terminals, completions, lost, nudges>>

-----------------------------------------------------------------------------
(* The user and the page. *)

User == <<opened, completions, helper, answered, lost>>

(* Codex interrupts the turn. *)
AbortManual(t) ==
  /\ manual[t].at \in Waiting /\ ~manual[t].aborted /\ Nudge
  /\ manual' = [manual EXCEPT ![t].aborted = TRUE] /\ UNCHANGED <<User, manualTabs, terminals>>

(* The user pastes the tab's prompt and sends it. *)
Post(p) ==
  LET tab == manualTabs[p] IN
    /\ p \in Tabs /\ tab.state \in {"awaiting-user", "sent"} /\ ~tab.posted
    /\ tab.status = "running"
    /\ manualTabs' = [manualTabs EXCEPT ![p].posted = TRUE, ![p].knows =
         {tab.turn} \cup IF tab.reused THEN tab.knows ELSE HistoryOf(tab.turn)]
    /\ UNCHANGED <<User, terminals, manual, nudges>>

(* confirmManualSent, maybe too soon. *)
PressSent(p) ==
  /\ p \in Tabs /\ manualTabs[p].state = "awaiting-user"
  /\ manualTabs' = [manualTabs EXCEPT ![p].state = "sent", ![p].armed = FALSE]
  /\ UNCHANGED <<User, terminals, manual, nudges>>

(* armManualTurnDeadline's timer. *)
Deadline(p) ==
  /\ p \in Tabs /\ manualTabs[p].armed /\ manualTabs[p].state = "awaiting-user"
  /\ manualTabs' = [manualTabs EXCEPT ![p] =
       [Signalled(manualTabs[p], "timeout") EXCEPT !.status = "error"]]
  /\ Remember(p, "timeout") /\ UNCHANGED <<User, manual, nudges>>

\* Mutant of Continues: every change of the page before Sent is the one of its first load.
ContinuesUntilSent(tab) == tab.key = NoKey \/ tab.state = "awaiting-user"

(* invalidateConversation has nothing to forget, or the page is still to get its full prompt. *)
Continues(tab) == tab.key = NoKey \/ (~tab.reused /\ tab.state = "awaiting-user")

Unconfirmed(tab) == tab.strayed \/ (tab.posted /\ tab.state = "awaiting-user")

(* A conversation that began here gets its address, or the user leaves it. *)
Navigate(p) ==
  LET tab == manualTabs[p] IN
    /\ p \in Tabs /\ UNCHANGED <<User, manual>>
    /\ \E leaves \in BOOLEAN :
         /\ IF leaves THEN Nudge ELSE tab.posted /\ ~tab.reused /\ UNCHANGED nudges
         /\ LET moved == IF leaves THEN [tab EXCEPT !.knows = {}, !.strayed = Unconfirmed(tab)]
                         ELSE tab
            IN
              IF Continues(tab)
              THEN manualTabs' = [manualTabs EXCEPT ![p] = moved] /\ UNCHANGED terminals
              ELSE IF tab.reused /\ tab.status = "running"
              THEN /\ manualTabs' = [manualTabs EXCEPT ![p] =
                        [Signalled(moved, "failed") EXCEPT !.key = NoKey, !.status = "error"]]
                   /\ Remember(p, "failed")
              ELSE /\ manualTabs' = [manualTabs EXCEPT ![p] = [moved EXCEPT !.key = NoKey]]
                   /\ UNCHANGED terminals

(* initializeManualTurnTab, where the page does not load at first. *)
FailsToLoad(p) == Without(p) /\ Remember(p, "failed")

(* It does not load then or later, or its renderer is gone. *)
PageFails(p) == p \in Tabs /\ Nudge /\ FailsToLoad(p) /\ UNCHANGED <<User, manual>>

(* closeTab: of a running turn, the daemon is told first. *)
CloseManual(p) ==
  /\ p \in Tabs /\ ~manualTabs[p].closing /\ Nudge /\ Remember(p, "cancelled")
  /\ IF manualTabs[p].status = "running"
     THEN manualTabs' = [manualTabs EXCEPT ![p] =
            [Signalled(manualTabs[p], "cancelled") EXCEPT !.closing = TRUE]]
     ELSE Without(p)
  /\ UNCHANGED <<User, manual>>

(* The daemon that runs now is told, whichever began the turn. *)
CancelTurn(p) ==
  LET t == manualTabs[p].turn IN
    /\ p \in Tabs /\ manualTabs[p].closing /\ manual[t].at \in Waiting /\ ~manual[t].aborted
    /\ manual' = [manual EXCEPT ![t].aborted = TRUE]
    /\ UNCHANGED <<User, manualTabs, terminals, nudges>>

ClosedManual(p) ==
  /\ p \in Tabs /\ manualTabs[p].closing /\ Without(p)
  /\ UNCHANGED <<User, terminals, manual, nudges>>

(* reapExpiredTurnTabs. *)
ReapManual(p) ==
  /\ p \in Tabs /\ UNCHANGED <<User, manual, nudges>>
  /\ \/ manualTabs[p].status = "ready" /\ Without(p) /\ UNCHANGED terminals
     \/ /\ manualTabs[p].status = "running" /\ manualTabs[p].pid # helper
        /\ Without(p) /\ Remember(p, "failed")

(* releaseRetainedConversation. *)
ReleaseKey(key) ==
  /\ Retained(key) # {}
  /\ manualTabs' = [p \in Page |-> IF p \in Retained(key) THEN NoTab ELSE manualTabs[p]]
  /\ UNCHANGED <<User, terminals, manual, nudges>>

TurnSteps(t) ==
  \/ BeginManual(t) \/ LoseRequest(t) \/ StartTurn(t) \/ WaitSent(t) \/ AbortSeen(t)
  \/ TerminalSeen(t) \/ LoseWait(t) \/ ConnectorStarts(t) \/ MarkStarted(t) \/ AnswerArrives(t)
  \/ EndManual(t) \/ AbortManual(t)
PageSteps(p) ==
  \/ Post(p) \/ PressSent(p) \/ Deadline(p) \/ Navigate(p) \/ PageFails(p)
  \/ CloseManual(p) \/ CancelTurn(p) \/ ClosedManual(p) \/ ReapManual(p)

ManualNext ==
  \/ \E t \in ManualTurn : TurnSteps(t)
  \/ \E p \in Page : PageSteps(p)
  \/ \E t \in Kept : ReleaseKey(KeyOfTurn(t))
  \/ NextDaemon

ManualSpec == ManualInit /\ [][ManualNext]_manualVars

-----------------------------------------------------------------------------
Resumed(p) ==
  /\ p \in Tabs /\ manualTabs[p].reused /\ manualTabs[p].status = "running"
  /\ manualTabs[p].state \in {"awaiting-user", "sent", "running"}

(* ResumeContinues: a prompt that leaves out what went before the last answer is only used on  *)
(* a page whose conversation has every answer that the thread got from the same model since    *)
(* its last compaction, whatever was lost, closed, evicted, released or navigated before       *)
(* (beginManualTurn, invalidateConversation, endManualTurn).  The one exception: a page the    *)
(* user left after sending a prompt and before pressing Sent, which the code takes for the     *)
(* first load of the page.                                                                      *)
ResumeContinues ==
  \A p \in Page : Resumed(p) /\ ~manualTabs[p].strayed =>
    EpochOf(manualTabs[p].turn) \subseteq manualTabs[p].knows

(* OwnsHistory: "Used only when the exact retained ChatGPT conversation already owns the        *)
(* accumulated history" (launcher-browser-host.ts:410).                                         *)
OwnsHistory ==
  \A p \in Page : Resumed(p) => HistoryOf(manualTabs[p].turn) \subseteq manualTabs[p].knows
=============================================================================
