----------------------------- MODULE BrowserHost -----------------------------
(***************************************************************************)
(* The launcher's browser host (src/launcher/electron/browser-host.cjs)    *)
(* with the automatic turns it leases tabs to: begin, heartbeat and end    *)
(* calls of browser helpers, the lease sweep, the user closing tabs, the   *)
(* renderer failing, and operations on the home surface that exclude       *)
(* turns.  Zero Risk turns, views and authentication pages are not here.   *)
(*                                                                         *)
(* A tab is a number, and numbers grow: turnTabs is a Map, searched in the *)
(* order in which its tabs were created.                                   *)
(***************************************************************************)
EXTENDS Naturals, FiniteSets

CONSTANTS
  Traces,     \* trace ids of turns: derived from the request, so they repeat
  Helpers,    \* process ids of browser helpers
  None,
  KeyOf,      \* conversationKey of a trace with its connectorIdentity, or None
  Required,   \* traces with requireRetainedConversation
  MaxTabs,    \* MAX_BROWSER_TABS
  MaxOpened   \* bound of the model: tabs created in all

ASSUME HostShapes ==
  /\ None \notin Helpers
  /\ DOMAIN KeyOf = Traces
  /\ MaxTabs \in Nat \ {0} /\ MaxOpened \in Nat

VARIABLES
  tabs,            \* turnTabs
  opened,          \* tabs created so far
  closedOwners,    \* closedTurnOwners: the helper whose running tab was taken away
  cancelledOwners, \* userCancelledTurnOwners
  operation,       \* a manualOperation is on (a login, an inspection, a mode change)
  blocker,         \* the power-save blocker is up
  closing,         \* closeTab calls that await cancelTurn
  expiring,        \* expiryCancellations that await cancelTurn
  alive,           \* helper processes that run
  run              \* runExclusive of a trace in a helper

vars == <<tabs, opened, closedOwners, cancelledOwners, operation, blocker,
          closing, expiring, alive, run>>

Opened == 1 .. MaxOpened
Idle == [phase |-> "idle", tab |-> 0, completed |-> FALSE]

Tab == [trace : Traces, helper : Helpers, booted : BOOLEAN,
        late : BOOLEAN, status : {"running", "ready", "error"}]

Run == [phase : {"idle", "opening", "working", "exited"}, tab : 0 .. MaxOpened,
        completed : BOOLEAN]

TypeOK ==
  /\ DOMAIN tabs \subseteq 1 .. opened
  /\ \A i \in DOMAIN tabs : tabs[i] \in Tab
  /\ opened \in 0 .. MaxOpened
  /\ closedOwners \in [Traces -> Helpers \cup {None}]
  /\ cancelledOwners \in [Traces -> Helpers \cup {None}]
  /\ operation \in BOOLEAN /\ blocker \in BOOLEAN
  /\ closing \subseteq [tab : Opened, trace : Traces]
  /\ expiring \subseteq [tab : Opened, trace : Traces, helper : Helpers]
  /\ alive \subseteq Helpers
  /\ run \in [Helpers -> [Traces -> Run]]

Init ==
  /\ tabs = <<>> /\ opened = 0
  /\ closedOwners = [t \in Traces |-> None]
  /\ cancelledOwners = [t \in Traces |-> None]
  /\ operation = FALSE /\ blocker = FALSE
  /\ closing = {} /\ expiring = {}
  /\ alive = Helpers
  /\ run = [h \in Helpers |-> [t \in Traces |-> Idle]]

-----------------------------------------------------------------------------
(* The registry.                                                           *)

Running(i) == tabs[i].status = "running"
Ready(i) == tabs[i].status = "ready"
Owned(t) == {i \in DOMAIN tabs : tabs[i].trace = t}

\* The tab that [...turnTabs.values()].find(traceId) finds.
Found(t, i) == i \in Owned(t) /\ \A j \in Owned(t) : i <= j

\* shouldBlockSleepForTurns
Busy(T) == \E i \in DOMAIN T : T[i].status = "running"

Without(gone) == [i \in DOMAIN tabs \ gone |-> tabs[i]]

\* removeTurnTab(tab, false)
Release(gone) ==
  /\ tabs' = Without(gone)
  /\ blocker' = IF gone = {} THEN blocker ELSE Busy(tabs')

\* removeTurnTab(tab, true) remembers whose running tab it took away.
TakeAway(i) ==
  /\ Release({i})
  /\ closedOwners' = IF Running(i)
                     THEN [closedOwners EXCEPT ![tabs[i].trace] = tabs[i].helper]
                     ELSE closedOwners

KeyOfTab(i) == KeyOf[tabs[i].trace]

-----------------------------------------------------------------------------
(* beginTurn.                                                              *)

\* retainedMatches
Retained(t) ==
  {i \in DOMAIN tabs : Ready(i) /\ KeyOf[t] # None /\ KeyOfTab(i) = KeyOf[t]}

\* activeRuns has one run of a trace per helper process.  A begin is refused during
\* an operation, for a trace whose tab the user closed, and for a conversation that
\* two tabs retain.
MayBegin(h, t) ==
  /\ h \in alive /\ run[h][t].phase = "idle"
  /\ ~operation /\ cancelledOwners[t] = None
  /\ \A i, j \in Retained(t) : i = j

Launches(h, t, phase, i) ==
  run' = [run EXCEPT ![h][t] = [phase |-> phase, tab |-> i, completed |-> FALSE]]

\* Mutant of Reusable: a helper takes a running tab over without looking at its owner.
ReusableByAll(h, t, i) ==
  \/ Found(t, i) /\ Running(i)
  \/ /\ Retained(t) = {i}
     /\ ~\E j \in Owned(t) : Found(t, j) /\ j # i /\ tabs[j].status # "error"

\* The running tab of the same trace, if its owner is this helper or has died; else
\* the one retained tab of the conversation.  A trace that is retained elsewhere
\* under other metadata is refused.
Reusable(h, t, i) ==
  \/ Found(t, i) /\ Running(i) /\ (tabs[i].helper = h \/ tabs[i].helper \notin alive)
  \/ /\ Retained(t) = {i}
     /\ ~\E j \in Owned(t) : Found(t, j) /\ j # i /\ tabs[j].status # "error"

\* A tab is reused in one step; the answer may find its caller gone, and then the
\* lease belongs to nobody.
Reuse(h, t, i) ==
  /\ MayBegin(h, t) /\ Reusable(h, t, i)
  /\ tabs' = [tabs EXCEPT ![i] = [@ EXCEPT !.trace = t, !.helper = h, !.status = "running",
                                           !.booted = Ready(i) /\ tabs[i].booted, !.late = FALSE]]
  /\ \/ Launches(h, t, "working", i)
     \/ UNCHANGED run
  /\ UNCHANGED <<opened, closedOwners, cancelledOwners, operation, blocker,
                 closing, expiring, alive>>

\* evictOldestReclaimableTurnTab takes a ready tab (which one is left open here).
Reclaimable(i) == Ready(i)

\* Mutant of Full: the limit is checked one tab late.
FullLate == Cardinality(DOMAIN tabs) > MaxTabs

Full == Cardinality(DOMAIN tabs) >= MaxTabs

Evicted ==
  IF Full THEN {{i} : i \in {j \in DOMAIN tabs : Reclaimable(j)}} ELSE {{}}

\* createTurnTab registers a new running tab, then awaits its first document.
Create(h, t) ==
  /\ MayBegin(h, t) /\ t \notin Required /\ opened < MaxOpened
  /\ \A i \in Owned(t) : Found(t, i) => tabs[i].status = "error"
  /\ Retained(t) = {}
  /\ opened' = opened + 1
  /\ \E gone \in Evicted :
       tabs' = [i \in (DOMAIN tabs \ gone) \cup {opened'} |->
                  IF i = opened'
                  THEN [trace |-> t, helper |-> h, booted |-> FALSE,
                        late |-> FALSE, status |-> "running"]
                  ELSE tabs[i]]
  /\ blocker' = TRUE
  /\ Launches(h, t, "opening", opened')
  /\ UNCHANGED <<closedOwners, cancelledOwners, operation, closing, expiring, alive>>

After(h) == IF h \in alive THEN "idle" ELSE "exited"

\* The tab is initialised and leased, unless the caller has gone meanwhile.
Open(h, t) ==
  /\ run[h][t].phase = "opening" /\ run[h][t].tab \in DOMAIN tabs
  /\ \/ h \in alive /\ Launches(h, t, "working", run[h][t].tab)
     \/ Launches(h, t, After(h), 0)
  /\ UNCHANGED <<tabs, opened, closedOwners, cancelledOwners, operation, blocker,
                 closing, expiring, alive>>

\* initializeTurnTab fails, its caller disconnects, or the tab was taken away: it is
\* removed if it is still there.
FailToOpen(h, t) ==
  LET i == run[h][t].tab IN
  /\ run[h][t].phase = "opening"
  /\ IF i \in DOMAIN tabs THEN TakeAway(i) ELSE UNCHANGED <<tabs, blocker, closedOwners>>
  /\ Launches(h, t, After(h), 0)
  /\ UNCHANGED <<opened, cancelledOwners, operation, closing, expiring, alive>>

-----------------------------------------------------------------------------
(* heartbeatTurn and endTurn.                                              *)

\* A heartbeat is accepted for a running tab of its helper.  It renews a lease that
\* has booted: the deadline of the bootstrap stands.
Heartbeat(h, t) ==
  /\ run[h][t].phase = "working"
  /\ \E i \in Owned(t) :
       /\ Found(t, i) /\ tabs[i].helper = h /\ Running(i)
       /\ tabs[i].booted /\ tabs[i].late
       /\ tabs' = [tabs EXCEPT ![i].late = FALSE]
  /\ UNCHANGED <<opened, closedOwners, cancelledOwners, operation, blocker,
                 closing, expiring, alive, run>>

\* Mutant of CancelledByUser: the cancellation is forgotten with the tab.
CancelledIfOpen(h, t) == cancelledOwners[t] = h /\ Owned(t) # {}

CancelledByUser(h, t) == cancelledOwners[t] = h

Answers(h, t, status) ==
  run' = [run EXCEPT ![h][t] = [phase |-> "idle", tab |-> 0, completed |-> status # "failed"]]

\* The end of a trace that has a tab: its owner gives the tab back.
EndOwned(h, t, i, status) ==
  /\ Found(t, i) /\ tabs[i].helper = h
  /\ IF status = "retained" /\ KeyOf[t] # None
     THEN /\ tabs' = [tabs EXCEPT ![i] = [@ EXCEPT !.status = "ready", !.late = FALSE]]
          /\ blocker' = Busy(tabs')
     ELSE Release({i})
  /\ Answers(h, t, IF CancelledByUser(h, t) THEN "failed" ELSE status)
  /\ UNCHANGED closedOwners

\* The tab was taken away: the end is acknowledged once to its owner.
EndClosed(h, t, status) ==
  /\ Owned(t) = {} /\ closedOwners[t] = h
  /\ closedOwners' = [closedOwners EXCEPT ![t] = None]
  /\ Answers(h, t, IF CancelledByUser(h, t) THEN "failed" ELSE status)
  /\ UNCHANGED <<tabs, blocker>>

\* The end of a helper that owns nothing is rejected, and the turn fails.
EndRejected(h, t) ==
  /\ \A i \in Owned(t) : Found(t, i) => tabs[i].helper # h
  /\ Owned(t) = {} => closedOwners[t] # h
  /\ Answers(h, t, "failed")
  /\ UNCHANGED <<tabs, blocker, closedOwners>>

EndTurn(h, t, status) ==
  /\ \/ \E i \in Owned(t) : EndOwned(h, t, i, status)
     \/ EndClosed(h, t, status)
     \/ EndRejected(h, t)
  /\ UNCHANGED <<opened, cancelledOwners, operation, closing, expiring, alive>>

\* runExclusive ends with the outcome of its browser turn: "retained" is a completed
\* turn that asks to keep its conversation and has bound the connector, if it has one.
\* A completed turn whose page asked for a sign-in (markTurnAuthenticationRequired)
\* ends as a failed one, and a cancelled one is answered with an error too.
End(h, t, status) == run[h][t].phase = "working" /\ EndTurn(h, t, status)

\* A helper process dies: what it was doing stops, requests it made are cut off.
Die(h) ==
  /\ h \in alive
  /\ alive' = alive \ {h}
  /\ run' = [run EXCEPT ![h] = [t \in Traces |->
               IF @[t].phase = "working" THEN [@[t] EXCEPT !.phase = "exited", !.tab = 0]
               ELSE @[t]]]
  /\ UNCHANGED <<tabs, opened, closedOwners, cancelledOwners, operation, blocker,
                 closing, expiring>>

\* The daemon, if it still runs, ends the turns of the helper that exited.
EndForExited(h, t) == run[h][t].phase = "exited" /\ EndTurn(h, t, "failed")

-----------------------------------------------------------------------------
(* The lease sweep.                                                        *)

\* Time passes: the bootstrap deadline, the heartbeat timeout or the idle time of a
\* retained tab is over.
Lapse(i) ==
  /\ i \in DOMAIN tabs /\ tabs[i].status # "error" /\ ~tabs[i].late
  /\ tabs' = [tabs EXCEPT ![i].late = TRUE]
  /\ UNCHANGED <<opened, closedOwners, cancelledOwners, operation, blocker,
                 closing, expiring, alive, run>>

Awaited(i) == \E x \in expiring : x.tab = i

\* reapExpiredTurnTabs lets idle retained tabs go at once and has the runtime cancel
\* the running turns whose lease is over.
Sweep ==
  LET stale == {i \in DOMAIN tabs : Ready(i) /\ tabs[i].late}
      lost == {i \in DOMAIN tabs : Running(i) /\ tabs[i].late /\ ~Awaited(i)} IN
  /\ stale \cup lost # {}
  /\ Release(stale)
  /\ expiring' = expiring \cup
       {[tab |-> i, trace |-> tabs[i].trace, helper |-> tabs[i].helper] : i \in lost}
  /\ UNCHANGED <<opened, closedOwners, cancelledOwners, operation, closing, alive, run>>

\* Mutant of StillExpired: a cancelled tab goes whoever uses it now.
StillThere(x) == x.tab \in DOMAIN tabs

\* What the sweep has cancelled still runs for the same helper.
StillExpired(x) ==
  /\ x.tab \in DOMAIN tabs /\ Running(x.tab)
  /\ tabs[x.tab].trace = x.trace /\ tabs[x.tab].helper = x.helper

\* The runtime has acknowledged the cancellation.
Expire(x) ==
  /\ x \in expiring /\ expiring' = expiring \ {x}
  /\ IF StillExpired(x) THEN TakeAway(x.tab) ELSE UNCHANGED <<tabs, blocker, closedOwners>>
  /\ UNCHANGED <<opened, cancelledOwners, operation, closing, alive, run>>

\* The cancellation failed: the next sweep tries again.
FailToExpire(x) ==
  /\ x \in expiring /\ expiring' = expiring \ {x}
  /\ UNCHANGED <<tabs, opened, closedOwners, cancelledOwners, operation, blocker,
                 closing, alive, run>>

\* The system slept (powerMonitor, or a gap between sweeps): every running lease
\* starts anew.
Resume ==
  /\ \E i \in DOMAIN tabs : Running(i) /\ tabs[i].late
  /\ tabs' = [i \in DOMAIN tabs |->
               IF Running(i) THEN [tabs[i] EXCEPT !.late = FALSE] ELSE tabs[i]]
  /\ UNCHANGED <<opened, closedOwners, cancelledOwners, operation, blocker,
                 closing, expiring, alive, run>>

-----------------------------------------------------------------------------
(* The user, the page and the launcher.                                    *)

\* closeTab of a tab that does not run lets it go.
CloseIdle(i) ==
  /\ i \in DOMAIN tabs /\ ~Running(i)
  /\ Release({i})
  /\ UNCHANGED <<opened, closedOwners, cancelledOwners, operation, closing,
                 expiring, alive, run>>

\* closeTab of a running tab remembers the user's decision and asks the runtime to
\* cancel the turn.
CloseRunning(i) ==
  /\ i \in DOMAIN tabs /\ Running(i)
  /\ cancelledOwners' = [cancelledOwners EXCEPT ![tabs[i].trace] = tabs[i].helper]
  /\ closing' = closing \cup {[tab |-> i, trace |-> tabs[i].trace]}
  /\ UNCHANGED <<tabs, opened, closedOwners, operation, blocker, expiring, alive, run>>

\* The runtime has acknowledged: the tab goes, if it is still there.
Close(x) ==
  /\ x \in closing /\ closing' = closing \ {x}
  /\ IF x.tab \in DOMAIN tabs THEN TakeAway(x.tab)
     ELSE UNCHANGED <<tabs, blocker, closedOwners>>
  /\ UNCHANGED <<opened, cancelledOwners, operation, expiring, alive, run>>

\* The runtime did not acknowledge: the tab stays.
FailToClose(x) ==
  /\ x \in closing /\ closing' = closing \ {x}
  /\ UNCHANGED <<tabs, opened, closedOwners, cancelledOwners, operation, blocker,
                 expiring, alive, run>>

Initializing(i) ==
  \E h \in Helpers, t \in Traces : run[h][t].phase = "opening" /\ run[h][t].tab = i

\* The page has loaded ChatGPT.
Boot(i) ==
  /\ i \in DOMAIN tabs /\ ~tabs[i].booted
  /\ tabs' = [tabs EXCEPT ![i] = [@ EXCEPT !.booted = TRUE, !.late = FALSE]]
  /\ UNCHANGED <<opened, closedOwners, cancelledOwners, operation, blocker,
                 closing, expiring, alive, run>>

\* A loaded page of a leased tab could not be marked as owned.
FailToMark(i) ==
  /\ i \in DOMAIN tabs /\ ~Initializing(i) /\ tabs[i].status # "error"
  /\ tabs' = [tabs EXCEPT ![i].status = "error"]
  /\ blocker' = Busy(tabs')
  /\ UNCHANGED <<opened, closedOwners, cancelledOwners, operation,
                 closing, expiring, alive, run>>

\* did-fail-load and render-process-gone.
Crash(i) ==
  /\ i \in DOMAIN tabs
  /\ TakeAway(i)
  /\ UNCHANGED <<opened, cancelledOwners, operation, closing, expiring, alive, run>>

\* releaseRetainedConversation
ReleaseConversation(c) ==
  LET gone == {i \in DOMAIN tabs : Ready(i) /\ KeyOfTab(i) = c} IN
  /\ gone # {}
  /\ Release(gone)
  /\ UNCHANGED <<opened, closedOwners, cancelledOwners, operation, closing,
                 expiring, alive, run>>

\* withManualOperation and withInteractionModeChange begin without a running turn.
BeginOperation ==
  /\ ~operation /\ ~Busy(tabs)
  /\ operation' = TRUE
  /\ UNCHANGED <<tabs, opened, closedOwners, cancelledOwners, blocker, closing,
                 expiring, alive, run>>

EndOperation ==
  /\ operation
  /\ operation' = FALSE
  /\ UNCHANGED <<tabs, opened, closedOwners, cancelledOwners, blocker, closing,
                 expiring, alive, run>>

-----------------------------------------------------------------------------
HelperStep(h, t) ==
  \/ \E i \in DOMAIN tabs : Reuse(h, t, i)
  \/ Create(h, t)
  \/ Open(h, t)
  \/ FailToOpen(h, t)
  \/ Heartbeat(h, t)
  \/ \E status \in {"retained", "completed", "failed"} : End(h, t, status)
  \/ EndForExited(h, t)

TabStep(i) ==
  \/ Lapse(i) \/ CloseIdle(i) \/ CloseRunning(i)
  \/ Boot(i) \/ FailToMark(i) \/ Crash(i)

HostStep ==
  \/ Sweep \/ Resume \/ BeginOperation \/ EndOperation
  \/ \E x \in expiring : Expire(x) \/ FailToExpire(x)
  \/ \E x \in closing : Close(x) \/ FailToClose(x)

Conversations == {KeyOf[t] : t \in Traces} \ {None}

Next ==
  \/ \E h \in Helpers, t \in Traces : HelperStep(h, t)
  \/ \E h \in Helpers : Die(h)
  \/ \E i \in DOMAIN tabs : TabStep(i)
  \/ \E c \in Conversations : ReleaseConversation(c)
  \/ HostStep

HostSpec == Init /\ [][Next]_vars

-----------------------------------------------------------------------------
(* Properties.                                                             *)

Works(h, t, i) == run[h][t].phase = "working" /\ run[h][t].tab = i

\* The account never has more tabs than the limit, whatever is created, reused and
\* evicted (createTurnTab).
WithinTabLimit == Cardinality(DOMAIN tabs) <= MaxTabs

\* Two live turns never drive one document: a tab is handed on only when its turn
\* has ended or its helper is dead (beginTurn, endTurn).
OneDriver ==
  \A g, h \in Helpers : \A s, t \in Traces : \A i \in DOMAIN tabs :
    Works(g, s, i) /\ Works(h, t, i) => g = h /\ s = t

\* No turn runs during an operation on the home surface (withManualOperation,
\* beginTurn).
OperationExclusive == operation => ~Busy(tabs)

\* The power-save blocker comes down with the last running turn, however it ends.
SleepReleased == blocker => Busy(tabs)

\* A power-save blocker is up exactly while a turn runs (turn-suspension.cjs).
SleepBlocked == blocker <=> Busy(tabs)

Loses(h, t, i) ==
  /\ Works(h, t, i) /\ run'[h][t] = run[h][t]
  /\ i \in Owned(t) /\ tabs[i].helper = h
  /\ ~(i \in DOMAIN tabs' /\ tabs'[i].trace = t /\ tabs'[i].helper = h)

\* A turn that works in its tab keeps it, unless the page crashed, the user closed
\* this tab, its lease ran out, or the helper that first acquired it died and its
\* request is cut off only now (initializeTurnTab, reapExpiredTurnTabs, closeTab).
KeepsItsTab ==
  [][\A h \in Helpers, t \in Traces, i \in Opened : Loses(h, t, i) =>
       \/ Crash(i)
       \/ \E x \in closing : x.tab = i /\ Close(x)
       \/ \E x \in expiring : x.tab = i /\ x.trace = t /\ x.helper = h /\ Expire(x)
       \/ \E g \in Helpers \ alive, s \in Traces : run[g][s].tab = i /\ FailToOpen(g, s)]_vars

\* A turn whose tab the user closed is never answered as completed, whether its end
\* comes before the cancellation, after it, or the cancellation fails (endTurn).
CloseIsReported ==
  [][\A h \in Helpers, t \in Traces :
       cancelledOwners[t] = h /\ run'[h][t] # run[h][t] => ~run'[h][t].completed]_vars
=============================================================================
