-------------------------- MODULE BrowserHostProofs --------------------------
(***************************************************************************)
(* Theorems about BrowserHost, for any traces, helpers, conversations and  *)
(* limits: one live turn per document, no turn during an operation on the  *)
(* home surface, no sleep blocker without a turn, and no completed answer  *)
(* for a turn that the user closed.                                        *)
(*                                                                         *)
(* OneDriver is not inductive: what makes it hold is that the registry     *)
(* names the live helper and the trace of whoever opens or drives a tab    *)
(* (Owns), and that tab numbers are never used twice (Known).              *)
(*                                                                         *)
(* And about HomeSurface, for any number of events: a sign-out stands, and *)
(* a partial import is discarded.  SignOutStands speaks of a quiet moment; *)
(* SessionIInv says what holds until then, of every read and probe that is *)
(* under way and of the cookie events nobody has heard yet.                *)
(***************************************************************************)
EXTENDS BrowserHost, HomeSurface, FiniteSetTheorems, SequenceTheorems, TLAPS

\* What a run remembers is a tab that was created.
Known == \A h \in Helpers, t \in Traces : run[h][t].tab <= opened

\* A turn drives a tab only while its helper lives.
DriversLive == \A h \in Helpers, t \in Traces : run[h][t].phase = "working" => h \in alive

\* The tab that a live helper opens or drives is registered as its own, and nobody
\* else finds it retained.
Owns ==
  \A h \in alive, t \in Traces :
    run[h][t].phase \in {"opening", "working"} /\ run[h][t].tab \in DOMAIN tabs =>
      /\ tabs[run[h][t].tab].trace = t /\ tabs[run[h][t].tab].helper = h
      /\ tabs[run[h][t].tab].status # "ready"

\* A turn is answered when it is over.
Unanswered ==
  \A h \in Helpers, t \in Traces : run[h][t].phase # "idle" => ~run[h][t].completed

Leases == Known /\ DriversLive /\ Owns /\ Unanswered

Surface == OperationExclusive /\ SleepReleased

HostInv == TypeOK /\ Leases /\ Surface

\* The tabs that remain have the owner they had, and none of them starts to run or
\* is let go to be retained.
Stays ==
  /\ DOMAIN tabs' \subseteq DOMAIN tabs
  /\ \A i \in DOMAIN tabs' :
       /\ tabs'[i] \in Tab
       /\ tabs'[i].trace = tabs[i].trace /\ tabs'[i].helper = tabs[i].helper
       /\ tabs'[i].status = "running" => tabs[i].status = "running"
       /\ tabs'[i].status = "ready" => tabs[i].status = "ready"

-----------------------------------------------------------------------------
\* Registry steps that leave every tab with its owner (removeTurnTab, heartbeatTurn,
\* reapExpiredTurnTabs, did-finish-load) disturb no lease.
LEMMA LeasesStay ==
  ASSUME TypeOK, Leases, Stays, UNCHANGED <<opened, alive, run>>
  PROVE  Leases'
<1>1. Known' BY DEF Leases, Known
<1>2. DriversLive' BY DEF Leases, DriversLive
<1>3. Owns' BY DEF Leases, Owns, Stays
<1>4. Unanswered' BY DEF Leases, Unanswered
<1>. QED BY <1>1, <1>2, <1>3, <1>4 DEF Leases

\* What removeTurnTab does to the registry and to the power-save blocker.
LEMMA ReleaseStays ==
  ASSUME TypeOK, Surface, NEW gone, Release(gone)
  PROVE  /\ Stays /\ blocker' \in BOOLEAN
         /\ DOMAIN tabs' \subseteq 1 .. opened
         /\ blocker' => Busy(tabs')
<1>1. DOMAIN tabs' = DOMAIN tabs \ gone /\ \A i \in DOMAIN tabs' : tabs'[i] = tabs[i]
  BY DEF Release, Without
<1>2. Stays BY <1>1 DEF Stays, TypeOK
<1>3. blocker' \in BOOLEAN BY Zenon DEF Release, TypeOK, Busy
<1>4. ASSUME blocker' PROVE Busy(tabs')
  <2>1. CASE gone = {} BY <1>1, <1>4, <2>1 DEF Release, Surface, SleepReleased, Busy
  <2>2. CASE gone # {} BY <1>4, <2>2 DEF Release
  <2>. QED BY <2>1, <2>2
<1>. QED BY <1>1, <1>2, <1>3, <1>4 DEF TypeOK

\* The same for a removal that may remember the helper whose running tab went.
LEMMA TakeAwayStays ==
  ASSUME TypeOK, Surface, NEW i \in DOMAIN tabs, TakeAway(i)
  PROVE  /\ Stays /\ blocker' \in BOOLEAN
         /\ DOMAIN tabs' \subseteq 1 .. opened
         /\ blocker' => Busy(tabs')
         /\ closedOwners' \in [Traces -> Helpers \cup {None}]
<1>1. Release({i}) BY DEF TakeAway
<1>2. tabs[i] \in Tab BY DEF TypeOK
<1>3. closedOwners' \in [Traces -> Helpers \cup {None}]
  BY <1>2 DEF TakeAway, TypeOK, Tab
<1>. QED BY <1>1, <1>3, ReleaseStays

\* A step after which no tab runs that did not run before keeps turns and operations
\* apart.
LEMMA SurfaceStays ==
  ASSUME Surface, Stays, operation' = operation, blocker' => Busy(tabs')
  PROVE  Surface'
BY DEF Surface, OperationExclusive, SleepReleased, Stays, Busy

-----------------------------------------------------------------------------
\* A step that keeps runs, helpers and the operation as they are and the registry as
\* in Stays preserves the invariant, types apart.
LEMMA QuietStep ==
  ASSUME HostInv, Stays, UNCHANGED <<opened, alive, run, operation>>,
         blocker' => Busy(tabs')
  PROVE  Leases' /\ Surface'
BY LeasesStay, SurfaceStays DEF HostInv

\* One tab gets new marks and keeps trace, helper and status.
LEMMA MarkStays ==
  ASSUME TypeOK, Surface, NEW i \in DOMAIN tabs, NEW b \in BOOLEAN, NEW l \in BOOLEAN,
         tabs' = [tabs EXCEPT ![i] = [@ EXCEPT !.booted = b, !.late = l]],
         UNCHANGED blocker
  PROVE  Stays /\ DOMAIN tabs' \subseteq 1 .. opened /\ (blocker' => Busy(tabs'))
<1>1. DOMAIN tabs' = DOMAIN tabs OBVIOUS
<1>2. \A j \in DOMAIN tabs : tabs[j] \in Tab BY DEF TypeOK
<1>3. \A j \in DOMAIN tabs :
        /\ tabs'[j] \in Tab
        /\ tabs'[j].trace = tabs[j].trace /\ tabs'[j].helper = tabs[j].helper
        /\ tabs'[j].status = tabs[j].status
  <2>1. TAKE j \in DOMAIN tabs
  <2>2. CASE j # i BY <1>2, <2>2
  <2>3. CASE j = i
    <3>1. tabs'[i] = [tabs[i] EXCEPT !.booted = b, !.late = l] OBVIOUS
    <3>. QED BY <1>2, <2>3, <3>1 DEF Tab
  <2>. QED BY <2>2, <2>3
<1>4. Stays BY <1>1, <1>3 DEF Stays
<1>5. blocker' => Busy(tabs') BY <1>1, <1>3 DEF Surface, SleepReleased, Busy
<1>. QED BY <1>1, <1>4, <1>5 DEF TypeOK

\* heartbeatTurn renews a lease.
LEMMA HeartbeatStep ==
  ASSUME HostInv, NEW h \in Helpers, NEW t \in Traces, Heartbeat(h, t)
  PROVE  HostInv'
<1>1. PICK i \in DOMAIN tabs :
        tabs' = [tabs EXCEPT ![i] = [@ EXCEPT !.booted = tabs[i].booted, !.late = FALSE]]
  <2>1. PICK i \in Owned(t) : tabs[i].booted /\ tabs' = [tabs EXCEPT ![i].late = FALSE]
    BY DEF Heartbeat
  <2>2. i \in DOMAIN tabs /\ tabs[i] \in Tab BY DEF Owned, HostInv, TypeOK
  <2>. QED BY <2>1, <2>2 DEF Tab
<1>2. tabs[i].booted \in BOOLEAN BY DEF HostInv, TypeOK, Tab
<1>3. Stays /\ DOMAIN tabs' \subseteq 1 .. opened /\ (blocker' => Busy(tabs'))
  BY <1>1, <1>2, MarkStays DEF HostInv, Heartbeat
<1>4. TypeOK' BY <1>3 DEF Heartbeat, HostInv, TypeOK, Stays
<1>. QED BY <1>3, <1>4, QuietStep DEF Heartbeat, HostInv

\* The clock, the loader and the sweep's re-baselining only change marks.
LEMMA MarkSteps ==
  ASSUME HostInv, NEW i \in DOMAIN tabs, Lapse(i) \/ Boot(i)
  PROVE  HostInv'
<1>0. tabs[i] \in Tab BY DEF HostInv, TypeOK
<1>1. PICK b \in BOOLEAN, l \in BOOLEAN :
        tabs' = [tabs EXCEPT ![i] = [@ EXCEPT !.booted = b, !.late = l]]
  <2>1. CASE Lapse(i)
    <3>1. tabs' = [tabs EXCEPT ![i] = [@ EXCEPT !.booted = tabs[i].booted, !.late = TRUE]]
      BY <1>0, <2>1 DEF Lapse, Tab
    <3>. QED BY <1>0, <3>1 DEF Tab
  <2>2. CASE Boot(i) BY <2>2 DEF Boot
  <2>. QED BY <2>1, <2>2
<1>2. UNCHANGED <<opened, closedOwners, cancelledOwners, operation, blocker,
                 closing, expiring, alive, run>> BY DEF Lapse, Boot
<1>3. Stays /\ DOMAIN tabs' \subseteq 1 .. opened /\ (blocker' => Busy(tabs'))
  BY <1>1, <1>2, MarkStays DEF HostInv
<1>4. TypeOK' BY <1>2, <1>3 DEF HostInv, TypeOK, Stays
<1>. QED BY <1>2, <1>3, <1>4, QuietStep DEF HostInv

\* refreshTurnLeasesAfterSuspension
LEMMA ResumeStep ==
  ASSUME HostInv, Resume
  PROVE  HostInv'
<1>1. DOMAIN tabs' = DOMAIN tabs BY DEF Resume
<1>2. \A j \in DOMAIN tabs :
        /\ tabs'[j] \in Tab
        /\ tabs'[j].trace = tabs[j].trace /\ tabs'[j].helper = tabs[j].helper
        /\ tabs'[j].status = tabs[j].status
  <2>1. TAKE j \in DOMAIN tabs
  <2>2. tabs[j] \in Tab BY DEF HostInv, TypeOK
  <2>3. CASE Running(j) BY <2>2, <2>3 DEF Resume, Tab
  <2>4. CASE ~Running(j) BY <2>2, <2>4 DEF Resume, Tab
  <2>. QED BY <2>3, <2>4
<1>3. Stays BY <1>1, <1>2 DEF Stays
<1>4. blocker' => Busy(tabs') BY <1>1, <1>2 DEF Resume, HostInv, Surface, SleepReleased, Busy
<1>5. TypeOK' BY <1>1, <1>2 DEF Resume, HostInv, TypeOK
<1>. QED BY <1>3, <1>4, <1>5, QuietStep DEF Resume, HostInv

\* A page that cannot be marked leaves its tab in error.
LEMMA FailToMarkStep ==
  ASSUME HostInv, NEW i \in DOMAIN tabs, FailToMark(i)
  PROVE  HostInv'
<1>1. DOMAIN tabs' = DOMAIN tabs BY DEF FailToMark
<1>2. \A j \in DOMAIN tabs :
        /\ tabs'[j] \in Tab
        /\ tabs'[j].trace = tabs[j].trace /\ tabs'[j].helper = tabs[j].helper
        /\ tabs'[j].status \in {tabs[j].status, "error"}
  <2>1. TAKE j \in DOMAIN tabs
  <2>2. tabs[j] \in Tab BY DEF HostInv, TypeOK
  <2>3. CASE j = i
    <3>1. tabs'[i] = [tabs[i] EXCEPT !.status = "error"] BY DEF FailToMark
    <3>. QED BY <2>2, <2>3, <3>1 DEF Tab
  <2>4. CASE j # i BY <2>2, <2>4 DEF FailToMark
  <2>. QED BY <2>3, <2>4
<1>3. Stays BY <1>1, <1>2 DEF Stays
<1>4. blocker' => Busy(tabs') BY DEF FailToMark
<1>5. blocker' \in BOOLEAN BY Zenon DEF FailToMark, Busy
<1>6. TypeOK' BY <1>1, <1>2, <1>5 DEF FailToMark, HostInv, TypeOK
<1>. QED BY <1>3, <1>4, <1>6, QuietStep DEF FailToMark, HostInv

-----------------------------------------------------------------------------
\* Tabs that are let go without a word to their helpers.
LEMMA LetGoStep ==
  ASSUME HostInv, NEW gone, Release(gone),
         UNCHANGED <<opened, closedOwners, cancelledOwners, operation, closing, alive, run>>,
         expiring' \subseteq [tab : Opened, trace : Traces, helper : Helpers]
  PROVE  HostInv'
<1>1. /\ Stays /\ blocker' \in BOOLEAN
      /\ DOMAIN tabs' \subseteq 1 .. opened
      /\ blocker' => Busy(tabs')
  BY ReleaseStays DEF HostInv
<1>2. TypeOK' BY <1>1 DEF HostInv, TypeOK, Stays
<1>. QED BY <1>1, <1>2, QuietStep DEF HostInv

\* A tab that is taken away from its helper.
LEMMA TakenStep ==
  ASSUME HostInv, NEW i \in DOMAIN tabs, TakeAway(i),
         UNCHANGED <<opened, cancelledOwners, operation, alive, run>>,
         closing' \subseteq closing, expiring' \subseteq expiring
  PROVE  HostInv'
<1>1. /\ Stays /\ blocker' \in BOOLEAN
      /\ DOMAIN tabs' \subseteq 1 .. opened
      /\ blocker' => Busy(tabs')
      /\ closedOwners' \in [Traces -> Helpers \cup {None}]
  BY TakeAwayStays DEF HostInv
<1>2. TypeOK' BY <1>1 DEF HostInv, TypeOK, Stays
<1>. QED BY <1>1, <1>2, QuietStep DEF HostInv

\* A step that leaves registry, runs and the operation alone.
LEMMA AsideStep ==
  ASSUME HostInv, TypeOK', UNCHANGED <<tabs, opened, operation, blocker, alive, run>>
  PROVE  HostInv'
BY DEF HostInv, Leases, Known, DriversLive, Owns, Unanswered, Surface, OperationExclusive,
       SleepReleased, Busy

\* reapExpiredTurnTabs asks only for running tabs.
LEMMA SweepStep ==
  ASSUME HostInv, Sweep
  PROVE  HostInv'
<1>1. \A i \in DOMAIN tabs : tabs[i] \in Tab /\ i \in Opened
  BY HostShapes DEF HostInv, TypeOK, Opened
<1>2. PICK gone : Release(gone) BY DEF Sweep
<1>3. expiring' \subseteq [tab : Opened, trace : Traces, helper : Helpers]
  BY <1>1 DEF Sweep, HostInv, TypeOK, Tab
<1>. QED BY <1>2, <1>3, LetGoStep DEF Sweep

\* What follows a cancellation, and what the user, the page and the daemon do.
LEMMA HostSteps ==
  ASSUME HostInv, HostStep
  PROVE  HostInv'
<1>1. CASE Sweep BY <1>1, SweepStep
<1>2. CASE Resume BY <1>2, ResumeStep
<1>3. CASE BeginOperation
  <2>1. Surface' BY <1>3 DEF BeginOperation, HostInv, Surface, OperationExclusive, SleepReleased, Busy
  <2>2. Leases' BY <1>3 DEF BeginOperation, HostInv, Leases, Known, DriversLive, Owns, Unanswered
  <2>3. TypeOK' BY <1>3 DEF BeginOperation, HostInv, TypeOK
  <2>. QED BY <2>1, <2>2, <2>3 DEF HostInv
<1>4. CASE EndOperation
  <2>1. Surface' BY <1>4 DEF EndOperation, HostInv, Surface, OperationExclusive, SleepReleased, Busy
  <2>2. Leases' BY <1>4 DEF EndOperation, HostInv, Leases, Known, DriversLive, Owns, Unanswered
  <2>3. TypeOK' BY <1>4 DEF EndOperation, HostInv, TypeOK
  <2>. QED BY <2>1, <2>2, <2>3 DEF HostInv
<1>5. ASSUME NEW x \in expiring, Expire(x) PROVE HostInv'
  <2>1. CASE StillExpired(x)
    BY <1>5, <2>1, TakenStep DEF Expire, StillExpired
  <2>2. CASE ~StillExpired(x)
    <3>1. TypeOK' BY <1>5, <2>2 DEF Expire, HostInv, TypeOK
    <3>. QED BY <1>5, <2>2, <3>1, AsideStep DEF Expire
  <2>. QED BY <2>1, <2>2
<1>6. ASSUME NEW x \in expiring, FailToExpire(x) PROVE HostInv'
  <2>1. TypeOK' BY <1>6 DEF FailToExpire, HostInv, TypeOK
  <2>. QED BY <1>6, <2>1, AsideStep DEF FailToExpire
<1>7. ASSUME NEW x \in closing, Close(x) PROVE HostInv'
  <2>1. CASE x.tab \in DOMAIN tabs BY <1>7, <2>1, TakenStep DEF Close
  <2>2. CASE x.tab \notin DOMAIN tabs
    <3>1. TypeOK' BY <1>7, <2>2 DEF Close, HostInv, TypeOK
    <3>. QED BY <1>7, <2>2, <3>1, AsideStep DEF Close
  <2>. QED BY <2>1, <2>2
<1>8. ASSUME NEW x \in closing, FailToClose(x) PROVE HostInv'
  <2>1. TypeOK' BY <1>8 DEF FailToClose, HostInv, TypeOK
  <2>. QED BY <1>8, <2>1, AsideStep DEF FailToClose
<1>. QED BY <1>1, <1>2, <1>3, <1>4, <1>5, <1>6, <1>7, <1>8 DEF HostStep

LEMMA TabSteps ==
  ASSUME HostInv, NEW i \in DOMAIN tabs, TabStep(i)
  PROVE  HostInv'
<1>1. CASE Lapse(i) \/ Boot(i) BY <1>1, MarkSteps
<1>2. CASE CloseIdle(i)
  BY <1>2, LetGoStep DEF CloseIdle, HostInv, TypeOK
<1>3. CASE CloseRunning(i)
  <2>1. tabs[i] \in Tab /\ i \in Opened BY HostShapes DEF HostInv, TypeOK, Opened
  <2>2. TypeOK' BY <1>3, <2>1 DEF CloseRunning, HostInv, TypeOK, Tab
  <2>. QED BY <1>3, <2>2, AsideStep DEF CloseRunning
<1>4. CASE FailToMark(i) BY <1>4, FailToMarkStep
<1>5. CASE Crash(i) BY <1>5, TakenStep DEF Crash
<1>. QED BY <1>1, <1>2, <1>3, <1>4, <1>5 DEF TabStep

\* releaseRetainedConversation
LEMMA ReleaseConversationStep ==
  ASSUME HostInv, NEW c, ReleaseConversation(c)
  PROVE  HostInv'
BY LetGoStep DEF ReleaseConversation, HostInv, TypeOK

-----------------------------------------------------------------------------
\* A run that changes phase but drives no tab disturbs no lease.
LEMMA RunStops ==
  ASSUME TypeOK, Leases, NEW h \in Helpers, NEW t \in Traces,
         NEW r \in [phase : {"idle", "exited"}, tab : 0 .. MaxOpened, completed : BOOLEAN],
         r.tab = 0, r.phase = "exited" => ~r.completed,
         run' = [run EXCEPT ![h][t] = r],
         UNCHANGED <<opened, alive>>, Stays
  PROVE  Leases' /\ run' \in [Helpers -> [Traces -> Run]]
<1>1. run \in [Helpers -> [Traces -> Run]]
  BY DEF TypeOK
<1>2. run'[h][t] = r /\ \A g \in Helpers, s \in Traces :
        g # h \/ s # t => run'[g][s] = run[g][s]
  BY <1>1
<1>3. run' \in [Helpers -> [Traces -> Run]]
  BY <1>1 DEF Run
<1>4. Known'
  <2>1. 0 <= opened BY HostShapes DEF TypeOK
  <2>. QED BY <1>2, <2>1 DEF Leases, Known
<1>5. DriversLive' BY <1>2 DEF Leases, DriversLive
<1>6. Owns'
  <2>1. SUFFICES ASSUME NEW g \in alive, NEW s \in Traces,
                        run'[g][s].phase \in {"opening", "working"},
                        run'[g][s].tab \in DOMAIN tabs'
                 PROVE  /\ tabs'[run'[g][s].tab].trace = s
                        /\ tabs'[run'[g][s].tab].helper = g
                        /\ tabs'[run'[g][s].tab].status # "ready"
    BY DEF Owns
  <2>2. g \in Helpers BY DEF TypeOK
  <2>3. run'[g][s] = run[g][s] BY <1>2, <2>1, <2>2
  <2>. QED BY <2>1, <2>3 DEF Leases, Owns, Stays
<1>7. Unanswered' BY <1>2 DEF Leases, Unanswered
<1>. QED BY <1>3, <1>4, <1>5, <1>6, <1>7 DEF Leases

\* initializeTurnTab ends: the tab is leased or it is given up.
LEMMA OpenStep ==
  ASSUME HostInv, NEW h \in Helpers, NEW t \in Traces, Open(h, t)
  PROVE  HostInv'
<1>1. Surface' BY DEF Open, HostInv, Surface, OperationExclusive, SleepReleased, Busy
<1>2. Stays BY DEF Open, Stays, HostInv, TypeOK
<1>3. CASE Launches(h, t, After(h), 0)
  <2>1. [phase |-> After(h), tab |-> 0, completed |-> FALSE]
          \in [phase : {"idle", "exited"}, tab : 0 .. MaxOpened, completed : BOOLEAN]
    BY HostShapes DEF After
  <2>2. /\ Leases'
        /\ run' \in [Helpers -> [Traces -> Run]]
    BY <1>2, <1>3, <2>1, RunStops DEF Open, HostInv, Launches
  <2>3. TypeOK' BY <2>2 DEF Open, HostInv, TypeOK
  <2>. QED BY <1>1, <2>2, <2>3 DEF HostInv
<1>4. CASE h \in alive /\ Launches(h, t, "working", run[h][t].tab)
  <2>0. run \in [Helpers -> [Traces -> Run]]
    BY DEF HostInv, TypeOK
  <2>1. run'[h][t] = [phase |-> "working", tab |-> run[h][t].tab, completed |-> FALSE]
    BY <1>4, <2>0 DEF Launches
  <2>2. \A g \in Helpers, s \in Traces : g # h \/ s # t => run'[g][s] = run[g][s]
    BY <1>4, <2>0 DEF Launches
  <2>3. run' \in [Helpers -> [Traces -> Run]]
    BY <1>4, <2>0 DEF Launches, Run
  <2>4. TypeOK' BY <2>3 DEF Open, HostInv, TypeOK
  <2>5. Known' BY <2>1, <2>2 DEF HostInv, Leases, Known, Open
  <2>6. DriversLive' BY <1>4, <2>1, <2>2 DEF HostInv, Leases, DriversLive, Open
  <2>7. \A g \in Helpers, s \in Traces :
          run'[g][s].phase \in {"opening", "working"} =>
            run[g][s].phase \in {"opening", "working"} /\ run'[g][s].tab = run[g][s].tab
    BY <2>1, <2>2 DEF Open
  <2>8. Owns' BY <2>7 DEF HostInv, Leases, Owns, Open, TypeOK
  <2>9. Unanswered' BY <2>1, <2>2 DEF HostInv, Leases, Unanswered
  <2>. QED BY <1>1, <2>4, <2>5, <2>6, <2>8, <2>9 DEF HostInv, Leases
<1>. QED BY <1>3, <1>4 DEF Open

LEMMA FailToOpenStep ==
  ASSUME HostInv, NEW h \in Helpers, NEW t \in Traces, FailToOpen(h, t)
  PROVE  HostInv'
<1>1. /\ Stays /\ blocker' \in BOOLEAN
      /\ DOMAIN tabs' \subseteq 1 .. opened
      /\ blocker' => Busy(tabs')
      /\ closedOwners' \in [Traces -> Helpers \cup {None}]
  <2>1. CASE run[h][t].tab \in DOMAIN tabs
    BY <2>1, TakeAwayStays DEF FailToOpen, HostInv
  <2>2. CASE run[h][t].tab \notin DOMAIN tabs
    BY <2>2 DEF FailToOpen, HostInv, TypeOK, Stays, Surface, SleepReleased, Busy
  <2>. QED BY <2>1, <2>2
<1>2. [phase |-> After(h), tab |-> 0, completed |-> FALSE]
        \in [phase : {"idle", "exited"}, tab : 0 .. MaxOpened, completed : BOOLEAN]
  BY HostShapes DEF After
<1>3. /\ Leases'
      /\ run' \in [Helpers -> [Traces -> Run]]
  BY <1>1, <1>2, RunStops DEF FailToOpen, HostInv, Launches
<1>4. TypeOK' BY <1>1, <1>3 DEF FailToOpen, HostInv, TypeOK, Stays
<1>5. Surface' BY <1>1, SurfaceStays DEF FailToOpen, HostInv
<1>. QED BY <1>3, <1>4, <1>5 DEF HostInv

\* endTurn: whatever becomes of the tab, its turn is over.
LEMMA EndTurnStep ==
  ASSUME HostInv, NEW h \in Helpers, NEW t \in Traces, NEW status,
         EndTurn(h, t, status)
  PROVE  HostInv'
<1>1. PICK c \in BOOLEAN : run' = [run EXCEPT ![h][t] = [phase |-> "idle", tab |-> 0, completed |-> c]]
  <2>1. \E s : Answers(h, t, s)
    BY DEF EndTurn, EndOwned, EndClosed, EndRejected
  <2>. QED BY <2>1 DEF Answers
<1>2. [phase |-> "idle", tab |-> 0, completed |-> c]
        \in [phase : {"idle", "exited"}, tab : 0 .. MaxOpened, completed : BOOLEAN]
  BY HostShapes
<1>3. closedOwners' \in [Traces -> Helpers \cup {None}]
  BY DEF EndTurn, EndOwned, EndClosed, EndRejected, HostInv, TypeOK
<1>4. ASSUME Stays, blocker' \in BOOLEAN, DOMAIN tabs' \subseteq 1 .. opened,
             blocker' => Busy(tabs')
      PROVE  HostInv'
  <2>1. Leases' /\ run' \in [Helpers -> [Traces -> Run]]
    BY <1>1, <1>2, <1>4, RunStops DEF EndTurn, HostInv
  <2>2. TypeOK' BY <1>3, <1>4, <2>1 DEF EndTurn, HostInv, TypeOK, Stays
  <2>3. Surface' BY <1>4, SurfaceStays DEF EndTurn, HostInv
  <2>. QED BY <2>1, <2>2, <2>3 DEF HostInv
<1>5. CASE EndClosed(h, t, status) \/ EndRejected(h, t)
  <2>1. UNCHANGED <<tabs, blocker>> BY <1>5 DEF EndClosed, EndRejected
  <2>. QED BY <1>4, <2>1 DEF HostInv, TypeOK, Stays, Surface, SleepReleased, Busy
<1>6. ASSUME NEW i \in Owned(t), EndOwned(h, t, i, status) PROVE HostInv'
  <2>0. i \in DOMAIN tabs /\ tabs[i] \in Tab /\ tabs[i].trace = t /\ tabs[i].helper = h
    BY <1>6 DEF EndOwned, Owned, HostInv, TypeOK
  <2>1. CASE Release({i})
    <3>1. /\ Stays /\ blocker' \in BOOLEAN
          /\ DOMAIN tabs' \subseteq 1 .. opened
          /\ blocker' => Busy(tabs')
      BY <2>1, ReleaseStays DEF HostInv
    <3>. QED BY <1>4, <3>1
  <2>2. CASE /\ tabs' = [tabs EXCEPT ![i] = [@ EXCEPT !.status = "ready", !.late = FALSE]]
             /\ blocker' = Busy(tabs')
    <3>1. DOMAIN tabs' = DOMAIN tabs BY <2>2
    <3>2. /\ tabs'[i] \in Tab
          /\ tabs'[i].trace = t /\ tabs'[i].helper = h /\ tabs'[i].status = "ready"
      BY <2>0, <2>2 DEF Tab
    <3>3. \A j \in DOMAIN tabs : j # i => tabs'[j] = tabs[j] /\ tabs[j] \in Tab
      BY <2>2 DEF HostInv, TypeOK
    <3>4. blocker' \in BOOLEAN BY <2>2, Zenon DEF Busy
    <3>5. run' \in [Helpers -> [Traces -> Run]]
      BY <1>1, HostShapes DEF HostInv, TypeOK, Run
    <3>6. TypeOK'
      BY <1>3, <3>1, <3>2, <3>3, <3>4, <3>5 DEF EndTurn, HostInv, TypeOK
    <3>7. Surface'
      <4>1. operation' => ~Busy(tabs')
        BY <3>1, <3>2, <3>3 DEF EndTurn, HostInv, Surface, OperationExclusive, Busy
      <4>. QED BY <2>2, <4>1 DEF Surface, OperationExclusive, SleepReleased
    <3>8. run'[h][t] = [phase |-> "idle", tab |-> 0, completed |-> c]
          /\ \A g \in Helpers, s \in Traces : g # h \/ s # t => run'[g][s] = run[g][s]
      BY <1>1 DEF HostInv, TypeOK
    <3>9. Known' BY <3>8, HostShapes DEF EndTurn, HostInv, TypeOK, Leases, Known
    <3>10. DriversLive' BY <3>8 DEF EndTurn, HostInv, Leases, DriversLive
    <3>11. Owns'
      <4>1. SUFFICES ASSUME NEW g \in alive, NEW s \in Traces,
                            run'[g][s].phase \in {"opening", "working"},
                            run'[g][s].tab \in DOMAIN tabs'
                     PROVE  /\ tabs'[run'[g][s].tab].trace = s
                            /\ tabs'[run'[g][s].tab].helper = g
                            /\ tabs'[run'[g][s].tab].status # "ready"
        BY DEF Owns, EndTurn
      <4>2. g \in Helpers BY DEF HostInv, TypeOK
      <4>3. run'[g][s] = run[g][s] /\ (g # h \/ s # t) BY <3>8, <4>1, <4>2
      <4>4. /\ tabs[run[g][s].tab].trace = s /\ tabs[run[g][s].tab].helper = g
            /\ tabs[run[g][s].tab].status # "ready"
        BY <3>1, <4>1, <4>3 DEF HostInv, Leases, Owns
      <4>5. run[g][s].tab # i BY <2>0, <4>3, <4>4
      <4>. QED BY <3>1, <3>3, <4>1, <4>3, <4>4, <4>5
    <3>12. Unanswered' BY <3>8 DEF HostInv, Leases, Unanswered
    <3>. QED BY <3>6, <3>7, <3>9, <3>10, <3>11, <3>12 DEF HostInv, Leases
  <2>. QED BY <1>6, <2>1, <2>2 DEF EndOwned
<1>. QED BY <1>5, <1>6 DEF EndTurn

\* beginTurn of a tab that its helper left behind or that is retained.
LEMMA ReuseStep ==
  ASSUME HostInv, NEW h \in Helpers, NEW t \in Traces, NEW i \in DOMAIN tabs,
         Reuse(h, t, i)
  PROVE  HostInv'
<1>0. /\ h \in alive /\ run[h][t].phase = "idle" /\ ~operation
      /\ Ready(i) \/ (Running(i) /\ tabs[i].trace = t
                                 /\ (tabs[i].helper = h \/ tabs[i].helper \notin alive))
  BY DEF Reuse, MayBegin, Reusable, Retained, Found, Owned
<1>1. DOMAIN tabs' = DOMAIN tabs BY DEF Reuse
<1>2. tabs[i] \in Tab /\ i \in 1 .. opened BY DEF HostInv, TypeOK
<1>3. \A j \in DOMAIN tabs : j # i => tabs'[j] = tabs[j] BY DEF Reuse
<1>4. /\ tabs'[i] \in Tab
      /\ tabs'[i].trace = t /\ tabs'[i].helper = h /\ tabs'[i].status = "running"
  <2>1. (Ready(i) /\ tabs[i].booted) \in BOOLEAN BY <1>2, Zenon DEF Ready, Tab
  <2>. DEFINE fresh == Ready(i) /\ tabs[i].booted
  <2>2. fresh \in BOOLEAN BY <2>1
  <2>3. tabs' = [tabs EXCEPT ![i] = [tabs[i] EXCEPT !.trace = t, !.helper = h,
                   !.status = "running", !.booted = fresh, !.late = FALSE]]
    BY Zenon DEF Reuse
  <2>. HIDE DEF fresh
  <2>4. tabs'[i] = [tabs[i] EXCEPT !.trace = t, !.helper = h,
                      !.status = "running", !.booted = fresh, !.late = FALSE]
    BY <2>3
  <2>. QED BY <1>2, <2>2, <2>4 DEF Tab
<1>5. run \in [Helpers -> [Traces -> Run]] BY DEF HostInv, TypeOK
<1>6. /\ \A g \in Helpers, s \in Traces : g # h \/ s # t => run'[g][s] = run[g][s]
      /\ \/ run'[h][t] = [phase |-> "working", tab |-> i, completed |-> FALSE]
         \/ run'[h][t] = run[h][t]
  BY <1>5 DEF Reuse, Launches
<1>7. i \in 0 .. MaxOpened BY <1>2, HostShapes DEF HostInv, TypeOK
<1>8. run' \in [Helpers -> [Traces -> Run]]
  <2>1. [phase |-> "working", tab |-> i, completed |-> FALSE] \in Run BY <1>7 DEF Run
  <2>2. CASE Launches(h, t, "working", i) BY <1>5, <2>1, <2>2 DEF Launches
  <2>3. CASE UNCHANGED run BY <1>5, <2>3
  <2>. QED BY <2>2, <2>3 DEF Reuse
<1>9. TypeOK'
  <2>1. \A j \in DOMAIN tabs' : tabs'[j] \in Tab
    BY <1>1, <1>3, <1>4 DEF HostInv, TypeOK
  <2>. QED BY <1>1, <1>8, <2>1 DEF Reuse, HostInv, TypeOK
<1>10. Surface'
  <2>1. Busy(tabs') BY <1>1, <1>4 DEF Busy
  <2>. QED BY <1>0, <2>1 DEF Reuse, Surface, OperationExclusive, SleepReleased
<1>11. Known' BY <1>2, <1>6 DEF Reuse, HostInv, Leases, Known
<1>12. DriversLive' BY <1>0, <1>6 DEF Reuse, HostInv, Leases, DriversLive
<1>13. Owns'
  <2>1. SUFFICES ASSUME NEW g \in alive, NEW s \in Traces,
                        run'[g][s].phase \in {"opening", "working"},
                        run'[g][s].tab \in DOMAIN tabs'
                 PROVE  /\ tabs'[run'[g][s].tab].trace = s
                        /\ tabs'[run'[g][s].tab].helper = g
                        /\ tabs'[run'[g][s].tab].status # "ready"
    BY DEF Owns, Reuse
  <2>2. g \in Helpers BY DEF HostInv, TypeOK
  <2>3. CASE g = h /\ s = t BY <1>0, <1>4, <1>6, <2>1, <2>3
  <2>4. CASE g # h \/ s # t
    <3>1. run'[g][s] = run[g][s] BY <1>6, <2>2, <2>4
    <3>2. /\ tabs[run[g][s].tab].trace = s /\ tabs[run[g][s].tab].helper = g
          /\ tabs[run[g][s].tab].status # "ready"
      BY <1>1, <2>1, <3>1 DEF HostInv, Leases, Owns
    <3>3. run[g][s].tab # i BY <1>0, <2>4, <3>2 DEF Ready
    <3>. QED BY <1>1, <1>3, <2>1, <3>1, <3>2, <3>3
  <2>. QED BY <2>3, <2>4
<1>14. Unanswered' BY <1>6 DEF HostInv, Leases, Unanswered
<1>. QED BY <1>9, <1>10, <1>11, <1>12, <1>13, <1>14 DEF HostInv, Leases

\* createTurnTab: a new number, which no run remembers.
LEMMA CreateStep ==
  ASSUME HostInv, NEW h \in Helpers, NEW t \in Traces, Create(h, t)
  PROVE  HostInv'
<1>0. h \in alive /\ ~operation /\ opened' = opened + 1 /\ opened < MaxOpened
  BY DEF Create, MayBegin
<1>1. opened \in Nat /\ opened' \in 0 .. MaxOpened
  BY <1>0, HostShapes DEF HostInv, TypeOK
<1>. alive' = alive BY DEF Create
<1>2. PICK gone : tabs' = [i \in (DOMAIN tabs \ gone) \cup {opened'} |->
                    IF i = opened'
                    THEN [trace |-> t, helper |-> h, booted |-> FALSE,
                          late |-> FALSE, status |-> "running"]
                    ELSE tabs[i]]
  BY DEF Create
<1>3. DOMAIN tabs' = (DOMAIN tabs \ gone) \cup {opened'} BY <1>2
<1>4. tabs'[opened'] = [trace |-> t, helper |-> h, booted |-> FALSE,
                        late |-> FALSE, status |-> "running"]
  BY <1>2
<1>5. \A i \in DOMAIN tabs : i # opened' BY <1>0, <1>1 DEF HostInv, TypeOK
<1>6. \A i \in DOMAIN tabs' : i # opened' => i \in DOMAIN tabs /\ tabs'[i] = tabs[i]
  BY <1>2
<1>7. run \in [Helpers -> [Traces -> Run]] BY DEF HostInv, TypeOK
<1>8. /\ \A g \in Helpers, s \in Traces : g # h \/ s # t => run'[g][s] = run[g][s]
      /\ run'[h][t] = [phase |-> "opening", tab |-> opened', completed |-> FALSE]
  BY <1>7 DEF Create, Launches
<1>9. run' \in [Helpers -> [Traces -> Run]]
  BY <1>1, <1>7 DEF Create, Launches, Run
<1>10. TypeOK'
  <2>1. \A i \in DOMAIN tabs' : tabs'[i] \in Tab
    <3>1. tabs'[opened'] \in Tab BY <1>4 DEF Tab
    <3>. QED BY <1>6, <3>1 DEF HostInv, TypeOK
  <2>2. DOMAIN tabs' \subseteq 1 .. opened'
    BY <1>0, <1>1, <1>3 DEF HostInv, TypeOK
  <2>3. blocker' \in BOOLEAN BY DEF Create
  <2>. QED BY <1>1, <1>9, <2>1, <2>2, <2>3 DEF Create, HostInv, TypeOK
<1>11. Surface'
  <2>1. Busy(tabs') BY <1>3, <1>4 DEF Busy
  <2>. QED BY <1>0, <2>1 DEF Create, Surface, OperationExclusive, SleepReleased
<1>12. \A g \in Helpers, s \in Traces : run[g][s].tab \in Nat /\ run[g][s].tab <= opened
  BY <1>7, HostShapes DEF HostInv, Leases, Known, Run
<1>13. Known' BY <1>0, <1>1, <1>8, <1>12 DEF Known
<1>14. DriversLive' BY <1>8 DEF Create, HostInv, Leases, DriversLive
<1>15. Owns'
  <2>1. SUFFICES ASSUME NEW g \in alive, NEW s \in Traces,
                        run'[g][s].phase \in {"opening", "working"},
                        run'[g][s].tab \in DOMAIN tabs'
                 PROVE  /\ tabs'[run'[g][s].tab].trace = s
                        /\ tabs'[run'[g][s].tab].helper = g
                        /\ tabs'[run'[g][s].tab].status # "ready"
    BY DEF Owns
  <2>2. g \in Helpers BY DEF HostInv, TypeOK
  <2>3. CASE g = h /\ s = t BY <1>4, <1>8, <2>3
  <2>4. CASE g # h \/ s # t
    <3>1. run'[g][s] = run[g][s] BY <1>8, <2>2, <2>4
    <3>2. run[g][s].tab # opened' BY <1>0, <1>1, <1>12, <2>2
    <3>. QED BY <1>6, <2>1, <3>1, <3>2 DEF HostInv, Leases, Owns
  <2>. QED BY <2>3, <2>4
<1>16. Unanswered' BY <1>8 DEF HostInv, Leases, Unanswered
<1>. QED BY <1>10, <1>11, <1>13, <1>14, <1>15, <1>16 DEF HostInv, Leases

\* A dead helper drives nothing: what it had is anybody's.
LEMMA DieStep ==
  ASSUME HostInv, NEW h \in Helpers, Die(h)
  PROVE  HostInv'
<1>1. run \in [Helpers -> [Traces -> Run]] BY DEF HostInv, TypeOK
<1>2. /\ \A g \in Helpers : g # h => run'[g] = run[g]
      /\ \A s \in Traces : run'[h][s] =
           IF run[h][s].phase = "working"
           THEN [run[h][s] EXCEPT !.phase = "exited", !.tab = 0] ELSE run[h][s]
  BY <1>1 DEF Die
<1>3. run' \in [Helpers -> [Traces -> Run]]
  <2>1. ASSUME NEW s \in Traces PROVE run'[h][s] \in Run
    <3>1. run[h][s] \in Run BY <1>1
    <3>2. CASE run[h][s].phase = "working"
      <4>1. run'[h][s] = [run[h][s] EXCEPT !.phase = "exited", !.tab = 0] BY <1>2, <3>2
      <4>2. 0 \in 0 .. MaxOpened BY HostShapes
      <4>3. run'[h][s] = [phase |-> "exited", tab |-> 0, completed |-> run[h][s].completed]
        BY <3>1, <4>1 DEF Run
      <4>. QED BY <3>1, <4>2, <4>3 DEF Run
    <3>3. CASE run[h][s].phase # "working" BY <1>2, <3>1, <3>3
    <3>. QED BY <3>2, <3>3
  <2>2. run'[h] \in [Traces -> Run] BY <1>1, <2>1 DEF Die
  <2>. QED BY <1>1, <1>2, <2>2 DEF Die
<1>4. TypeOK' BY <1>3 DEF Die, HostInv, TypeOK
<1>5. Surface' BY DEF Die, HostInv, Surface, OperationExclusive, SleepReleased, Busy
<1>6. Known'
  <2>1. 0 <= opened BY HostShapes DEF HostInv, TypeOK
  <2>2. ASSUME NEW s \in Traces PROVE run'[h][s].tab <= opened
    <3>1. run[h][s] \in Run BY <1>1
    <3>2. CASE run[h][s].phase = "working" BY <1>2, <2>1, <3>1, <3>2 DEF Run
    <3>3. CASE run[h][s].phase # "working"
      BY <1>2, <3>3 DEF HostInv, Leases, Known
    <3>. QED BY <3>2, <3>3
  <2>. QED BY <1>2, <2>2 DEF Die, HostInv, Leases, Known
<1>7. DriversLive'
  <2>1. \A s \in Traces : run'[h][s].phase # "working" BY <1>1, <1>2 DEF Run
  <2>. QED BY <1>2, <2>1 DEF Die, HostInv, Leases, DriversLive
<1>8. Owns'
  <2>1. \A g \in alive' : g \in alive /\ g \in Helpers /\ run'[g] = run[g]
    BY <1>2 DEF Die, HostInv, TypeOK
  <2>2. tabs' = tabs BY DEF Die
  <2>. QED BY <2>1, <2>2 DEF HostInv, Leases, Owns
<1>9. Unanswered'
  <2>1. ASSUME NEW s \in Traces, run'[h][s].phase # "idle"
        PROVE  ~run'[h][s].completed
    <3>1. run[h][s] \in Run BY <1>1
    <3>2. CASE run[h][s].phase = "working"
      <4>1. run'[h][s] = [run[h][s] EXCEPT !.phase = "exited", !.tab = 0] BY <1>2, <3>2
      <4>2. run'[h][s].completed = run[h][s].completed BY <3>1, <4>1 DEF Run
      <4>. QED BY <3>2, <4>2 DEF HostInv, Leases, Unanswered
    <3>3. CASE run[h][s].phase # "working"
      BY <1>2, <2>1, <3>3 DEF HostInv, Leases, Unanswered
    <3>. QED BY <3>2, <3>3
  <2>. QED BY <1>2, <2>1 DEF HostInv, Leases, Unanswered
<1>. QED BY <1>4, <1>5, <1>6, <1>7, <1>8, <1>9 DEF HostInv, Leases

-----------------------------------------------------------------------------
LEMMA HostInvInit == Init => HostInv
<1>. SUFFICES ASSUME Init PROVE HostInv OBVIOUS
<1>1. DOMAIN tabs = {} BY DEF Init
<1>2. TypeOK
  <2>1. Idle \in Run BY HostShapes DEF Idle, Run
  <2>2. run \in [Helpers -> [Traces -> Run]] BY <2>1 DEF Init
  <2>3. \A i \in DOMAIN tabs : tabs[i] \in Tab BY <1>1
  <2>4. opened \in 0 .. MaxOpened BY HostShapes DEF Init
  <2>. QED BY <1>1, <2>2, <2>3, <2>4 DEF Init, TypeOK
<1>3. Leases BY <1>1 DEF Init, Leases, Known, DriversLive, Owns, Unanswered, Idle
<1>4. Surface BY <1>1 DEF Init, Surface, OperationExclusive, SleepReleased, Busy
<1>. QED BY <1>2, <1>3, <1>4 DEF HostInv

LEMMA HostInvNext == HostInv /\ [Next]_vars => HostInv'
<1>. SUFFICES ASSUME HostInv, [Next]_vars PROVE HostInv' OBVIOUS
<1>1. ASSUME NEW h \in Helpers, NEW t \in Traces, HelperStep(h, t) PROVE HostInv'
  <2>1. ASSUME NEW i \in DOMAIN tabs, Reuse(h, t, i) PROVE HostInv' BY <2>1, ReuseStep
  <2>2. CASE Create(h, t) BY <2>2, CreateStep
  <2>3. CASE Open(h, t) BY <2>3, OpenStep
  <2>4. CASE FailToOpen(h, t) BY <2>4, FailToOpenStep
  <2>5. CASE Heartbeat(h, t) BY <2>5, HeartbeatStep
  <2>6. ASSUME NEW status, End(h, t, status) PROVE HostInv' BY <2>6, EndTurnStep DEF End
  <2>7. CASE EndForExited(h, t) BY <2>7, EndTurnStep DEF EndForExited
  <2>. QED BY <1>1, <2>1, <2>2, <2>3, <2>4, <2>5, <2>6, <2>7 DEF HelperStep
<1>2. ASSUME NEW h \in Helpers, Die(h) PROVE HostInv' BY <1>2, DieStep
<1>3. ASSUME NEW i \in DOMAIN tabs, TabStep(i) PROVE HostInv' BY <1>3, TabSteps
<1>4. ASSUME NEW c \in Conversations, ReleaseConversation(c) PROVE HostInv'
  BY <1>4, ReleaseConversationStep
<1>5. CASE HostStep BY <1>5, HostSteps
<1>6. CASE UNCHANGED vars
  BY <1>6 DEF vars, HostInv, TypeOK, Leases, Known, DriversLive, Owns, Unanswered, Surface,
              OperationExclusive, SleepReleased, Busy
<1>. QED BY <1>1, <1>2, <1>3, <1>4, <1>5, <1>6 DEF Next

\* The inductive invariant of the browser host.
THEOREM HostConsistent == HostSpec => []HostInv
BY HostInvInit, HostInvNext, PTL DEF HostSpec

\* The host's state keeps its types for any traces, helpers and limits.
THEOREM HostTyped == HostSpec => []TypeOK
<1>1. HostInv => TypeOK BY DEF HostInv
<1>. QED BY <1>1, HostConsistent, PTL

\* Two live turns never drive one document (beginTurn, endTurn).
THEOREM TabHasOneDriver == HostSpec => []OneDriver
<1>1. HostInv => OneDriver
  BY DEF HostInv, Leases, DriversLive, Owns, OneDriver, Works
<1>. QED BY <1>1, HostConsistent, PTL

\* No turn runs during an operation on the home surface (withManualOperation).
THEOREM OperationsExcludeTurns == HostSpec => []OperationExclusive
<1>1. HostInv => OperationExclusive BY DEF HostInv, Surface
<1>. QED BY <1>1, HostConsistent, PTL

\* No sleep is blocked without a running turn (syncPowerSaveBlocker).
THEOREM SleepIsReleased == HostSpec => []SleepReleased
<1>1. HostInv => SleepReleased BY DEF HostInv, Surface
<1>. QED BY <1>1, HostConsistent, PTL

\* What a step may answer to a turn whose tab the user closed.
LEMMA CloseStep ==
  ASSUME HostInv, [Next]_vars, NEW h \in Helpers, NEW t \in Traces,
         cancelledOwners[t] = h, run'[h][t] # run[h][t]
  PROVE  ~run'[h][t].completed
<1>0. run \in [Helpers -> [Traces -> Run]] BY DEF HostInv, TypeOK
<1>1. ASSUME NEW g \in Helpers, NEW s \in Traces, NEW phase, NEW i,
             Launches(g, s, phase, i)
      PROVE  ~run'[h][t].completed
  <2>1. run'[g][s] = [phase |-> phase, tab |-> i, completed |-> FALSE]
    BY <1>0, <1>1 DEF Launches
  <2>2. g # h \/ s # t => run'[h][t] = run[h][t] BY <1>0, <1>1 DEF Launches
  <2>. QED BY <2>1, <2>2
<1>2. ASSUME NEW g \in Helpers, NEW s \in Traces, NEW status, EndTurn(g, s, status)
      PROVE  ~run'[h][t].completed
  <2>1. PICK c : Answers(g, s, c) BY <1>2 DEF EndTurn, EndOwned, EndClosed, EndRejected
  <2>2. g # h \/ s # t => run'[h][t] = run[h][t] BY <1>0, <2>1 DEF Answers
  <2>3. CASE g = h /\ s = t
    <3>1. CancelledByUser(h, t) BY DEF CancelledByUser
    <3>2. Answers(h, t, "failed")
      BY <1>2, <2>3, <3>1 DEF EndTurn, EndOwned, EndClosed, EndRejected
    <3>3. run' = [run EXCEPT ![h][t] = [phase |-> "idle", tab |-> 0, completed |-> FALSE]]
      BY <3>2 DEF Answers
    <3>4. run'[h][t].completed = FALSE BY <1>0, <3>3
    <3>. QED BY <3>4
  <2>. QED BY <2>2, <2>3
<1>3. ASSUME NEW g \in Helpers, NEW s \in Traces, HelperStep(g, s)
      PROVE  ~run'[h][t].completed
  <2>1. \/ UNCHANGED run
        \/ \E phase, i : Launches(g, s, phase, i)
        \/ \E status : EndTurn(g, s, status)
    BY <1>3 DEF HelperStep, Reuse, Create, Open, FailToOpen, Heartbeat, End, EndForExited
  <2>. QED BY <1>1, <1>2, <2>1
<1>4. ASSUME NEW g \in Helpers, Die(g) PROVE ~run'[h][t].completed
  <2>1. run[h][t] \in Run BY <1>0
  <2>2. g = h /\ run[h][t].phase = "working" BY <1>0, <1>4 DEF Die
  <2>3. run'[h][t] = [run[h][t] EXCEPT !.phase = "exited", !.tab = 0]
    BY <1>0, <1>4, <2>2 DEF Die
  <2>4. run'[h][t].completed = run[h][t].completed BY <2>1, <2>3 DEF Run
  <2>. QED BY <2>2, <2>4 DEF HostInv, Leases, Unanswered
<1>5. ASSUME NEW i \in DOMAIN tabs, TabStep(i) PROVE FALSE
  BY <1>5 DEF TabStep, Lapse, CloseIdle, CloseRunning, Boot, FailToMark, Crash
<1>6. ASSUME NEW c, ReleaseConversation(c) PROVE FALSE BY <1>6 DEF ReleaseConversation
<1>7. CASE HostStep
  BY <1>7 DEF HostStep, Sweep, Resume, BeginOperation, EndOperation, Expire, FailToExpire,
              Close, FailToClose
<1>8. CASE UNCHANGED vars BY <1>8 DEF vars
<1>. QED BY <1>3, <1>4, <1>5, <1>6, <1>7, <1>8 DEF Next

\* A turn whose tab the user closed is never answered as completed (endTurn).
THEOREM ClosedIsNotCompleted == HostSpec => CloseIsReported
<1>1. HostInv /\ [Next]_vars =>
        \A h \in Helpers, t \in Traces :
          cancelledOwners[t] = h /\ run'[h][t] # run[h][t] => ~run'[h][t].completed
  BY CloseStep
<1>2. HostInv /\ [Next]_vars =>
        [\A h \in Helpers, t \in Traces :
          cancelledOwners[t] = h /\ run'[h][t] # run[h][t] => ~run'[h][t].completed]_vars
  BY <1>1
<1>. QED BY <1>2, HostConsistent, PTL DEF HostSpec, CloseIsReported

-----------------------------------------------------------------------------
LEMMA TabsFinite ==
  ASSUME TypeOK
  PROVE  IsFiniteSet(DOMAIN tabs) /\ Cardinality(DOMAIN tabs) \in Nat
<1>1. IsFiniteSet(1 .. opened) BY HostShapes, FS_Interval DEF TypeOK
<1>2. IsFiniteSet(DOMAIN tabs) BY <1>1, FS_Subset DEF TypeOK
<1>. QED BY <1>2, FS_CardinalityType

\* Only createTurnTab makes the registry larger, and it makes room first.
LEMMA LimitStep ==
  ASSUME HostInv, [Next]_vars, WithinTabLimit
  PROVE  WithinTabLimit'
<1>0. IsFiniteSet(DOMAIN tabs) /\ Cardinality(DOMAIN tabs) \in Nat
  BY TabsFinite DEF HostInv
<1>1. ASSUME DOMAIN tabs' \subseteq DOMAIN tabs PROVE WithinTabLimit'
  <2>1. Cardinality(DOMAIN tabs') <= Cardinality(DOMAIN tabs) BY <1>0, <1>1, FS_Subset
  <2>2. Cardinality(DOMAIN tabs') \in Nat
    BY <1>0, <1>1, FS_Subset, FS_CardinalityType
  <2>. QED BY <1>0, <2>1, <2>2, HostShapes DEF WithinTabLimit
<1>2. ASSUME NEW h \in Helpers, NEW t \in Traces, Create(h, t) PROVE WithinTabLimit'
  <2>1. PICK gone \in Evicted : DOMAIN tabs' = (DOMAIN tabs \ gone) \cup {opened'}
    BY <1>2 DEF Create
  <2>. DEFINE kept == DOMAIN tabs \ gone
  <2>2. IsFiniteSet(kept) /\ Cardinality(kept) \in Nat
        /\ Cardinality(kept) <= Cardinality(DOMAIN tabs)
    BY <1>0, FS_Subset, FS_CardinalityType
  <2>3. Cardinality(kept) < MaxTabs
    <3>1. CASE Full
      <4>1. PICK i \in DOMAIN tabs : gone = {i} BY <2>1, <3>1 DEF Evicted
      <4>2. Cardinality(kept) = Cardinality(DOMAIN tabs) - 1
        BY <1>0, <4>1, FS_RemoveElement
      <4>. QED BY <1>0, <2>2, <4>2, HostShapes DEF WithinTabLimit
    <3>2. CASE ~Full BY <1>0, <2>2, <3>2, HostShapes DEF Full
    <3>. QED BY <3>1, <3>2
  <2>4. Cardinality(DOMAIN tabs') <= Cardinality(kept) + 1
    <3>1. CASE opened' \in kept
      <4>1. DOMAIN tabs' = kept BY <2>1, <3>1
      <4>. QED BY <2>2, <4>1
    <3>2. CASE opened' \notin kept
      <4>1. DOMAIN tabs' = kept \cup {opened'} BY <2>1
      <4>. HIDE DEF kept
      <4>2. Cardinality(kept \cup {opened'}) = Cardinality(kept) + 1
        BY <2>2, <3>2, FS_AddElement
      <4>. QED BY <2>2, <4>1, <4>2
    <3>. QED BY <3>1, <3>2
  <2>5. Cardinality(DOMAIN tabs') \in Nat
    BY <2>1, <2>2, FS_AddElement, FS_CardinalityType
  <2>. QED BY <2>2, <2>3, <2>4, <2>5, HostShapes DEF WithinTabLimit
<1>3. ASSUME NEW i, TakeAway(i) PROVE DOMAIN tabs' \subseteq DOMAIN tabs
  BY <1>3 DEF TakeAway, Release, Without
<1>4. ASSUME NEW gone, Release(gone) PROVE DOMAIN tabs' \subseteq DOMAIN tabs
  BY <1>4 DEF Release, Without
<1>5. ASSUME NEW h \in Helpers, NEW t \in Traces, HelperStep(h, t), ~Create(h, t)
      PROVE  DOMAIN tabs' \subseteq DOMAIN tabs
  <2>1. ASSUME NEW i \in DOMAIN tabs, Reuse(h, t, i) PROVE DOMAIN tabs' \subseteq DOMAIN tabs
    BY <2>1 DEF Reuse
  <2>2. CASE Open(h, t) BY <2>2 DEF Open
  <2>3. CASE FailToOpen(h, t) BY <1>3, <2>3 DEF FailToOpen
  <2>4. CASE Heartbeat(h, t) BY <2>4 DEF Heartbeat
  <2>5. ASSUME NEW status, EndTurn(h, t, status) PROVE DOMAIN tabs' \subseteq DOMAIN tabs
    <3>1. CASE EndClosed(h, t, status) \/ EndRejected(h, t)
      BY <3>1 DEF EndClosed, EndRejected
    <3>2. ASSUME NEW i \in Owned(t), EndOwned(h, t, i, status)
          PROVE  DOMAIN tabs' \subseteq DOMAIN tabs
      BY <1>4, <3>2 DEF EndOwned
    <3>. QED BY <2>5, <3>1, <3>2 DEF EndTurn
  <2>. QED BY <1>5, <2>1, <2>2, <2>3, <2>4, <2>5 DEF HelperStep, End, EndForExited
<1>6. ASSUME NEW i \in DOMAIN tabs, TabStep(i) PROVE DOMAIN tabs' \subseteq DOMAIN tabs
  BY <1>3, <1>4, <1>6
     DEF TabStep, Lapse, CloseIdle, CloseRunning, Boot, FailToMark, Crash
<1>7. CASE HostStep
  <2>1. DOMAIN tabs' \subseteq DOMAIN tabs
    BY <1>3, <1>4, <1>7
       DEF HostStep, Sweep, Resume, BeginOperation, EndOperation, Expire, FailToExpire,
           Close, FailToClose
  <2>. QED BY <1>1, <2>1
<1>8. ASSUME NEW c, ReleaseConversation(c) PROVE DOMAIN tabs' \subseteq DOMAIN tabs
  BY <1>4, <1>8 DEF ReleaseConversation
<1>9. ASSUME NEW h \in Helpers, Die(h) PROVE DOMAIN tabs' \subseteq DOMAIN tabs
  BY <1>9 DEF Die
<1>10. CASE UNCHANGED vars BY <1>1, <1>10 DEF vars
<1>. QED BY <1>1, <1>2, <1>5, <1>6, <1>7, <1>8, <1>9, <1>10 DEF Next

\* The account never has more tabs than the limit (createTurnTab).
THEOREM TabsAreLimited == HostSpec => []WithinTabLimit
<1>1. Init => WithinTabLimit
  <2>1. ASSUME Init PROVE DOMAIN tabs = {} BY <2>1 DEF Init
  <2>. QED BY <2>1, FS_EmptySet, HostShapes DEF WithinTabLimit
<1>2. HostInv /\ WithinTabLimit /\ [Next]_vars => WithinTabLimit' BY LimitStep
<1>. QED BY <1>1, <1>2, HostConsistent, PTL DEF HostSpec

-----------------------------------------------------------------------------
\* A turn that works in its tab has a live helper, and the tab is not a retained one.
LEMMA LoserWorks ==
  ASSUME HostInv, NEW h \in Helpers, NEW t \in Traces, NEW i \in Opened, Loses(h, t, i)
  PROVE  /\ h \in alive /\ i \in DOMAIN tabs /\ tabs[i].trace = t /\ tabs[i].helper = h
         /\ tabs[i].status # "ready"
         /\ run[h][t].phase = "working" /\ run[h][t].tab = i
         /\ i # opened + 1
BY DEF Loses, Works, Owned, HostInv, Leases, DriversLive, Owns, TypeOK

\* What the host and the user do to the tab of a working turn (reapExpiredTurnTabs,
\* closeTab, releaseRetainedConversation).
LEMMA HostLeavesTabs ==
  ASSUME HostInv, NEW h \in Helpers, NEW t \in Traces, NEW i \in Opened, Loses(h, t, i),
         \/ HostStep \/ \E j \in DOMAIN tabs : TabStep(j)
         \/ \E c \in Conversations : ReleaseConversation(c)
  PROVE  \/ Crash(i)
         \/ \E x \in closing : x.tab = i /\ Close(x)
         \/ \E x \in expiring : x.tab = i /\ x.trace = t /\ x.helper = h /\ Expire(x)
<1> DEFINE Goal == \/ Crash(i)
                   \/ \E x \in closing : x.tab = i /\ Close(x)
                   \/ \E x \in expiring : x.tab = i /\ x.trace = t /\ x.helper = h /\ Expire(x)
<1>0. /\ i \in DOMAIN tabs /\ tabs[i].trace = t /\ tabs[i].helper = h
      /\ tabs[i].status # "ready"
  BY LoserWorks
<1>1. ASSUME NEW gone, Release(gone) PROVE i \in gone
  BY <1>0, <1>1 DEF Release, Without, Loses
<1>2. ~UNCHANGED tabs
  BY <1>0 DEF Loses
<1>3. CASE Sweep
  BY <1>0, <1>1, <1>3 DEF Sweep, Ready
<1>4. CASE Resume
  <2>1. DOMAIN tabs' = DOMAIN tabs /\ tabs'[i].trace = t /\ tabs'[i].helper = h
    BY <1>0, <1>4 DEF Resume, HostInv, TypeOK, Tab
  <2> QED BY <1>0, <2>1 DEF Loses
<1>5. ASSUME NEW x \in expiring, Expire(x) PROVE Goal
  <2>1. StillExpired(x) /\ TakeAway(x.tab)
    BY <1>2, <1>5 DEF Expire
  <2>2. i = x.tab
    BY <1>1, <2>1 DEF TakeAway
  <2> QED BY <1>0, <1>5, <2>1, <2>2 DEF StillExpired
<1>6. ASSUME NEW x \in closing, Close(x) PROVE Goal
  <2>1. TakeAway(x.tab)
    BY <1>2, <1>6 DEF Close
  <2>2. i = x.tab
    BY <1>1, <2>1 DEF TakeAway
  <2> QED BY <1>6, <2>2
<1>7. ASSUME NEW j \in DOMAIN tabs, Lapse(j) \/ Boot(j) \/ FailToMark(j) PROVE FALSE
  <2>1. tabs[j] \in Tab
    BY DEF HostInv, TypeOK
  <2> DEFINE late == [tabs[j] EXCEPT !.late = TRUE]
             booted == [tabs[j] EXCEPT !.booted = TRUE, !.late = FALSE]
             unmarked == [tabs[j] EXCEPT !.status = "error"]
             Same(tab) == tab.trace = tabs[j].trace /\ tab.helper = tabs[j].helper
  <2>2. Same(late) /\ Same(booted) /\ Same(unmarked)
    BY <2>1 DEF Tab
  <2>4. \E tab : tabs' = [tabs EXCEPT ![j] = tab] /\ Same(tab)
    <3>1. \/ tabs' = [tabs EXCEPT ![j] = late] \/ tabs' = [tabs EXCEPT ![j] = booted]
          \/ tabs' = [tabs EXCEPT ![j] = unmarked]
      BY <1>7 DEF Lapse, Boot, FailToMark
    <3> HIDE DEF late, booted, unmarked
    <3> QED BY <2>2, <3>1
  <2>3. i \in DOMAIN tabs' /\ tabs'[i].trace = t /\ tabs'[i].helper = h
    BY <1>0, <2>4
  <2> QED BY <1>0, <2>3 DEF Loses
<1>8. ASSUME NEW j \in DOMAIN tabs, CloseIdle(j) PROVE Goal
  <2>1. j = i
    BY <1>1, <1>8 DEF CloseIdle
  <2> QED BY <1>8, <2>1 DEF CloseIdle, Crash, TakeAway
<1>9. ASSUME NEW j \in DOMAIN tabs, Crash(j) PROVE Goal
  <2>1. j = i
    BY <1>1, <1>9 DEF Crash, TakeAway
  <2> QED BY <1>9, <2>1
<1>10. ASSUME NEW c, ReleaseConversation(c) PROVE FALSE
  BY <1>0, <1>1, <1>10 DEF ReleaseConversation, Ready
<1> QED
  BY <1>2, <1>3, <1>4, <1>5, <1>6, <1>7, <1>8, <1>9, <1>10
  DEF HostStep, TabStep, BeginOperation, EndOperation, FailToExpire, FailToClose, CloseRunning

\* What helpers do to it: one that died while it opened the tab, and is cut off late.
LEMMA HelpersLeaveTabs ==
  ASSUME HostInv, NEW h \in Helpers, NEW t \in Traces, NEW i \in Opened, Loses(h, t, i),
         NEW g \in Helpers, NEW s \in Traces, HelperStep(g, s)
  PROVE  g \notin alive /\ run[g][s].tab = i /\ FailToOpen(g, s)
<1>0. /\ h \in alive /\ i \in DOMAIN tabs /\ tabs[i].trace = t /\ tabs[i].helper = h
      /\ tabs[i].status # "ready" /\ run[h][t].phase = "working" /\ run[h][t].tab = i
      /\ i # opened + 1
  BY LoserWorks
<1>1. ~UNCHANGED tabs /\ run'[h][t] = run[h][t]
  BY <1>0 DEF Loses
<1>2. ASSUME NEW gone, Release(gone) PROVE i \in gone
  BY <1>0, <1>2 DEF Release, Without, Loses
<1>3. ASSUME NEW j \in DOMAIN tabs, Reuse(g, s, j) PROVE FALSE
  <2>1. j = i
    BY <1>0, <1>3 DEF Reuse, Loses
  <2>2. CASE Found(s, i) /\ (tabs[i].helper = g \/ tabs[i].helper \notin alive)
    BY <1>0, <1>3, <2>2 DEF Reuse, MayBegin, Found, Owned
  <2>3. CASE i \in Retained(s)
    BY <1>0, <2>3 DEF Retained, Ready
  <2> QED BY <1>3, <2>1, <2>2, <2>3 DEF Reuse, Reusable
<1>4. CASE Create(g, s)
  <2>1. PICK gone \in Evicted :
          tabs' = [j \in (DOMAIN tabs \ gone) \cup {opened'} |->
                     IF j = opened'
                     THEN [trace |-> s, helper |-> g, booted |-> FALSE,
                           late |-> FALSE, status |-> "running"]
                     ELSE tabs[j]]
    BY <1>4 DEF Create
  <2>2. i \notin gone
    BY <1>0, <2>1 DEF Evicted, Reclaimable, Ready
  <2>3. i # opened'
    BY <1>0, <1>4 DEF Create
  <2>4. i \in DOMAIN tabs' /\ tabs'[i] = tabs[i]
    BY <1>0, <2>1, <2>2, <2>3
  <2> QED BY <1>0, <2>4 DEF Loses
<1>5. CASE FailToOpen(g, s)
  <2>1. run[g][s].tab \in DOMAIN tabs /\ TakeAway(run[g][s].tab)
    BY <1>1, <1>5 DEF FailToOpen
  <2>2. run[g][s].tab = i
    BY <1>2, <2>1 DEF TakeAway
  <2>3. g \in alive => g = h /\ s = t
    BY <1>0, <1>5, <2>2 DEF FailToOpen, HostInv, Leases, Owns
  <2> QED BY <1>0, <1>5, <2>2, <2>3 DEF FailToOpen
<1>6. CASE Heartbeat(g, s)
  <2>1. DOMAIN tabs' = DOMAIN tabs /\ tabs'[i].trace = t /\ tabs'[i].helper = h
    BY <1>0, <1>6 DEF Heartbeat, Owned, HostInv, TypeOK, Tab
  <2> QED BY <1>0, <2>1 DEF Loses
<1>7. ASSUME NEW status, EndTurn(g, s, status) PROVE FALSE
  <2>1. PICK j \in Owned(s) : EndOwned(g, s, j, status)
    BY <1>1, <1>7 DEF EndTurn, EndClosed, EndRejected
  <2>2. tabs[j] \in Tab /\ j \in DOMAIN tabs
    BY DEF HostInv, TypeOK, Owned
  <2>3. CASE j = i
    <3>1. g = h /\ s = t
      BY <1>0, <2>1, <2>3 DEF EndOwned, Found, Owned
    <3>2. run'[h][t].phase = "idle"
      BY <2>1, <3>1 DEF EndOwned, Answers, HostInv, TypeOK
    <3> QED BY <1>0, <1>1, <3>2
  <2>4. CASE j # i
    BY <1>0, <1>2, <2>1, <2>4 DEF EndOwned, Loses
  <2> QED BY <2>3, <2>4
<1> QED
  BY <1>1, <1>3, <1>4, <1>5, <1>6, <1>7 DEF HelperStep, Open, End, EndForExited

\* No turn takes the tab that another works in, and no sweep or operation does: it goes with
\* its page, by the user's decision, when its lease is over, or with the dead helper that
\* opened it first.
THEOREM TurnsKeepTheirTabs == HostSpec => KeepsItsTab
<1> DEFINE Step == \A h \in Helpers, t \in Traces, i \in Opened : Loses(h, t, i) =>
       \/ Crash(i)
       \/ \E x \in closing : x.tab = i /\ Close(x)
       \/ \E x \in expiring : x.tab = i /\ x.trace = t /\ x.helper = h /\ Expire(x)
       \/ \E g \in Helpers \ alive, s \in Traces : run[g][s].tab = i /\ FailToOpen(g, s)
<1>1. ASSUME HostInv, [Next]_vars PROVE Step
  <2> SUFFICES ASSUME NEW h \in Helpers, NEW t \in Traces, NEW i \in Opened, Loses(h, t, i)
               PROVE  \/ Crash(i)
                      \/ \E x \in closing : x.tab = i /\ Close(x)
                      \/ \E x \in expiring :
                           x.tab = i /\ x.trace = t /\ x.helper = h /\ Expire(x)
                      \/ \E g \in Helpers \ alive, s \in Traces :
                           run[g][s].tab = i /\ FailToOpen(g, s)
    OBVIOUS
  <2>1. ~UNCHANGED tabs
    BY DEF Loses, Owned
  <2>2. CASE \/ HostStep \/ \E j \in DOMAIN tabs : TabStep(j)
             \/ \E c \in Conversations : ReleaseConversation(c)
    BY <1>1, <2>2, HostLeavesTabs
  <2>3. ASSUME NEW g \in Helpers, NEW s \in Traces, HelperStep(g, s)
        PROVE  g \notin alive /\ run[g][s].tab = i /\ FailToOpen(g, s)
    BY <1>1, <2>3, HelpersLeaveTabs
  <2> QED BY <1>1, <2>1, <2>2, <2>3, Zenon DEF Next, vars, Die
<1> QED BY <1>1, HostConsistent, PTL DEF HostSpec, KeepsItsTab

-----------------------------------------------------------------------------
(* The exclusive operation.                                                 *)

OperationSteps ==
  {"none", "setup", "load", "probe", "probes", "wait", "waits", "helper", "transfer", "clear",
   "discard", "idling", "cookies", "cleanup"}
OperationRecords ==
  [name : Operations \cup {"none", "mode"}, pc : OperationSteps, was : {"automatic", "manual"},
   mutated : BOOLEAN, failed : BOOLEAN, discards : BOOLEAN, discarded : BOOLEAN,
   cleaned : BOOLEAN]

\* Where an import is, and what it has done to the session.  Only a discard probes the page
\* for a passkey, and by then the session was cleared.
OperationIInv ==
  /\ manualOperation \in OperationRecords
  /\ imported \in BOOLEAN
  /\ manualOperation.pc = "transfer" => ~manualOperation.mutated
  /\ manualOperation.pc = "setup" => manualOperation.name # "passkey"
  /\ manualOperation.pc = "cookies" =>
       manualOperation.name = "passkey" /\ ~manualOperation.discards
  /\ manualOperation.name = "passkey" =>
       /\ manualOperation.pc \in {"probe", "probes"} => manualOperation.discards
       /\ manualOperation.pc \in {"load", "probe", "probes"} /\ manualOperation.discards =>
            ~imported
       /\ manualOperation.discarded => manualOperation.pc = "cleanup" /\ ~imported

\* The step of PartialImportDiscarded.
LeavesNoImport ==
  imported' /\ manualOperation.name = "passkey" /\ manualOperation.mutated
      /\ manualOperation'.name # "passkey"
    => manualOperation.discards /\ manualOperation.cleaned

LEMMA OperationUpdates ==
  ASSUME NEW o \in OperationRecords, NEW s \in OperationSteps
  PROVE  LET n == [o EXCEPT !.pc = s]
         IN /\ n \in OperationRecords /\ n.pc = s /\ n.name = o.name
            /\ n.mutated = o.mutated /\ n.discards = o.discards
            /\ n.discarded = o.discarded /\ n.cleaned = o.cleaned
  BY DEF OperationRecords

LEMMA IdleOperation ==
  /\ NoManualOperation \in OperationRecords /\ NoManualOperation.name = "none"
  /\ NoManualOperation.pc = "none"
  BY DEF NoManualOperation, OperationRecords, OperationSteps

\* An operation that fails and is no import goes to where it began; an import that has
\* touched the session discards it, once before and once after its cleanup.
LEMMA FailedOperation ==
  ASSUME OperationIInv, manualOperation.pc # "cleanup"
  PROVE  \/ /\ AfterFailure = NoManualOperation
            /\ manualOperation.name = "passkey" /\ manualOperation.mutated =>
                 manualOperation.discards /\ manualOperation.cleaned
         \/ /\ AfterFailure \in OperationRecords /\ AfterFailure.name = "passkey"
            /\ AfterFailure.pc \in {"discard", "cleanup"} /\ ~AfterFailure.discarded
<1> DEFINE m == manualOperation
           o == [m EXCEPT !.failed = TRUE]
           d == [o EXCEPT !.pc = "discard", !.discards = TRUE]
           c == [o EXCEPT !.pc = "cleanup"]
<1>1. m \in OperationRecords
  BY DEF OperationIInv
<1>2. /\ o \in OperationRecords /\ o.name = m.name /\ o.pc = m.pc
      /\ o.mutated = m.mutated /\ o.discards = m.discards
      /\ o.discarded = m.discarded /\ o.cleaned = m.cleaned
  BY <1>1 DEF OperationRecords
<1>3. AfterFailure = CASE o.name # "passkey" \/ o.pc = "transfer" -> NoManualOperation
          [] o.name = "passkey" /\ o.pc # "transfer" /\ ~o.discards /\ o.mutated -> d
          [] OTHER -> IF o.cleaned THEN NoManualOperation ELSE c
  BY DEF AfterFailure
<1> HIDE DEF o
<1>4. /\ d \in OperationRecords /\ d.name = o.name /\ d.pc = "discard"
      /\ d.discarded = o.discarded
  BY <1>2 DEF OperationRecords, OperationSteps
<1>5. /\ c \in OperationRecords /\ c.name = o.name /\ c.pc = "cleanup"
      /\ c.discarded = o.discarded
  BY <1>2 DEF OperationRecords, OperationSteps
<1> HIDE DEF d, c, m
<1>6. CASE o.name # "passkey" \/ o.pc = "transfer"
  <2>1. AfterFailure = NoManualOperation
    BY <1>3, <1>6
  <2>2. m.name # "passkey" \/ ~m.mutated
    BY <1>2, <1>6 DEF OperationIInv, m
  <2> QED
    BY <2>1, <2>2 DEF m
<1>7. CASE o.name = "passkey" /\ o.pc # "transfer" /\ ~o.discards /\ o.mutated
  <2>1. AfterFailure = d
    BY <1>3, <1>7
  <2>2. ~m.discarded
    BY <1>2, <1>7 DEF OperationIInv, m
  <2> QED
    BY <1>2, <1>4, <1>7, <2>1, <2>2
<1>8. CASE o.name = "passkey" /\ o.pc # "transfer" /\ ~(~o.discards /\ o.mutated)
  <2>1. AfterFailure = IF o.cleaned THEN NoManualOperation ELSE c
    BY <1>3, <1>8
  <2>2. ~m.discarded
    BY <1>2, <1>8 DEF OperationIInv, m
  <2>3. CASE o.cleaned
    BY <1>2, <1>8, <2>1, <2>3 DEF m
  <2>4. CASE ~o.cleaned
    BY <1>2, <1>5, <1>8, <2>1, <2>2, <2>4
  <2> QED
    BY <2>3, <2>4
<1> QED
  BY <1>6, <1>7, <1>8

\* A step that fails leaves the import as it is.
LEMMA FailingStep ==
  ASSUME OperationIInv, manualOperation.pc # "cleanup", manualOperation' = AfterFailure,
         imported' \in BOOLEAN
  PROVE  OperationIInv' /\ LeavesNoImport
  BY FailedOperation, IdleOperation DEF OperationIInv, LeavesNoImport

LEMMA EndingStep ==
  ASSUME OperationIInv, manualOperation' = NoManualOperation, imported' \in BOOLEAN,
         manualOperation.name = "passkey" => ~imported'
  PROVE  OperationIInv' /\ LeavesNoImport
  BY IdleOperation DEF OperationIInv, LeavesNoImport

\* A step that goes on with an operation.
LEMMA GoingStep ==
  ASSUME OperationIInv, NEW s \in OperationSteps \ {"transfer", "setup"}, manualOperation' = Pc(s),
         imported' \in BOOLEAN,
         s = "cookies" => manualOperation.name = "passkey" /\ ~manualOperation.discards,
         manualOperation.name = "passkey" =>
           /\ s \in {"probe", "probes"} => manualOperation.discards
           /\ s \in {"load", "probe", "probes"} /\ manualOperation.discards => ~imported'
           /\ ~manualOperation.discarded
  PROVE  OperationIInv' /\ LeavesNoImport
<1>1. manualOperation \in OperationRecords
  BY DEF OperationIInv
<1>2. /\ manualOperation' \in OperationRecords /\ manualOperation'.pc = s
      /\ manualOperation'.name = manualOperation.name
      /\ manualOperation'.discards = manualOperation.discards
      /\ manualOperation'.discarded = manualOperation.discarded
  BY <1>1, OperationUpdates DEF Pc
<1> QED
  BY <1>2 DEF OperationIInv, LeavesNoImport

LEMMA OperationStays ==
  ASSUME OperationIInv, UNCHANGED <<manualOperation, imported>>
  PROVE  OperationIInv' /\ LeavesNoImport
  BY DEF OperationIInv, LeavesNoImport

LEMMA OtherStepsKeepOperation ==
  ASSUME PageStep \/ SessionStep
  PROVE  UNCHANGED <<manualOperation, imported>>
<1>1. CASE ProbeAnswered
  BY <1>1 DEF ProbeAnswered
<1>2. CASE ProbeContinues
  BY <1>2 DEF ProbeContinues
<1>3. CASE ProbeMoved
  BY <1>3 DEF ProbeMoved
<1>4. CASE CookieChanged
  BY <1>4 DEF CookieChanged
<1>5. CASE RefreshAnswered
  BY <1>5 DEF RefreshAnswered
<1>6. CASE RefreshPublishes
  BY <1>6 DEF RefreshPublishes
<1>7. CASE TurnTab
  BY <1>7 DEF TurnTab
<1>8. CASE TurnRedirected
  BY <1>8 DEF TurnRedirected
<1>9. CASE LoadFinishes
  BY <1>9 DEF LoadFinishes
<1>10. CASE LoadFails
  BY <1>10 DEF LoadFails
<1>11. CASE SurfaceMarked
  BY <1>11 DEF SurfaceMarked
<1>12. CASE UserNavigates
  BY <1>12 DEF UserNavigates
<1>13. CASE SessionChanges
  BY <1>13 DEF SessionChanges
<1>14. CASE PopupOpens
  BY <1>14 DEF PopupOpens
<1>15. CASE PopupLoads
  BY <1>15 DEF PopupLoads
<1>16. CASE PopupFails
  BY <1>16 DEF PopupFails
<1>17. CASE PopupCloses
  BY <1>17 DEF PopupCloses
<1>18. CASE BackendAnswers
  BY <1>18 DEF BackendAnswers
<1>19. CASE BackendChallenged
  BY <1>19 DEF BackendChallenged
<1>20. CASE RecoveryReloads
  BY <1>20 DEF RecoveryReloads
<1>21. CASE RecoverySettles
  BY <1>21 DEF RecoverySettles
<1>22. CASE RecoveryProbes
  BY <1>22 DEF RecoveryProbes
<1>23. CASE RecoveryEnds
  BY <1>23 DEF RecoveryEnds
<1> QED
  BY Zenon, <1>1, <1>2, <1>3, <1>4, <1>5, <1>6, <1>7, <1>8, <1>9, <1>10, <1>11, <1>12, <1>13,
     <1>14, <1>15, <1>16, <1>17, <1>18, <1>19, <1>20, <1>21, <1>22, <1>23
     DEF PageStep, SessionStep

LEMMA BeginsOperation ==
  ASSUME OperationIInv, NEW name \in Operations, Begin(name)
  PROVE  OperationIInv' /\ LeavesNoImport
<1>1. CASE UNCHANGED manualOperation
  BY <1>1, OperationStays DEF Begin
<1>2. CASE /\ ~Occupied
           /\ manualOperation' = [NoManualOperation EXCEPT !.name = name, !.pc = BeginsAt(name)]
  <2> DEFINE s == BeginsAt(name)
             o == [NoManualOperation EXCEPT !.name = name, !.pc = s]
  <2>1. /\ s \in OperationSteps /\ s # "cookies"
        /\ name = "passkey" => s = "transfer"
    BY DEF BeginsAt, LoadsFirst, Operations, SignInOperations, SignIns, HelperWork, OperationSteps
  <2> HIDE DEF s
  <2>2. /\ o \in OperationRecords /\ o.name = name /\ o.pc = s
        /\ ~o.mutated /\ ~o.discards /\ ~o.discarded
    BY <2>1 DEF OperationRecords, NoManualOperation
  <2>3. manualOperation' = o /\ imported' = imported
    BY <1>2 DEF Begin, s
  <2>4. manualOperation.name = "none"
    BY <1>2 DEF Occupied
  <2> HIDE DEF o
  <2> QED
    BY <2>1, <2>2, <2>3, <2>4 DEF OperationIInv, LeavesNoImport
<1> QED
  BY <1>1, <1>2 DEF Begin

LEMMA ModeOperation ==
  ASSUME OperationIInv, interactionMode \in {"automatic", "manual"},
         NEW mode, ChangeMode(mode) \/ ModeChanged
  PROVE  OperationIInv' /\ LeavesNoImport
<1>1. CASE ChangeMode(mode)
  <2> DEFINE o == [NoManualOperation EXCEPT !.name = "mode", !.pc = "setup",
                                            !.was = interactionMode]
  <2>1. /\ o \in OperationRecords /\ o.name = "mode" /\ o.pc = "setup"
    BY DEF OperationRecords, NoManualOperation, OperationSteps
  <2>2. manualOperation' = o /\ imported' = imported /\ manualOperation.name = "none"
    BY <1>1 DEF ChangeMode, Occupied
  <2> HIDE DEF o
  <2> QED
    BY <2>1, <2>2 DEF OperationIInv, LeavesNoImport
<1>2. CASE ModeChanged
  <2>1. /\ manualOperation' = NoManualOperation /\ imported' = imported
        /\ manualOperation.pc = "setup"
    BY <1>2 DEF ModeChanged, AtStep
  <2> QED
    BY <2>1, IdleOperation DEF OperationIInv, LeavesNoImport
<1> QED
  BY <1>1, <1>2

LEMMA LoadedOperation ==
  ASSUME OperationIInv, Loaded
  PROVE  OperationIInv' /\ LeavesNoImport
<1>1. manualOperation.pc = "load" /\ imported' = imported /\ imported' \in BOOLEAN
  BY DEF Loaded, AtStep, OperationIInv
<1>2. CASE manualOperation' = AfterFailure
  BY <1>1, <1>2, FailingStep
<1>3. CASE manualOperation' = Pc("probe")
           /\ (manualOperation.name = "passkey" => manualOperation.discards)
  BY <1>1, <1>3, GoingStep DEF OperationIInv, OperationSteps
<1>4. CASE manualOperation' = Pc("wait")
  BY <1>1, <1>4, GoingStep DEF OperationIInv, OperationSteps
<1> QED
  BY <1>2, <1>3, <1>4 DEF Loaded, Becomes

LEMMA PollsOperation ==
  ASSUME OperationIInv, Polls
  PROVE  OperationIInv' /\ LeavesNoImport
<1>1. imported' = imported /\ imported' \in BOOLEAN
  BY DEF Polls, OperationIInv
<1>2. CASE manualOperation.pc = "wait"
  <2>1. manualOperation' = Pc("waits")
    BY <1>2 DEF Polls, Pc
  <2> QED
    BY <1>1, <1>2, <2>1, GoingStep DEF OperationIInv, OperationSteps
<1>3. CASE manualOperation.pc = "probe"
  <2>1. manualOperation' = Pc("probes")
    BY <1>3 DEF Polls, Pc
  <2> QED
    BY <1>1, <1>3, <2>1, GoingStep DEF OperationIInv, OperationSteps
<1> QED
  BY <1>2, <1>3 DEF Polls, AtStep

LEMMA WaitFailsOperation ==
  ASSUME OperationIInv, WaitFails
  PROVE  OperationIInv' /\ LeavesNoImport
<1>1. /\ manualOperation.pc = "wait" /\ manualOperation' = AfterFailure
      /\ imported' = imported /\ imported' \in BOOLEAN
  BY DEF WaitFails, AtStep, Becomes, OperationIInv
<1> QED
  BY <1>1, FailingStep

LEMMA DiscardedOperation ==
  ASSUME OperationIInv, manualOperation' = Discarded, imported' = imported,
         manualOperation.pc = "probes", manualOperation.name = "passkey"
  PROVE  OperationIInv' /\ LeavesNoImport
<1>1. ~imported' /\ imported' \in BOOLEAN
  BY DEF OperationIInv
<1>2. CASE manualOperation.cleaned
  BY <1>1, <1>2, EndingStep DEF Discarded
<1>3. CASE ~manualOperation.cleaned
  <2> DEFINE o == [manualOperation EXCEPT !.discarded = TRUE, !.pc = "cleanup"]
  <2>1. /\ o \in OperationRecords /\ o.pc = "cleanup" /\ o.name = manualOperation.name
    BY DEF OperationIInv, OperationRecords, OperationSteps
  <2>2. manualOperation' = o
    BY <1>3 DEF Discarded
  <2> HIDE DEF o
  <2> QED
    BY <1>1, <2>1, <2>2 DEF OperationIInv, LeavesNoImport
<1> QED
  BY <1>2, <1>3

LEMMA ResumesOperation ==
  ASSUME OperationIInv, Resumes
  PROVE  OperationIInv' /\ LeavesNoImport
<1>1. /\ imported' = imported /\ imported' \in BOOLEAN
      /\ manualOperation.pc \in {"waits", "probes"}
  BY DEF Resumes, Resuming, OperationIInv
<1>2. CASE manualOperation' = AfterFailure
  BY <1>1, <1>2, FailingStep
<1>3. CASE \E s \in {"helper", "wait"} : manualOperation' = Pc(s)
  BY <1>1, <1>3, GoingStep DEF OperationIInv, OperationSteps
<1>4. CASE manualOperation' = NoManualOperation /\ manualOperation.name # "passkey"
  BY <1>1, <1>4, EndingStep
<1>5. CASE /\ manualOperation' = Discarded /\ manualOperation.name = "passkey"
           /\ manualOperation.pc = "probes"
  BY <1>1, <1>5, DiscardedOperation
<1> QED
  BY <1>1, <1>2, <1>3, <1>4, <1>5 DEF Resumes, Becomes, AtStep

LEMMA HelperOperation ==
  ASSUME OperationIInv, HelperReturns
  PROVE  OperationIInv' /\ LeavesNoImport
<1>1. manualOperation.pc = "helper" /\ imported' = imported /\ imported' \in BOOLEAN
  BY DEF HelperReturns, AtStep, OperationIInv
<1>2. CASE manualOperation' = AfterFailure
  BY <1>1, <1>2, FailingStep
<1>3. CASE manualOperation' = Pc("cleanup")
  BY <1>1, <1>3, GoingStep DEF OperationIInv, OperationSteps
<1>4. CASE manualOperation' = NoManualOperation /\ manualOperation.name # "passkey"
  BY <1>1, <1>4, EndingStep
<1> QED
  BY <1>2, <1>3, <1>4 DEF HelperReturns, Becomes

LEMMA TransferOperation ==
  ASSUME OperationIInv, Transferred
  PROVE  OperationIInv' /\ LeavesNoImport
<1> DEFINE idled == [manualOperation EXCEPT !.pc = "idling", !.mutated = TRUE]
<1>1. /\ manualOperation.pc \in {"transfer", "discard"}
      /\ imported' = imported /\ imported' \in BOOLEAN
  BY DEF Transferred, AtStep, OperationIInv
<1>2. /\ idled \in OperationRecords /\ idled.pc = "idling"
      /\ idled.name = manualOperation.name /\ idled.discarded = manualOperation.discarded
  BY DEF OperationIInv, OperationRecords, OperationSteps
<1>3. /\ RejectedTransfer \in OperationRecords /\ RejectedTransfer.pc = "cleanup"
      /\ RejectedTransfer.name = manualOperation.name
      /\ RejectedTransfer.discarded = manualOperation.discarded
  BY DEF OperationIInv, OperationRecords, OperationSteps, RejectedTransfer
<1>4. \/ manualOperation' = idled
      \/ manualOperation' = RejectedTransfer
      \/ manualOperation' = AfterFailure
  BY DEF Transferred, Becomes
<1> HIDE DEF idled
<1>5. CASE manualOperation' = idled
  BY <1>1, <1>2, <1>5 DEF OperationIInv, LeavesNoImport
<1>6. CASE manualOperation' = RejectedTransfer
  BY <1>1, <1>3, <1>6 DEF OperationIInv, LeavesNoImport
<1>7. CASE manualOperation' = AfterFailure
  BY <1>1, <1>7, FailingStep
<1> QED
  BY <1>4, <1>5, <1>6, <1>7

LEMMA IdledOperation ==
  ASSUME OperationIInv, Idled
  PROVE  OperationIInv' /\ LeavesNoImport
<1>1. manualOperation.pc = "idling" /\ imported' = imported /\ imported' \in BOOLEAN
  BY DEF Idled, AtStep, OperationIInv
<1>2. CASE manualOperation' = AfterFailure
  BY <1>1, <1>2, FailingStep
<1>3. CASE manualOperation' = Pc("clear")
  BY <1>1, <1>3, GoingStep DEF OperationIInv, OperationSteps
<1> QED
  BY <1>2, <1>3 DEF Idled, Becomes

LEMMA ClearsOperation ==
  ASSUME OperationIInv, Clears
  PROVE  OperationIInv' /\ LeavesNoImport
<1>1. manualOperation.pc = "clear" /\ imported' \in BOOLEAN
  BY DEF Clears, AtStep, OperationIInv
<1>2. CASE manualOperation' = AfterFailure
  BY <1>1, <1>2, FailingStep
<1>3. CASE /\ manualOperation' = Pc("cookies") /\ ~imported'
           /\ manualOperation.name = "passkey" /\ ~manualOperation.discards
  BY <1>1, <1>3, GoingStep DEF OperationIInv, OperationSteps
<1>4. CASE manualOperation' = Pc("load") /\ ~imported'
  BY <1>1, <1>4, GoingStep DEF OperationIInv, OperationSteps
<1> QED
  BY <1>2, <1>3, <1>4 DEF Clears, Becomes

LEMMA SetsCookiesOperation ==
  ASSUME OperationIInv, SetsCookies
  PROVE  OperationIInv' /\ LeavesNoImport
<1>1. /\ manualOperation.pc = "cookies" /\ imported' \in BOOLEAN
      /\ manualOperation.name = "passkey" /\ ~manualOperation.discards
  BY DEF SetsCookies, AtStep, OperationIInv
<1>2. CASE manualOperation' = AfterFailure
  BY <1>1, <1>2, FailingStep
<1>3. CASE manualOperation' = Pc("load")
  BY <1>1, <1>3, GoingStep DEF OperationIInv, OperationSteps
<1> QED
  BY <1>2, <1>3 DEF SetsCookies, Becomes

\* After its cleanup a failed import that has touched the session has discarded it, or
\* discards it once more.
LEMMA CleansUpOperation ==
  ASSUME OperationIInv, CleansUp
  PROVE  OperationIInv' /\ LeavesNoImport
<1> DEFINE o == [manualOperation EXCEPT !.pc = "discard", !.discards = TRUE,
                                        !.failed = TRUE, !.cleaned = TRUE]
<1>1. PICK failed \in {manualOperation.failed, TRUE} :
        /\ manualOperation' = (IF DiscardsAgain(failed) THEN o ELSE NoManualOperation)
        /\ imported' = (imported /\ failed)
  BY DEF CleansUp, Becomes
<1>2. /\ o \in OperationRecords /\ o.pc = "discard" /\ o.name = manualOperation.name
      /\ o.discarded = manualOperation.discarded
  BY DEF OperationIInv, OperationRecords, OperationSteps
<1>3. failed \in BOOLEAN /\ imported' \in BOOLEAN
  BY <1>1 DEF OperationIInv, OperationRecords
<1> HIDE DEF o
<1>4. CASE DiscardsAgain(failed)
  BY <1>1, <1>2, <1>3, <1>4 DEF OperationIInv, LeavesNoImport, DiscardsAgain
<1>5. CASE ~DiscardsAgain(failed)
  <2>1. manualOperation' = NoManualOperation
    BY <1>1, <1>5
  <2>2. imported' /\ manualOperation.name = "passkey" => ~manualOperation.mutated
    BY <1>1, <1>3, <1>5 DEF DiscardsAgain, OperationIInv
  <2> QED
    BY <1>3, <2>1, <2>2, IdleOperation DEF OperationIInv, LeavesNoImport
<1> QED
  BY <1>4, <1>5

LEMMA OperationNext ==
  ASSUME OperationIInv, interactionMode \in {"automatic", "manual"}, HomeNext
  PROVE  OperationIInv' /\ LeavesNoImport
<1>1. CASE Resumes
  BY <1>1, ResumesOperation
<1>2. CASE PageStep \/ SessionStep
  BY <1>2, OtherStepsKeepOperation, OperationStays
<1>3. CASE OperationStep
  <2>1. CASE \E name \in Operations : Ask(name)
    BY <2>1, OperationStays DEF Ask
  <2>2. CASE \E name \in Operations : Begin(name)
    BY <2>2, BeginsOperation
  <2>3. CASE (\E mode \in {"automatic", "manual"} : ChangeMode(mode)) \/ ModeChanged
    BY <2>3, ModeOperation
  <2>4. CASE Loaded
    BY <2>4, LoadedOperation
  <2>5. CASE Polls
    BY <2>5, PollsOperation
  <2>6. CASE WaitFails
    BY <2>6, WaitFailsOperation
  <2>7. CASE HelperReturns
    BY <2>7, HelperOperation
  <2>8. CASE Transferred
    BY <2>8, TransferOperation
  <2>9. CASE Idled
    BY <2>9, IdledOperation
  <2>10. CASE Clears
    BY <2>10, ClearsOperation
  <2>11. CASE SetsCookies
    BY <2>11, SetsCookiesOperation
  <2>12. CASE CleansUp
    BY <2>12, CleansUpOperation
  <2> QED
    BY Zenon, <1>3, <2>1, <2>2, <2>3, <2>4, <2>5, <2>6, <2>7, <2>8, <2>9, <2>10, <2>11, <2>12
       DEF OperationStep
<1> QED
  BY Zenon, <1>1, <1>2, <1>3 DEF HomeNext

-----------------------------------------------------------------------------
(* What the launcher says of the session.                                   *)

CookieEvents == {"set", "removed"}
ReadAnswers == {"in", "out"}
ProbeRecords ==
  [pc : {"none", "page", "seen", "popup", "popup in", "popup out", "moving"},
   read : ReadAnswers \cup {"none"}, moved : BOOLEAN, outdated : BOOLEAN, failed : BOOLEAN]
RefreshRecords ==
  [pc : {"none", "reading", "answered"}, read : ReadAnswers \cup {"none"}, outdated : BOOLEAN]

\* A removal has not been heard yet.
Told == \E i \in DOMAIN cookieChanges : cookieChanges[i] = "removed"
\* A read or a probe under way that will not call a signed-out session signed in.
Rereads == \/ authenticationRefresh.pc = "reading"
           \/ /\ authenticationRefresh.pc = "answered"
              /\ authenticationRefresh.read = "out" \/ authenticationRefresh.outdated
Reprobes == /\ ~authenticationProbe.outdated
            /\ \/ authenticationProbe.pc = "page"
               \/ /\ authenticationProbe.pc \in {"seen", "popup", "popup out"}
                  /\ authenticationProbe.read = "out"
\* An answer that will be published and calls the session signed in.
OldRead == /\ authenticationRefresh.pc = "answered"
           /\ authenticationRefresh.read = "in"
           /\ ~authenticationRefresh.outdated
OldProbe == /\ authenticationProbe.pc \in {"seen", "popup", "popup in", "popup out"}
            /\ authenticationProbe.read = "in"
            /\ ~authenticationProbe.outdated
\* A session that is signed out, read since it was last spoken of, and whose removal has
\* been heard: no old answer is on its way, and a claim that it is signed in is being read.
SessionIInv ==
  /\ cookies \in ReadAnswers
  /\ cookieChanges \in Seq(CookieEvents)
  /\ authenticationProbe \in ProbeRecords
  /\ authenticationRefresh \in RefreshRecords
  /\ authenticated \in BOOLEAN
  /\ unread \in BOOLEAN
  /\ cookies = "out" /\ ~unread /\ ~Told =>
       /\ ~OldRead
       /\ ~OldProbe
       /\ authenticated => Rereads \/ Reprobes

LEMMA ProbeSteps ==
  ASSUME NEW p \in ProbeRecords,
         NEW s \in {"page", "seen", "popup", "popup in", "popup out", "moving"}
  PROVE  LET n == [p EXCEPT !.pc = s]
         IN  n \in ProbeRecords /\ n.pc = s /\ n.read = p.read /\ n.outdated = p.outdated
  BY DEF ProbeRecords

LEMMA ProbeSeen ==
  ASSUME NEW p \in ProbeRecords, NEW r \in ReadAnswers
  PROVE  LET n == [p EXCEPT !.pc = "seen", !.read = r]
         IN  n \in ProbeRecords /\ n.pc = "seen" /\ n.read = r /\ n.outdated = p.outdated
  BY DEF ProbeRecords, ReadAnswers

LEMMA ProbeMoves ==
  ASSUME NEW p \in ProbeRecords
  PROVE  LET n == [p EXCEPT !.pc = "moving", !.moved = TRUE]
         IN  n \in ProbeRecords /\ n.pc = "moving"
  BY DEF ProbeRecords

LEMMA IdleReads ==
  /\ NoProbe \in ProbeRecords /\ NoProbe.pc = "none" /\ NoProbe.outdated = FALSE
  /\ [NoProbe EXCEPT !.failed = TRUE] \in ProbeRecords
  /\ [NoProbe EXCEPT !.failed = TRUE].pc = "none"
  /\ [NoProbe EXCEPT !.pc = "page"] \in ProbeRecords
  /\ [NoProbe EXCEPT !.pc = "page"].pc = "page"
  /\ [NoProbe EXCEPT !.pc = "page"].outdated = FALSE
  /\ NoRefresh \in RefreshRecords /\ NoRefresh.pc = "none"
  /\ [NoRefresh EXCEPT !.pc = "reading"] \in RefreshRecords
  /\ [NoRefresh EXCEPT !.pc = "reading"].pc = "reading"
  BY DEF NoProbe, NoRefresh, ProbeRecords, RefreshRecords, ReadAnswers

LEMMA OutdatedReads ==
  /\ \A p \in ProbeRecords :
       /\ Outdated(p) \in ProbeRecords
       /\ Outdated(p).pc = p.pc
       /\ p.pc # "none" => Outdated(p).outdated = TRUE
  /\ \A r \in RefreshRecords :
       /\ Outdated(r) \in RefreshRecords
       /\ Outdated(r).pc = r.pc
       /\ r.pc # "none" => Outdated(r).outdated = TRUE
  BY DEF Outdated, ProbeRecords, RefreshRecords

LEMMA RefreshUpdates ==
  ASSUME NEW r \in RefreshRecords, NEW a \in ReadAnswers
  PROVE  LET n == [r EXCEPT !.pc = "answered", !.read = a]
         IN  n \in RefreshRecords /\ n.pc = "answered" /\ n.read = a
  BY DEF RefreshRecords, ReadAnswers

\* Steps that neither read the session nor change it, and may stop calling it signed in.
Quiet ==
  /\ UNCHANGED <<cookies, cookieChanges, authenticationProbe, authenticationRefresh, unread>>
  /\ authenticated' \in BOOLEAN
  /\ authenticated' => authenticated

LEMMA QuietSession ==
  ASSUME SessionIInv, Quiet
  PROVE  SessionIInv'
  BY DEF SessionIInv, Quiet, Told, Rereads, Reprobes, OldRead, OldProbe

SessionStays == UNCHANGED <<cookies, cookieChanges, authenticationProbe, authenticationRefresh,
                           unread, authenticated>>

LEMMA StaysSession ==
  ASSUME SessionIInv, SessionStays
  PROVE  SessionIInv'
  BY QuietSession DEF SessionIInv, SessionStays, Quiet

\* A change of the session is an event that is not heard yet.
LEMMA ChangedSession ==
  ASSUME SessionIInv, NEW v \in ReadAnswers, Changed(v),
         UNCHANGED <<authenticationProbe, authenticationRefresh, unread>>,
         authenticated' \in BOOLEAN, authenticated' => authenticated
  PROVE  SessionIInv'
<1>1. CASE cookies = v
  BY <1>1, QuietSession DEF Changed, Quiet
<1>2. CASE cookies # v
  <2> DEFINE e == IF v = "in" THEN "set" ELSE "removed"
  <2>1. cookieChanges' = Append(cookieChanges, e) /\ cookies' = v
    BY <1>2 DEF Changed
  <2>2. e \in CookieEvents /\ (v = "out" => e = "removed")
    BY DEF CookieEvents, ReadAnswers
  <2> HIDE DEF e
  <2>3. cookieChanges' \in Seq(CookieEvents)
    BY <2>1, <2>2 DEF SessionIInv
  <2>4. v = "out" => Told'
    <3> SUFFICES ASSUME v = "out"
                 PROVE  Told'
      OBVIOUS
    <3>1. Len(cookieChanges) + 1 \in DOMAIN cookieChanges'
      BY <2>1, <2>2 DEF SessionIInv
    <3>2. cookieChanges'[Len(cookieChanges) + 1] = "removed"
      BY <2>1, <2>2 DEF SessionIInv
    <3> QED
      BY <3>1, <3>2 DEF Told
  <2> QED
    BY <2>1, <2>3, <2>4 DEF SessionIInv
<1> QED
  BY <1>1, <1>2

\* A call of the probe: whatever it finds, a claim it does not read is read already.
LEMMA CallProbeSession ==
  ASSUME SessionIInv, CallProbe,
         UNCHANGED <<cookies, cookieChanges, authenticationRefresh>>
  PROVE  SessionIInv'
<1>1. /\ authenticationProbe' \in ProbeRecords
      /\ authenticated' \in BOOLEAN /\ unread' \in BOOLEAN
  BY IdleReads DEF CallProbe, SessionIInv
<1>2. Told' = Told /\ OldRead' = OldRead /\ Rereads' = Rereads
  BY DEF Told, OldRead, Rereads
<1>3. CASE ~Probes
  <2>1. authenticated' = authenticated /\ unread' = unread
    BY <1>3 DEF CallProbe
  <2>2. CASE authenticationProbe.pc = "none"
    BY <1>1, <1>2, <1>3, <2>1, <2>2, IdleReads DEF CallProbe, SessionIInv, OldProbe, Reprobes
  <2>3. CASE authenticationProbe.pc # "none"
    <3>1. authenticationProbe' = authenticationProbe
      BY <1>3, <2>3 DEF CallProbe
    <3> QED
      BY <2>1, <3>1, StaysSession DEF SessionStays
  <2> QED
    BY <2>2, <2>3
<1>4. CASE Probes
  <2>1. authenticationProbe.pc = "none"
    BY <1>4 DEF Probes
  <2>2. ~OldProbe' /\ ~Reprobes /\ ~OldProbe
    BY <1>4, <2>1, IdleReads DEF CallProbe, OldProbe, Reprobes
  <2>3. homePage \notin {"idle", "elsewhere"} => Reprobes'
    BY <1>4, IdleReads DEF CallProbe, Reprobes
  <2>4. authenticated' <=> authenticated /\ homePage # "elsewhere"
    BY <1>4 DEF CallProbe
  <2>5. unread' <=> unread /\ (homePage = "idle" \/ authenticationRefresh.pc # "none")
    BY <1>4 DEF CallProbe
  <2>6. SUFFICES ASSUME cookies = "out", ~unread', ~Told
                 PROVE  ~OldRead /\ (authenticated' => Rereads \/ Reprobes')
    BY <1>1, <1>2, <2>2 DEF SessionIInv
  <2>7. CASE unread
    <3>1. homePage # "idle" /\ authenticationRefresh.pc = "none"
      BY <2>5, <2>6, <2>7
    <3> QED
      BY <2>3, <2>4, <3>1 DEF OldRead
  <2>8. CASE ~unread
    BY <2>2, <2>4, <2>6, <2>8 DEF SessionIInv
  <2> QED
    BY <2>7, <2>8
<1> QED
  BY <1>3, <1>4

\* A cookie event: what runs is outdated, or a read begins; an event that is not heard is
\* written down.
LEMMA CookieChangedSession ==
  ASSUME SessionIInv, CookieChanged
  PROVE  SessionIInv'
<1> DEFINE ignored == Head(cookieChanges) = "set" /\ authenticationRefresh.pc # "none"
           deaf == reauthenticationRequired \/ interactionMode # "automatic"
<1>1. /\ cookieChanges # <<>> /\ cookieChanges' = Tail(cookieChanges) /\ cookies' = cookies
      /\ authenticated' = authenticated
  BY DEF CookieChanged
<1>2. cookieChanges' \in Seq(CookieEvents)
  BY <1>1 DEF SessionIInv
<1>3. Head(cookieChanges) # "removed" /\ Told => Told'
  <2> SUFFICES ASSUME Head(cookieChanges) # "removed", Told
               PROVE  Told'
    OBVIOUS
  <2>1. PICK i \in DOMAIN cookieChanges : cookieChanges[i] = "removed"
    BY DEF Told
  <2>2. i \in 2..Len(cookieChanges)
    BY <1>1, <2>1 DEF SessionIInv
  <2>3. i - 1 \in DOMAIN cookieChanges' /\ cookieChanges'[i - 1] = "removed"
    BY <1>1, <2>1, <2>2 DEF SessionIInv
  <2> QED
    BY <2>3 DEF Told
<1>4. CASE deaf
  <2>1. UNCHANGED <<authenticationProbe, authenticationRefresh>> /\ unread' = TRUE
    BY Zenon, <1>4 DEF CookieChanged
  <2> QED
    BY <1>1, <1>2, <2>1 DEF SessionIInv
<1>5. CASE ~deaf /\ ignored
  <2>1. UNCHANGED <<authenticationProbe, authenticationRefresh>> /\ unread' = (unread \/ deaf)
    BY Zenon, <1>5 DEF CookieChanged
  <2>2. unread' = unread
    BY <1>5, <2>1 DEF SessionIInv
  <2>3. Head(cookieChanges) # "removed"
    BY <1>5
  <2> QED
    BY <1>1, <1>2, <1>3, <2>1, <2>2, <2>3
       DEF SessionIInv, Rereads, Reprobes, OldRead, OldProbe
<1>6. CASE ~deaf /\ ~ignored
  <2>1. /\ authenticationProbe' = Outdated(authenticationProbe)
        /\ authenticationRefresh' = IF authenticationRefresh.pc = "none"
                                    THEN [NoRefresh EXCEPT !.pc = "reading"]
                                    ELSE Outdated(authenticationRefresh)
        /\ unread' \in BOOLEAN
    BY Zenon, <1>6 DEF CookieChanged
  <2>2. authenticationProbe' \in ProbeRecords /\ ~OldProbe'
    BY <2>1, OutdatedReads DEF SessionIInv, OldProbe
  <2>3. authenticationRefresh' \in RefreshRecords /\ ~OldRead' /\ Rereads'
    <3>1. CASE authenticationRefresh.pc = "none"
      BY <2>1, <3>1, IdleReads DEF OldRead, Rereads
    <3>2. CASE authenticationRefresh.pc # "none"
      <4>1. /\ authenticationRefresh' \in RefreshRecords
            /\ authenticationRefresh'.pc = authenticationRefresh.pc
            /\ authenticationRefresh'.outdated = TRUE
        BY <2>1, <3>2, OutdatedReads DEF SessionIInv
      <4>2. authenticationRefresh.pc \in {"reading", "answered"}
        BY <3>2 DEF SessionIInv, RefreshRecords
      <4> QED
        BY <4>1, <4>2 DEF OldRead, Rereads
    <3> QED
      BY <3>1, <3>2
  <2> QED
    BY <1>1, <1>2, <2>1, <2>2, <2>3 DEF SessionIInv
<1> QED
  BY <1>4, <1>5, <1>6

LEMMA RefreshAnsweredSession ==
  ASSUME SessionIInv, RefreshAnswered
  PROVE  SessionIInv'
<1>1. PICK answer \in ReadAnswers :
        /\ answer \in {cookies, "out"}
        /\ authenticationRefresh' =
             [authenticationRefresh EXCEPT !.pc = "answered", !.read = answer]
  BY DEF RefreshAnswered, MayAnswer, ReadAnswers
<1>2. /\ authenticationRefresh' \in RefreshRecords
      /\ authenticationRefresh'.pc = "answered" /\ authenticationRefresh'.read = answer
  BY <1>1, RefreshUpdates DEF SessionIInv
<1>3. UNCHANGED <<cookies, cookieChanges, authenticationProbe, authenticated, unread>>
  BY DEF RefreshAnswered
<1> QED
  BY <1>1, <1>2, <1>3
     DEF SessionIInv, Told, Rereads, Reprobes, OldRead, OldProbe

\* A read is published: one that is old is read again.
LEMMA RefreshPublishesSession ==
  ASSUME SessionIInv, RefreshPublishes
  PROVE  SessionIInv'
<1> DEFINE silent == reauthenticationRequired \/ interactionMode # "automatic"
           again == interactionMode = "automatic" /\ authenticationRefresh.outdated
<1>1. /\ authenticationRefresh' =
           IF again THEN [NoRefresh EXCEPT !.pc = "reading"] ELSE NoRefresh
      /\ authenticated' = IF again \/ silent THEN authenticated
                          ELSE authenticationRefresh.read = "in"
      /\ unread' = (unread \/ (silent /\ ~again))
      /\ authenticationRefresh.pc = "answered"
  BY Zenon DEF RefreshPublishes
<1>2. UNCHANGED <<cookies, cookieChanges, authenticationProbe>>
  BY DEF RefreshPublishes
<1>3. Told' = Told /\ OldProbe' = OldProbe /\ Reprobes' = Reprobes
  BY <1>2 DEF Told, OldProbe, Reprobes
<1>4. CASE again
  <2>1. /\ authenticationRefresh' \in RefreshRecords /\ ~OldRead' /\ Rereads'
    BY <1>1, <1>4, IdleReads DEF OldRead, Rereads
  <2>2. authenticated' = authenticated
    BY <1>1, <1>4
  <2>3. unread' = unread
    BY <1>1, <1>4 DEF SessionIInv
  <2> QED
    BY <1>2, <1>3, <2>1, <2>2, <2>3 DEF SessionIInv
<1>5. CASE ~again
  <2>1. /\ authenticationRefresh' \in RefreshRecords /\ ~OldRead'
    BY <1>1, <1>5, IdleReads DEF OldRead
  <2>2. CASE silent
    <3>1. authenticated' = authenticated
      BY <1>1, <2>2
    <3>2. unread' = TRUE
      BY Zenon, <1>1, <1>5, <2>2
    <3> QED
      BY <1>2, <2>1, <3>1, <3>2 DEF SessionIInv
  <2>3. CASE ~silent
    <3>1. authenticated' = (authenticationRefresh.read = "in")
      BY <1>1, <1>5, <2>3
    <3>2. unread' = unread
      BY <1>1, <2>3 DEF SessionIInv
    <3>3. ~authenticationRefresh.outdated
      BY <1>5, <2>3
    <3>4. cookies = "out" /\ ~unread /\ ~Told => ~authenticated'
      BY <1>1, <3>1, <3>3 DEF SessionIInv, OldRead
    <3> QED
      BY <1>2, <1>3, <2>1, <3>1, <3>2, <3>4 DEF SessionIInv
  <2> QED
    BY <2>2, <2>3
<1> QED
  BY <1>4, <1>5

LEMMA ProbeAnsweredSession ==
  ASSUME SessionIInv, ProbeAnswered
  PROVE  SessionIInv'
<1>1. /\ UNCHANGED <<cookies, cookieChanges, authenticationRefresh, authenticated, unread>>
      /\ authenticationProbe \in ProbeRecords
  BY DEF ProbeAnswered, SessionIInv
<1>2. Told' = Told /\ OldRead' = OldRead /\ Rereads' = Rereads
  BY <1>1 DEF Told, OldRead, Rereads
<1>3. ASSUME NEW answer \in ReadAnswers, answer \in {cookies, "out"},
             authenticationProbe.pc = "page",
             authenticationProbe' = [authenticationProbe EXCEPT !.pc = "seen", !.read = answer]
      PROVE  SessionIInv'
  <2>1. /\ authenticationProbe' \in ProbeRecords /\ authenticationProbe'.pc = "seen"
        /\ authenticationProbe'.read = answer
        /\ authenticationProbe'.outdated = authenticationProbe.outdated
    BY <1>1, <1>3, ProbeSeen
  <2> QED
    BY <1>1, <1>2, <1>3, <2>1 DEF SessionIInv, OldProbe, Reprobes
<1>4. ASSUME NEW answer \in ReadAnswers, answer \in {cookies, "out"},
             authenticationProbe.pc = "popup",
             authenticationProbe' =
               [authenticationProbe EXCEPT !.pc = IF authView = "home" /\ answer = "in"
                                                  THEN "popup in" ELSE "popup out"]
      PROVE  SessionIInv'
  <2>1. PICK s \in {"popup in", "popup out"} :
          /\ authenticationProbe' = [authenticationProbe EXCEPT !.pc = s]
          /\ cookies = "out" => s = "popup out"
    BY <1>4
  <2>2. /\ authenticationProbe' \in ProbeRecords /\ authenticationProbe'.pc = s
        /\ authenticationProbe'.read = authenticationProbe.read
        /\ authenticationProbe'.outdated = authenticationProbe.outdated
    <3>1. s \in {"page", "seen", "popup", "popup in", "popup out", "moving"}
      OBVIOUS
    <3> QED
      BY <1>1, <2>1, <3>1, ProbeSteps
  <2> QED
    BY <1>1, <1>2, <1>4, <2>1, <2>2 DEF SessionIInv, OldProbe, Reprobes
<1> QED
  BY <1>3, <1>4 DEF ProbeAnswered, MayAnswer, ReadAnswers

\* What the probe publishes of a session that changed meanwhile is nothing.
LEMMA ProbeContinuesSession ==
  ASSUME SessionIInv, ProbeContinues
  PROVE  SessionIInv'
<1>1. /\ UNCHANGED <<cookies, cookieChanges, authenticationRefresh, unread>>
      /\ authenticationProbe \in ProbeRecords
      /\ authenticationProbe.pc \in {"seen", "popup in", "popup out"}
  BY DEF ProbeContinues, SessionIInv
<1>2. Told' = Told /\ OldRead' = OldRead /\ Rereads' = Rereads
  BY <1>1 DEF Told, OldRead, Rereads
<1>3. CASE /\ AsksPopup /\ authenticated' = authenticated
           /\ authenticationProbe' = [authenticationProbe EXCEPT !.pc = "popup"]
  <2>1. authenticationProbe.pc = "seen"
    BY <1>3 DEF AsksPopup
  <2>2. /\ authenticationProbe' \in ProbeRecords /\ authenticationProbe'.pc = "popup"
        /\ authenticationProbe'.read = authenticationProbe.read
        /\ authenticationProbe'.outdated = authenticationProbe.outdated
    BY <1>1, <1>3, ProbeSteps
  <2> QED
    BY <1>1, <1>2, <1>3, <2>1, <2>2 DEF SessionIInv, OldProbe, Reprobes
<1>4. CASE /\ MovesHome /\ authenticated' = authenticated
           /\ authenticationProbe' = [authenticationProbe EXCEPT !.pc = "moving", !.moved = TRUE]
  <2>1. authenticationProbe' \in ProbeRecords /\ authenticationProbe'.pc = "moving"
    BY <1>1, <1>4, ProbeMoves
  <2>2. ~Reprobes
    BY <1>1, <1>4 DEF MovesHome, Reprobes
  <2> QED
    BY <1>1, <1>2, <1>4, <2>1, <2>2 DEF SessionIInv, OldProbe
<1>5. CASE authenticationProbe' = NoProbe /\ Publish
  <2>1. authenticationProbe' \in ProbeRecords /\ ~OldProbe'
    BY <1>5, IdleReads DEF OldProbe
  <2>2. CASE authenticationProbe.outdated
    <3>1. authenticated' = authenticated
      BY <1>5, <2>2 DEF Publish
    <3>2. ~Reprobes
      BY <2>2 DEF Reprobes
    <3> QED
      BY <1>1, <1>2, <2>1, <3>1, <3>2 DEF SessionIInv
  <2>3. CASE ~authenticationProbe.outdated
    <3>1. authenticated' \in BOOLEAN /\ (authenticated' => authenticationProbe.read = "in")
      BY <1>5, <2>3 DEF Publish
    <3> QED
      BY <1>1, <1>2, <2>1, <2>3, <3>1 DEF SessionIInv, OldProbe
  <2> QED
    BY <2>2, <2>3
<1> QED
  BY Zenon, <1>3, <1>4, <1>5 DEF ProbeContinues

LEMMA ProbeMovedSession ==
  ASSUME SessionIInv, ProbeMoved
  PROVE  SessionIInv'
<1>1. /\ UNCHANGED <<cookies, cookieChanges, authenticationRefresh, unread, authenticated>>
      /\ authenticationProbe \in ProbeRecords /\ authenticationProbe.pc = "moving"
  BY DEF ProbeMoved, SessionIInv
<1>2. Told' = Told /\ OldRead' = OldRead /\ Rereads' = Rereads
  BY <1>1 DEF Told, OldRead, Rereads
<1>3. \/ authenticationProbe' = [authenticationProbe EXCEPT !.pc = "page"]
      \/ authenticationProbe' = [NoProbe EXCEPT !.failed = TRUE]
  BY DEF ProbeMoved
<1>4. /\ authenticationProbe' \in ProbeRecords
      /\ authenticationProbe'.pc \in {"page", "none"}
  <2>1. "page" \in {"page", "seen", "popup", "popup in", "popup out", "moving"}
    OBVIOUS
  <2>2. CASE authenticationProbe' = [authenticationProbe EXCEPT !.pc = "page"]
    BY <1>1, <2>1, <2>2, ProbeSteps
  <2>3. CASE authenticationProbe' = [NoProbe EXCEPT !.failed = TRUE]
    BY <2>3, IdleReads
  <2> QED
    BY <1>3, <2>2, <2>3
<1> QED
  BY <1>1, <1>2, <1>4 DEF SessionIInv, OldProbe, Reprobes

LEMMA TurnRedirectedSession ==
  ASSUME SessionIInv, TurnRedirected
  PROVE  SessionIInv'
<1>1. /\ UNCHANGED <<cookies, cookieChanges, unread>> /\ authenticated' = FALSE
      /\ authenticationProbe' = Outdated(authenticationProbe)
      /\ authenticationRefresh' = Outdated(authenticationRefresh)
  BY DEF TurnRedirected
<1>2. /\ authenticationProbe' \in ProbeRecords /\ ~OldProbe'
      /\ authenticationRefresh' \in RefreshRecords /\ ~OldRead'
  BY <1>1, OutdatedReads DEF SessionIInv, OldProbe, OldRead
<1> QED
  BY <1>1, <1>2 DEF SessionIInv

LEMMA HelperSession ==
  ASSUME SessionIInv, HelperReturns
  PROVE  SessionIInv'
<1> DEFINE vouches == manualOperation.name \in {"verification", "smoke"}
<1>1. UNCHANGED <<cookies, cookieChanges, authenticationProbe, authenticationRefresh>>
  BY DEF HelperReturns
<1>2. CASE UNCHANGED <<authenticated, unread>>
  BY <1>1, <1>2, StaysSession DEF SessionStays
<1>3. CASE authenticated' = (authenticated \/ vouches) /\ unread' = (unread \/ vouches)
  <2>1. CASE vouches
    <3>1. authenticated' = TRUE /\ unread' = TRUE
      BY Zenon, <1>3, <2>1
    <3> QED
      BY <1>1, <3>1 DEF SessionIInv
  <2>2. CASE ~vouches
    <3>1. UNCHANGED <<authenticated, unread>>
      BY <1>3, <2>2 DEF SessionIInv
    <3> QED
      BY <1>1, <3>1, StaysSession DEF SessionStays
  <2> QED
    BY <2>1, <2>2
<1> QED
  BY Zenon, <1>2, <1>3 DEF HelperReturns

LEMMA ChangingSteps ==
  ASSUME SessionIInv, SessionChanges \/ Clears \/ SetsCookies
  PROVE  SessionIInv'
<1>1. CASE SessionChanges
  <2> DEFINE v == IF cookies = "in" THEN "out" ELSE "in"
  <2>1. Changed(v) /\ v \in ReadAnswers
    BY <1>1 DEF SessionChanges, ReadAnswers
  <2>2. UNCHANGED <<authenticationProbe, authenticationRefresh, unread, authenticated>>
    BY <1>1 DEF SessionChanges
  <2> HIDE DEF v
  <2> QED
    BY <2>1, <2>2, ChangedSession DEF SessionIInv
<1>2. CASE Clears
  <2>1. UNCHANGED <<authenticationProbe, authenticationRefresh, unread>>
    BY <1>2 DEF Clears
  <2>2. CASE Changed("out") /\ authenticated' = (authenticated /\ manualOperation.name # "logout")
    <3>1. authenticated' \in BOOLEAN /\ (authenticated' => authenticated)
      BY <2>2
    <3>2. "out" \in ReadAnswers
      BY DEF ReadAnswers
    <3> QED
      BY <2>1, <2>2, <3>1, <3>2, ChangedSession
  <2>3. CASE UNCHANGED <<cookies, cookieChanges, authenticated>>
    BY <2>1, <2>3, StaysSession DEF SessionStays
  <2> QED
    BY Zenon, <1>2, <2>2, <2>3 DEF Clears
<1>3. CASE SetsCookies
  <2>1. UNCHANGED <<authenticationProbe, authenticationRefresh, unread, authenticated>>
    BY <1>3 DEF SetsCookies
  <2>2. \E v \in ReadAnswers : Changed(v)
    BY <1>3 DEF SetsCookies, ReadAnswers
  <2> QED
    BY <2>1, <2>2, ChangedSession DEF SessionIInv
<1> QED
  BY <1>1, <1>2, <1>3

LEMMA ProbingSteps ==
  ASSUME SessionIInv, SurfaceMarked \/ PopupLoads \/ RecoveryProbes \/ Polls
  PROVE  SessionIInv'
<1>1. CASE SurfaceMarked
  <2>1. UNCHANGED <<cookies, cookieChanges, authenticationRefresh>>
    BY <1>1 DEF SurfaceMarked
  <2>2. CallProbe \/ UNCHANGED <<authenticationProbe, authenticated, unread>>
    BY Zenon, <1>1 DEF SurfaceMarked
  <2> QED
    BY <2>1, <2>2, CallProbeSession, StaysSession DEF SessionStays
<1>2. CASE PopupLoads
  <2>1. UNCHANGED <<cookies, cookieChanges, authenticationRefresh>>
    BY <1>2 DEF PopupLoads
  <2>2. CallProbe \/ UNCHANGED <<authenticationProbe, authenticated, unread>>
    BY Zenon, <1>2 DEF PopupLoads
  <2> QED
    BY <2>1, <2>2, CallProbeSession, StaysSession DEF SessionStays
<1>3. CASE RecoveryProbes
  <2>1. UNCHANGED <<cookies, cookieChanges, authenticationRefresh>>
    BY <1>3 DEF RecoveryProbes
  <2>2. CallProbe \/ UNCHANGED <<authenticationProbe, authenticated, unread>>
    BY Zenon, <1>3 DEF RecoveryProbes
  <2> QED
    BY <2>1, <2>2, CallProbeSession, StaysSession DEF SessionStays
<1>4. CASE Polls
  BY <1>4, CallProbeSession DEF Polls
<1> QED
  BY <1>1, <1>2, <1>3, <1>4

LEMMA StayingSteps ==
  ASSUME LoadFinishes \/ LoadFails \/ UserNavigates \/ PopupOpens \/ PopupFails \/ PopupCloses
         \/ BackendAnswers \/ BackendChallenged \/ RecoveryReloads \/ RecoverySettles
         \/ RecoveryEnds \/ TurnTab \/ ModeChanged \/ Loaded \/ WaitFails
         \/ Resumes \/ Transferred \/ Idled \/ CleansUp
  PROVE  SessionStays
<1>1. CASE LoadFinishes
  BY <1>1 DEF LoadFinishes, SessionStays
<1>2. CASE LoadFails
  BY <1>2 DEF LoadFails, SessionStays
<1>3. CASE UserNavigates
  BY <1>3 DEF UserNavigates, SessionStays
<1>4. CASE PopupOpens
  BY <1>4 DEF PopupOpens, SessionStays
<1>5. CASE PopupFails
  BY <1>5 DEF PopupFails, SessionStays
<1>6. CASE PopupCloses
  BY <1>6 DEF PopupCloses, SessionStays
<1>7. CASE BackendAnswers
  BY <1>7 DEF BackendAnswers, SessionStays
<1>8. CASE BackendChallenged
  BY <1>8 DEF BackendChallenged, SessionStays
<1>9. CASE RecoveryReloads
  BY <1>9 DEF RecoveryReloads, SessionStays
<1>10. CASE RecoverySettles
  BY <1>10 DEF RecoverySettles, SessionStays
<1>11. CASE RecoveryEnds
  BY <1>11 DEF RecoveryEnds, SessionStays
<1>12. CASE TurnTab
  BY <1>12 DEF TurnTab, SessionStays
<1>13. CASE ModeChanged
  BY <1>13 DEF ModeChanged, SessionStays
<1>14. CASE Loaded
  BY <1>14 DEF Loaded, SessionStays
<1>15. CASE WaitFails
  BY <1>15 DEF WaitFails, SessionStays
<1>16. CASE Resumes
  BY <1>16 DEF Resumes, SessionStays
<1>17. CASE Transferred
  BY <1>17 DEF Transferred, SessionStays
<1>18. CASE Idled
  BY <1>18 DEF Idled, SessionStays
<1>19. CASE CleansUp
  BY <1>19 DEF CleansUp, SessionStays
<1> QED
  BY Zenon, <1>1, <1>2, <1>3, <1>4, <1>5, <1>6, <1>7, <1>8, <1>9, <1>10, <1>11, <1>12, <1>13,
     <1>14, <1>15, <1>16, <1>17, <1>18, <1>19

LEMMA AskingSteps ==
  ASSUME SessionIInv, NEW name \in Operations, Ask(name) \/ Begin(name)
  PROVE  SessionIInv'
<1>1. CASE Ask(name)
  BY <1>1, StaysSession DEF Ask, SessionStays
<1>2. CASE Begin(name)
  <2>1. UNCHANGED <<cookies, cookieChanges, authenticationProbe, authenticationRefresh, unread>>
    BY <1>2 DEF Begin
  <2>2. authenticated' = authenticated \/ authenticated' = (authenticated /\ name # "passkey")
    BY <1>2 DEF Begin
  <2>3. authenticated' \in BOOLEAN /\ (authenticated' => authenticated)
    <3>1. CASE authenticated' = authenticated
      BY <3>1 DEF SessionIInv
    <3>2. CASE authenticated' = (authenticated /\ name # "passkey")
      BY Zenon, <3>2
    <3> QED
      BY <2>2, <3>1, <3>2
  <2> QED
    BY <2>1, <2>3, QuietSession DEF Quiet
<1> QED
  BY <1>1, <1>2

LEMMA SessionNext ==
  ASSUME SessionIInv, HomeNext
  PROVE  SessionIInv'
<1>1. CASE Resumes
  BY <1>1, StayingSteps, StaysSession
<1>2. CASE OperationStep
  <2>1. CASE \E name \in Operations : Ask(name) \/ Begin(name)
    BY <2>1, AskingSteps
  <2>2. CASE \E mode \in {"automatic", "manual"} : ChangeMode(mode)
    BY <2>2, StaysSession DEF ChangeMode, SessionStays
  <2>3. CASE \/ ModeChanged \/ Loaded \/ WaitFails \/ Transferred \/ Idled \/ CleansUp
    BY <2>3, StayingSteps, StaysSession
  <2>4. CASE Polls
    BY <2>4, ProbingSteps
  <2>5. CASE HelperReturns
    BY <2>5, HelperSession
  <2>6. CASE Clears \/ SetsCookies
    BY <2>6, ChangingSteps
  <2> QED
    BY Zenon, <1>2, <2>1, <2>2, <2>3, <2>4, <2>5, <2>6 DEF OperationStep
<1>3. CASE PageStep
  <2>1. CASE \/ LoadFinishes \/ LoadFails \/ UserNavigates \/ PopupOpens \/ PopupFails
             \/ PopupCloses \/ BackendAnswers \/ BackendChallenged \/ RecoveryReloads
             \/ RecoverySettles \/ RecoveryEnds
    BY <2>1, StayingSteps, StaysSession
  <2>2. CASE SurfaceMarked \/ PopupLoads \/ RecoveryProbes
    BY <2>2, ProbingSteps
  <2>3. CASE SessionChanges
    BY <2>3, ChangingSteps
  <2> QED
    BY Zenon, <1>3, <2>1, <2>2, <2>3 DEF PageStep
<1>4. CASE SessionStep
  <2>1. CASE CookieChanged
    BY <2>1, CookieChangedSession
  <2>2. CASE RefreshAnswered
    BY <2>2, RefreshAnsweredSession
  <2>3. CASE RefreshPublishes
    BY <2>3, RefreshPublishesSession
  <2>4. CASE ProbeAnswered
    BY <2>4, ProbeAnsweredSession
  <2>5. CASE ProbeContinues
    BY <2>5, ProbeContinuesSession
  <2>6. CASE ProbeMoved
    BY <2>6, ProbeMovedSession
  <2>7. CASE TurnTab
    BY <2>7, StayingSteps, StaysSession
  <2>8. CASE TurnRedirected
    BY <2>8, TurnRedirectedSession
  <2> QED
    BY Zenon, <1>4, <2>1, <2>2, <2>3, <2>4, <2>5, <2>6, <2>7, <2>8 DEF SessionStep
<1> QED
  BY Zenon, <1>1, <1>2, <1>3, <1>4 DEF HomeNext

LEMMA ModeNext ==
  ASSUME OperationIInv, interactionMode \in {"automatic", "manual"}, HomeNext
  PROVE  interactionMode' \in {"automatic", "manual"}
<1>1. CASE LoadFinishes
  BY <1>1 DEF LoadFinishes
<1>2. CASE LoadFails
  BY <1>2 DEF LoadFails
<1>3. CASE UserNavigates
  BY <1>3 DEF UserNavigates
<1>4. CASE PopupOpens
  BY <1>4 DEF PopupOpens
<1>5. CASE PopupFails
  BY <1>5 DEF PopupFails
<1>6. CASE PopupCloses
  BY <1>6 DEF PopupCloses
<1>7. CASE BackendAnswers
  BY <1>7 DEF BackendAnswers
<1>8. CASE BackendChallenged
  BY <1>8 DEF BackendChallenged
<1>9. CASE RecoveryReloads
  BY <1>9 DEF RecoveryReloads
<1>10. CASE RecoverySettles
  BY <1>10 DEF RecoverySettles
<1>11. CASE RecoveryEnds
  BY <1>11 DEF RecoveryEnds
<1>12. CASE TurnTab
  BY <1>12 DEF TurnTab
<1>13. CASE Loaded
  BY <1>13 DEF Loaded
<1>14. CASE WaitFails
  BY <1>14 DEF WaitFails
<1>15. CASE Resumes
  BY <1>15 DEF Resumes
<1>16. CASE Transferred
  BY <1>16 DEF Transferred
<1>17. CASE Idled
  BY <1>17 DEF Idled
<1>18. CASE CleansUp
  BY <1>18 DEF CleansUp
<1>19. CASE SurfaceMarked
  BY <1>19 DEF SurfaceMarked
<1>20. CASE PopupLoads
  BY <1>20 DEF PopupLoads
<1>21. CASE RecoveryProbes
  BY <1>21 DEF RecoveryProbes
<1>22. CASE Polls
  BY <1>22 DEF Polls
<1>23. CASE CookieChanged
  BY <1>23 DEF CookieChanged
<1>24. CASE RefreshAnswered
  BY <1>24 DEF RefreshAnswered
<1>25. CASE RefreshPublishes
  BY <1>25 DEF RefreshPublishes
<1>26. CASE ProbeAnswered
  BY <1>26 DEF ProbeAnswered
<1>27. CASE ProbeContinues
  BY <1>27 DEF ProbeContinues
<1>28. CASE ProbeMoved
  BY <1>28 DEF ProbeMoved
<1>29. CASE TurnRedirected
  BY <1>29 DEF TurnRedirected
<1>30. CASE HelperReturns
  BY <1>30 DEF HelperReturns
<1>31. CASE SessionChanges
  BY <1>31 DEF SessionChanges
<1>32. CASE Clears
  BY <1>32 DEF Clears
<1>33. CASE SetsCookies
  BY <1>33 DEF SetsCookies
<1>34. CASE \E name \in Operations : Ask(name) \/ Begin(name)
  BY <1>34 DEF Ask, Begin
<1>35. CASE \E mode \in {"automatic", "manual"} : ChangeMode(mode)
  BY <1>35 DEF ChangeMode
<1>36. CASE ModeChanged
  BY <1>36 DEF ModeChanged, OperationIInv, OperationRecords
<1> QED
  BY Zenon, <1>1, <1>2, <1>3, <1>4, <1>5, <1>6, <1>7, <1>8, <1>9, <1>10, <1>11, <1>12, <1>13,
     <1>14, <1>15, <1>16, <1>17, <1>18, <1>19, <1>20, <1>21, <1>22, <1>23, <1>24, <1>25,
     <1>26, <1>27, <1>28, <1>29, <1>30, <1>31, <1>32, <1>33, <1>34, <1>35, <1>36
     DEF HomeNext, OperationStep, PageStep, SessionStep

HomeIInv == interactionMode \in {"automatic", "manual"} /\ OperationIInv /\ SessionIInv

LEMMA HomeStutters ==
  ASSUME HomeIInv, UNCHANGED homeVars
  PROVE  HomeIInv' /\ LeavesNoImport
<1>1. UNCHANGED <<interactionMode, manualOperation, imported>> /\ SessionStays
  BY DEF homeVars, SessionStays
<1> QED
  BY <1>1, OperationStays, StaysSession DEF HomeIInv

\* The invariant of the home surface's operation and of what it says of the session.
THEOREM HomeConsistent == HomeSpec => []HomeIInv
<1>1. HomeInit => HomeIInv
  <2> SUFFICES ASSUME HomeInit
               PROVE  HomeIInv
    OBVIOUS
  <2>1. OperationIInv
    BY IdleOperation DEF HomeInit, OperationIInv
  <2>2. SessionIInv
    <3>1. /\ cookieChanges \in Seq(CookieEvents) /\ cookies \in ReadAnswers
          /\ authenticated = FALSE /\ unread = FALSE
          /\ authenticationProbe = NoProbe /\ authenticationRefresh = NoRefresh
      BY DEF HomeInit, ReadAnswers
    <3> QED
      BY <3>1, IdleReads DEF SessionIInv, OldRead, OldProbe
  <2> QED
    BY <2>1, <2>2 DEF HomeInit, HomeIInv
<1>2. HomeIInv /\ [HomeNext]_homeVars => HomeIInv'
  BY OperationNext, SessionNext, ModeNext, HomeStutters DEF HomeIInv
<1> QED
  BY <1>1, <1>2, PTL DEF HomeSpec

\* A sign-out is never undone by an old answer (the revision check of probeAuthentication
\* and the loop of refreshAuthenticationFromSession).
THEOREM SignOutsStand == HomeSpec => []SignOutStands
<1>1. HomeIInv => SignOutStands
  <2> SUFFICES ASSUME SessionIInv, authenticationProbe.pc = "none", cookieChanges = <<>>,
                      authenticationRefresh.pc = "none", authenticated, ~unread
               PROVE  cookies = "in"
    BY DEF HomeIInv, SignOutStands
  <2>1. ~Told /\ ~Rereads /\ ~Reprobes
    BY DEF Told, Rereads, Reprobes
  <2> QED
    BY <2>1 DEF SessionIInv, ReadAnswers
<1> QED
  BY <1>1, HomeConsistent, PTL

\* An import that touched the session and failed leaves cookies behind only when discarding
\* them failed twice (installPasskeyLogin).
THEOREM ImportsAreDiscarded == HomeSpec => PartialImportDiscarded
<1>1. HomeIInv /\ [HomeNext]_homeVars => LeavesNoImport
  BY OperationNext, HomeStutters DEF HomeIInv
<1>2. HomeIInv /\ [HomeNext]_homeVars =>
        [imported' /\ manualOperation.name = "passkey" /\ manualOperation.mutated
           /\ manualOperation'.name # "passkey"
         => manualOperation.discards /\ manualOperation.cleaned]_homeVars
  BY <1>1 DEF LeavesNoImport
<1> QED
  BY <1>2, HomeConsistent, PTL DEF HomeSpec, PartialImportDiscarded

=============================================================================
