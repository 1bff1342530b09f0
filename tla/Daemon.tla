------------------------------- MODULE Daemon -------------------------------
(***************************************************************************)
(* The daemon of src/src/server.ts around its sampling rounds: the         *)
(* requests that HttpTurnCounter tracks and the administrative calls that  *)
(* reach them, drain, resume, interrupt-turn, cancel-turns and shutdown.   *)
(***************************************************************************)
EXTENDS ProviderIntents

CONSTANTS
  Turns,    \* native Codex turns
  KeyTurn   \* the turn that a request body names

ASSUME TurnShapes == KeyTurn \in [Keys -> Turns] /\ None \notin Turns

VARIABLES
  draining,
  shuttingDown, \* "accepted" by /admin/shutdown, "done" when its timer has fired
  resumed,      \* history: a resume came after the accepted shutdown
  http,         \* HttpTurnCounter.active: how far a request is
  identity,     \* the turn a tracked request is bound to, or None
  httpAborted,  \* the abort signal of a request
  interrupted   \* HttpTurnCounter.interrupted

httpVars == <<http, identity, httpAborted, interrupted>>
adminVars == <<draining, shuttingDown, resumed>>
daemonVars == <<intentVars, httpVars, adminVars>>

DaemonTypeOK ==
  /\ draining \in BOOLEAN
  /\ shuttingDown \in {"no", "accepted", "done"}
  /\ resumed \in BOOLEAN
  /\ http \in [Requests -> {"none", "tracked", "sampling"}]
  /\ identity \in [Requests -> Turns \cup {None}]
  /\ httpAborted \in [Requests -> BOOLEAN]
  /\ interrupted \in SUBSET Turns

DaemonInit ==
  /\ IntentInit
  /\ draining = FALSE
  /\ shuttingDown = "no"
  /\ resumed = FALSE
  /\ http = [r \in Requests |-> "none"]
  /\ identity = [r \in Requests |-> None]
  /\ httpAborted = [r \in Requests |-> FALSE]
  /\ interrupted = {}

Up == shuttingDown # "done"

-----------------------------------------------------------------------------
(* HTTP requests.                                                          *)

Abort(Q) == httpAborted' = [r \in Requests |-> httpAborted[r] \/ r \in Q]

\* track counts a request, its body is not read yet.  A draining daemon answers
\* 503 instead.  (The handler of the slot's last request has ended.)
Accept(r) ==
  /\ Up /\ ~draining /\ http[r] = "none" /\ observes[r] = None
  /\ http' = [http EXCEPT ![r] = "tracked"]
  /\ httpAborted' = [httpAborted EXCEPT ![r] = FALSE]
  /\ UNCHANGED <<intentVars, identity, interrupted, adminVars>>

\* Mutant of LateBound: the interruptions that came before are not looked up.
NeverLate(t) == FALSE

\* bindIdentity finds that the turn was interrupted before the request was bound.
LateBound(t) == t \in interrupted

\* The body is there: the request is bound to its turn and goes to its round, in
\* one stretch, even if its signal is aborted.
Bind(r, k) ==
  /\ http[r] = "tracked"
  /\ http' = [http EXCEPT ![r] = "sampling"]
  /\ identity' = [identity EXCEPT ![r] = KeyTurn[k]]
  /\ IF httpAborted[r] \/ LateBound(KeyTurn[k])
     THEN /\ \E stale \in SUBSET Keys : VisitNew(k, stale) \/ VisitExisting(k, stale)
          /\ Abort({r})
     ELSE /\ \E stale \in SUBSET Keys : Create(r, k, stale) \/ Join(r, k, stale)
          /\ UNCHANGED httpAborted
  /\ UNCHANGED <<interrupted, adminVars>>

\* The client goes away.
ClientGone(r) ==
  /\ http[r] # "none" /\ ~httpAborted[r]
  /\ Abort({r})
  /\ UNCHANGED <<intentVars, http, identity, interrupted, adminVars>>

\* The handler of an aborted request stops awaiting its round.
DetachAborted(r) ==
  /\ httpAborted[r]
  /\ Detach(r)
  /\ UNCHANGED <<httpVars, adminVars>>

\* The response body has ended, or was cancelled with its request.
Ended(r) ==
  \/ http[r] = "sampling" /\ observes[r] = None
  \/ http[r] \in {"tracked", "sampling"} /\ httpAborted[r]

\* release takes the request out of the count.
Release(r) ==
  /\ Ended(r)
  /\ http' = [http EXCEPT ![r] = "none"]
  /\ identity' = [identity EXCEPT ![r] = None]
  /\ UNCHANGED <<intentVars, httpAborted, interrupted, adminVars>>

RunStep(n) ==
  /\ RoundStep(n)
  /\ UNCHANGED <<httpVars, adminVars>>

-----------------------------------------------------------------------------
(* Administrative calls.                                                   *)

Drain ==
  /\ Up /\ ~draining
  /\ draining' = TRUE
  /\ UNCHANGED <<intentVars, httpVars, shuttingDown, resumed>>

ResumeTurns ==
  /\ Up /\ draining
  /\ draining' = FALSE
  /\ resumed' = (resumed \/ shuttingDown = "accepted")
  /\ UNCHANGED <<intentVars, httpVars, shuttingDown>>

BoundTo(t) == {r \in Requests : identity[r] = t}

\* interrupt-turn, the part that reaches the requests: beginCancelTurn.
InterruptTurn(t) ==
  /\ Up
  /\ interrupted' = interrupted \cup {t}
  /\ Abort(BoundTo(t))
  /\ UNCHANGED <<intentVars, http, identity, adminVars>>

\* cancel-turns aborts every tracked request.
CancelTurns ==
  /\ Up
  /\ Abort({r \in Requests : http[r] # "none"})
  /\ UNCHANGED <<intentVars, http, identity, interrupted, adminVars>>

\* Mutant of Idle: only the counter of browser turns is looked at, and no round
\* is registered there.
IdleBrowser == TRUE

\* activity(): no HTTP request is counted.
Idle == \A r \in Requests : http[r] = "none"

\* shutdown is accepted when the daemon drains and is idle.
Shutdown ==
  /\ shuttingDown = "no" /\ draining /\ Idle
  /\ shuttingDown' = "accepted"
  /\ UNCHANGED <<intentVars, httpVars, draining, resumed>>

\* Its timer fires.
ShutdownRuns ==
  /\ shuttingDown = "accepted"
  /\ shuttingDown' = "done"
  /\ draining' = TRUE
  /\ UNCHANGED <<intentVars, httpVars, resumed>>

-----------------------------------------------------------------------------

DaemonNext ==
  \/ \E r \in Requests : Accept(r) \/ ClientGone(r) \/ DetachAborted(r) \/ Release(r)
  \/ \E r \in Requests, k \in Keys : Bind(r, k)
  \/ \E n \in Rounds : RunStep(n)
  \/ Drain \/ ResumeTurns \/ CancelTurns \/ Shutdown \/ ShutdownRuns
  \/ \E t \in Turns : InterruptTurn(t)

DaemonSpec == DaemonInit /\ [][DaemonNext]_daemonVars

\* An aborted handler is told at once, a cancelled browser turn settles.
DaemonFairness ==
  /\ \A r \in Requests : WF_daemonVars(DetachAborted(r))
  /\ \A n \in Rounds : WF_daemonVars(Retired(n) /\ UNCHANGED <<httpVars, adminVars>>)

FairDaemonSpec == DaemonSpec /\ DaemonFairness

-----------------------------------------------------------------------------
(* Properties.                                                             *)

\* Somebody is still there who asked for the round.
Wanted(n) == \E r \in Observers(n) : ~httpAborted[r]

\* An interrupted turn stays interrupted: nothing of it is wanted any more, and
\* no request that was on its way when the user stopped it is let through.
InterruptReachesAll ==
  \A n \in 1..launched : KeyTurn[roundKey[n]] \in interrupted => ~Wanted(n)

\* An interruption leaves the requests of other turns alone.
InterruptSpares ==
  [][\A t \in Turns : interrupted' = interrupted \cup {t} /\ interrupted' # interrupted =>
       \A r \in Requests : identity[r] # t => httpAborted'[r] = httpAborted[r]]_daemonVars

\* Until a resume, a daemon whose shutdown was accepted serves nobody: no client
\* was left waiting for a browser turn, and no request on its way starts one.
ShutdownStaysIdle ==
  shuttingDown # "no" /\ ~resumed => \A n \in Rounds : ~Wanted(n)

-----------------------------------------------------------------------------
(* The inductive invariant.                                                *)

\* A request that awaits a round is counted, or it has been told to stop.
HandlersCounted ==
  \A r \in Requests : observes[r] # None => http[r] = "sampling" \/ httpAborted[r]

\* A request is bound once its body is there, and then to the turn of its round.
IdentitiesMatch ==
  \A r \in Requests :
    /\ http[r] # "sampling" => identity[r] = None
    /\ observes[r] # None /\ ~httpAborted[r] => identity[r] = KeyTurn[roundKey[observes[r]]]

\* A request that is bound to an interrupted turn has been told.
InterruptedTold == \A r \in Requests : identity[r] \in interrupted => httpAborted[r]

\* An accepted shutdown finds and keeps the daemon drained and idle.
ShutdownDrained == shuttingDown # "no" /\ ~resumed => draining /\ Idle

DaemonIInv ==
  /\ DaemonTypeOK
  /\ IntentIInv
  /\ HandlersCounted
  /\ IdentitiesMatch
  /\ InterruptedTold
  /\ ShutdownDrained

=============================================================================
