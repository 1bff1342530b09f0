--------------------------- MODULE CompactionRuns ---------------------------
(***************************************************************************)
(* The structured compactions of src/src/adapters/chatgpt-web/             *)
(* compaction-handoff.ts and their body in index.ts.  A compaction request *)
(* of Codex starts one shared run per execution key; observers may detach  *)
(* and join again.  The runs of one owner (a native thread) are serialized *)
(* behind ownerSettlement, which also waits for the fresh browser turn that *)
(* a run opened, but not for the turn of a retained handoff.  Runs are     *)
(* numbered in the order of their registration.                            *)
(***************************************************************************)
EXTENDS Naturals, FiniteSets

CONSTANTS
  CompactionKeys,   \* execution keys of compaction requests
  Owners, NativeTurns,
  CompactionOwner, CompactionTurn,   \* of a compaction key
  MaxRuns,          \* runs ever registered
  NoRun

ASSUME RunShapes ==
  /\ CompactionOwner \in [CompactionKeys -> Owners]
  /\ CompactionTurn \in [CompactionKeys -> NativeTurns]
  /\ MaxRuns \in Nat
  /\ NoRun \notin Nat

Runs == 1..MaxRuns

VARIABLES
  structuredCompactionRuns,           \* the run of a key, or NoRun
  structuredCompactionOwners,         \* the run whose settlement gates an owner, or NoRun
  structuredCompactionInterruptions,  \* turns remembered as interrupted
  registered,     \* runs registered so far
  runKey,
  previousOwner,  \* the run it was queued behind, or NoRun
  stage,        \* where its body is
  after,        \* what follows the retirement of its source
  runAborted,   \* its abort signal
  handoffTurn,  \* the browser turn that asks the retained conversation for its summary
  surface,      \* the fresh browser turn it opened
  active        \* ownerSettlement is pending

runVars == <<structuredCompactionRuns, structuredCompactionOwners,
             structuredCompactionInterruptions, registered, runKey, previousOwner, stage, after,
             runAborted, handoffTurn, surface, active>>

\* A body settles its source, asks for the summary or opens a fresh turn, and retires.
RunStages == {"none", "queued", "source", "handoff", "retiring", "fresh", "summary", "failed"}

RunsTypeOK ==
  /\ structuredCompactionRuns \in [CompactionKeys -> Runs \cup {NoRun}]
  /\ structuredCompactionOwners \in [Owners -> Runs \cup {NoRun}]
  /\ structuredCompactionInterruptions \in SUBSET NativeTurns
  /\ registered \in 0..MaxRuns
  /\ runKey \in [Runs -> CompactionKeys \cup {NoRun}]
  /\ previousOwner \in [Runs -> Runs \cup {NoRun}]
  /\ stage \in [Runs -> RunStages]
  /\ after \in [Runs -> {"none", "summary", "failed", "fresh"}]
  /\ runAborted \in [Runs -> BOOLEAN]
  /\ handoffTurn \in [Runs -> {"closed", "live"}]
  /\ surface \in [Runs -> {"closed", "live"}]
  /\ active \in [Runs -> BOOLEAN]

RunsInit ==
  /\ structuredCompactionRuns = [k \in CompactionKeys |-> NoRun]
  /\ structuredCompactionOwners = [o \in Owners |-> NoRun]
  /\ structuredCompactionInterruptions = {}
  /\ registered = 0
  /\ runKey = [n \in Runs |-> NoRun]
  /\ previousOwner = [n \in Runs |-> NoRun]
  /\ stage = [n \in Runs |-> "none"]
  /\ after = [n \in Runs |-> "none"]
  /\ runAborted = [n \in Runs |-> FALSE]
  /\ handoffTurn = [n \in Runs |-> "closed"]
  /\ surface = [n \in Runs |-> "closed"]
  /\ active = [n \in Runs |-> FALSE]

-----------------------------------------------------------------------------
(* Registration and the owner's gate.                                      *)

RunOwner(n) == CompactionOwner[runKey[n]]

RunTurn(n) == CompactionTurn[runKey[n]]

\* A registration of an interrupted turn is rejected.
Rejected(k) == CompactionTurn[k] \in structuredCompactionInterruptions

\* runStructuredCompactionOnce for a key without a run.  (With one, the request
\* joins its promise; rejected, nothing is registered.)
RunOnce(k) ==
  LET n == registered + 1
      o == CompactionOwner[k] IN
  /\ structuredCompactionRuns[k] = NoRun /\ ~Rejected(k)
  /\ registered < MaxRuns
  /\ registered' = n
  /\ runKey' = [runKey EXCEPT ![n] = k]
  /\ previousOwner' = [previousOwner EXCEPT ![n] = structuredCompactionOwners[o]]
  /\ stage' = [stage EXCEPT ![n] = "queued"]
  /\ active' = [active EXCEPT ![n] = TRUE]
  /\ structuredCompactionRuns' = [structuredCompactionRuns EXCEPT ![k] = n]
  /\ structuredCompactionOwners' = [structuredCompactionOwners EXCEPT ![o] = n]
  /\ UNCHANGED <<structuredCompactionInterruptions, after, runAborted, handoffTurn, surface>>

\* Mutant of PreviousSettled: a failed run never lets the next one go.
PreviousSucceeded(n) ==
  previousOwner[n] # NoRun => ~active[previousOwner[n]] /\ stage[previousOwner[n]] = "summary"

PreviousSettled(n) == previousOwner[n] # NoRun => ~active[previousOwner[n]]

registryUnchanged == <<structuredCompactionRuns, structuredCompactionOwners,
                       structuredCompactionInterruptions, registered, runKey, previousOwner, active>>

\* The previous run of the owner has settled: the body starts.
StartBody(n) ==
  /\ stage[n] = "queued" /\ PreviousSettled(n) /\ ~runAborted[n]
  /\ stage' = [stage EXCEPT ![n] = "source"]
  /\ UNCHANGED <<registryUnchanged, after, runAborted, handoffTurn, surface>>

\* A queued run is cancelled: its promise rejects at once.
QueuedFails(n) ==
  /\ stage[n] = "queued" /\ runAborted[n]
  /\ stage' = [stage EXCEPT ![n] = "failed"]
  /\ UNCHANGED <<registryUnchanged, after, runAborted, handoffTurn, surface>>

-----------------------------------------------------------------------------
(* The body.                                                               *)

\* requestRetainedCompactionHandoff: a turn of the retained conversation's tab is asked
\* for the summary.  It is no settlement that the owner's gate retains.
OpenHandoff(n) ==
  /\ stage[n] = "source" /\ ~runAborted[n]
  /\ stage' = [stage EXCEPT ![n] = "handoff"]
  /\ handoffTurn' = [handoffTurn EXCEPT ![n] = "live"]
  /\ UNCHANGED <<registryUnchanged, after, runAborted, surface>>

\* That turn ends: it failed, its summary was accepted, or it was cancelled.
HandoffReleased(n) ==
  /\ handoffTurn[n] = "live"
  /\ handoffTurn' = [handoffTurn EXCEPT ![n] = "closed"]
  /\ UNCHANGED <<registryUnchanged, stage, after, runAborted, surface>>

\* runFreshCompaction: a browser turn of its own, retained by the owner's gate.
OpenFresh(n) ==
  /\ stage[n] = "source" /\ ~runAborted[n]
  /\ stage' = [stage EXCEPT ![n] = "fresh"]
  /\ surface' = [surface EXCEPT ![n] = "live"]
  /\ UNCHANGED <<registryUnchanged, after, runAborted, handoffTurn>>

\* The retained conversation gave its summary, or failed: it is closed next.  A
\* handoff that found no source leads to a fresh compaction afterwards.  A handoff's
\* turn has ended by then, unless the run was aborted or its deadline has passed.
RetireSource(n, next) ==
  /\ \/ stage[n] = "source" /\ next # "fresh" /\ (next = "summary" => ~runAborted[n])
     \/ stage[n] = "handoff" /\ (next # "failed" => handoffTurn[n] # "live" /\ ~runAborted[n])
     \/ stage[n] = "fresh" /\ next = "failed"
     \/ stage[n] = "fresh" /\ next = "summary" /\ surface[n] # "live" /\ ~runAborted[n]
  /\ stage' = [stage EXCEPT ![n] = "retiring"]
  /\ after' = [after EXCEPT ![n] = next]
  /\ UNCHANGED <<registryUnchanged, runAborted, handoffTurn, surface>>

\* The retained conversation is closed and its surfaces are released.
SourceRetired(n) ==
  LET next == IF after[n] = "summary" /\ runAborted[n] THEN "failed" ELSE after[n] IN
  /\ stage[n] = "retiring"
  /\ stage' = [stage EXCEPT ![n] = next]
  /\ after' = [after EXCEPT ![n] = "none"]
  /\ surface' = [surface EXCEPT ![n] = IF next = "fresh" THEN "live" ELSE @]
  /\ UNCHANGED <<registryUnchanged, runAborted, handoffTurn>>

\* The fresh browser turn ends, on its own or because it was cancelled.
FreshReleased(n) ==
  /\ surface[n] = "live"
  /\ surface' = [surface EXCEPT ![n] = "closed"]
  /\ UNCHANGED <<registryUnchanged, stage, after, runAborted, handoffTurn>>

\* The promise resolves with the summary of a fresh compaction without a source.
Summarizes(n) ==
  /\ stage[n] = "fresh" /\ surface[n] # "live" /\ ~runAborted[n]
  /\ stage' = [stage EXCEPT ![n] = "summary"]
  /\ UNCHANGED <<registryUnchanged, after, runAborted, handoffTurn, surface>>

\* The promise of a run without a source rejects: a deadline, a failure or the
\* operator's abort.  Its fresh turn may still be unwinding.
Fails(n) ==
  /\ stage[n] \in {"source", "fresh"}
  /\ stage' = [stage EXCEPT ![n] = "failed"]
  /\ UNCHANGED <<registryUnchanged, after, runAborted, handoffTurn, surface>>

\* Mutant of Physically: only the logical outcome counts.
Logically(n) == stage[n] \in {"summary", "failed"}

\* The promise has settled, and so have the surfaces its owner holds: the run it was
\* queued behind and its fresh turn.
Physically(n) ==
  stage[n] \in {"summary", "failed"} /\ surface[n] # "live" /\ PreviousSettled(n)

\* ownerSettlement: the gate opens, a failed run is forgotten.
Settle(n) ==
  /\ active[n] /\ Physically(n)
  /\ active' = [active EXCEPT ![n] = FALSE]
  /\ structuredCompactionOwners' = [o \in Owners |->
       IF structuredCompactionOwners[o] = n THEN NoRun ELSE structuredCompactionOwners[o]]
  /\ structuredCompactionRuns' = [k \in CompactionKeys |->
       IF stage[n] = "failed" /\ structuredCompactionRuns[k] = n THEN NoRun
       ELSE structuredCompactionRuns[k]]
  /\ UNCHANGED <<structuredCompactionInterruptions, registered, runKey, previousOwner, stage, after,
                 runAborted, handoffTurn, surface>>

-----------------------------------------------------------------------------
(* Cancellation and expiry.                                                *)

AbortRuns(S) == runAborted' = [n \in Runs |-> runAborted[n] \/ (n \in S /\ active[n])]

cancelUnchanged == <<structuredCompactionRuns, structuredCompactionOwners, registered, runKey,
                     previousOwner, stage, after, handoffTurn, surface, active>>

\* cancelStructuredCompactionNativeTurn: the user interrupted the turn in Codex.
InterruptRuns(t) ==
  /\ structuredCompactionInterruptions' = structuredCompactionInterruptions \cup {t}
  /\ AbortRuns({n \in 1..registered : RunTurn(n) = t})
  /\ UNCHANGED cancelUnchanged

\* beginCancelStructuredCompactionTrace: the user closed a tab of the run.
CancelRunTrace(k) ==
  /\ \E n \in Runs : active[n] /\ runKey[n] = k
  /\ AbortRuns({n \in 1..registered : runKey[n] = k})
  /\ UNCHANGED <<cancelUnchanged, structuredCompactionInterruptions>>

\* cancelAllStructuredCompactions.
CancelAllRuns ==
  /\ AbortRuns(Runs)
  /\ UNCHANGED <<cancelUnchanged, structuredCompactionInterruptions>>

\* Half an hour later a settled run and an interruption are forgotten.
PruneRun(k) ==
  /\ structuredCompactionRuns[k] # NoRun /\ ~active[structuredCompactionRuns[k]]
  /\ structuredCompactionRuns' = [structuredCompactionRuns EXCEPT ![k] = NoRun]
  /\ UNCHANGED <<structuredCompactionOwners, structuredCompactionInterruptions, registered, runKey,
                 previousOwner, stage, after, runAborted, handoffTurn, surface, active>>

PruneInterruption(t) ==
  /\ t \in structuredCompactionInterruptions
  /\ structuredCompactionInterruptions' = structuredCompactionInterruptions \ {t}
  /\ UNCHANGED <<cancelUnchanged, runAborted>>

-----------------------------------------------------------------------------

BodyStep(n) ==
  \/ StartBody(n) \/ QueuedFails(n) \/ OpenHandoff(n) \/ OpenFresh(n) \/ SourceRetired(n)
  \/ \E next \in {"summary", "failed", "fresh"} : RetireSource(n, next)
  \/ Summarizes(n) \/ Fails(n) \/ Settle(n)

RunsNext ==
  \/ \E k \in CompactionKeys : RunOnce(k) \/ CancelRunTrace(k) \/ PruneRun(k)
  \/ \E n \in Runs : BodyStep(n) \/ HandoffReleased(n) \/ FreshReleased(n)
  \/ \E t \in NativeTurns : InterruptRuns(t) \/ PruneInterruption(t)
  \/ CancelAllRuns

RunsSpec == RunsInit /\ [][RunsNext]_runVars

\* The body goes on when what it awaits has come, its own deadline bounds every
\* wait for the browser, an aborted body fails, and a browser turn that was
\* cancelled or that its run gave up is released.
RunsFairness ==
  \A n \in Runs :
    /\ WF_runVars(StartBody(n) \/ QueuedFails(n))
    /\ WF_runVars(Fails(n) \/ Summarizes(n) \/ OpenHandoff(n) \/ OpenFresh(n)
                    \/ \E next \in {"summary", "failed", "fresh"} : RetireSource(n, next))
    /\ WF_runVars(SourceRetired(n))
    /\ WF_runVars(HandoffReleased(n))
    /\ WF_runVars(FreshReleased(n))
    /\ WF_runVars(Settle(n))

FairRunsSpec == RunsSpec /\ RunsFairness

-----------------------------------------------------------------------------
(* Properties.                                                             *)

\* The body of a run is at work, or one of its browser turns is.
Working(n) ==
  \/ stage[n] \in {"source", "handoff", "retiring", "fresh"}
  \/ "live" \in {handoffTurn[n], surface[n]}

\* A run that was cancelled, or timed out, during its handoff: it is over, and the
\* turn that it had opened for the handoff is not.
Overstays(n) == stage[n] = "failed" /\ handoffTurn[n] = "live" /\ surface[n] # "live"

\* A thread is compacted by one run at a time: neither a deadline nor a cancelled
\* run in the queue lets the next one start beside a browser turn of an earlier one.
\* One turn is excepted, that of a retained handoff whose run was cancelled or timed
\* out (compaction-handoff.ts:355-368): the gate does not wait for it.
OneCompactionPerOwner ==
  \A m, n \in 1..registered :
    m < n /\ RunOwner(m) = RunOwner(n) /\ Working(m) /\ Working(n) => Overstays(m)

\* A cancelled compaction comes to its end.
CancelledRunsSettle == \A n \in Runs : runAborted[n] ~> ~active[n]

-----------------------------------------------------------------------------
(* The inductive invariant behind OneCompactionPerOwner.                   *)

\* Registered runs have keys, and only registered runs do anything.
RunsRegistered ==
  \A n \in Runs :
    /\ n <= registered => runKey[n] \in CompactionKeys
    /\ n > registered => /\ ~active[n] /\ stage[n] = "none" /\ after[n] = "none"
                         /\ handoffTurn[n] = "closed" /\ surface[n] = "closed"

\* The gate of an owner is its last run, as long as that has not settled.
GateIsLast ==
  /\ \A n \in 1..registered : active[n] =>
       \E m \in n..registered : /\ structuredCompactionOwners[RunOwner(n)] = m
                              /\ RunOwner(m) = RunOwner(n)
  /\ \A o \in Owners : structuredCompactionOwners[o] # NoRun =>
       /\ active[structuredCompactionOwners[o]]
       /\ structuredCompactionOwners[o] <= registered
       /\ RunOwner(structuredCompactionOwners[o]) = o
       /\ \A n \in 1..registered : RunOwner(n) = o => n <= structuredCompactionOwners[o]

\* The runs of an owner settle in their order: a run that waits for none follows
\* settled ones only.
InOrder ==
  \A m, n \in 1..registered : m < n /\ RunOwner(m) = RunOwner(n) =>
    \/ ~active[m]
    \/ active[n] /\ previousOwner[n] # NoRun /\ previousOwner[n] \in m..(n - 1)
       /\ RunOwner(previousOwner[n]) = RunOwner(n)

\* A run that has not started has no browser turn, and one with a handoff's turn has no
\* other and gives no summary before that has ended.
OneTurnAtMost(n) ==
  /\ stage[n] = "queued" => /\ after[n] = "none"
                            /\ handoffTurn[n] = "closed" /\ surface[n] = "closed"
  /\ handoffTurn[n] = "live" => /\ stage[n] \in {"handoff", "retiring", "failed"}
                                /\ surface[n] = "closed" /\ after[n] \in {"none", "failed"}
  /\ stage[n] \in {"source", "handoff"} => after[n] = "none" /\ surface[n] = "closed"
  /\ stage[n] = "retiring" => after[n] # "none"

\* A settled run is at rest, but for a handoff that it gave up.
AtRest ==
  \A n \in Runs :
    /\ OneTurnAtMost(n)
    /\ ~active[n] => (Working(n) => Overstays(n)) /\ stage[n] # "queued"

\* A run works only after every earlier run of its owner has settled.
Serialized ==
  \A m, n \in 1..registered :
    m < n /\ RunOwner(m) = RunOwner(n) /\ active[m] => ~Working(n)

RunsIInv ==
  /\ RunsTypeOK
  /\ RunsRegistered
  /\ GateIsLast
  /\ InOrder
  /\ AtRest
  /\ Serialized

=============================================================================
