----------------------------- MODULE TurnBroker -----------------------------
(***************************************************************************)
(* The capability broker of src/src/adapters/chatgpt-web/turn-broker.ts    *)
(* together with its MCP client, mcp-server.ts.  A Codex turn registers a  *)
(* channel and gets a token; ChatGPT's MCP requests claim the token, run   *)
(* tools through the channel and settle their lease; the adapter drains    *)
(* tool calls, answers them, fences the completion and revokes the turn.   *)
(*                                                                         *)
(* One request r of Requests is one MCP handler: it owns one activity id,  *)
(* invokes at most one tool, and its activity id and call id are r itself. *)
(* Every socket frame is its own step, so frames of different requests --  *)
(* and of one request that gave up waiting -- reach the broker in any      *)
(* order.                                                                  *)
(***************************************************************************)
EXTENDS Naturals, FiniteSets

CONSTANTS
  Turns,          \* turn tokens
  SafeTurns,      \* those registered by registerSafe (Zero Risk)
  IntentTurns,    \* those registered with intentOnly (provider sampling)
  ExternalTurns,  \* those registered over the socket by an external owner
  Requests,       \* MCP requests
  Observers,      \* adapter requests polling nextToolBatch
  Answers,        \* final answers of Zero Risk turns
  MaxTurns,       \* bound: turns registered over a behaviour
  NoTurn, NoAnswer, NoRevision

ASSUME TurnKinds ==
  /\ SafeTurns \subseteq Turns
  /\ IntentTurns \subseteq Turns
  /\ ExternalTurns \subseteq Turns
  /\ SafeTurns \cap IntentTurns = {}

ASSUME FiniteRequests == IsFiniteSet(Requests)

ASSUME Absent ==
  NoTurn \notin Turns /\ NoAnswer \notin Answers /\ NoRevision \notin Nat

VARIABLES
  \* The channel of a turn, one function per field of TurnChannel.
  status,       \* "absent", "live" (in this.channels) or "retired"
  ttl,          \* environment.expiresAt is set
  activities,   \* leases of MCP requests being handled
  completedActivities,  \* tombstones of settled leases
  revision,     \* activityRevision
  committed,    \* completionCommitted
  invocations,  \* calls whose promise is unsettled
  queued,       \* queuedCallIds (their order tells no property apart)
  delivered,    \* deliveredCallIds
  waiters,      \* observers parked in nextToolBatch
  startWaiters, \* observers parked in nextToolBatch's waitForSafeStart
  batchTimer,   \* batchTimer is armed
  compactionRequested,
  compactionDeliveries,  \* compactionDeliveryCount
  safe,         \* safe.state, or "none" when channel.safe is undefined
  launcherSent, connectorStarted, finalAnswer,
  accepting,    \* acceptingExternalOwners
  \* The completion fence as the browser worker holds it.
  fence,        \* revision returned by beginCompletionFence
  fenceSeen,    \* history: leases already settled when it was returned
  \* The MCP request handlers and their frames.
  target,       \* the token the request presents
  mcp,          \* where the handler is
  claim, invoke, release,  \* state of its claim, invoke and release frames
  settle        \* activity_complete frames in flight

channelVars == <<status, ttl, activities, completedActivities, revision,
                 committed, compactionDeliveries, accepting>>
toolVars == <<invocations, queued, delivered, batchTimer, compactionRequested>>
waitVars == <<waiters, startWaiters>>
safeVars == <<safe, launcherSent, connectorStarted, finalAnswer>>
fenceVars == <<fence, fenceSeen>>
mcpVars == <<target, mcp, claim, invoke, release, settle>>
vars == <<channelVars, toolVars, waitVars, safeVars, fenceVars, mcpVars>>

TypeOK ==
  /\ status \in [Turns -> {"absent", "live", "retired"}]
  /\ ttl \in [Turns -> BOOLEAN]
  /\ activities \in [Turns -> SUBSET Requests]
  /\ completedActivities \in [Turns -> SUBSET Requests]
  /\ revision \in [Turns -> Nat]
  /\ committed \in [Turns -> BOOLEAN]
  /\ invocations \in [Turns -> SUBSET Requests]
  /\ queued \in [Turns -> SUBSET Requests]
  /\ delivered \in [Turns -> SUBSET Requests]
  /\ waiters \in [Turns -> SUBSET Observers]
  /\ startWaiters \in [Turns -> SUBSET Observers]
  /\ batchTimer \in [Turns -> BOOLEAN]
  /\ compactionRequested \in [Turns -> BOOLEAN]
  /\ compactionDeliveries \in [Turns -> Nat]
  /\ safe \in [Turns -> {"none", "awaiting_start", "running", "completed", "revoked"}]
  /\ launcherSent \in [Turns -> BOOLEAN]
  /\ connectorStarted \in [Turns -> BOOLEAN]
  /\ finalAnswer \in [Turns -> Answers \cup {NoAnswer}]
  /\ accepting \in BOOLEAN
  /\ fence \in [Turns -> Nat \cup {NoRevision}]
  /\ fenceSeen \in [Turns -> SUBSET Requests]
  /\ target \in [Requests -> Turns \cup {NoTurn}]
  /\ mcp \in [Requests -> {"idle", "claiming", "claimed", "invoking",
                           "releasing", "settling", "done", "crashed"}]
  /\ claim \in [Requests -> {"none", "sent", "held", "ok", "refused"}]
  /\ invoke \in [Requests -> {"none", "sent", "pending", "result", "control",
                              "acknowledged", "refused"}]
  /\ release \in [Requests -> {"none", "sent", "handled"}]
  /\ settle \in [Requests -> 0..2]

Init ==
  /\ status = [t \in Turns |-> "absent"]
  /\ ttl = [t \in Turns |-> FALSE]
  /\ activities = [t \in Turns |-> {}]
  /\ completedActivities = [t \in Turns |-> {}]
  /\ revision = [t \in Turns |-> 0]
  /\ committed = [t \in Turns |-> FALSE]
  /\ invocations = [t \in Turns |-> {}]
  /\ queued = [t \in Turns |-> {}]
  /\ delivered = [t \in Turns |-> {}]
  /\ waiters = [t \in Turns |-> {}]
  /\ startWaiters = [t \in Turns |-> {}]
  /\ batchTimer = [t \in Turns |-> FALSE]
  /\ compactionRequested = [t \in Turns |-> FALSE]
  /\ compactionDeliveries = [t \in Turns |-> 0]
  /\ safe = [t \in Turns |-> "none"]
  /\ launcherSent = [t \in Turns |-> FALSE]
  /\ connectorStarted = [t \in Turns |-> FALSE]
  /\ finalAnswer = [t \in Turns |-> NoAnswer]
  /\ accepting = TRUE
  /\ fence = [t \in Turns |-> NoRevision]
  /\ fenceSeen = [t \in Turns |-> {}]
  /\ target = [r \in Requests |-> NoTurn]
  /\ mcp = [r \in Requests |-> "idle"]
  /\ claim = [r \in Requests |-> "none"]
  /\ invoke = [r \in Requests |-> "none"]
  /\ release = [r \in Requests |-> "none"]
  /\ settle = [r \in Requests |-> 0]

-----------------------------------------------------------------------------
(* Guards shared by the handlers.                                          *)

Live(t) == t \in Turns /\ status[t] = "live"

\* Mutants of the guards below.
ActiveWhileCommitted(t) ==
  Live(t) /\ ~(t \in IntentTurns /\ invocations[t] # {})

\* The channel a claim may attach to: not fenced, and for a provider turn no
\* intent committed yet.
Active(t) ==
  /\ Live(t)
  /\ ~committed[t]
  /\ ~(t \in IntentTurns /\ invocations[t] # {})

\* assertSafeHarnessRunning: a Zero Risk turn serves tools only while running.
HarnessRunning(t) == safe[t] \in {"none", "running"}

\* No MCP work is open on the channel.
Quiet(t) == activities[t] = {} /\ invocations[t] = {}

AwaitingSent(t) == safe[t] = "awaiting_start" /\ ~launcherSent[t]

IdleObserver(o) == \A t \in Turns : o \notin waiters[t] \cup startWaiters[t]

-----------------------------------------------------------------------------
(* Registration.                                                           *)

\* register / registerSafe: a channel appears under a fresh token, with or
\* without a TTL.  External owners are refused while the broker drains.
Register(t, bounded) ==
  /\ status[t] = "absent"
  /\ Cardinality({u \in Turns : status[u] # "absent"}) < MaxTurns
  /\ t \in ExternalTurns => accepting
  /\ status' = [status EXCEPT ![t] = "live"]
  /\ ttl' = [ttl EXCEPT ![t] = bounded]
  /\ safe' = [safe EXCEPT ![t] = IF t \in SafeTurns THEN "awaiting_start" ELSE "none"]
  /\ UNCHANGED <<activities, completedActivities, revision, committed,
                 compactionDeliveries, accepting, toolVars, waitVars,
                 launcherSent, connectorStarted, finalAnswer, fenceVars, mcpVars>>

SetExternalOwnersAccepted(accepted) ==
  /\ accepting # accepted
  /\ accepting' = accepted
  /\ UNCHANGED <<status, ttl, activities, completedActivities, revision,
                 committed, compactionDeliveries, toolVars, waitVars, safeVars,
                 fenceVars, mcpVars>>

-----------------------------------------------------------------------------
(* Revocation.                                                             *)

\* Mutant of RejectedCalls: rejectChannel forgets the calls already delivered.
RejectQueuedOnly(S) == UNION {queued[t] : t \in S}

\* rejectChannel rejects every unsettled call of the channel.
RejectedCalls(S) == UNION {invocations[t] : t \in S}

\* revoke, for every token of S at once: the channel leaves the broker, its
\* parked claims, observers and calls are rejected.
RevokeSet(S) ==
  /\ status' = [t \in Turns |-> IF t \in S THEN "retired" ELSE status[t]]
  /\ safe' = [t \in Turns |-> IF t \in S /\ safe[t] # "none" THEN "revoked" ELSE safe[t]]
  /\ claim' = [r \in Requests |->
                 IF claim[r] = "held" /\ target[r] \in S THEN "refused" ELSE claim[r]]
  /\ invoke' = [r \in Requests |->
                  IF invoke[r] = "pending" /\ r \in RejectedCalls(S)
                  THEN "refused" ELSE invoke[r]]
  /\ invocations' = [t \in Turns |-> IF t \in S THEN {} ELSE invocations[t]]
  /\ queued' = [t \in Turns |-> IF t \in S THEN {} ELSE queued[t]]
  /\ delivered' = [t \in Turns |-> IF t \in S THEN {} ELSE delivered[t]]
  /\ waiters' = [t \in Turns |-> IF t \in S THEN {} ELSE waiters[t]]
  /\ startWaiters' = [t \in Turns |-> IF t \in S THEN {} ELSE startWaiters[t]]
  /\ batchTimer' = [t \in Turns |-> IF t \in S THEN FALSE ELSE batchTimer[t]]

revokeUnchanged == <<ttl, activities, completedActivities, revision, committed,
                     compactionDeliveries, compactionRequested, launcherSent,
                     connectorStarted, finalAnswer, fenceVars, target, mcp>>

\* The owner revokes its turn (finished, cancelled or failed).
Revoke(t) ==
  /\ Live(t)
  /\ RevokeSet({t})
  /\ UNCHANGED <<revokeUnchanged, accepting, release, settle>>

\* prune: the deadline of a turn registered with a TTL has passed.
Expire(t) ==
  /\ Live(t) /\ ttl[t]
  /\ RevokeSet({t})
  /\ UNCHANGED <<revokeUnchanged, accepting, release, settle>>

\* revokeExternalOwners: the drain endpoint drops every external owner.
RevokeExternalOwners ==
  LET S == {t \in ExternalTurns : Live(t)} IN
  /\ S # {}
  /\ RevokeSet(S)
  /\ UNCHANGED <<revokeUnchanged, accepting, release, settle>>

\* close revokes every channel.
Close ==
  LET S == {t \in Turns : Live(t)} IN
  /\ S # {}
  /\ RevokeSet(S)
  /\ UNCHANGED <<revokeUnchanged, accepting, release, settle>>

-----------------------------------------------------------------------------
(* Tool delivery to the adapter.                                           *)

\* Mutant of TakeQueued: the batch is handed out but not recorded.
TakeQueuedUnrecorded(t) ==
  /\ queued' = [queued EXCEPT ![t] = {}]
  /\ delivered' = delivered

\* takeQueued moves the queue into the delivered set.
TakeQueued(t) ==
  /\ queued' = [queued EXCEPT ![t] = {}]
  /\ delivered' = [delivered EXCEPT ![t] = @ \cup (queued[t] \cap invocations[t])]

\* The part of nextToolBatch after the start boundary.  A delivered batch is
\* replayed and an empty one returned for a completed Zero Risk turn: neither
\* changes the broker.  Otherwise the queue is taken or the observer parks.
TakeOrPark(o, t) ==
  /\ HarnessRunning(t) /\ ~compactionRequested[t] /\ delivered[t] = {}
  /\ IF queued[t] # {}
     THEN TakeQueued(t) /\ UNCHANGED waiters
     ELSE /\ waiters' = [waiters EXCEPT ![t] = @ \cup {o}]
          /\ UNCHANGED <<queued, delivered>>

NextToolBatch(o, t) ==
  /\ IdleObserver(o) /\ Live(t)
  /\ IF safe[t] = "awaiting_start"
     THEN /\ startWaiters' = [startWaiters EXCEPT ![t] = @ \cup {o}]
          /\ UNCHANGED <<waiters, queued, delivered>>
     ELSE TakeOrPark(o, t) /\ UNCHANGED startWaiters
  /\ UNCHANGED <<channelVars, invocations, batchTimer, compactionRequested,
                 safeVars, fenceVars, mcpVars>>

\* waitForSafeStart resolved: nextToolBatch goes on, or returns or throws.
NextToolBatchStarted(o, t) ==
  /\ o \in startWaiters[t] /\ Live(t) /\ safe[t] # "awaiting_start"
  /\ startWaiters' = [startWaiters EXCEPT ![t] = @ \ {o}]
  /\ \/ TakeOrPark(o, t)
     \/ /\ ~HarnessRunning(t) \/ compactionRequested[t] \/ delivered[t] # {}
        /\ UNCHANGED <<waiters, queued, delivered>>
  /\ UNCHANGED <<channelVars, invocations, batchTimer, compactionRequested,
                 safeVars, fenceVars, mcpVars>>

\* The observer's request is aborted while it is parked.
AbortObserver(o, t) ==
  /\ o \in waiters[t] \cup startWaiters[t]
  /\ waiters' = [waiters EXCEPT ![t] = @ \ {o}]
  /\ startWaiters' = [startWaiters EXCEPT ![t] = @ \ {o}]
  /\ UNCHANGED <<channelVars, toolVars, safeVars, fenceVars, mcpVars>>

\* wakeToolWaiters, 15 ms after a call was queued: the first observer gets the
\* batch, the others are rejected.
BatchTimer(t) ==
  /\ batchTimer[t]
  /\ batchTimer' = [batchTimer EXCEPT ![t] = FALSE]
  /\ IF queued[t] # {} /\ waiters[t] # {}
     THEN TakeQueued(t) /\ waiters' = [waiters EXCEPT ![t] = {}]
     ELSE UNCHANGED <<queued, delivered, waiters>>
  /\ UNCHANGED <<channelVars, invocations, compactionRequested, startWaiters,
                 safeVars, fenceVars, mcpVars>>

\* completeTool: Codex returned the result of a delivered call.  The provider
\* path never completes an intent: its output arrives in a new turn.
CompleteTool(t, r) ==
  /\ Live(t) /\ t \notin IntentTurns /\ HarnessRunning(t)
  /\ r \in invocations[t] \cap delivered[t]
  /\ delivered' = [delivered EXCEPT ![t] = @ \ {r}]
  /\ invocations' = [invocations EXCEPT ![t] = @ \ {r}]
  /\ invoke' = [invoke EXCEPT ![r] = "result"]
  /\ UNCHANGED <<channelVars, queued, batchTimer, compactionRequested, waitVars,
                 safeVars, fenceVars, target, mcp, claim, release, settle>>

InterruptedCalls(t) == queued[t] \cap invocations[t]

\* requestCompaction answers the calls Codex has not seen yet, except a provider
\* intent that was acknowledged already.
RequestCompaction(t) ==
  /\ Live(t) /\ HarnessRunning(t) /\ ~compactionRequested[t]
  /\ compactionRequested' = [compactionRequested EXCEPT ![t] = TRUE]
  /\ batchTimer' = [batchTimer EXCEPT ![t] = FALSE]
  /\ queued' = [queued EXCEPT ![t] = @ \ InterruptedCalls(t)]
  /\ invocations' = [invocations EXCEPT ![t] = @ \ InterruptedCalls(t)]
  /\ invoke' = [r \in Requests |->
                  IF r \in InterruptedCalls(t) /\ invoke[r] = "pending"
                  THEN "control" ELSE invoke[r]]
  /\ compactionDeliveries' =
       [compactionDeliveries EXCEPT ![t] = @ + Cardinality(InterruptedCalls(t))]
  /\ UNCHANGED <<status, ttl, activities, completedActivities, revision, committed,
                 accepting, delivered, waitVars, safeVars, fenceVars,
                 target, mcp, claim, release, settle>>

-----------------------------------------------------------------------------
(* The completion fence.                                                   *)

BeginCompletionFence(t) ==
  /\ Live(t) /\ ~committed[t] /\ Quiet(t)
  /\ fence' = [fence EXCEPT ![t] = revision[t]]
  /\ fenceSeen' = [fenceSeen EXCEPT ![t] = completedActivities[t]]
  /\ UNCHANGED <<channelVars, toolVars, waitVars, safeVars, mcpVars>>

\* Mutant of FenceHolds: the revision of the candidate is not compared.
FenceHoldsNow(t) == Quiet(t)

FenceHolds(t) == revision[t] = fence[t] /\ Quiet(t)

\* commitCompletionFence: a stale candidate is refused and must be taken anew.
CommitCompletionFence(t) ==
  /\ Live(t) /\ ~committed[t] /\ fence[t] # NoRevision
  /\ committed' = [committed EXCEPT ![t] = FenceHolds(t)]
  /\ fence' = [fence EXCEPT ![t] = IF FenceHolds(t) THEN @ ELSE NoRevision]
  /\ UNCHANGED <<status, ttl, activities, completedActivities, revision,
                 compactionDeliveries, accepting, toolVars, waitVars, safeVars,
                 fenceSeen, mcpVars>>

-----------------------------------------------------------------------------
(* The Zero Risk start boundary and completion.                            *)

\* activateSafeTurn: both halves of the start boundary are in place.
ActivateSafeTurn(t) ==
  IF launcherSent'[t] /\ connectorStarted'[t]
  THEN /\ safe' = [safe EXCEPT ![t] = "running"]
       /\ ttl' = [ttl EXCEPT ![t] = FALSE]
  ELSE UNCHANGED <<safe, ttl>>

safeStartUnchanged == <<status, activities, completedActivities, revision, committed,
                        compactionDeliveries, accepting, toolVars, waitVars,
                        finalAnswer, fenceVars, mcpVars>>

\* confirmSafeTurnSent: the user confirmed Sent in the Launcher.
ConfirmSafeTurnSent(t) ==
  /\ Live(t) /\ safe[t] = "awaiting_start" /\ ~launcherSent[t]
  /\ launcherSent' = [launcherSent EXCEPT ![t] = TRUE]
  /\ UNCHANGED connectorStarted
  /\ ActivateSafeTurn(t)
  /\ UNCHANGED safeStartUnchanged

\* startSafeTurn: ChatGPT called codex_turn_start.
StartSafeTurn(t) ==
  /\ Live(t) /\ safe[t] = "awaiting_start" /\ ~connectorStarted[t]
  /\ connectorStarted' = [connectorStarted EXCEPT ![t] = TRUE]
  /\ UNCHANGED launcherSent
  /\ ActivateSafeTurn(t)
  /\ UNCHANGED safeStartUnchanged

MayCompleteSafe(t) == safe[t] = "running" /\ Quiet(t)

\* completeSafeTurn: ChatGPT called codex_turn_complete.  A repeated answer is
\* a duplicate and a different one an error: neither changes the broker.
CompleteSafeTurn(t, a) ==
  /\ Live(t) /\ MayCompleteSafe(t)
  /\ safe' = [safe EXCEPT ![t] = "completed"]
  /\ finalAnswer' = [finalAnswer EXCEPT ![t] = a]
  /\ UNCHANGED <<channelVars, toolVars, waitVars, launcherSent, connectorStarted,
                 fenceVars, mcpVars>>

-----------------------------------------------------------------------------
(* The broker's side of an MCP request.                                    *)

\* The checks of claim once the channel is active and Sent is confirmed.
ClaimGranted(r, t) ==
  /\ HarnessRunning(t)
  /\ ~(safe[t] = "running" /\ compactionRequested[t])
  /\ r \notin completedActivities[t]

GrantClaim(r, t) ==
  /\ claim' = [claim EXCEPT ![r] = "ok"]
  /\ activities' = [activities EXCEPT ![t] = @ \cup {r}]
  /\ revision' = [revision EXCEPT ![t] = @ + (IF r \in activities[t] THEN 0 ELSE 1)]

RefuseClaim(r) ==
  /\ claim' = [claim EXCEPT ![r] = "refused"]
  /\ UNCHANGED <<activities, revision>>

claimUnchanged == <<status, ttl, completedActivities, committed,
                    compactionDeliveries, accepting, toolVars, waitVars, safeVars,
                    fenceVars, target, mcp, invoke, release, settle>>

\* claim: refused on an inactive channel, held until Sent is confirmed, granted
\* with a lease otherwise.
BrokerClaim(r) ==
  LET t == target[r] IN
  /\ claim[r] = "sent"
  /\ \/ ~Active(t) /\ RefuseClaim(r)
     \/ /\ Active(t) /\ AwaitingSent(t)
        /\ claim' = [claim EXCEPT ![r] = "held"]
        /\ UNCHANGED <<activities, revision>>
     \/ Active(t) /\ ~AwaitingSent(t) /\ ClaimGranted(r, t) /\ GrantClaim(r, t)
     \/ Active(t) /\ ~AwaitingSent(t) /\ ~ClaimGranted(r, t) /\ RefuseClaim(r)
  /\ UNCHANGED claimUnchanged

\* A held claim resumes once Sent is confirmed, on the state it finds then.
BrokerClaimResumes(r) ==
  LET t == target[r] IN
  /\ claim[r] = "held" /\ Live(t) /\ launcherSent[t]
  /\ IF ~committed[t] /\ ClaimGranted(r, t) THEN GrantClaim(r, t) ELSE RefuseClaim(r)
  /\ UNCHANGED claimUnchanged

\* The socket of a held claim closed: its wait is aborted.
BrokerClaimDropped(r) ==
  /\ claim[r] = "held" /\ mcp[r] # "claiming"
  /\ RefuseClaim(r)
  /\ UNCHANGED claimUnchanged

IntentTaken(t) == t \in IntentTurns /\ invocations[t] # {}

\* Mutant of ArmBatchTimer: the timer is armed whether or not it is needed.
ArmNoTimer(t) == FALSE

\* scheduleToolWaiters: a parked observer is woken after the batching delay.
ArmBatchTimer(t) == batchTimer[t] \/ waiters[t] # {}

\* invoke: refused without a live binding, answered with the control result once
\* compaction was requested, queued otherwise.  A provider intent is
\* acknowledged at once and stays pending in the channel.
BrokerInvoke(r) ==
  LET t == target[r]
      outcome ==
        IF ~Live(t) \/ ~HarnessRunning(t) THEN "refused"
        ELSE IF compactionRequested[t]
             THEN IF safe[t] = "running" THEN "refused" ELSE "control"
        ELSE IF IntentTaken(t) THEN "refused"
        ELSE IF t \in IntentTurns THEN "acknowledged" ELSE "pending"
      enqueued == outcome \in {"pending", "acknowledged"}
  IN
  /\ invoke[r] = "sent"
  /\ invoke' = [invoke EXCEPT ![r] = outcome]
  /\ IF outcome = "control"
     THEN compactionDeliveries' = [compactionDeliveries EXCEPT ![t] = @ + 1]
     ELSE UNCHANGED compactionDeliveries
  /\ IF enqueued
     THEN /\ invocations' = [invocations EXCEPT ![t] = @ \cup {r}]
          /\ queued' = [queued EXCEPT ![t] = @ \cup {r}]
          /\ batchTimer' = [batchTimer EXCEPT ![t] = ArmBatchTimer(t)]
     ELSE UNCHANGED <<invocations, queued, batchTimer>>
  /\ UNCHANGED <<status, ttl, activities, completedActivities, revision, committed,
                 accepting, delivered, compactionRequested, waitVars, safeVars,
                 fenceVars, target, mcp, claim, release, settle>>

\* release: the abandoned binding revokes its whole turn.
BrokerRelease(r) ==
  LET t == target[r] IN
  /\ release[r] = "sent"
  /\ release' = [release EXCEPT ![r] = "handled"]
  /\ IF Live(t)
     THEN RevokeSet({t}) /\ UNCHANGED <<revokeUnchanged, accepting, settle>>
     ELSE UNCHANGED <<channelVars, toolVars, waitVars, safeVars, fenceVars,
                      target, mcp, claim, invoke, settle>>

\* activity_complete: the lease ends and leaves a tombstone; a retry of it, or
\* one for a retired turn, changes nothing.
BrokerSettle(r) ==
  LET t == target[r] IN
  /\ settle[r] > 0
  /\ settle' = [settle EXCEPT ![r] = @ - 1]
  /\ IF Live(t) /\ r \notin completedActivities[t]
     THEN /\ activities' = [activities EXCEPT ![t] = @ \ {r}]
          /\ completedActivities' = [completedActivities EXCEPT ![t] = @ \cup {r}]
          /\ revision' = [revision EXCEPT ![t] = @ + 1]
     ELSE UNCHANGED <<activities, completedActivities, revision>>
  /\ UNCHANGED <<status, ttl, committed, compactionDeliveries, accepting, toolVars,
                 waitVars, safeVars, fenceVars, target, mcp, claim, invoke, release>>

-----------------------------------------------------------------------------
(* The MCP server's side of a request (mcp-server.ts).                     *)

brokerUnchanged == <<channelVars, toolVars, waitVars, safeVars, fenceVars>>

\* ChatGPT presents a token it was given, possibly one of a finished turn.
McpStart(r, t) ==
  /\ mcp[r] = "idle" /\ status[t] # "absent"
  /\ mcp' = [mcp EXCEPT ![r] = "claiming"]
  /\ target' = [target EXCEPT ![r] = t]
  /\ claim' = [claim EXCEPT ![r] = "sent"]
  /\ UNCHANGED <<brokerUnchanged, invoke, release, settle>>

\* settleTurnActivity: one activity_complete frame, or two when the first
\* attempt timed out before the broker read it.
StartSettling(r) ==
  /\ mcp' = [mcp EXCEPT ![r] = "settling"]
  /\ \E frames \in 1..2 : settle' = [settle EXCEPT ![r] = frames]

\* claimTurn returned a binding.
McpClaimed(r) ==
  /\ mcp[r] = "claiming" /\ claim[r] = "ok"
  /\ mcp' = [mcp EXCEPT ![r] = "claimed"]
  /\ UNCHANGED <<brokerUnchanged, target, claim, invoke, release, settle>>

\* claimTurn failed, timed out or was aborted: its activity is retired, although
\* the claim frame may still be on its way.
McpClaimFails(r) ==
  /\ mcp[r] = "claiming"
  /\ StartSettling(r)
  /\ UNCHANGED <<brokerUnchanged, target, claim, invoke, release>>

\* The claimed action is answered locally (inventory lookups, rejected input).
McpLocalResult(r) ==
  /\ mcp[r] = "claimed"
  /\ StartSettling(r)
  /\ UNCHANGED <<brokerUnchanged, target, claim, invoke, release>>

McpInvoke(r) ==
  /\ mcp[r] = "claimed"
  /\ mcp' = [mcp EXCEPT ![r] = "invoking"]
  /\ invoke' = [invoke EXCEPT ![r] = "sent"]
  /\ UNCHANGED <<brokerUnchanged, target, claim, release, settle>>

McpInvokeReturns(r) ==
  /\ mcp[r] = "invoking" /\ invoke[r] \in {"result", "control", "acknowledged"}
  /\ StartSettling(r)
  /\ UNCHANGED <<brokerUnchanged, target, claim, invoke, release>>

\* The call failed, timed out or was cancelled: the binding is released.
McpInvokeFails(r) ==
  /\ mcp[r] = "invoking"
  /\ mcp' = [mcp EXCEPT ![r] = "releasing"]
  /\ release' = [release EXCEPT ![r] = "sent"]
  /\ UNCHANGED <<brokerUnchanged, target, claim, invoke, settle>>

\* The release was answered, or timed out with its frame still in flight.
McpReleaseReturns(r) ==
  /\ mcp[r] = "releasing"
  /\ StartSettling(r)
  /\ UNCHANGED <<brokerUnchanged, target, claim, invoke, release>>

\* The cleanup was answered or given up after its retry.
McpDone(r) ==
  /\ mcp[r] = "settling"
  /\ mcp' = [mcp EXCEPT ![r] = "done"]
  /\ UNCHANGED <<brokerUnchanged, target, claim, invoke, release, settle>>

\* The MCP process dies before it could settle the lease.
McpCrash(r) ==
  /\ mcp[r] \in {"claiming", "claimed", "invoking", "releasing"}
  /\ mcp' = [mcp EXCEPT ![r] = "crashed"]
  /\ UNCHANGED <<brokerUnchanged, target, claim, invoke, release, settle>>

-----------------------------------------------------------------------------

OwnerStep ==
  \/ \E t \in Turns, bounded \in BOOLEAN : Register(t, bounded)
  \/ \E t \in Turns : Revoke(t) \/ Expire(t)
  \/ \E accepted \in BOOLEAN : SetExternalOwnersAccepted(accepted)
  \/ RevokeExternalOwners
  \/ Close
  \/ \E t \in Turns, r \in Requests : CompleteTool(t, r)
  \/ \E t \in Turns : RequestCompaction(t)
  \/ \E t \in Turns : BeginCompletionFence(t) \/ CommitCompletionFence(t)

ObserverStep ==
  \/ \E o \in Observers, t \in Turns :
       NextToolBatch(o, t) \/ NextToolBatchStarted(o, t) \/ AbortObserver(o, t)
  \/ \E t \in Turns : BatchTimer(t)

SafeStep ==
  \E t \in Turns :
    \/ ConfirmSafeTurnSent(t)
    \/ StartSafeTurn(t)
    \/ \E a \in Answers : CompleteSafeTurn(t, a)

BrokerStep(r) ==
  \/ BrokerClaim(r) \/ BrokerClaimResumes(r) \/ BrokerClaimDropped(r)
  \/ BrokerInvoke(r) \/ BrokerRelease(r) \/ BrokerSettle(r)

McpStep(r) ==
  \/ \E t \in Turns : McpStart(r, t)
  \/ McpClaimed(r) \/ McpClaimFails(r) \/ McpLocalResult(r) \/ McpInvoke(r)
  \/ McpInvokeReturns(r) \/ McpInvokeFails(r) \/ McpReleaseReturns(r)
  \/ McpDone(r) \/ McpCrash(r)

Next ==
  \/ OwnerStep
  \/ ObserverStep
  \/ SafeStep
  \/ \E r \in Requests : BrokerStep(r) \/ McpStep(r)

Spec == Init /\ [][Next]_vars

\* The daemon's event loop reads every frame and fires every timer, and a
\* handler that has its answer goes on.  Nothing makes ChatGPT, the user or
\* Codex act, and no timeout is forced.
Fairness ==
  /\ \A r \in Requests :
       /\ WF_vars(BrokerStep(r))
       /\ WF_vars(McpClaimed(r)) /\ WF_vars(McpClaimFails(r) /\ claim[r] = "refused")
       /\ WF_vars(McpInvoke(r) \/ McpLocalResult(r))
       /\ WF_vars(McpInvokeReturns(r))
       /\ WF_vars(McpInvokeFails(r) /\ invoke[r] = "refused")
       /\ WF_vars(McpReleaseReturns(r) /\ release[r] = "handled")
       /\ WF_vars(McpDone(r) /\ settle[r] = 0)
  /\ \A t \in Turns : WF_vars(BatchTimer(t))

FairSpec == Spec /\ Fairness

-----------------------------------------------------------------------------
(* Properties.                                                             *)

\* A committed completion is final: no request holds a lease, and a call that
\* reaches the channel anyway belongs to a handler that has already given up.
\* The worker publishes the assistant message on the strength of this.
FenceSound ==
  \A t \in Turns : Live(t) /\ committed[t] =>
    /\ activities[t] = {}
    /\ \A r \in invocations[t] : release[r] # "none"

\* A request that finished between the two halves of the fence refuses the
\* commit: the completion is committed on exactly the work the candidate saw.
FenceMissesNoWork ==
  [][\A t \in Turns :
       ~committed[t] /\ committed'[t] => completedActivities[t] = fenceSeen[t]]_vars

\* A delayed or retried claim never revives a lease that was settled, so a
\* settled handler cannot veto the completion for ever.
NoResurrection ==
  \A t \in Turns : activities[t] \cap completedActivities[t] = {}

\* Every unsettled call can still be answered: it is queued for an observer or
\* will be replayed to one, and never both.
NothingLost ==
  \A t \in Turns : /\ invocations[t] = queued[t] \cup delivered[t]
                   /\ queued[t] \cap delivered[t] = {}

\* A handler whose turn is gone comes to its end.
AbandonedHandlersEnd ==
  \A r \in Requests, t \in Turns :
    (target[r] = t /\ status[t] = "retired") ~> (mcp[r] \in {"done", "crashed"})

\* A parked observer is served, or gone, once a call is queued.
QueuedReachesObserver ==
  \A t \in Turns : (queued[t] # {} /\ waiters[t] # {}) ~> (queued[t] = {} \/ waiters[t] = {})

-----------------------------------------------------------------------------
(* What the broker and the MCP server keep true between them; the proofs of  *)
(* FenceSound, FenceMissesNoWork and LeaseSpec rest on it.                   *)

Unsettled(r) == mcp[r] \notin {"settling", "done"}

\* A request that obtained a binding holds its lease until it settles it.
LeaseCoversHandler ==
  \A r \in Requests :
    claim[r] = "ok" /\ Live(target[r]) /\ Unsettled(r) => r \in activities[target[r]]

\* Cleanup frames and tombstones come from handlers that are settling.
TombstonesBySettlers ==
  \A r \in Requests :
    /\ settle[r] > 0 => ~Unsettled(r)
    /\ \A t \in Turns : r \in completedActivities[t] => target[r] = t /\ ~Unsettled(r)

\* A handler invokes with a binding in its hands, and one that settles while
\* its call is out has sent a release first.
ReleaseBeforeSettle ==
  \A r \in Requests :
    /\ mcp[r] = "idle" => claim[r] = "none"
    /\ mcp[r] \in {"idle", "claiming", "claimed"} => invoke[r] = "none"
    /\ mcp[r] \in {"claimed", "invoking", "releasing"} \/ invoke[r] # "none" => claim[r] = "ok"
    /\ mcp[r] = "releasing" => release[r] # "none"
    /\ ~Unsettled(r) /\ invoke[r] \in {"sent", "pending"} => release[r] # "none"

\* A handler's turn was registered; its call is in that turn's channel only.
CallsOfTheirTurn ==
  /\ \A r \in Requests : target[r] = NoTurn => mcp[r] = "idle"
  /\ \A t \in Turns : \A r \in invocations[t] :
       target[r] = t /\ invoke[r] \in {"pending", "acknowledged"}
  /\ \A r \in Requests : target[r] # NoTurn => status[target[r]] # "absent"
  /\ \A t \in Turns : status[t] = "absent" => ~committed[t]

\* The revision orders the settlements: equal revisions mean equal histories.
FenceOrder ==
  \A t \in Turns : fence[t] # NoRevision =>
    /\ fence[t] <= revision[t]
    /\ fence[t] = revision[t] => fenceSeen[t] = completedActivities[t]

\* The inductive invariant.
IInv ==
  /\ TypeOK
  /\ LeaseCoversHandler
  /\ TombstonesBySettlers
  /\ ReleaseBeforeSettle
  /\ CallsOfTheirTurn
  /\ FenceOrder
  /\ NoResurrection
  /\ FenceSound

-----------------------------------------------------------------------------
(* The abstract promise: leases and the completion fence of a turn.        *)

phase == [t \in Turns |->
            IF Live(t) THEN IF committed[t] THEN "committed" ELSE "open" ELSE status[t]]

candidate == [t \in Turns |-> IF fence[t] = NoRevision THEN {} ELSE {fenceSeen[t]}]

Lease == INSTANCE TurnLease WITH leases <- activities, ended <- completedActivities

\* The revision counter of the broker implements the comparison of histories.
LeaseSpec == Lease!Spec
=============================================================================
