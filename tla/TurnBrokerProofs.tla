-------------------------- MODULE TurnBrokerProofs --------------------------
(***************************************************************************)
(* Proofs about TurnBroker for any turns, requests, observers and answers: *)
(* types, the completion fence, and that the broker implements TurnLease.  *)
(* After them, about ManualTurns: a Zero Risk turn is a turn of the broker.*)
(***************************************************************************)
EXTENDS TurnBroker, ManualTurns, FiniteSetTheorems, TLAPS

-----------------------------------------------------------------------------
(* Type correctness.                                                       *)

\* The initial state is well typed.
LEMMA TypeInit == Init => TypeOK
  BY SMT DEF Init, TypeOK

\* Revoking a set of turns keeps every type, whatever else the step does to
\* the release and cleanup frames.
LEMMA RevokeTypes ==
  ASSUME TypeOK, NEW S, RevokeSet(S), UNCHANGED <<revokeUnchanged, accepting>>,
         release' \in [Requests -> {"none", "sent", "handled"}],
         settle' \in [Requests -> 0..2]
  PROVE  TypeOK'
<1>1. /\ status' \in [Turns -> {"absent", "live", "retired"}]
      /\ safe' \in [Turns -> {"none", "awaiting_start", "running", "completed", "revoked"}]
  BY DEF RevokeSet, TypeOK
<1>2. claim' \in [Requests -> {"none", "sent", "held", "ok", "refused"}]
  BY DEF RevokeSet, TypeOK
<1>3. invoke' \in [Requests -> {"none", "sent", "pending", "result", "control",
                                "acknowledged", "refused"}]
  <2> DEFINE hit(r) == invoke[r] = "pending" /\ r \in RejectedCalls(S)
  <2>1. invoke' = [r \in Requests |-> IF hit(r) THEN "refused" ELSE invoke[r]]
    BY DEF RevokeSet
  <2> HIDE DEF hit
  <2> QED BY <2>1 DEF TypeOK
<1>4. /\ invocations' \in [Turns -> SUBSET Requests]
      /\ queued' \in [Turns -> SUBSET Requests]
      /\ delivered' \in [Turns -> SUBSET Requests]
  BY DEF RevokeSet, TypeOK
<1>5. /\ waiters' \in [Turns -> SUBSET Observers]
      /\ startWaiters' \in [Turns -> SUBSET Observers]
  BY DEF RevokeSet, TypeOK
<1>6. batchTimer' \in [Turns -> BOOLEAN]
  BY DEF RevokeSet, TypeOK
<1> QED
  BY <1>1, <1>2, <1>3, <1>4, <1>5, <1>6 DEF TypeOK, revokeUnchanged, fenceVars

\* Handing out the queue keeps the types of both sets.
LEMMA TakeTypes ==
  ASSUME TypeOK, NEW t \in Turns, UNCHANGED <<queued, delivered>> \/ TakeQueued(t)
  PROVE  /\ queued' \in [Turns -> SUBSET Requests]
         /\ delivered' \in [Turns -> SUBSET Requests]
<1>1. CASE UNCHANGED <<queued, delivered>>
  BY <1>1 DEF TypeOK
<1>2. CASE TakeQueued(t)
  BY <1>2 DEF TypeOK, TakeQueued
<1> QED BY <1>1, <1>2

\* A claim that is answered or held keeps the types of what it writes.
LEMMA ClaimTypes ==
  ASSUME TypeOK, NEW r \in Requests,
         \/ Live(target[r]) /\ GrantClaim(r, target[r])
         \/ RefuseClaim(r)
         \/ claim' = [claim EXCEPT ![r] = "held"] /\ UNCHANGED <<activities, revision>>
  PROVE  /\ claim' \in [Requests -> {"none", "sent", "held", "ok", "refused"}]
         /\ activities' \in [Turns -> SUBSET Requests]
         /\ revision' \in [Turns -> Nat]
<1>1. CASE Live(target[r]) /\ GrantClaim(r, target[r])
  <2>1. target[r] \in Turns
    BY <1>1 DEF Live
  <2>2. claim' \in [Requests -> {"none", "sent", "held", "ok", "refused"}]
    BY <1>1 DEF GrantClaim, TypeOK
  <2>3. activities' \in [Turns -> SUBSET Requests]
    BY <1>1, <2>1 DEF GrantClaim, TypeOK
  <2>4. revision' \in [Turns -> Nat]
    BY <1>1, <2>1 DEF GrantClaim, TypeOK
  <2> QED BY <2>2, <2>3, <2>4
<1>2. CASE RefuseClaim(r)
  BY <1>2 DEF RefuseClaim, TypeOK
<1>3. CASE claim' = [claim EXCEPT ![r] = "held"] /\ UNCHANGED <<activities, revision>>
  BY <1>3 DEF TypeOK
<1> QED BY <1>1, <1>2, <1>3

\* Every step keeps the types.
LEMMA TypeNext == TypeOK /\ [Next]_vars => TypeOK'
<1> SUFFICES ASSUME TypeOK, [Next]_vars PROVE TypeOK'
  OBVIOUS
<1>1. ASSUME NEW t \in Turns, NEW bounded \in BOOLEAN, Register(t, bounded)
      PROVE TypeOK'
  BY <1>1, SMT
  DEF Register, TypeOK,
      channelVars, toolVars, waitVars, safeVars, fenceVars, mcpVars
<1>2. ASSUME NEW t \in Turns, Revoke(t)
      PROVE TypeOK'
  BY <1>2, RevokeTypes DEF Revoke, TypeOK
<1>3. ASSUME NEW t \in Turns, Expire(t)
      PROVE TypeOK'
  BY <1>3, RevokeTypes DEF Expire, TypeOK
<1>4. ASSUME NEW accepted \in BOOLEAN, SetExternalOwnersAccepted(accepted)
      PROVE TypeOK'
  BY <1>4, SMT
  DEF SetExternalOwnersAccepted, TypeOK,
      channelVars, toolVars, waitVars, safeVars, fenceVars, mcpVars
<1>5. ASSUME RevokeExternalOwners
      PROVE TypeOK'
  BY <1>5, RevokeTypes DEF RevokeExternalOwners, TypeOK
<1>6. ASSUME Close
      PROVE TypeOK'
  BY <1>6, RevokeTypes DEF Close, TypeOK
<1>7. ASSUME NEW t \in Turns, NEW r \in Requests, CompleteTool(t, r)
      PROVE TypeOK'
  BY <1>7, SMT
  DEF CompleteTool, TypeOK,
      channelVars, toolVars, waitVars, safeVars, fenceVars, mcpVars
<1>8. ASSUME NEW t \in Turns, RequestCompaction(t)
      PROVE TypeOK'
  <2>1. Cardinality(InterruptedCalls(t)) \in Nat
    BY FiniteRequests, FS_Subset, FS_CardinalityType DEF InterruptedCalls, TypeOK
  <2>2. compactionDeliveries' \in [Turns -> Nat]
    BY <1>8, <2>1, SMT DEF RequestCompaction, TypeOK
  <2>3. invoke' \in [Requests -> {"none", "sent", "pending", "result", "control",
                                  "acknowledged", "refused"}]
    BY <1>8, SMT DEF RequestCompaction, TypeOK
  <2>4. /\ queued' \in [Turns -> SUBSET Requests]
        /\ invocations' \in [Turns -> SUBSET Requests]
    BY <1>8, SMT DEF RequestCompaction, TypeOK
  <2>5. /\ compactionRequested' \in [Turns -> BOOLEAN]
        /\ batchTimer' \in [Turns -> BOOLEAN]
    BY <1>8 DEF RequestCompaction, TypeOK
  <2> QED BY <1>8, <2>2, <2>3, <2>4, <2>5
    DEF RequestCompaction, TypeOK, waitVars, safeVars, fenceVars
<1>9. ASSUME NEW t \in Turns, BeginCompletionFence(t)
      PROVE TypeOK'
  BY <1>9, SMT
  DEF BeginCompletionFence, Quiet, Live, TypeOK,
      channelVars, toolVars, waitVars, safeVars, fenceVars, mcpVars
<1>10. ASSUME NEW t \in Turns, CommitCompletionFence(t)
      PROVE TypeOK'
  <2>1. FenceHolds(t) \in BOOLEAN
    BY DEF FenceHolds, Quiet
  <2>2. committed' \in [Turns -> BOOLEAN]
    BY <1>10, <2>1, Zenon DEF CommitCompletionFence, TypeOK
  <2>3. fence' \in [Turns -> Nat \cup {NoRevision}]
    <3> HIDE DEF FenceHolds
    <3> QED BY <1>10, SMT DEF CommitCompletionFence, TypeOK
  <2> QED BY <1>10, <2>2, <2>3
    DEF CommitCompletionFence, TypeOK, toolVars, waitVars, safeVars, mcpVars
<1>11. ASSUME NEW o \in Observers, NEW t \in Turns, NextToolBatch(o, t)
      PROVE TypeOK'
  <2>1. startWaiters' \in [Turns -> SUBSET Observers]
    <3>1. \/ startWaiters' = startWaiters
          \/ startWaiters' = [startWaiters EXCEPT ![t] = @ \cup {o}]
      BY <1>11, Zenon DEF NextToolBatch
    <3>2. CASE startWaiters' = startWaiters
      BY <3>2 DEF TypeOK
    <3>3. CASE startWaiters' = [startWaiters EXCEPT ![t] = @ \cup {o}]
      BY <3>3, <1>11 DEF TypeOK
    <3> QED BY <3>1, <3>2, <3>3
  <2>2. waiters' \in [Turns -> SUBSET Observers]
    <3>1. waiters' = waiters \/ waiters' = [waiters EXCEPT ![t] = @ \cup {o}]
      BY <1>11, Zenon DEF NextToolBatch, TakeOrPark
    <3>2. CASE waiters' = waiters
      BY <3>2 DEF TypeOK
    <3>3. CASE waiters' = [waiters EXCEPT ![t] = @ \cup {o}]
      BY <3>3, <1>11 DEF TypeOK
    <3> QED BY <3>1, <3>2, <3>3
  <2>3. /\ queued' \in [Turns -> SUBSET Requests]
        /\ delivered' \in [Turns -> SUBSET Requests]
    <3>1. UNCHANGED <<queued, delivered>> \/ TakeQueued(t)
      BY <1>11, Zenon DEF NextToolBatch, TakeOrPark
    <3> QED BY <3>1, TakeTypes
  <2> QED BY <1>11, <2>1, <2>2, <2>3
    DEF NextToolBatch, TypeOK, channelVars, safeVars, fenceVars, mcpVars
<1>12. ASSUME NEW o \in Observers, NEW t \in Turns, NextToolBatchStarted(o, t)
      PROVE TypeOK'
  <2>1. startWaiters' \in [Turns -> SUBSET Observers]
    BY <1>12, SMT DEF NextToolBatchStarted, TypeOK
  <2>2. waiters' \in [Turns -> SUBSET Observers]
    <3>1. waiters' = waiters \/ waiters' = [waiters EXCEPT ![t] = @ \cup {o}]
      BY <1>12, Zenon DEF NextToolBatchStarted, TakeOrPark
    <3>2. CASE waiters' = waiters
      BY <3>2 DEF TypeOK
    <3>3. CASE waiters' = [waiters EXCEPT ![t] = @ \cup {o}]
      BY <3>3, <1>12 DEF TypeOK
    <3> QED BY <3>1, <3>2, <3>3
  <2>3. /\ queued' \in [Turns -> SUBSET Requests]
        /\ delivered' \in [Turns -> SUBSET Requests]
    <3>1. UNCHANGED <<queued, delivered>> \/ TakeQueued(t)
      BY <1>12, Zenon DEF NextToolBatchStarted, TakeOrPark
    <3> QED BY <3>1, TakeTypes
  <2> QED BY <1>12, <2>1, <2>2, <2>3
    DEF NextToolBatchStarted, TypeOK, channelVars, safeVars, fenceVars, mcpVars
<1>13. ASSUME NEW o \in Observers, NEW t \in Turns, AbortObserver(o, t)
      PROVE TypeOK'
  BY <1>13, SMT
  DEF AbortObserver, TypeOK,
      channelVars, toolVars, waitVars, safeVars, fenceVars, mcpVars
<1>14. ASSUME NEW t \in Turns, BatchTimer(t)
      PROVE TypeOK'
  <2>1. /\ queued' \in [Turns -> SUBSET Requests]
        /\ delivered' \in [Turns -> SUBSET Requests]
    <3>1. UNCHANGED <<queued, delivered>> \/ TakeQueued(t)
      BY <1>14, Zenon DEF BatchTimer
    <3> QED BY <3>1, TakeTypes
  <2>2. waiters' \in [Turns -> SUBSET Observers]
    <3>1. waiters' = waiters \/ waiters' = [waiters EXCEPT ![t] = {}]
      BY <1>14, Zenon DEF BatchTimer
    <3> QED BY <3>1 DEF TypeOK
  <2> QED BY <1>14, <2>1, <2>2
    DEF BatchTimer, TypeOK, channelVars, safeVars, fenceVars, mcpVars
<1>15. ASSUME NEW t \in Turns, ConfirmSafeTurnSent(t)
      PROVE TypeOK'
  <2>1. /\ launcherSent' \in [Turns -> BOOLEAN]
        /\ connectorStarted' \in [Turns -> BOOLEAN]
    BY <1>15, Zenon DEF ConfirmSafeTurnSent, TypeOK
  <2>2. ActivateSafeTurn(t)
    BY <1>15 DEF ConfirmSafeTurnSent
  <2>3. ttl' \in [Turns -> BOOLEAN]
    BY <2>2, Zenon DEF ActivateSafeTurn, TypeOK
  <2>4. safe' \in [Turns -> {"none", "awaiting_start", "running", "completed", "revoked"}]
    <3>1. safe' = safe \/ safe' = [safe EXCEPT ![t] = "running"]
      BY <2>2, Zenon DEF ActivateSafeTurn
    <3>2. safe \in [Turns -> {"none", "awaiting_start", "running", "completed", "revoked"}]
      BY DEF TypeOK
    <3> QED BY <3>1, <3>2
  <2> QED BY <1>15, <2>1, <2>3, <2>4
   
    DEF ConfirmSafeTurnSent, TypeOK, safeStartUnchanged, toolVars, waitVars, fenceVars,
        mcpVars
<1>16. ASSUME NEW t \in Turns, StartSafeTurn(t)
      PROVE TypeOK'
  <2>1. /\ launcherSent' \in [Turns -> BOOLEAN]
        /\ connectorStarted' \in [Turns -> BOOLEAN]
    BY <1>16, Zenon DEF StartSafeTurn, TypeOK
  <2>2. ActivateSafeTurn(t)
    BY <1>16 DEF StartSafeTurn
  <2>3. ttl' \in [Turns -> BOOLEAN]
    BY <2>2, Zenon DEF ActivateSafeTurn, TypeOK
  <2>4. safe' \in [Turns -> {"none", "awaiting_start", "running", "completed", "revoked"}]
    <3>1. safe' = safe \/ safe' = [safe EXCEPT ![t] = "running"]
      BY <2>2, Zenon DEF ActivateSafeTurn
    <3>2. safe \in [Turns -> {"none", "awaiting_start", "running", "completed", "revoked"}]
      BY DEF TypeOK
    <3> QED BY <3>1, <3>2
  <2> QED BY <1>16, <2>1, <2>3, <2>4
    DEF StartSafeTurn, TypeOK, safeStartUnchanged, toolVars, waitVars, fenceVars, mcpVars
<1>17. ASSUME NEW t \in Turns, NEW a \in Answers, CompleteSafeTurn(t, a)
      PROVE TypeOK'
  BY <1>17, SMT
  DEF CompleteSafeTurn, TypeOK,
      channelVars, toolVars, waitVars, safeVars, fenceVars, mcpVars
<1>18. ASSUME NEW r \in Requests, BrokerClaim(r)
      PROVE TypeOK'
  <2>1. \/ Live(target[r]) /\ GrantClaim(r, target[r])
        \/ RefuseClaim(r)
        \/ claim' = [claim EXCEPT ![r] = "held"] /\ UNCHANGED <<activities, revision>>
    BY <1>18, Zenon DEF BrokerClaim, Active
  <2>2. UNCHANGED claimUnchanged
    BY <1>18, Zenon DEF BrokerClaim
  <2> QED BY <2>1, <2>2, ClaimTypes
    DEF claimUnchanged, TypeOK, toolVars, waitVars, safeVars, fenceVars
<1>19. ASSUME NEW r \in Requests, BrokerClaimResumes(r)
      PROVE TypeOK'
  <2>1. \/ Live(target[r]) /\ GrantClaim(r, target[r])
        \/ RefuseClaim(r)
    BY <1>19, Zenon DEF BrokerClaimResumes
  <2>2. UNCHANGED claimUnchanged
    BY <1>19, Zenon DEF BrokerClaimResumes
  <2> QED BY <2>1, <2>2, ClaimTypes
    DEF claimUnchanged, TypeOK, toolVars, waitVars, safeVars, fenceVars
<1>20. ASSUME NEW r \in Requests, BrokerClaimDropped(r)
      PROVE TypeOK'
  BY <1>20, SMT
  DEF BrokerClaimDropped, RefuseClaim, claimUnchanged, TypeOK,
      channelVars, toolVars, waitVars, safeVars, fenceVars, mcpVars
<1>21. ASSUME NEW r \in Requests, BrokerInvoke(r)
      PROVE TypeOK'
  <2> DEFINE t == target[r]
  <2>1. invoke' \in [Requests -> {"none", "sent", "pending", "result", "control",
                                  "acknowledged", "refused"}]
    BY <1>21, SMT DEF BrokerInvoke, TypeOK
  <2>2. compactionDeliveries' \in [Turns -> Nat]
    <3>1. \/ compactionDeliveries' = compactionDeliveries
          \/ compactionDeliveries' = [compactionDeliveries EXCEPT ![t] = @ + 1]
      BY <1>21, Zenon DEF BrokerInvoke
    <3> HIDE DEF t
    <3>2. CASE compactionDeliveries' = compactionDeliveries
      BY <3>2 DEF TypeOK
    <3>3. CASE compactionDeliveries' = [compactionDeliveries EXCEPT ![t] = @ + 1]
      <4>1. ASSUME NEW u \in Turns PROVE compactionDeliveries'[u] \in Nat
        <5>1. compactionDeliveries[u] \in Nat
          BY DEF TypeOK
        <5>2. compactionDeliveries'[u] \in {compactionDeliveries[u], compactionDeliveries[u] + 1}
          BY <3>3 DEF TypeOK
        <5> QED BY <5>1, <5>2
      <4>2. compactionDeliveries' = [u \in Turns |-> compactionDeliveries'[u]]
        BY <3>3 DEF TypeOK
      <4> QED BY <4>1, <4>2
    <3> QED BY <3>1, <3>2, <3>3
  <2>3. /\ invocations' \in [Turns -> SUBSET Requests]
        /\ queued' \in [Turns -> SUBSET Requests]
    <3>1. \/ UNCHANGED <<invocations, queued>>
          \/ /\ invocations' = [invocations EXCEPT ![t] = @ \cup {r}]
             /\ queued' = [queued EXCEPT ![t] = @ \cup {r}]
      BY <1>21, Zenon DEF BrokerInvoke
    <3> HIDE DEF t
    <3>2. CASE UNCHANGED <<invocations, queued>>
      BY <3>2 DEF TypeOK
    <3>3. CASE /\ invocations' = [invocations EXCEPT ![t] = @ \cup {r}]
               /\ queued' = [queued EXCEPT ![t] = @ \cup {r}]
      BY <3>3, <1>21 DEF TypeOK
    <3> QED BY <3>1, <3>2, <3>3
  <2>4. batchTimer' \in [Turns -> BOOLEAN]
    <3>1. ArmBatchTimer(t) \in BOOLEAN
      BY DEF ArmBatchTimer, TypeOK
    <3>2. batchTimer' = batchTimer \/ batchTimer' = [batchTimer EXCEPT ![t] = ArmBatchTimer(t)]
      BY <1>21, Zenon DEF BrokerInvoke
    <3> QED BY <3>1, <3>2, Zenon DEF TypeOK
  <2> QED BY <1>21, <2>1, <2>2, <2>3, <2>4
    DEF BrokerInvoke, TypeOK, waitVars, safeVars, fenceVars
<1>22. ASSUME NEW r \in Requests, BrokerRelease(r)
      PROVE TypeOK'
  <2>1. release' \in [Requests -> {"none", "sent", "handled"}]
    BY <1>22, SMT DEF BrokerRelease, TypeOK
  <2>2. CASE Live(target[r])
    BY <1>22, <2>1, <2>2, RevokeTypes, SMTT(30) DEF BrokerRelease, TypeOK
  <2>3. CASE ~Live(target[r])
    BY <1>22, <2>1, <2>3
    DEF BrokerRelease, TypeOK, channelVars, toolVars, waitVars, safeVars, fenceVars,
        mcpVars
  <2> QED BY <2>2, <2>3
<1>23. ASSUME NEW r \in Requests, BrokerSettle(r)
      PROVE TypeOK'
  <2> DEFINE t == target[r]
  <2>1. settle' \in [Requests -> 0..2]
    BY <1>23, SMT DEF BrokerSettle, TypeOK
  <2>2. CASE Live(t) /\ r \notin completedActivities[t]
    <3>1. /\ activities' = [activities EXCEPT ![t] = @ \ {r}]
          /\ completedActivities' = [completedActivities EXCEPT ![t] = @ \cup {r}]
          /\ revision' = [revision EXCEPT ![t] = revision[t] + 1]
          /\ t \in Turns
      BY <1>23, <2>2, Zenon DEF BrokerSettle, Live
    <3>2. /\ activities' \in [Turns -> SUBSET Requests]
          /\ completedActivities' \in [Turns -> SUBSET Requests]
          /\ revision' \in [Turns -> Nat]
      BY <3>1, <1>23 DEF TypeOK
    <3> QED BY <1>23, <2>1, <3>2
      DEF BrokerSettle, TypeOK, toolVars, waitVars, safeVars, fenceVars
  <2>3. CASE ~(Live(t) /\ r \notin completedActivities[t])
    BY <1>23, <2>1, <2>3
    DEF BrokerSettle, TypeOK, toolVars, waitVars, safeVars, fenceVars
  <2> QED BY <2>2, <2>3
<1>24. ASSUME NEW r \in Requests, NEW t \in Turns, McpStart(r, t)
      PROVE TypeOK'
  BY <1>24, SMT
  DEF McpStart, brokerUnchanged, TypeOK,
      channelVars, toolVars, waitVars, safeVars, fenceVars, mcpVars
<1>25. ASSUME NEW r \in Requests, McpClaimed(r)
      PROVE TypeOK'
  BY <1>25, SMT
  DEF McpClaimed, brokerUnchanged, TypeOK,
      channelVars, toolVars, waitVars, safeVars, fenceVars, mcpVars
<1>26. ASSUME NEW r \in Requests, McpClaimFails(r)
      PROVE TypeOK'
  BY <1>26, SMT
  DEF McpClaimFails, StartSettling, brokerUnchanged, TypeOK,
      channelVars, toolVars, waitVars, safeVars, fenceVars, mcpVars
<1>27. ASSUME NEW r \in Requests, McpLocalResult(r)
      PROVE TypeOK'
  BY <1>27, SMT
  DEF McpLocalResult, StartSettling, brokerUnchanged, TypeOK,
      channelVars, toolVars, waitVars, safeVars, fenceVars, mcpVars
<1>28. ASSUME NEW r \in Requests, McpInvoke(r)
      PROVE TypeOK'
  BY <1>28, SMT
  DEF McpInvoke, brokerUnchanged, TypeOK,
      channelVars, toolVars, waitVars, safeVars, fenceVars, mcpVars
<1>29. ASSUME NEW r \in Requests, McpInvokeReturns(r)
      PROVE TypeOK'
  BY <1>29, SMT
  DEF McpInvokeReturns, StartSettling, brokerUnchanged, TypeOK,
      channelVars, toolVars, waitVars, safeVars, fenceVars, mcpVars
<1>30. ASSUME NEW r \in Requests, McpInvokeFails(r)
      PROVE TypeOK'
  BY <1>30, SMT
  DEF McpInvokeFails, brokerUnchanged, TypeOK,
      channelVars, toolVars, waitVars, safeVars, fenceVars, mcpVars
<1>31. ASSUME NEW r \in Requests, McpReleaseReturns(r)
      PROVE TypeOK'
  BY <1>31, SMT
  DEF McpReleaseReturns, StartSettling, brokerUnchanged, TypeOK,
      channelVars, toolVars, waitVars, safeVars, fenceVars, mcpVars
<1>32. ASSUME NEW r \in Requests, McpDone(r)
      PROVE TypeOK'
  BY <1>32, SMT
  DEF McpDone, brokerUnchanged, TypeOK,
      channelVars, toolVars, waitVars, safeVars, fenceVars, mcpVars
<1>33. ASSUME NEW r \in Requests, McpCrash(r)
      PROVE TypeOK'
  BY <1>33, SMT
  DEF McpCrash, brokerUnchanged, TypeOK,
      channelVars, toolVars, waitVars, safeVars, fenceVars, mcpVars
<1>34. CASE UNCHANGED vars
  BY <1>34 DEF vars, TypeOK, channelVars, toolVars, waitVars, safeVars, fenceVars, mcpVars
<1> QED
  BY <1>1, <1>2, <1>3, <1>4, <1>5, <1>6, <1>7, <1>8, <1>9, <1>10, <1>11, <1>12,
     <1>13, <1>14, <1>15, <1>16, <1>17, <1>18, <1>19, <1>20, <1>21, <1>22, <1>23, <1>24,
     <1>25, <1>26, <1>27, <1>28, <1>29, <1>30, <1>31, <1>32, <1>33, <1>34, Zenon
  DEF Next, OwnerStep, ObserverStep, SafeStep, BrokerStep, McpStep

\* Every state the broker reaches is well typed.
THEOREM TypeCorrect == Spec => []TypeOK
  BY TypeInit, TypeNext, PTL DEF Spec

-----------------------------------------------------------------------------
(* The inductive invariant.                                                *)

\* What the conjuncts of IInv mention.
tracked == <<status, activities, completedActivities, revision, committed,
             invocations, fence, fenceSeen, target, mcp, claim, invoke, release, settle>>

\* The turns of S retire, in a release frame of a handler or otherwise.
Retires(S) ==
  /\ \A t \in S : Live(t)
  /\ RevokeSet(S)
  /\ UNCHANGED <<activities, completedActivities, revision, committed, fence, fenceSeen,
                 target, mcp, settle>>
  /\ \A r \in Requests : release'[r] \in {release[r], "handled"}

\* The release of a turn that is gone already.
ReleaseIgnored(r) ==
  /\ \A q \in Requests : release'[q] \in {release[q], "handled"}
  /\ UNCHANGED <<status, activities, completedActivities, revision, committed,
                 invocations, fence, fenceSeen, target, mcp, claim, invoke, settle>>

\* The broker settles a claim, or parks it.
ClaimStep(r) ==
  /\ claim[r] \in {"sent", "held"}
  /\ UNCHANGED <<status, completedActivities, committed, invocations, fence, fenceSeen,
                 target, mcp, invoke, release, settle>>
  /\ \/ /\ claim' = [claim EXCEPT ![r] = "refused"] \/ claim' = [claim EXCEPT ![r] = "held"]
        /\ UNCHANGED <<activities, revision>>
     \/ /\ Live(target[r]) /\ ~committed[target[r]]
        /\ r \notin completedActivities[target[r]]
        /\ GrantClaim(r, target[r])

\* Every step leaves the tracked state alone or is one of these.
LEMMA Steps ==
  ASSUME TypeOK, [Next]_vars
  PROVE  \/ UNCHANGED tracked
         \/ \E t \in Turns, bounded \in BOOLEAN : Register(t, bounded)
         \/ \E S \in SUBSET Turns : Retires(S)
         \/ \E t \in Turns, r \in Requests : CompleteTool(t, r)
         \/ \E t \in Turns : RequestCompaction(t)
         \/ \E t \in Turns : BeginCompletionFence(t) \/ CommitCompletionFence(t)
         \/ \E r \in Requests :
              ClaimStep(r) \/ BrokerInvoke(r) \/ BrokerSettle(r)
         \/ \E r \in Requests : McpStep(r)
         \/ \E r \in Requests : ReleaseIgnored(r)
<1> DEFINE Goal ==
         \/ UNCHANGED tracked
         \/ \E t \in Turns, bounded \in BOOLEAN : Register(t, bounded)
         \/ \E S \in SUBSET Turns : Retires(S)
         \/ \E t \in Turns, r \in Requests : CompleteTool(t, r)
         \/ \E t \in Turns : RequestCompaction(t)
         \/ \E t \in Turns : BeginCompletionFence(t) \/ CommitCompletionFence(t)
         \/ \E r \in Requests :
              ClaimStep(r) \/ BrokerInvoke(r) \/ BrokerSettle(r)
         \/ \E r \in Requests : McpStep(r)
         \/ \E r \in Requests : ReleaseIgnored(r)
<1>1. ASSUME NEW t \in Turns, Revoke(t) \/ Expire(t)
      PROVE Goal
  <2>1. Retires({t})
    BY <1>1 DEF Revoke, Expire, Retires, revokeUnchanged, fenceVars
  <2> QED BY <2>1
<1>2. ASSUME RevokeExternalOwners
      PROVE Goal
  <2>1. Retires({t \in ExternalTurns : Live(t)})
    BY <1>2 DEF RevokeExternalOwners, Retires, revokeUnchanged, fenceVars
  <2> QED BY <2>1, TurnKinds
<1>3. ASSUME Close
      PROVE Goal
  <2>1. Retires({t \in Turns : Live(t)})
    BY <1>3 DEF Close, Retires, revokeUnchanged, fenceVars
  <2> QED BY <2>1
<1>4. ASSUME NEW r \in Requests, BrokerRelease(r)
      PROVE Goal
  <2>1. \A q \in Requests : release'[q] \in {release[q], "handled"}
    BY <1>4 DEF BrokerRelease, TypeOK
  <2>2. CASE Live(target[r])
    <3>1. Retires({target[r]})
      BY <1>4, <2>1, <2>2 DEF BrokerRelease, Retires, revokeUnchanged, fenceVars
    <3> QED BY <3>1, <2>2 DEF Live
  <2>3. CASE ~Live(target[r])
    <3>1. ReleaseIgnored(r)
      BY <1>4, <2>1, <2>3 DEF BrokerRelease, ReleaseIgnored,
         channelVars, toolVars, waitVars, safeVars, fenceVars
    <3> QED BY <3>1
  <2> QED BY <2>2, <2>3
<1>5. ASSUME NEW accepted \in BOOLEAN, SetExternalOwnersAccepted(accepted)
      PROVE UNCHANGED tracked
  BY <1>5 DEF SetExternalOwnersAccepted, tracked, toolVars, fenceVars, mcpVars
<1>6. ASSUME ObserverStep
      PROVE UNCHANGED tracked
  BY <1>6 DEF ObserverStep, NextToolBatch, NextToolBatchStarted, AbortObserver, BatchTimer,
     tracked, channelVars, toolVars, fenceVars, mcpVars
<1>7. ASSUME SafeStep
      PROVE UNCHANGED tracked
  BY <1>7 DEF SafeStep, ConfirmSafeTurnSent, StartSafeTurn, CompleteSafeTurn,
     safeStartUnchanged, tracked, channelVars, toolVars, fenceVars, mcpVars
<1>8. ASSUME UNCHANGED vars
      PROVE UNCHANGED tracked
  BY <1>8 DEF vars, tracked, channelVars, toolVars, fenceVars, mcpVars
<1>11. ASSUME NEW r \in Requests,
              BrokerClaim(r) \/ BrokerClaimResumes(r) \/ BrokerClaimDropped(r)
       PROVE ClaimStep(r)
  <2> USE
  DEF ClaimStep, GrantClaim, RefuseClaim, ClaimGranted, claimUnchanged, toolVars,
      fenceVars
  <2>1. CASE BrokerClaim(r)
    BY <2>1 DEF BrokerClaim, Active
  <2>2. CASE BrokerClaimResumes(r)
    BY <2>2 DEF BrokerClaimResumes
  <2>3. CASE BrokerClaimDropped(r)
    BY <2>3 DEF BrokerClaimDropped
  <2> QED BY <1>11, <2>1, <2>2, <2>3
<1>9. CASE OwnerStep
  BY <1>1, <1>2, <1>3, <1>5, <1>9, Zenon DEF OwnerStep
<1>10. CASE \E r \in Requests : BrokerStep(r) \/ McpStep(r)
  BY <1>4, <1>10, <1>11, Zenon DEF BrokerStep
<1> QED
  BY <1>6, <1>7, <1>8, <1>9, <1>10, Zenon DEF Next

\* No step takes the lease of a handler that has not settled yet.
LEMMA LeaseCoversHandlerStep ==
  ASSUME IInv, [Next]_vars PROVE LeaseCoversHandler'
<1> USE DEF IInv
<1>1. ASSUME UNCHANGED tracked PROVE LeaseCoversHandler'
  BY <1>1, SMT DEF LeaseCoversHandler, tracked, TypeOK, Live, Unsettled
<1>2. ASSUME NEW t \in Turns, NEW bounded \in BOOLEAN, Register(t, bounded)
      PROVE LeaseCoversHandler'
  <2> SUFFICES ASSUME NEW r \in Requests,
                      claim'[r] = "ok", Live(target[r])', (Unsettled(r))'
               PROVE  r \in activities'[target'[r]]
    BY DEF LeaseCoversHandler
  <2>1. UNCHANGED <<claim, target, mcp, activities>>
    BY <1>2 DEF Register, mcpVars
  <2>2. target[r] # t
    BY <1>2, <2>1, Absent DEF Register, CallsOfTheirTurn, Live
  <2>3. Live(target[r])
    BY <1>2, <2>1, <2>2 DEF Register, Live, TypeOK
  <2> QED BY <2>1, <2>3 DEF LeaseCoversHandler, Unsettled
<1>3. ASSUME NEW S \in SUBSET Turns, Retires(S) PROVE LeaseCoversHandler'
  BY <1>3, SMT DEF LeaseCoversHandler, Retires, RevokeSet, TypeOK, Live, Unsettled
<1>4. ASSUME NEW t \in Turns, NEW r \in Requests, CompleteTool(t, r)
      PROVE LeaseCoversHandler'
  BY <1>4, SMT
  DEF LeaseCoversHandler, CompleteTool, channelVars, fenceVars, TypeOK, Live, Unsettled
<1>5. ASSUME NEW t \in Turns, RequestCompaction(t) PROVE LeaseCoversHandler'
  BY <1>5, SMT DEF LeaseCoversHandler, RequestCompaction, fenceVars, TypeOK, Live, Unsettled
<1>6. ASSUME NEW t \in Turns, BeginCompletionFence(t) PROVE LeaseCoversHandler'
  BY <1>6, SMT
  DEF LeaseCoversHandler, BeginCompletionFence, channelVars, toolVars, mcpVars, TypeOK,
      Live, Unsettled
<1>7. ASSUME NEW t \in Turns, CommitCompletionFence(t) PROVE LeaseCoversHandler'
  BY <1>7, SMT
  DEF LeaseCoversHandler, CommitCompletionFence, toolVars, mcpVars, TypeOK, Live,
      Unsettled
<1>8. ASSUME NEW r \in Requests, ClaimStep(r) PROVE LeaseCoversHandler'
  BY <1>8, SMTT(30) DEF LeaseCoversHandler, ClaimStep, GrantClaim, TypeOK, Live, Unsettled
<1>9. ASSUME NEW r \in Requests, BrokerInvoke(r) PROVE LeaseCoversHandler'
  BY <1>9, SMT DEF LeaseCoversHandler, BrokerInvoke, fenceVars, TypeOK, Live, Unsettled
<1>10. ASSUME NEW r \in Requests, BrokerSettle(r) PROVE LeaseCoversHandler'
  <2> SUFFICES ASSUME NEW q \in Requests,
                      claim'[q] = "ok", Live(target[q])', (Unsettled(q))'
               PROVE  q \in activities'[target'[q]]
    BY DEF LeaseCoversHandler
  <2>1. UNCHANGED <<claim, target, mcp, status>>
    BY <1>10 DEF BrokerSettle
  <2>2. q # r
    BY <1>10, <2>1 DEF BrokerSettle, TombstonesBySettlers, Unsettled
  <2>3. q \in activities[target[q]] /\ target[q] \in Turns
    BY <2>1 DEF LeaseCoversHandler, Unsettled, Live
  <2>4. activities' = activities \/ activities' = [activities EXCEPT ![target[r]] = @ \ {r}]
    BY <1>10, Zenon DEF BrokerSettle
  <2>5. CASE activities' = activities
    BY <2>1, <2>3, <2>5
  <2>6. CASE activities' = [activities EXCEPT ![target[r]] = @ \ {r}]
    BY <2>1, <2>2, <2>3, <2>6 DEF TypeOK
  <2> QED BY <2>4, <2>5, <2>6
<1>11. ASSUME NEW r \in Requests, McpStep(r) PROVE LeaseCoversHandler'
  <2>1. ASSUME NEW t \in Turns, McpStart(r, t) PROVE LeaseCoversHandler'
    BY <2>1, Absent, SMT
    DEF LeaseCoversHandler, McpStart, brokerUnchanged, channelVars, toolVars,
        fenceVars, TypeOK, Live, Unsettled, ReleaseBeforeSettle
  <2>2. CASE McpClaimed(r)
    BY <2>2, Absent, SMT
    DEF LeaseCoversHandler, McpClaimed, brokerUnchanged, channelVars, toolVars,
        fenceVars, TypeOK, Live, Unsettled, ReleaseBeforeSettle
  <2>3. CASE McpClaimFails(r)
    BY <2>3, Absent, SMT
    DEF LeaseCoversHandler, McpClaimFails, StartSettling, brokerUnchanged, channelVars,
        toolVars, fenceVars, TypeOK, Live, Unsettled, ReleaseBeforeSettle
  <2>4. CASE McpLocalResult(r)
    BY <2>4, Absent, SMT
    DEF LeaseCoversHandler, McpLocalResult, StartSettling, brokerUnchanged,
        channelVars, toolVars, fenceVars, TypeOK, Live, Unsettled, ReleaseBeforeSettle
  <2>5. CASE McpInvoke(r)
    BY <2>5, Absent, SMT
    DEF LeaseCoversHandler, McpInvoke, brokerUnchanged, channelVars, toolVars,
        fenceVars, TypeOK, Live, Unsettled, ReleaseBeforeSettle
  <2>6. CASE McpInvokeReturns(r)
    BY <2>6, Absent, SMT
    DEF LeaseCoversHandler, McpInvokeReturns, StartSettling, brokerUnchanged,
        channelVars, toolVars, fenceVars, TypeOK, Live, Unsettled, ReleaseBeforeSettle
  <2>7. CASE McpInvokeFails(r)
    BY <2>7, Absent, SMT
    DEF LeaseCoversHandler, McpInvokeFails, brokerUnchanged, channelVars, toolVars,
        fenceVars, TypeOK, Live, Unsettled, ReleaseBeforeSettle
  <2>8. CASE McpReleaseReturns(r)
    BY <2>8, Absent, SMT
    DEF LeaseCoversHandler, McpReleaseReturns, StartSettling, brokerUnchanged,
        channelVars, toolVars, fenceVars, TypeOK, Live, Unsettled, ReleaseBeforeSettle
  <2>9. CASE McpDone(r)
    BY <2>9, Absent, SMT
    DEF LeaseCoversHandler, McpDone, brokerUnchanged, channelVars, toolVars, fenceVars,
        TypeOK, Live, Unsettled, ReleaseBeforeSettle
  <2>10. CASE McpCrash(r)
    BY <2>10, Absent, SMT
    DEF LeaseCoversHandler, McpCrash, brokerUnchanged, channelVars, toolVars,
        fenceVars, TypeOK, Live, Unsettled, ReleaseBeforeSettle
  <2> QED BY <1>11, <2>1, <2>2, <2>3, <2>4, <2>5, <2>6, <2>7, <2>8, <2>9, <2>10, Zenon
  DEF McpStep
<1>12. ASSUME NEW q0 \in Requests, ReleaseIgnored(q0) PROVE LeaseCoversHandler'
  BY <1>12, SMT DEF LeaseCoversHandler, ReleaseIgnored, TypeOK, Live, Unsettled
<1> QED
  BY Steps, <1>1, <1>2, <1>3, <1>4, <1>5, <1>6, <1>7, <1>8, <1>9, <1>10, <1>11, <1>12, Zenon

\* Only a handler that settles sends cleanup frames and leaves tombstones.
LEMMA TombstonesBySettlersStep ==
  ASSUME IInv, [Next]_vars PROVE TombstonesBySettlers'
<1> USE DEF IInv
<1>1. ASSUME UNCHANGED tracked PROVE TombstonesBySettlers'
  BY <1>1, SMT DEF TombstonesBySettlers, tracked, TypeOK, Unsettled
<1>2. ASSUME NEW t \in Turns, NEW bounded \in BOOLEAN, Register(t, bounded)
      PROVE TombstonesBySettlers'
  BY <1>2, SMT
  DEF TombstonesBySettlers, Register, toolVars, fenceVars, mcpVars, TypeOK, Unsettled
<1>3. ASSUME NEW S \in SUBSET Turns, Retires(S) PROVE TombstonesBySettlers'
  BY <1>3, SMT DEF TombstonesBySettlers, Retires, RevokeSet, TypeOK, Unsettled
<1>4. ASSUME NEW t \in Turns, NEW r \in Requests, CompleteTool(t, r)
      PROVE TombstonesBySettlers'
  BY <1>4, SMT
  DEF TombstonesBySettlers, CompleteTool, channelVars, fenceVars, TypeOK, Unsettled
<1>5. ASSUME NEW t \in Turns, RequestCompaction(t) PROVE TombstonesBySettlers'
  BY <1>5, SMT DEF TombstonesBySettlers, RequestCompaction, fenceVars, TypeOK, Unsettled
<1>6. ASSUME NEW t \in Turns, BeginCompletionFence(t) PROVE TombstonesBySettlers'
  BY <1>6, SMT
  DEF TombstonesBySettlers, BeginCompletionFence, channelVars, toolVars, mcpVars,
      TypeOK, Unsettled
<1>7. ASSUME NEW t \in Turns, CommitCompletionFence(t) PROVE TombstonesBySettlers'
  BY <1>7, SMT
  DEF TombstonesBySettlers, CommitCompletionFence, toolVars, mcpVars, TypeOK, Unsettled
<1>8. ASSUME NEW r \in Requests, ClaimStep(r) PROVE TombstonesBySettlers'
  BY <1>8, SMT DEF TombstonesBySettlers, ClaimStep, GrantClaim, TypeOK, Unsettled
<1>9. ASSUME NEW r \in Requests, BrokerInvoke(r) PROVE TombstonesBySettlers'
  BY <1>9, SMT DEF TombstonesBySettlers, BrokerInvoke, fenceVars, TypeOK, Unsettled
<1>10. ASSUME NEW r \in Requests, BrokerSettle(r) PROVE TombstonesBySettlers'
  BY <1>10, SMT
  DEF TombstonesBySettlers, BrokerSettle, toolVars, fenceVars, TypeOK,
      Unsettled
<1>11. ASSUME NEW r \in Requests, McpStep(r) PROVE TombstonesBySettlers'
  <2>1. ASSUME NEW t \in Turns, McpStart(r, t) PROVE TombstonesBySettlers'
    BY <2>1, Absent, SMT
    DEF TombstonesBySettlers, McpStart, brokerUnchanged, channelVars, toolVars,
        fenceVars, TypeOK, Unsettled, CallsOfTheirTurn
  <2>2. CASE McpClaimed(r)
    BY <2>2, Absent, SMT
    DEF TombstonesBySettlers, McpClaimed, brokerUnchanged, channelVars, toolVars,
        fenceVars, TypeOK, Unsettled, CallsOfTheirTurn
  <2>3. CASE McpClaimFails(r)
    BY <2>3, Absent, SMT
    DEF TombstonesBySettlers, McpClaimFails, StartSettling, brokerUnchanged,
        channelVars, toolVars, fenceVars, TypeOK, Unsettled, CallsOfTheirTurn
  <2>4. CASE McpLocalResult(r)
    BY <2>4, Absent, SMT
    DEF TombstonesBySettlers, McpLocalResult, StartSettling, brokerUnchanged,
        channelVars, toolVars, fenceVars, TypeOK, Unsettled, CallsOfTheirTurn
  <2>5. CASE McpInvoke(r)
    BY <2>5, Absent, SMT
    DEF TombstonesBySettlers, McpInvoke, brokerUnchanged, channelVars, toolVars,
        fenceVars, TypeOK, Unsettled, CallsOfTheirTurn
  <2>6. CASE McpInvokeReturns(r)
    BY <2>6, Absent, SMT
    DEF TombstonesBySettlers, McpInvokeReturns, StartSettling, brokerUnchanged,
        channelVars, toolVars, fenceVars, TypeOK, Unsettled, CallsOfTheirTurn
  <2>7. CASE McpInvokeFails(r)
    BY <2>7, Absent, SMT
    DEF TombstonesBySettlers, McpInvokeFails, brokerUnchanged, channelVars, toolVars,
        fenceVars, TypeOK, Unsettled, CallsOfTheirTurn
  <2>8. CASE McpReleaseReturns(r)
    BY <2>8, Absent, SMT
    DEF TombstonesBySettlers, McpReleaseReturns, StartSettling, brokerUnchanged,
        channelVars, toolVars, fenceVars, TypeOK, Unsettled, CallsOfTheirTurn
  <2>9. CASE McpDone(r)
    BY <2>9, Absent, SMT
    DEF TombstonesBySettlers, McpDone, brokerUnchanged, channelVars, toolVars,
        fenceVars, TypeOK, Unsettled, CallsOfTheirTurn
  <2>10. CASE McpCrash(r)
    BY <2>10, Absent, SMT
    DEF TombstonesBySettlers, McpCrash, brokerUnchanged, channelVars, toolVars,
        fenceVars, TypeOK, Unsettled, CallsOfTheirTurn
  <2> QED BY <1>11, <2>1, <2>2, <2>3, <2>4, <2>5, <2>6, <2>7, <2>8, <2>9, <2>10, Zenon
  DEF McpStep
<1>12. ASSUME NEW q0 \in Requests, ReleaseIgnored(q0) PROVE TombstonesBySettlers'
  BY <1>12, SMT DEF TombstonesBySettlers, ReleaseIgnored, TypeOK, Unsettled
<1> QED
  BY Steps, <1>1, <1>2, <1>3, <1>4, <1>5, <1>6, <1>7, <1>8, <1>9, <1>10, <1>11, <1>12, Zenon

\* A handler invokes with a binding and releases before it abandons a call.
LEMMA ReleaseBeforeSettleStep ==
  ASSUME IInv, [Next]_vars PROVE ReleaseBeforeSettle'
<1> USE DEF IInv
<1>1. ASSUME UNCHANGED tracked PROVE ReleaseBeforeSettle'
  BY <1>1, SMT DEF ReleaseBeforeSettle, tracked, TypeOK, Unsettled
<1>2. ASSUME NEW t \in Turns, NEW bounded \in BOOLEAN, Register(t, bounded)
      PROVE ReleaseBeforeSettle'
  BY <1>2, SMT
  DEF ReleaseBeforeSettle, Register, toolVars, fenceVars, mcpVars, TypeOK, Unsettled
<1>3. ASSUME NEW S \in SUBSET Turns, Retires(S) PROVE ReleaseBeforeSettle'
  BY <1>3, SMT DEF ReleaseBeforeSettle, Retires, RevokeSet, TypeOK, Unsettled
<1>4. ASSUME NEW t \in Turns, NEW r \in Requests, CompleteTool(t, r)
      PROVE ReleaseBeforeSettle'
  BY <1>4, SMT
  DEF ReleaseBeforeSettle, CompleteTool, channelVars, fenceVars, TypeOK, Unsettled,
      CallsOfTheirTurn
<1>5. ASSUME NEW t \in Turns, RequestCompaction(t) PROVE ReleaseBeforeSettle'
  BY <1>5, SMT
  DEF ReleaseBeforeSettle, RequestCompaction, fenceVars, TypeOK, Unsettled,
      CallsOfTheirTurn, InterruptedCalls
<1>6. ASSUME NEW t \in Turns, BeginCompletionFence(t) PROVE ReleaseBeforeSettle'
  BY <1>6, SMT
  DEF ReleaseBeforeSettle, BeginCompletionFence, channelVars, toolVars, mcpVars,
      TypeOK, Unsettled
<1>7. ASSUME NEW t \in Turns, CommitCompletionFence(t) PROVE ReleaseBeforeSettle'
  BY <1>7, SMT
  DEF ReleaseBeforeSettle, CommitCompletionFence, toolVars, mcpVars, TypeOK, Unsettled
<1>8. ASSUME NEW r \in Requests, ClaimStep(r) PROVE ReleaseBeforeSettle'
  BY <1>8, SMT DEF ReleaseBeforeSettle, ClaimStep, GrantClaim, TypeOK, Unsettled
<1>9. ASSUME NEW r \in Requests, BrokerInvoke(r) PROVE ReleaseBeforeSettle'
  BY <1>9, SMT DEF ReleaseBeforeSettle, BrokerInvoke, fenceVars, TypeOK, Unsettled
<1>10. ASSUME NEW r \in Requests, BrokerSettle(r) PROVE ReleaseBeforeSettle'
  BY <1>10, SMT
  DEF ReleaseBeforeSettle, BrokerSettle, toolVars, fenceVars, TypeOK,
      Unsettled
<1>11. ASSUME NEW r \in Requests, McpStep(r) PROVE ReleaseBeforeSettle'
  <2>1. ASSUME NEW t \in Turns, McpStart(r, t) PROVE ReleaseBeforeSettle'
    BY <2>1, Absent, SMT
    DEF ReleaseBeforeSettle, McpStart, brokerUnchanged, channelVars, toolVars,
        fenceVars, TypeOK, Unsettled
  <2>2. CASE McpClaimed(r)
    BY <2>2, Absent, SMT
    DEF ReleaseBeforeSettle, McpClaimed, brokerUnchanged, channelVars, toolVars,
        fenceVars, TypeOK, Unsettled
  <2>3. CASE McpClaimFails(r)
    BY <2>3, Absent, SMT
    DEF ReleaseBeforeSettle, McpClaimFails, StartSettling, brokerUnchanged,
        channelVars, toolVars, fenceVars, TypeOK, Unsettled
  <2>4. CASE McpLocalResult(r)
    BY <2>4, Absent, SMT
    DEF ReleaseBeforeSettle, McpLocalResult, StartSettling, brokerUnchanged,
        channelVars, toolVars, fenceVars, TypeOK, Unsettled
  <2>5. CASE McpInvoke(r)
    BY <2>5, Absent, SMT
    DEF ReleaseBeforeSettle, McpInvoke, brokerUnchanged, channelVars, toolVars,
        fenceVars, TypeOK, Unsettled
  <2>6. CASE McpInvokeReturns(r)
    BY <2>6, Absent, SMT
    DEF ReleaseBeforeSettle, McpInvokeReturns, StartSettling, brokerUnchanged,
        channelVars, toolVars, fenceVars, TypeOK, Unsettled
  <2>7. CASE McpInvokeFails(r)
    BY <2>7, Absent, SMT
    DEF ReleaseBeforeSettle, McpInvokeFails, brokerUnchanged, channelVars, toolVars,
        fenceVars, TypeOK, Unsettled
  <2>8. CASE McpReleaseReturns(r)
    BY <2>8, Absent, SMT
    DEF ReleaseBeforeSettle, McpReleaseReturns, StartSettling, brokerUnchanged,
        channelVars, toolVars, fenceVars, TypeOK, Unsettled
  <2>9. CASE McpDone(r)
    BY <2>9, Absent, SMT
    DEF ReleaseBeforeSettle, McpDone, brokerUnchanged, channelVars, toolVars,
        fenceVars, TypeOK, Unsettled
  <2>10. CASE McpCrash(r)
    BY <2>10, Absent, SMT
    DEF ReleaseBeforeSettle, McpCrash, brokerUnchanged, channelVars, toolVars,
        fenceVars, TypeOK, Unsettled
  <2> QED BY <1>11, <2>1, <2>2, <2>3, <2>4, <2>5, <2>6, <2>7, <2>8, <2>9, <2>10, Zenon
  DEF McpStep
<1>12. ASSUME NEW q0 \in Requests, ReleaseIgnored(q0) PROVE ReleaseBeforeSettle'
  BY <1>12, SMT DEF ReleaseBeforeSettle, ReleaseIgnored, TypeOK, Unsettled
<1> QED
  BY Steps, <1>1, <1>2, <1>3, <1>4, <1>5, <1>6, <1>7, <1>8, <1>9, <1>10, <1>11, <1>12, Zenon

\* A call stays in the channel of the turn its handler claimed.
LEMMA CallsOfTheirTurnStep ==
  ASSUME IInv, [Next]_vars PROVE CallsOfTheirTurn'
<1> USE DEF IInv
<1>1. ASSUME UNCHANGED tracked PROVE CallsOfTheirTurn'
  BY <1>1, SMT DEF CallsOfTheirTurn, tracked, TypeOK, Live
<1>2. ASSUME NEW t \in Turns, NEW bounded \in BOOLEAN, Register(t, bounded)
      PROVE CallsOfTheirTurn'
  BY <1>2, SMT DEF CallsOfTheirTurn, Register, toolVars, fenceVars, mcpVars, TypeOK, Live
<1>3. ASSUME NEW S \in SUBSET Turns, Retires(S) PROVE CallsOfTheirTurn'
  <2>1. UNCHANGED <<target, mcp, committed>>
    BY <1>3 DEF Retires
  <2>2. \A t \in Turns : invocations'[t] = IF t \in S THEN {} ELSE invocations[t]
    BY <1>3 DEF Retires, RevokeSet
  <2>5. \A t \in Turns : status'[t] = "absent" => status[t] = "absent"
    BY <1>3 DEF Retires, RevokeSet
  <2>3. ASSUME NEW t \in Turns, NEW r \in invocations'[t]
        PROVE  target[r] = t /\ invoke'[r] \in {"pending", "acknowledged"}
    <3>1. r \in invocations[t] /\ r \in Requests /\ t \notin S
      BY <2>2, <2>3 DEF TypeOK
    <3>2. target[r] = t /\ invoke[r] \in {"pending", "acknowledged"}
      BY <3>1 DEF CallsOfTheirTurn
    <3>3. r \notin RejectedCalls(S)
      BY <3>1, <3>2 DEF RejectedCalls, CallsOfTheirTurn
    <3> QED BY <1>3, <3>1, <3>2, <3>3 DEF Retires, RevokeSet
  <2>4. \A r \in Requests : target[r] # NoTurn => status'[target[r]] # "absent"
    <3> SUFFICES ASSUME NEW r \in Requests, target[r] # NoTurn
                 PROVE  status'[target[r]] # "absent"
      OBVIOUS
    <3>1. target[r] \in Turns /\ status[target[r]] # "absent"
      BY DEF CallsOfTheirTurn, TypeOK
    <3> QED BY <2>5, <3>1
  <2> QED BY <2>1, <2>3, <2>4, <2>5 DEF CallsOfTheirTurn
<1>4. ASSUME NEW t \in Turns, NEW r \in Requests, CompleteTool(t, r) PROVE CallsOfTheirTurn'
  BY <1>4, SMT DEF CallsOfTheirTurn, CompleteTool, channelVars, fenceVars, TypeOK, Live
<1>5. ASSUME NEW t \in Turns, RequestCompaction(t) PROVE CallsOfTheirTurn'
  BY <1>5, SMT
  DEF CallsOfTheirTurn, RequestCompaction, fenceVars, TypeOK, Live, InterruptedCalls
<1>6. ASSUME NEW t \in Turns, BeginCompletionFence(t) PROVE CallsOfTheirTurn'
  BY <1>6, SMT
  DEF CallsOfTheirTurn, BeginCompletionFence, channelVars, toolVars, mcpVars, TypeOK,
      Live
<1>7. ASSUME NEW t \in Turns, CommitCompletionFence(t) PROVE CallsOfTheirTurn'
  BY <1>7, SMT DEF CallsOfTheirTurn, CommitCompletionFence, toolVars, mcpVars, TypeOK, Live
<1>8. ASSUME NEW r \in Requests, ClaimStep(r) PROVE CallsOfTheirTurn'
  BY <1>8, SMT DEF CallsOfTheirTurn, ClaimStep, GrantClaim, TypeOK, Live
<1>9. ASSUME NEW r \in Requests, BrokerInvoke(r) PROVE CallsOfTheirTurn'
  <2>1. UNCHANGED <<target, mcp, committed, status>>
    BY <1>9 DEF BrokerInvoke
  <2>2. ASSUME NEW t \in Turns, NEW q \in invocations'[t]
        PROVE  target[q] = t /\ invoke'[q] \in {"pending", "acknowledged"}
    <3>1. CASE q # r
      <4>1. q \in invocations[t] /\ q \in Requests
        <5>1. \/ invocations' = invocations
              \/ invocations' = [invocations EXCEPT ![target[r]] = @ \cup {r}]
          BY <1>9, Zenon DEF BrokerInvoke
        <5>2. invocations'[t] \subseteq invocations[t] \cup {r}
          BY <5>1 DEF TypeOK
        <5> QED BY <2>2, <3>1, <5>2 DEF TypeOK
      <4>2. invoke'[q] = invoke[q]
        BY <1>9, <3>1, <4>1 DEF BrokerInvoke, TypeOK
      <4> QED BY <4>1, <4>2 DEF CallsOfTheirTurn
    <3>2. CASE q = r
      <4>1. r \notin invocations[t]
        BY <1>9 DEF BrokerInvoke, CallsOfTheirTurn
      <4> QED BY <1>9, <3>2, <4>1, SMTT(20) DEF BrokerInvoke, TypeOK, Live
    <3> QED BY <3>1, <3>2
  <2> QED BY <2>1, <2>2 DEF CallsOfTheirTurn
<1>10. ASSUME NEW r \in Requests, BrokerSettle(r) PROVE CallsOfTheirTurn'
  BY <1>10, SMT
  DEF CallsOfTheirTurn, BrokerSettle, toolVars, fenceVars, TypeOK,
      Live
<1>11. ASSUME NEW r \in Requests, McpStep(r) PROVE CallsOfTheirTurn'
  <2>1. ASSUME NEW t \in Turns, McpStart(r, t) PROVE CallsOfTheirTurn'
    BY <2>1, Absent, SMT
    DEF CallsOfTheirTurn, McpStart, brokerUnchanged, channelVars, toolVars, fenceVars,
        TypeOK, Live, ReleaseBeforeSettle, Unsettled
  <2>2. CASE McpClaimed(r)
    BY <2>2, Absent, SMT
    DEF CallsOfTheirTurn, McpClaimed, brokerUnchanged, channelVars, toolVars,
        fenceVars, TypeOK, Live, ReleaseBeforeSettle, Unsettled
  <2>3. CASE McpClaimFails(r)
    BY <2>3, Absent, SMT
    DEF CallsOfTheirTurn, McpClaimFails, StartSettling, brokerUnchanged, channelVars,
        toolVars, fenceVars, TypeOK, Live, ReleaseBeforeSettle, Unsettled
  <2>4. CASE McpLocalResult(r)
    BY <2>4, Absent, SMT
    DEF CallsOfTheirTurn, McpLocalResult, StartSettling, brokerUnchanged, channelVars,
        toolVars, fenceVars, TypeOK, Live, ReleaseBeforeSettle, Unsettled
  <2>5. CASE McpInvoke(r)
    BY <2>5, Absent, SMT
    DEF CallsOfTheirTurn, McpInvoke, brokerUnchanged, channelVars, toolVars, fenceVars,
        TypeOK, Live, ReleaseBeforeSettle, Unsettled
  <2>6. CASE McpInvokeReturns(r)
    BY <2>6, Absent, SMT
    DEF CallsOfTheirTurn, McpInvokeReturns, StartSettling, brokerUnchanged,
        channelVars, toolVars, fenceVars, TypeOK, Live, ReleaseBeforeSettle, Unsettled
  <2>7. CASE McpInvokeFails(r)
    BY <2>7, Absent, SMT
    DEF CallsOfTheirTurn, McpInvokeFails, brokerUnchanged, channelVars, toolVars,
        fenceVars, TypeOK, Live, ReleaseBeforeSettle, Unsettled
  <2>8. CASE McpReleaseReturns(r)
    BY <2>8, Absent, SMT
    DEF CallsOfTheirTurn, McpReleaseReturns, StartSettling, brokerUnchanged,
        channelVars, toolVars, fenceVars, TypeOK, Live, ReleaseBeforeSettle, Unsettled
  <2>9. CASE McpDone(r)
    BY <2>9, Absent, SMT
    DEF CallsOfTheirTurn, McpDone, brokerUnchanged, channelVars, toolVars, fenceVars,
        TypeOK, Live, ReleaseBeforeSettle, Unsettled
  <2>10. CASE McpCrash(r)
    BY <2>10, Absent, SMT
    DEF CallsOfTheirTurn, McpCrash, brokerUnchanged, channelVars, toolVars, fenceVars,
        TypeOK, Live, ReleaseBeforeSettle, Unsettled
  <2> QED BY <1>11, <2>1, <2>2, <2>3, <2>4, <2>5, <2>6, <2>7, <2>8, <2>9, <2>10, Zenon
  DEF McpStep
<1>12. ASSUME NEW q0 \in Requests, ReleaseIgnored(q0) PROVE CallsOfTheirTurn'
  BY <1>12, SMT DEF CallsOfTheirTurn, ReleaseIgnored, TypeOK, Live
<1> QED
  BY Steps, <1>1, <1>2, <1>3, <1>4, <1>5, <1>6, <1>7, <1>8, <1>9, <1>10, <1>11, <1>12, Zenon

\* Every settlement moves the revision past each candidate taken before.
LEMMA FenceOrderStep ==
  ASSUME IInv, [Next]_vars PROVE FenceOrder'
<1> USE DEF IInv
<1>1. ASSUME UNCHANGED tracked PROVE FenceOrder'
  BY <1>1, SMT DEF FenceOrder, tracked, TypeOK
<1>2. ASSUME NEW t \in Turns, NEW bounded \in BOOLEAN, Register(t, bounded)
      PROVE FenceOrder'
  BY <1>2, SMT DEF FenceOrder, Register, toolVars, fenceVars, mcpVars, TypeOK
<1>3. ASSUME NEW S \in SUBSET Turns, Retires(S) PROVE FenceOrder'
  BY <1>3, SMT DEF FenceOrder, Retires, RevokeSet, TypeOK
<1>4. ASSUME NEW t \in Turns, NEW r \in Requests, CompleteTool(t, r) PROVE FenceOrder'
  BY <1>4, SMT DEF FenceOrder, CompleteTool, channelVars, fenceVars, TypeOK
<1>5. ASSUME NEW t \in Turns, RequestCompaction(t) PROVE FenceOrder'
  BY <1>5, SMT DEF FenceOrder, RequestCompaction, fenceVars, TypeOK
<1>6. ASSUME NEW t \in Turns, BeginCompletionFence(t) PROVE FenceOrder'
  BY <1>6, SMT DEF FenceOrder, BeginCompletionFence, channelVars, toolVars, mcpVars, TypeOK
<1>7. ASSUME NEW t \in Turns, CommitCompletionFence(t) PROVE FenceOrder'
  BY <1>7, SMT DEF FenceOrder, CommitCompletionFence, toolVars, mcpVars, TypeOK
<1>8. ASSUME NEW r \in Requests, ClaimStep(r) PROVE FenceOrder'
  <2> DEFINE t == target[r]
  <2> SUFFICES ASSUME NEW u \in Turns, fence[u] # NoRevision
               PROVE  /\ fence[u] <= revision'[u]
                      /\ fence[u] = revision'[u] => fenceSeen[u] = completedActivities[u]
    BY <1>8 DEF FenceOrder, ClaimStep
  <2>1. fence[u] \in Nat /\ revision[u] \in Nat
    BY DEF TypeOK
  <2>2. CASE UNCHANGED revision
    BY <2>1, <2>2 DEF FenceOrder
  <2>3. CASE GrantClaim(r, t)
    <3>1. revision'[u] \in {revision[u], revision[u] + 1}
      BY <2>1, <2>3 DEF GrantClaim, TypeOK
    <3> QED BY <2>1, <3>1 DEF FenceOrder
  <2> QED BY <1>8, <2>2, <2>3, Zenon DEF ClaimStep
<1>9. ASSUME NEW r \in Requests, BrokerInvoke(r) PROVE FenceOrder'
  BY <1>9, SMT DEF FenceOrder, BrokerInvoke, fenceVars, TypeOK
<1>10. ASSUME NEW r \in Requests, BrokerSettle(r) PROVE FenceOrder'
  BY <1>10, SMT DEF FenceOrder, BrokerSettle, toolVars, fenceVars, TypeOK
<1>11. ASSUME NEW r \in Requests, McpStep(r) PROVE FenceOrder'
  BY <1>11, SMT
  DEF FenceOrder, McpStep, McpStart, McpClaimed, McpClaimFails, McpLocalResult,
      McpInvoke, McpInvokeReturns, McpInvokeFails, McpReleaseReturns, McpDone,
      McpCrash, StartSettling, brokerUnchanged, channelVars, toolVars, fenceVars,
      TypeOK
<1>12. ASSUME NEW q0 \in Requests, ReleaseIgnored(q0) PROVE FenceOrder'
  BY <1>12, SMT DEF FenceOrder, ReleaseIgnored, TypeOK
<1> QED
  BY Steps, <1>1, <1>2, <1>3, <1>4, <1>5, <1>6, <1>7, <1>8, <1>9, <1>10, <1>11, <1>12, Zenon

\* No step gives a settled request a lease.
LEMMA NoResurrectionStep ==
  ASSUME IInv, [Next]_vars PROVE NoResurrection'
<1> USE DEF IInv
<1>1. ASSUME UNCHANGED tracked PROVE NoResurrection'
  BY <1>1, SMT DEF NoResurrection, tracked, TypeOK, ClaimGranted
<1>2. ASSUME NEW t \in Turns, NEW bounded \in BOOLEAN, Register(t, bounded)
      PROVE NoResurrection'
  BY <1>2, SMT
  DEF NoResurrection, Register, toolVars, fenceVars, mcpVars, TypeOK, ClaimGranted
<1>3. ASSUME NEW S \in SUBSET Turns, Retires(S) PROVE NoResurrection'
  BY <1>3, SMT DEF NoResurrection, Retires, RevokeSet, TypeOK, ClaimGranted
<1>4. ASSUME NEW t \in Turns, NEW r \in Requests, CompleteTool(t, r) PROVE NoResurrection'
  BY <1>4, SMT
  DEF NoResurrection, CompleteTool, channelVars, fenceVars, TypeOK, ClaimGranted
<1>5. ASSUME NEW t \in Turns, RequestCompaction(t) PROVE NoResurrection'
  BY <1>5, SMT DEF NoResurrection, RequestCompaction, fenceVars, TypeOK, ClaimGranted
<1>6. ASSUME NEW t \in Turns, BeginCompletionFence(t) PROVE NoResurrection'
  BY <1>6, SMT
  DEF NoResurrection, BeginCompletionFence, channelVars, toolVars, mcpVars, TypeOK,
      ClaimGranted
<1>7. ASSUME NEW t \in Turns, CommitCompletionFence(t) PROVE NoResurrection'
  BY <1>7, SMT
  DEF NoResurrection, CommitCompletionFence, toolVars, mcpVars, TypeOK, ClaimGranted
<1>8. ASSUME NEW r \in Requests, ClaimStep(r) PROVE NoResurrection'
  BY <1>8, SMTT(30) DEF NoResurrection, ClaimStep, GrantClaim, TypeOK, ClaimGranted
<1>9. ASSUME NEW r \in Requests, BrokerInvoke(r) PROVE NoResurrection'
  BY <1>9, SMT DEF NoResurrection, BrokerInvoke, fenceVars, TypeOK, ClaimGranted
<1>10. ASSUME NEW r \in Requests, BrokerSettle(r) PROVE NoResurrection'
  BY <1>10, SMT
  DEF NoResurrection, BrokerSettle, toolVars, fenceVars, TypeOK,
      ClaimGranted
<1>11. ASSUME NEW r \in Requests, McpStep(r) PROVE NoResurrection'
  BY <1>11, SMT
  DEF NoResurrection, McpStep, McpStart, McpClaimed, McpClaimFails, McpLocalResult,
      McpInvoke, McpInvokeReturns, McpInvokeFails, McpReleaseReturns, McpDone,
      McpCrash, StartSettling, brokerUnchanged, channelVars, toolVars, fenceVars,
      TypeOK, ClaimGranted
<1>12. ASSUME NEW q0 \in Requests, ReleaseIgnored(q0) PROVE NoResurrection'
  BY <1>12, SMT DEF NoResurrection, ReleaseIgnored, TypeOK, ClaimGranted
<1> QED
  BY Steps, <1>1, <1>2, <1>3, <1>4, <1>5, <1>6, <1>7, <1>8, <1>9, <1>10, <1>11, <1>12, Zenon

\* No step brings work into a committed turn, but calls already abandoned.
LEMMA FenceSoundStep ==
  ASSUME IInv, [Next]_vars PROVE FenceSound'
<1> USE DEF IInv
<1>1. ASSUME UNCHANGED tracked PROVE FenceSound'
  BY <1>1, SMT DEF FenceSound, tracked, TypeOK, Live, Active, FenceHolds, Quiet, Unsettled
<1>2. ASSUME NEW t \in Turns, NEW bounded \in BOOLEAN, Register(t, bounded)
      PROVE FenceSound'
  BY <1>2, SMT
  DEF FenceSound, Register, toolVars, fenceVars, mcpVars, TypeOK, Live, Active,
      FenceHolds, Quiet, Unsettled, CallsOfTheirTurn
<1>3. ASSUME NEW S \in SUBSET Turns, Retires(S) PROVE FenceSound'
  BY <1>3, SMT
  DEF FenceSound, Retires, RevokeSet, TypeOK, Live, Active, FenceHolds, Quiet,
      Unsettled
<1>4. ASSUME NEW t \in Turns, NEW r \in Requests, CompleteTool(t, r) PROVE FenceSound'
  BY <1>4, SMT
  DEF FenceSound, CompleteTool, channelVars, fenceVars, TypeOK, Live, Active,
      FenceHolds, Quiet, Unsettled
<1>5. ASSUME NEW t \in Turns, RequestCompaction(t) PROVE FenceSound'
  BY <1>5, SMT
  DEF FenceSound, RequestCompaction, fenceVars, TypeOK, Live, Active, FenceHolds,
      Quiet, Unsettled
<1>6. ASSUME NEW t \in Turns, BeginCompletionFence(t) PROVE FenceSound'
  BY <1>6, SMT
  DEF FenceSound, BeginCompletionFence, channelVars, toolVars, mcpVars, TypeOK, Live,
      Active, FenceHolds, Quiet, Unsettled
<1>7. ASSUME NEW t \in Turns, CommitCompletionFence(t) PROVE FenceSound'
  BY <1>7, SMT
  DEF FenceSound, CommitCompletionFence, toolVars, mcpVars, TypeOK, Live, Active,
      FenceHolds, Quiet, Unsettled
<1>8. ASSUME NEW r \in Requests, ClaimStep(r) PROVE FenceSound'
  BY <1>8, SMTT(30)
  DEF FenceSound, ClaimStep, GrantClaim, TypeOK, Live, Active, FenceHolds, Quiet,
      Unsettled
<1>9. ASSUME NEW r \in Requests, BrokerInvoke(r) PROVE FenceSound'
  <2>1. UNCHANGED <<activities, committed, status, release>>
    BY <1>9 DEF BrokerInvoke, channelVars
  <2> SUFFICES ASSUME NEW t \in Turns, Live(t), committed[t], NEW q \in invocations'[t]
               PROVE  release[q] # "none"
    BY <2>1 DEF FenceSound, Live
  <2>2. CASE q \in invocations[t]
    BY <2>2 DEF FenceSound
  <2>3. CASE q \notin invocations[t]
    <3>1. q = r /\ target[r] = t /\ invoke[r] = "sent"
      BY <1>9, <2>3 DEF BrokerInvoke, TypeOK
    <3>2. claim[r] = "ok"
      BY <3>1 DEF ReleaseBeforeSettle
    <3>3. ~Unsettled(r)
      BY <3>1, <3>2 DEF FenceSound, LeaseCoversHandler
    <3> QED BY <3>1, <3>3 DEF ReleaseBeforeSettle
  <2> QED BY <2>2, <2>3
<1>10. ASSUME NEW r \in Requests, BrokerSettle(r) PROVE FenceSound'
  BY <1>10, SMT
  DEF FenceSound, BrokerSettle, toolVars, fenceVars, TypeOK, Live,
      Active, FenceHolds, Quiet, Unsettled
<1>11. ASSUME NEW r \in Requests, McpStep(r) PROVE FenceSound'
  BY <1>11, SMT
  DEF FenceSound, McpStep, McpStart, McpClaimed, McpClaimFails, McpLocalResult,
      McpInvoke, McpInvokeReturns, McpInvokeFails, McpReleaseReturns, McpDone,
      McpCrash, StartSettling, brokerUnchanged, channelVars, toolVars, fenceVars,
      TypeOK, Live, Active, FenceHolds, Quiet, Unsettled
<1>12. ASSUME NEW q0 \in Requests, ReleaseIgnored(q0) PROVE FenceSound'
  BY <1>12, SMT
  DEF FenceSound, ReleaseIgnored, TypeOK, Live, Active, FenceHolds, Quiet, Unsettled
<1> QED
  BY Steps, <1>1, <1>2, <1>3, <1>4, <1>5, <1>6, <1>7, <1>8, <1>9, <1>10, <1>11, <1>12, Zenon

\* The initial state satisfies the invariant.
LEMMA IInvInit == Init => IInv
<1> SUFFICES ASSUME Init PROVE IInv
  OBVIOUS
<1>1. TypeOK
  BY TypeInit
<1>2. LeaseCoversHandler /\ TombstonesBySettlers /\ ReleaseBeforeSettle
  BY SMT
  DEF Init, LeaseCoversHandler, TombstonesBySettlers, ReleaseBeforeSettle, Live,
      Unsettled
<1>3. CallsOfTheirTurn /\ FenceOrder /\ NoResurrection /\ FenceSound
  BY SMT DEF Init, CallsOfTheirTurn, FenceOrder, NoResurrection, FenceSound, Live
<1> QED BY <1>1, <1>2, <1>3 DEF IInv

\* Every step keeps the invariant.
LEMMA IInvNext == IInv /\ [Next]_vars => IInv'
<1> SUFFICES ASSUME IInv, [Next]_vars PROVE IInv'
  OBVIOUS
<1>1. TypeOK'
  BY TypeNext DEF IInv
<1> QED
  BY <1>1, LeaseCoversHandlerStep, TombstonesBySettlersStep, ReleaseBeforeSettleStep,
     CallsOfTheirTurnStep, FenceOrderStep, NoResurrectionStep, FenceSoundStep DEF IInv

\* Leases, cleanup frames, releases, calls and the fence stay consistent
\* between the broker and the MCP handlers, whatever order the frames arrive in.
THEOREM Consistent == Spec => []IInv
  BY IInvInit, IInvNext, PTL DEF Spec

\* A committed completion is never followed by MCP work of a handler that
\* still listens.
THEOREM FenceIsSound == Spec => []FenceSound
<1>1. IInv => FenceSound
  BY DEF IInv
<1> QED BY <1>1, Consistent, PTL

\* No claim frame, however late, revives a lease that was settled.
THEOREM NoLeaseRevived == Spec => []NoResurrection
<1>1. IInv => NoResurrection
  BY DEF IInv
<1> QED BY <1>1, Consistent, PTL

\* A batch is taken by an observer whole, or not at all.
LEMMA TakeOrParkKeeps ==
  ASSUME TypeOK, NothingLost, NEW o, NEW u \in Turns, TakeOrPark(o, u), UNCHANGED invocations
  PROVE  NothingLost'
BY SMT DEF TakeOrPark, TakeQueued, NothingLost, TypeOK

\* No step loses a call that waits for its result, or has it answered twice.
LEMMA NothingLostStep ==
  ASSUME IInv, NothingLost, [Next]_vars PROVE NothingLost'
<1> USE DEF IInv
<1>1. ASSUME UNCHANGED <<invocations, queued, delivered>> PROVE NothingLost'
  BY <1>1 DEF NothingLost
<1>2. ASSUME NEW t \in Turns, NEW r \in Requests, CompleteTool(t, r) PROVE NothingLost'
  BY <1>2, SMT DEF NothingLost, CompleteTool, TypeOK
<1>3. ASSUME NEW t \in Turns, RequestCompaction(t) PROVE NothingLost'
  BY <1>3, SMT DEF NothingLost, RequestCompaction, InterruptedCalls, TypeOK
<1>4. ASSUME NEW S, RevokeSet(S) PROVE NothingLost'
  BY <1>4, SMT DEF NothingLost, RevokeSet, TypeOK
<1>5. ASSUME NEW r \in Requests, BrokerInvoke(r) PROVE NothingLost'
  <2>1. \A t \in Turns : r \notin invocations[t]
    BY <1>5 DEF BrokerInvoke, CallsOfTheirTurn
  <2>2. delivered' = delivered
    BY <1>5 DEF BrokerInvoke
  <2>3. \/ UNCHANGED <<invocations, queued>>
        \/ /\ invocations' = [invocations EXCEPT ![target[r]] = @ \cup {r}]
           /\ queued' = [queued EXCEPT ![target[r]] = @ \cup {r}]
    BY <1>5 DEF BrokerInvoke
  <2> SUFFICES ASSUME NEW t \in Turns
               PROVE  /\ invocations'[t] = queued'[t] \cup delivered'[t]
                      /\ queued'[t] \cap delivered'[t] = {}
    BY DEF NothingLost
  <2>4. /\ invocations[t] = queued[t] \cup delivered[t]
        /\ queued[t] \cap delivered[t] = {}
    BY DEF NothingLost
  <2>5. \/ invocations'[t] = invocations[t] /\ queued'[t] = queued[t]
        \/ /\ invocations'[t] = invocations[t] \cup {r}
           /\ queued'[t] = queued[t] \cup {r}
    BY <2>3, SMT DEF TypeOK
  <2> QED BY <2>1, <2>2, <2>4, <2>5
<1>6. ASSUME NEW o \in Observers, NEW t \in Turns, NextToolBatch(o, t) \/ NextToolBatchStarted(o, t)
      PROVE NothingLost'
  <2>1. UNCHANGED invocations
    BY <1>6 DEF NextToolBatch, NextToolBatchStarted
  <2>2. CASE TakeOrPark(o, t)
    BY <2>1, <2>2, TakeOrParkKeeps
  <2>3. CASE UNCHANGED <<queued, delivered>>
    BY <1>1, <2>1, <2>3
  <2> QED BY <1>6, <2>2, <2>3 DEF NextToolBatch, NextToolBatchStarted
<1>7. ASSUME NEW t \in Turns, BatchTimer(t) PROVE NothingLost'
  <2>1. UNCHANGED invocations
    BY <1>7 DEF BatchTimer
  <2>2. CASE UNCHANGED <<queued, delivered>>
    BY <1>1, <2>1, <2>2
  <2>3. CASE TakeQueued(t)
    BY <2>1, <2>3, SMT DEF TakeQueued, NothingLost, TypeOK
  <2> QED BY <1>7, <2>2, <2>3 DEF BatchTimer
<1>8. ASSUME NEW r \in Requests, BrokerRelease(r) PROVE NothingLost'
  BY <1>1, <1>4, <1>8 DEF BrokerRelease, toolVars
<1>9. CASE OwnerStep
  BY <1>1, <1>2, <1>3, <1>4, <1>9, Zenon
  DEF OwnerStep, Register, Revoke, Expire, SetExternalOwnersAccepted, RevokeExternalOwners, Close,
      BeginCompletionFence, CommitCompletionFence, toolVars
<1>10. CASE ObserverStep
  BY <1>1, <1>6, <1>7, <1>10, Zenon DEF ObserverStep, AbortObserver, toolVars
<1>11. CASE SafeStep
  BY <1>1, <1>11
  DEF SafeStep, ConfirmSafeTurnSent, StartSafeTurn, CompleteSafeTurn, safeStartUnchanged, toolVars
<1>12. ASSUME NEW r \in Requests, BrokerStep(r) PROVE NothingLost'
  BY <1>1, <1>5, <1>8, <1>12
  DEF BrokerStep, BrokerClaim, BrokerClaimResumes, BrokerClaimDropped, claimUnchanged, BrokerSettle,
      toolVars
<1>13. ASSUME NEW r \in Requests, McpStep(r) PROVE NothingLost'
  BY <1>1, <1>13
  DEF McpStep, McpStart, McpClaimed, McpClaimFails, McpLocalResult, McpInvoke, McpInvokeReturns,
      McpInvokeFails, McpReleaseReturns, McpDone, McpCrash, brokerUnchanged, toolVars
<1>14. CASE UNCHANGED vars
  BY <1>1, <1>14 DEF vars, toolVars
<1> QED
  BY <1>9, <1>10, <1>11, <1>12, <1>13, <1>14, Zenon DEF Next

\* Every call that waits for its result is queued for an observer or was delivered to one,
\* and never both (TurnBroker.takeQueued, completeTool, requestCompaction, rejectChannel).
THEOREM NoCallLost == Spec => []NothingLost
<1>1. Init => NothingLost
  BY SMT DEF Init, NothingLost
<1>2. IInv /\ NothingLost /\ [Next]_vars => NothingLost'
  BY NothingLostStep
<1> QED BY <1>1, <1>2, Consistent, PTL DEF Spec

\* A completion commits on exactly the work its candidate saw.
THEOREM CommitSeesAllWork == Spec => FenceMissesNoWork
<1> DEFINE Committing ==
      \A t \in Turns :
        ~committed[t] /\ committed'[t] => completedActivities[t] = fenceSeen[t]
<1>1. IInv /\ [Next]_vars => Committing
  <2> SUFFICES ASSUME IInv, [Next]_vars,
                      NEW t \in Turns, ~committed[t], committed'[t]
               PROVE  completedActivities[t] = fenceSeen[t]
    OBVIOUS
  <2>1. PICK u \in Turns : CommitCompletionFence(u)
    <3>1. committed' # committed
      OBVIOUS
    <3> QED BY <3>1, Steps, Zenon
      DEF IInv, tracked, Register, Retires, CompleteTool, RequestCompaction,
          BeginCompletionFence, ClaimStep, BrokerInvoke, BrokerSettle, McpStep, McpStart,
          McpClaimed, McpClaimFails, McpLocalResult, McpInvoke, McpInvokeReturns,
          McpInvokeFails, McpReleaseReturns, McpDone, McpCrash, ReleaseIgnored,
          brokerUnchanged, channelVars
  <2>2. u = t
    BY <2>1 DEF CommitCompletionFence, IInv, TypeOK
  <2>3. fence[t] # NoRevision /\ FenceHolds(t)
    BY <2>1, <2>2 DEF CommitCompletionFence, IInv, TypeOK
  <2> QED BY <2>3 DEF FenceHolds, IInv, FenceOrder
<1>2. Spec => [][Committing]_vars
  BY <1>1, Consistent, PTL DEF Spec
<1> QED BY <1>2 DEF FenceMissesNoWork

-----------------------------------------------------------------------------
(* Refinement: the broker implements TurnLease.                            *)

\* Initial states map to initial states of the abstract specification.
LEMMA LeaseInit == Init => Lease!Init
  BY SMT DEF Init, Lease!Init, phase, candidate, Live

\* What a step that keeps the leases and the fence does to the abstract state.
LEMMA LeaseStutter ==
  ASSUME UNCHANGED <<status, activities, completedActivities, committed, fence, fenceSeen>>
  PROVE  UNCHANGED Lease!vars
  BY SMT DEF Lease!vars, phase, candidate, Live

\* Every step of the broker is a step of the abstract specification, or none.
LEMMA LeaseNext == IInv /\ [Next]_vars => [Lease!Next]_(Lease!vars)
<1> SUFFICES ASSUME IInv, [Next]_vars
             PROVE  Lease!Next \/ UNCHANGED Lease!vars
  OBVIOUS
<1>1. ASSUME NEW t \in Turns, NEW bounded \in BOOLEAN, Register(t, bounded)
      PROVE  Lease!Next
  <2>1. Lease!Open(t)
    <3>1. UNCHANGED <<activities, completedActivities, committed, fence, fenceSeen>>
      BY <1>1 DEF Register, fenceVars
    <3>2. status[t] = "absent" /\ status' = [status EXCEPT ![t] = "live"] /\ ~committed[t]
      BY <1>1 DEF Register, IInv, CallsOfTheirTurn
    <3>3. phase[t] = "absent" /\ phase' = [phase EXCEPT ![t] = "open"]
      BY <3>1, <3>2 DEF phase, Live, IInv, TypeOK
    <3> QED BY <3>1, <3>3 DEF Lease!Open, candidate
  <2> QED BY <2>1 DEF Lease!Next
<1>2. ASSUME NEW S \in SUBSET Turns, Retires(S)
      PROVE  Lease!Next
  <2>1. Lease!Retire(S)
    <3>1. UNCHANGED <<activities, completedActivities, committed, fence, fenceSeen>>
      BY <1>2 DEF Retires
    <3>2. status' = [t \in Turns |-> IF t \in S THEN "retired" ELSE status[t]]
      BY <1>2 DEF Retires, RevokeSet
    <3>3. phase' = [t \in Turns |-> IF t \in S THEN "retired" ELSE phase[t]]
      BY <3>1, <3>2 DEF phase, Live
    <3>4. \A t \in S : Lease!Usable(t)
      BY <1>2 DEF Retires, Lease!Usable, phase, Live
    <3> QED BY <3>1, <3>3, <3>4 DEF Lease!Retire, candidate
  <2> QED BY <2>1 DEF Lease!Next
<1>3. ASSUME NEW t \in Turns, BeginCompletionFence(t)
      PROVE  Lease!Next
  <2>1. Lease!Propose(t)
    <3>1. UNCHANGED <<status, activities, completedActivities, committed>>
      BY <1>3 DEF BeginCompletionFence, channelVars
    <3>2. phase[t] = "open" /\ activities[t] = {}
      BY <1>3 DEF BeginCompletionFence, phase, Quiet
    <3>3. revision[t] \in Nat /\ revision[t] # NoRevision
      BY Absent DEF IInv, TypeOK
    <3>4. candidate' = [candidate EXCEPT ![t] = {completedActivities[t]}]
      BY <1>3, <3>3 DEF BeginCompletionFence, candidate, IInv, TypeOK
    <3>5. UNCHANGED phase
      BY <3>1 DEF phase, Live
    <3> QED BY <3>1, <3>2, <3>4, <3>5 DEF Lease!Propose
  <2> QED BY <2>1 DEF Lease!Next
<1>4. ASSUME NEW t \in Turns, CommitCompletionFence(t)
      PROVE  Lease!Next
  <2>1. UNCHANGED <<status, activities, completedActivities, fenceSeen>>
    BY <1>4 DEF CommitCompletionFence
  <2>2. Live(t) /\ phase[t] = "open"
    BY <1>4 DEF CommitCompletionFence, phase
  <2>3. CASE FenceHolds(t)
    <3>1. UNCHANGED fence /\ committed' = [committed EXCEPT ![t] = TRUE]
      BY <1>4, <2>3 DEF CommitCompletionFence, IInv, TypeOK
    <3>2. candidate[t] = {completedActivities[t]} /\ activities[t] = {}
      BY <1>4, <2>3
      DEF CommitCompletionFence, FenceHolds, Quiet, candidate, IInv, FenceOrder
    <3>3. phase' = [phase EXCEPT ![t] = "committed"]
      BY <2>1, <2>2, <3>1 DEF phase, Live, IInv, TypeOK
    <3>4. Lease!Commit(t)
      BY <2>1, <2>2, <3>1, <3>2, <3>3 DEF Lease!Commit, candidate
    <3> QED BY <3>4 DEF Lease!Next
  <2>4. CASE ~FenceHolds(t)
    <3>1. UNCHANGED committed /\ fence' = [fence EXCEPT ![t] = NoRevision]
      <4>1. FenceHolds(t) = FALSE
        BY <2>4 DEF FenceHolds, Quiet
      <4>2. committed' = [committed EXCEPT ![t] = FALSE] /\ committed[t] = FALSE
        BY <1>4, <4>1 DEF CommitCompletionFence, IInv, TypeOK
      <4>3. UNCHANGED committed
        BY <4>2 DEF IInv, TypeOK
      <4> QED BY <1>4, <2>4, <4>3 DEF CommitCompletionFence
    <3>2. candidate' = [candidate EXCEPT ![t] = {}]
      BY <2>1, <3>1 DEF candidate, IInv, TypeOK
    <3>3. UNCHANGED phase
      BY <2>1, <3>1 DEF phase, Live
    <3>4. Lease!Withdraw(t)
      BY <2>1, <2>2, <3>2, <3>3 DEF Lease!Withdraw
    <3> QED BY <3>4 DEF Lease!Next
  <2> QED BY <2>3, <2>4
<1>5. ASSUME NEW r \in Requests, ClaimStep(r)
      PROVE  Lease!Next \/ UNCHANGED Lease!vars
  <2>1. CASE UNCHANGED activities
    BY <1>5, <2>1, LeaseStutter DEF ClaimStep
  <2>2. CASE activities' # activities
    <3> DEFINE t == target[r]
    <3>1. t \in Turns /\ phase[t] = "open" /\ r \notin completedActivities[t]
      BY <1>5, <2>2 DEF ClaimStep, phase, Live
    <3>2. activities' = [activities EXCEPT ![t] = @ \cup {r}]
      BY <1>5, <2>2 DEF ClaimStep, GrantClaim
    <3>3. UNCHANGED <<phase, candidate, completedActivities>>
      BY <1>5 DEF ClaimStep, phase, candidate, Live
    <3>4. Lease!Acquire(t, r)
      BY <3>1, <3>2, <3>3 DEF Lease!Acquire
    <3> QED BY <3>1, <3>4 DEF Lease!Next
  <2> QED BY <2>1, <2>2
<1>6. ASSUME NEW r \in Requests, BrokerSettle(r)
      PROVE  Lease!Next \/ UNCHANGED Lease!vars
  <2> DEFINE t == target[r]
  <2>1. UNCHANGED <<status, committed, fence, fenceSeen>>
    BY <1>6 DEF BrokerSettle, fenceVars
  <2>2. CASE Live(t) /\ r \notin completedActivities[t]
    <3>1. /\ activities' = [activities EXCEPT ![t] = @ \ {r}]
          /\ completedActivities' = [completedActivities EXCEPT ![t] = @ \cup {r}]
      BY <1>6, <2>2, Zenon DEF BrokerSettle
    <3>2. UNCHANGED <<phase, candidate>>
      BY <2>1 DEF phase, candidate, Live
    <3>3. t \in Turns /\ Lease!Usable(t)
      BY <2>2 DEF Lease!Usable, phase, Live
    <3>4. Lease!End(t, r)
      BY <3>1, <3>2, <3>3 DEF Lease!End
    <3> QED BY <3>3, <3>4 DEF Lease!Next
  <2>3. CASE ~(Live(t) /\ r \notin completedActivities[t])
    <3>1. UNCHANGED <<activities, completedActivities>>
      BY <1>6, <2>3, Zenon DEF BrokerSettle
    <3> QED BY <2>1, <3>1, LeaseStutter
  <2> QED BY <2>2, <2>3
<1>7. ASSUME NEW t \in Turns,
             RequestCompaction(t) \/ \E r \in Requests : CompleteTool(t, r)
      PROVE  UNCHANGED Lease!vars
  BY <1>7, LeaseStutter DEF RequestCompaction, CompleteTool, channelVars, fenceVars
<1>8. ASSUME NEW r \in Requests, BrokerInvoke(r) \/ ReleaseIgnored(r)
      PROVE  UNCHANGED Lease!vars
  BY <1>8, LeaseStutter DEF BrokerInvoke, ReleaseIgnored, channelVars, fenceVars
<1>9. ASSUME NEW r \in Requests, McpStep(r)
      PROVE  UNCHANGED Lease!vars
  BY <1>9, LeaseStutter
  DEF McpStep, McpStart, McpClaimed, McpClaimFails, McpLocalResult, McpInvoke,
      McpInvokeReturns, McpInvokeFails, McpReleaseReturns, McpDone, McpCrash,
      brokerUnchanged, channelVars, fenceVars
<1>10. CASE UNCHANGED tracked
  BY <1>10, LeaseStutter DEF tracked
<1> QED
  BY Steps, <1>1, <1>2, <1>3, <1>4, <1>5, <1>6, <1>7, <1>8, <1>9, <1>10, Zenon DEF IInv

\* The broker keeps the promise of TurnLease: the revision it compares does
\* the work of comparing whole histories.
THEOREM ImplementsTurnLease == Spec => LeaseSpec
<1>1. Spec => Lease!Spec
  BY LeaseInit, LeaseNext, Consistent, PTL DEF Spec, Lease!Spec
<1> QED BY <1>1 DEF LeaseSpec

-----------------------------------------------------------------------------
(***************************************************************************)
(* Zero Risk turns (ManualTurns).  A page goes on, gets its prompt, is     *)
(* left or goes (Goes); it is opened or taken over by a turn (Opens); or   *)
(* it is kept for the next one (KeepsPage).  Every action is one of these, *)
(* or the next daemon's start.                                             *)
(***************************************************************************)

TabRecords ==
  [turn : ManualTurn, key : {KeyOfTurn(t) : t \in ManualTurn} \cup {NoKey}, pid : Helper,
   status : {"running", "ready", "error"}, state : TabStates,
   reused : BOOLEAN, armed : BOOLEAN, posted : BOOLEAN, closing : BOOLEAN,
   strayed : BOOLEAN, knows : SUBSET ManualTurn]
TurnRecords == [at : ManualPlaces, tries : 0 .. 2, aborted : BOOLEAN]

ManualTyped ==
  /\ manualTabs \in [Page -> TabRecords \cup {NoTab}]
  /\ manual \in [ManualTurn -> TurnRecords]
  /\ helper \in Helper
  /\ answered \subseteq ManualTurn

LiveStates == {"awaiting-user", "sent", "running"}
Earlier(t) == {u \in ManualTurn : u < t /\ ThreadOf[u] = ThreadOf[t]}
Epoch(answers, t) == {u \in answers \cap Earlier(t) : KeyOfTurn(u) = KeyOfTurn(t)}

\* The turns of a thread run one after another, and only a turn that worked has an answer.
OneAfterAnother ==
  /\ \A t \in ManualTurn : manual[t].at # "idle" => \A u \in Earlier(t) : manual[u].at = "over"
  /\ \A t \in answered : manual[t].at \in {"completed", "over"}

\* A tab is of a turn whose predecessors are over; one of this daemon, of a turn that began.
TabsOfTheirTurns ==
  /\ \A p \in Tabs :
       LET tab == manualTabs[p]
       IN /\ tab.pid <= helper
          /\ tab.pid = helper => manual[tab.turn].at # "idle"
          /\ \A u \in Earlier(tab.turn) : manual[u].at = "over"
          /\ tab.key \in {NoKey, KeyOfTurn(tab.turn)}
          /\ tab.state \in LiveStates => tab.status = "running"
          /\ tab.reused /\ tab.status = "running" => tab.key # NoKey
  /\ \A p, q \in Tabs : manualTabs[p].turn = manualTabs[q].turn => p = q

\* ChatGPT connects to a turn whose prompt it has.
ConnectedIsPosted ==
  \A p \in Tabs :
    /\ manualTabs[p].pid = helper /\ manualTabs[p].status = "running"
    /\ manual[manualTabs[p].turn].at \in {"marking", "working", "completed"}
    => manualTabs[p].posted

\* While a turn has a page, or had one, no other page is kept under its key.
NoneKeptBeside ==
  \A t \in Kept, p \in Tabs :
    manualTabs[p].status = "ready" /\ manualTabs[p].key = KeyOfTurn(t) =>
      /\ manual[t].at \notin {"sending", "connecting", "marking", "working"}
      /\ manual[t].at = "starting" => OwnTabs(t) = {}

\* What the conversation of a page has, as long as the page is kept under its key.
PagesKnow ==
  \A p \in Tabs :
    LET tab == manualTabs[p]
    IN ~tab.strayed =>
       /\ tab.status = "running" /\ tab.posted /\ tab.key # NoKey =>
            Epoch(answered, tab.turn) \cup {tab.turn} \subseteq tab.knows
       /\ tab.status = "running" /\ tab.reused => Epoch(answered, tab.turn) \subseteq tab.knows
       /\ tab.status = "ready" /\ tab.key # NoKey =>
            \A u \in answered : KeyOfTurn(u) = tab.key => u \in tab.knows

\* The pages are opened one after another.
PagesInOrder ==
  /\ opened \in 0 .. MaxPages
  /\ \A p \in Tabs : p <= opened

ManualIInv ==
  /\ ManualTyped
  /\ OneAfterAnother
  /\ TabsOfTheirTurns
  /\ ConnectedIsPosted
  /\ NoneKeptBeside
  /\ PagesKnow
  /\ PagesInOrder

-----------------------------------------------------------------------------
\* A key names a thread.
LEMMA Keys ==
  ASSUME NEW t \in Kept, NEW u \in ManualTurn
  PROVE  /\ t \in ManualTurn /\ KeyOfTurn(t) # NoKey
         /\ KeyOfTurn(u) = KeyOfTurn(t) => ThreadOf[u] = ThreadOf[t]
<1>1. <<ThreadOf[t], ModelOf[t]>> # << >>
  OBVIOUS
<1>2. <<ThreadOf[u], ModelOf[u]>> = <<ThreadOf[t], ModelOf[t]>> => ThreadOf[u] = ThreadOf[t]
  OBVIOUS
<1> QED
  BY <1>1, <1>2, ManualAssumption DEF KeyOfTurn, NoKey

\* The fields of a tab.
LEMMA TabFields ==
  ASSUME NEW r \in TabRecords
  PROVE  /\ r # NoTab /\ r.turn \in ManualTurn /\ r.pid \in Nat /\ r.state \in TabStates
         /\ r.status \in {"running", "ready", "error"} /\ r.knows \in SUBSET ManualTurn
         /\ r.key \in {KeyOfTurn(t) : t \in ManualTurn} \cup {NoKey}
<1>1. r.turn \in ManualTurn /\ r.pid \in Helper
  BY DEF TabRecords
<1>2. r.turn # 0 /\ r.pid \in Nat
  BY <1>1, ManualAssumption DEF ManualTurn, Helper
<1> QED
  BY <1>1, <1>2 DEF TabRecords, NoTab

\* A tab is there with its fields.
LEMMA TabThere ==
  ASSUME ManualTyped, NEW p \in Tabs
  PROVE  p \in Page /\ manualTabs[p] \in TabRecords
  BY DEF ManualTyped, Tabs

\* What becomes of a tab r that is neither opened, reused nor kept.
GoesOn(r, s) ==
  /\ s \in TabRecords /\ s.turn = r.turn /\ s.pid = r.pid /\ s.reused = r.reused
  /\ s.key = r.key /\ s.posted = r.posted /\ s.knows = r.knows /\ s.strayed = r.strayed
  /\ s.status \in {r.status, "error"}
  /\ s.state \in LiveStates => r.state \in LiveStates /\ s.status = r.status

GetsPrompt(r, s) ==
  /\ s \in TabRecords /\ s.turn = r.turn /\ s.pid = r.pid /\ s.reused = r.reused
  /\ s.key = r.key /\ s.strayed = r.strayed /\ s.status = r.status /\ s.state = r.state
  /\ s.posted /\ s.status = "running"
  /\ s.knows = {r.turn} \cup (IF r.reused THEN r.knows ELSE HistoryOf(r.turn))

Moves(r, s) ==
  /\ s \in TabRecords /\ s.turn = r.turn /\ s.pid = r.pid /\ s.reused = r.reused
  /\ s.posted = r.posted /\ s.key \in {r.key, NoKey} /\ s.status \in {r.status, "error"}
  /\ s.state \in LiveStates => r.state \in LiveStates /\ s.status = r.status
  /\ s.key = NoKey => ~(s.reused /\ s.status = "running") \/ r.key = NoKey
  /\ s.key # NoKey =>
       /\ ~r.reused /\ r.state = "awaiting-user" /\ s.status = r.status
       /\ ~s.strayed /\ r.posted => ~r.strayed /\ s.knows = r.knows

QuietPage(p) ==
  \/ manualTabs'[p] \in {manualTabs[p], NoTab}
  \/ p \in Tabs /\ GoesOn(manualTabs[p], manualTabs'[p])
  \/ p \in Tabs /\ GetsPrompt(manualTabs[p], manualTabs'[p])
  \/ p \in Tabs /\ Moves(manualTabs[p], manualTabs'[p])

\* A turn goes on, ends or answers; the tabs stay what they are, change or go.
Goes(t) ==
  /\ ManualTyped' /\ UNCHANGED helper
  /\ \A p \in Page : QuietPage(p)
  /\ \A u \in ManualTurn \ {t} : manual'[u].at = manual[u].at
  /\ \/ /\ answered' = answered
        /\ \/ manual'[t].at = manual[t].at
           \/ /\ manual[t].at = "idle" /\ manual'[t].at = "starting"
              /\ \A u \in Earlier(t) : manual[u].at = "over"
           \/ manual[t].at \in Waiting /\ manual'[t].at \in {"over", "aborted", "failed"}
           \/ manual[t].at \in Ending /\ manual'[t].at = "over"
           \/ manual[t].at = "starting" /\ manual'[t].at = "sending" /\ OwnTabs(t) # {}
           \/ manual[t].at = "sending" /\ manual'[t].at = "connecting"
           \/ /\ manual[t].at = "connecting" /\ manual'[t].at = "marking"
              /\ \E p \in OwnTabs(t) : manualTabs[p].posted
           \/ manual[t].at = "marking" /\ manual'[t].at = "working"
     \/ /\ manual[t].at = "working" /\ manual'[t].at = "completed"
        /\ answered' = answered \cup {t}

\* A turn gets page p, a new one or the one that is kept under its key.
Opens(t, p) ==
  /\ ManualTyped' /\ UNCHANGED <<helper, answered>> /\ p \in Page
  /\ \A u \in ManualTurn \ {t} : manual'[u].at = manual[u].at
  /\ manual[t].at = "starting" /\ manual'[t].at \in {"starting", "sending", "over"}
  /\ TabsOf(t) = {}
  /\ \A q \in Page \ {p} : manualTabs'[q] \in {manualTabs[q], NoTab}
  /\ LET s == manualTabs'[p]
     IN /\ s \in TabRecords /\ s.turn = t /\ s.pid = helper /\ s.status = "running" /\ ~s.posted
        /\ s.key = KeyOfTurn(t)
        /\ \/ Continued(t) = {} /\ ~s.reused
           \/ /\ t \in Kept /\ Continued(t) = {p} /\ s.reused
              /\ s.knows = manualTabs[p].knows /\ s.strayed = manualTabs[p].strayed

\* The page of a turn that has answered is kept.
KeepsPage(t, p) ==
  /\ ManualTyped' /\ UNCHANGED <<helper, answered>> /\ p \in OwnTabs(t) /\ t \in Kept
  /\ \A u \in ManualTurn \ {t} : manual'[u].at = manual[u].at
  /\ manual[t].at = "completed" /\ manual'[t].at \in {"completed", "over"}
  /\ \A q \in Page \ {p} : manualTabs'[q] = manualTabs[q]
  /\ LET r == manualTabs[p]
         s == manualTabs'[p]
     IN /\ s \in TabRecords /\ s.turn = r.turn /\ s.pid = r.pid /\ s.reused = r.reused
        /\ s.key = r.key /\ s.posted = r.posted /\ s.knows = r.knows /\ s.strayed = r.strayed
        /\ r.state \in {"sent", "running"} /\ r.key # NoKey
        /\ s.status = "ready" /\ s.state = "completed"

-----------------------------------------------------------------------------
\* A tab that nobody opens, reuses or keeps was there, and is of the same turn.
LEMMA QuietTabs ==
  ASSUME ManualTyped, ManualTyped', NEW p \in Page, QuietPage(p), p \in Tabs'
  PROVE  /\ p \in Tabs /\ manualTabs[p] \in TabRecords /\ manualTabs'[p] \in TabRecords
         /\ manualTabs'[p].turn = manualTabs[p].turn /\ manualTabs'[p].pid = manualTabs[p].pid
         /\ manualTabs'[p].reused = manualTabs[p].reused
         /\ manualTabs'[p].status \in {manualTabs[p].status, "error"}
         /\ manualTabs'[p].key \in {manualTabs[p].key, NoKey}
         /\ manualTabs[p].posted => manualTabs'[p].posted
         /\ manualTabs'[p].state \in LiveStates =>
              manualTabs[p].state \in LiveStates /\ manualTabs'[p].status = manualTabs[p].status
<1>1. manualTabs'[p] # NoTab /\ manualTabs'[p] \in TabRecords
  BY DEF ManualTyped, Tabs
<1>2. CASE manualTabs'[p] = manualTabs[p]
  BY <1>1, <1>2 DEF Tabs
<1>3. CASE p \in Tabs /\ GoesOn(manualTabs[p], manualTabs'[p])
  BY <1>1, <1>3, TabThere DEF GoesOn
<1>4. CASE p \in Tabs /\ GetsPrompt(manualTabs[p], manualTabs'[p])
  BY <1>1, <1>4, TabThere DEF GetsPrompt
<1>5. CASE p \in Tabs /\ Moves(manualTabs[p], manualTabs'[p])
  BY <1>1, <1>5, TabThere DEF Moves
<1> QED
  BY <1>1, <1>2, <1>3, <1>4, <1>5 DEF QuietPage

\* The answers that a turn's prompt builds on do not change once the earlier turns of its
\* thread are over.
LEMMA EpochStays ==
  ASSUME NEW t \in ManualTurn, NEW u \in ManualTurn,
         \/ answered' = answered
         \/ answered' = answered \cup {t} /\ manual[t].at = "working",
         \A v \in Earlier(u) : manual[v].at = "over"
  PROVE  Epoch(answered', u) = Epoch(answered, u)
  BY DEF Epoch

LEMMA EpochIsHistory ==
  ASSUME ManualTyped, NEW t \in ManualTurn
  PROVE  EpochOf(t) = Epoch(answered, t) /\ Epoch(answered, t) \subseteq HistoryOf(t)
  BY DEF EpochOf, HistoryOf, Earlier, Epoch, ManualTyped

-----------------------------------------------------------------------------
(* A turn goes on, ends or answers.                                          *)

LEMMA GoesInTurn ==
  ASSUME ManualIInv, NEW t \in ManualTurn, Goes(t)
  PROVE  /\ \A u \in ManualTurn : manual[u].at = "over" => manual'[u].at = "over"
         /\ \A u \in ManualTurn : manual[u].at # "idle" => manual'[u].at # "idle"
         /\ OneAfterAnother'
<1>1. \A u \in ManualTurn : manual[u].at = "over" => manual'[u].at = "over"
  BY DEF Goes, Waiting, Ending
<1>2. \A u \in ManualTurn : manual[u].at # "idle" => manual'[u].at # "idle"
  BY DEF Goes, Waiting, Ending
<1>3. \A u \in ManualTurn : Earlier(u) \subseteq ManualTurn
  BY DEF Earlier
<1>4. ASSUME NEW u \in ManualTurn, manual'[u].at # "idle", NEW v \in Earlier(u)
      PROVE  manual'[v].at = "over"
  <2>1. CASE manual[u].at # "idle"
    BY <1>1, <1>3, <1>4, <2>1 DEF ManualIInv, OneAfterAnother
  <2>2. CASE manual[u].at = "idle"
    <3>1. u = t
      BY <1>4, <2>2 DEF Goes
    <3>2. \A w \in Earlier(t) : manual[w].at = "over"
      BY <1>4, <2>2, <3>1 DEF Goes, Waiting, Ending
    <3> QED
      BY <1>1, <1>3, <1>4, <3>1, <3>2
  <2> QED
    BY <2>1, <2>2
<1>5. \A u \in answered' : manual'[u].at \in {"completed", "over"}
  BY DEF Goes, Waiting, Ending, ManualIInv, ManualTyped, OneAfterAnother
<1>6. (\A u \in ManualTurn : Earlier(u)' = Earlier(u))
  BY DEF Earlier
<1> QED
  BY <1>1, <1>2, <1>4, <1>5, <1>6 DEF OneAfterAnother

LEMMA GoesTabs ==
  ASSUME ManualIInv, NEW t \in ManualTurn, Goes(t)
  PROVE  TabsOfTheirTurns'
<1>0. ManualTyped /\ ManualTyped' /\ helper' = helper /\ \A p \in Page : QuietPage(p)
  BY DEF ManualIInv, Goes
<1>1. \A p \in Tabs' : p \in Page
  BY DEF Tabs
<1>2. ASSUME NEW p \in Tabs'
      PROVE  LET tab == manualTabs'[p]
             IN /\ tab.pid <= helper'
                /\ tab.pid = helper' => manual'[tab.turn].at # "idle"
                /\ \A u \in Earlier(tab.turn) : manual'[u].at = "over"
                /\ tab.key \in {NoKey, KeyOfTurn(tab.turn)}
                /\ tab.state \in LiveStates => tab.status = "running"
                /\ tab.reused /\ tab.status = "running" => tab.key # NoKey
  <2>1. p \in Tabs /\ manualTabs[p] \in TabRecords
    BY <1>0, <1>1, <1>2, QuietTabs
  <2>2. /\ manualTabs[p].pid <= helper
        /\ manualTabs[p].pid = helper => manual[manualTabs[p].turn].at # "idle"
        /\ \A u \in Earlier(manualTabs[p].turn) : manual[u].at = "over"
        /\ manualTabs[p].key \in {NoKey, KeyOfTurn(manualTabs[p].turn)}
        /\ manualTabs[p].state \in LiveStates => manualTabs[p].status = "running"
        /\ manualTabs[p].reused /\ manualTabs[p].status = "running" => manualTabs[p].key # NoKey
    BY <2>1 DEF ManualIInv, TabsOfTheirTurns
  <2>3. manualTabs[p].turn \in ManualTurn
    BY <2>1, TabFields
  <2>4. \A u \in Earlier(manualTabs[p].turn) : manual'[u].at = "over"
    BY <2>2, GoesInTurn DEF Earlier
  <2>5. manualTabs'[p].reused /\ manualTabs'[p].status = "running" => manualTabs'[p].key # NoKey
    BY <1>0, <1>1, <1>2, <2>1, <2>2 DEF QuietPage, GoesOn, GetsPrompt, Moves, Tabs
  <2> QED
    BY <1>0, <1>1, <1>2, <2>2, <2>3, <2>4, <2>5, GoesInTurn, QuietTabs
<1>3. \A p, q \in Tabs' : manualTabs'[p].turn = manualTabs'[q].turn => p = q
  BY <1>0, <1>1, QuietTabs DEF ManualIInv, TabsOfTheirTurns
<1>4. \A u : Earlier(u)' = Earlier(u) /\ KeyOfTurn(u)' = KeyOfTurn(u)
  BY DEF Earlier, KeyOfTurn
<1> QED
  BY <1>2, <1>3, <1>4 DEF TabsOfTheirTurns

LEMMA GoesPosted ==
  ASSUME ManualIInv, NEW t \in ManualTurn, Goes(t)
  PROVE  ConnectedIsPosted'
<1>0. ManualTyped /\ ManualTyped' /\ helper' = helper /\ \A p \in Page : QuietPage(p)
  BY DEF ManualIInv, Goes
<1> SUFFICES ASSUME NEW p \in Tabs',
                    manualTabs'[p].pid = helper, manualTabs'[p].status = "running",
                    manual'[manualTabs'[p].turn].at \in {"marking", "working", "completed"}
             PROVE  manualTabs'[p].posted
  BY <1>0 DEF ConnectedIsPosted
<1>1. p \in Page /\ p \in Tabs /\ manualTabs[p] \in TabRecords
  BY <1>0, QuietTabs DEF Tabs
<1>2. /\ manualTabs[p].turn = manualTabs'[p].turn /\ manualTabs[p].pid = helper
      /\ manualTabs[p].status = "running" /\ (manualTabs[p].posted => manualTabs'[p].posted)
  BY <1>0, <1>1, QuietTabs
<1>3. manualTabs[p].turn \in ManualTurn
  BY <1>1, TabFields
<1>4. CASE manual[manualTabs[p].turn].at \in {"marking", "working", "completed"}
  BY <1>1, <1>2, <1>4 DEF ManualIInv, ConnectedIsPosted
<1>5. CASE manual[manualTabs[p].turn].at \notin {"marking", "working", "completed"}
  <2>1. manualTabs[p].turn = t
    BY <1>2, <1>3, <1>5 DEF Goes
  <2>2. \E q \in OwnTabs(t) : manualTabs[q].posted
    BY <1>2, <1>5, <2>1 DEF Goes, Waiting, Ending
  <2>3. \A q \in OwnTabs(t) : q = p
    BY <1>1, <2>1 DEF OwnTabs, TabsOf, ManualIInv, TabsOfTheirTurns
  <2> QED
    BY <1>2, <2>2, <2>3
<1> QED
  BY <1>4, <1>5

LEMMA GoesBeside ==
  ASSUME ManualIInv, NEW t \in ManualTurn, Goes(t)
  PROVE  NoneKeptBeside'
<1>0. ManualTyped /\ ManualTyped' /\ helper' = helper /\ \A p \in Page : QuietPage(p)
  BY DEF ManualIInv, Goes
<1>1. \A v : KeyOfTurn(v)' = KeyOfTurn(v)
  BY DEF KeyOfTurn
<1> SUFFICES ASSUME NEW v \in Kept, NEW p \in Tabs',
                    manualTabs'[p].status = "ready", manualTabs'[p].key = KeyOfTurn(v)
             PROVE  /\ manual'[v].at \notin {"sending", "connecting", "marking", "working"}
                    /\ manual'[v].at = "starting" => OwnTabs(v)' = {}
  BY <1>1 DEF NoneKeptBeside
<1>2. p \in Page /\ p \in Tabs /\ manualTabs[p] \in TabRecords
  BY <1>0, QuietTabs DEF Tabs
<1>3. v \in ManualTurn /\ KeyOfTurn(v) # NoKey
  BY Keys, <1>2, TabFields
<1>4. manualTabs[p].status = "ready" /\ manualTabs[p].key = KeyOfTurn(v)
  BY <1>0, <1>2, <1>3, QuietTabs
<1>5. /\ manual[v].at \notin {"sending", "connecting", "marking", "working"}
      /\ manual[v].at = "starting" => OwnTabs(v) = {}
  BY <1>2, <1>4 DEF ManualIInv, NoneKeptBeside
<1>6. OwnTabs(v)' \subseteq OwnTabs(v)
  BY <1>0, QuietTabs DEF OwnTabs, TabsOf, Tabs
<1>7. manual[v].at = "idle" => OwnTabs(v) = {}
  BY DEF OwnTabs, TabsOf, ManualIInv, TabsOfTheirTurns
<1> QED
  BY <1>3, <1>5, <1>6, <1>7 DEF Goes, Waiting, Ending

LEMMA GoesKnowing ==
  ASSUME ManualIInv, NEW t \in ManualTurn, Goes(t)
  PROVE  PagesKnow'
<1>0. ManualTyped /\ ManualTyped' /\ helper' = helper /\ \A p \in Page : QuietPage(p)
  BY DEF ManualIInv, Goes
<1>1. \A v : KeyOfTurn(v)' = KeyOfTurn(v)
  BY DEF KeyOfTurn
<1>2. \/ answered' = answered
      \/ answered' = answered \cup {t} /\ manual[t].at = "working"
  BY DEF Goes
<1> SUFFICES ASSUME NEW p \in Tabs', ~manualTabs'[p].strayed
             PROVE  LET tab == manualTabs'[p]
                    IN /\ tab.status = "running" /\ tab.posted /\ tab.key # NoKey =>
                            Epoch(answered', tab.turn) \cup {tab.turn} \subseteq tab.knows
                       /\ tab.status = "running" /\ tab.reused =>
                            Epoch(answered', tab.turn) \subseteq tab.knows
                       /\ tab.status = "ready" /\ tab.key # NoKey =>
                            \A u \in answered' : KeyOfTurn(u) = tab.key => u \in tab.knows
  BY <1>1 DEF PagesKnow
<1> DEFINE r == manualTabs[p]
           s == manualTabs'[p]
<1>3. p \in Page /\ p \in Tabs /\ r \in TabRecords /\ s \in TabRecords
  BY <1>0, QuietTabs DEF Tabs
<1>4. s.turn = r.turn /\ s.turn \in ManualTurn /\ s.reused = r.reused
  BY <1>0, <1>3, QuietTabs, TabFields
<1>5. Epoch(answered', s.turn) = Epoch(answered, r.turn)
  <2>1. \A u \in Earlier(r.turn) : manual[u].at = "over"
    BY <1>3 DEF ManualIInv, TabsOfTheirTurns
  <2> QED
    BY <1>0, <1>2, <1>4, <2>1, EpochStays
<1>6. s.status = "running" /\ s.reused => s.key # NoKey
  BY GoesTabs DEF TabsOfTheirTurns
<1>7. r.reused /\ r.status = "running" => r.key # NoKey
  BY <1>3 DEF ManualIInv, TabsOfTheirTurns
<1>8. r.state \in LiveStates => r.status = "running"
  BY <1>3 DEF ManualIInv, TabsOfTheirTurns
<1>9. ~r.strayed =>
        /\ r.status = "running" /\ r.posted /\ r.key # NoKey =>
             Epoch(answered, r.turn) \cup {r.turn} \subseteq r.knows
        /\ r.status = "running" /\ r.reused => Epoch(answered, r.turn) \subseteq r.knows
        /\ r.status = "ready" /\ r.key # NoKey =>
             \A u \in answered : KeyOfTurn(u) = r.key => u \in r.knows
  BY <1>3 DEF ManualIInv, PagesKnow
<1>10. Epoch(answered, r.turn) \subseteq HistoryOf(r.turn)
  BY <1>0, <1>4, EpochIsHistory
<1>11. ASSUME s.status = "ready", s.key # NoKey
       PROVE  \A u \in answered' : KeyOfTurn(u) = s.key => u \in answered
  <2>1. r.status = "ready" /\ r.key = s.key
    BY <1>0, <1>3, <1>11, QuietTabs, TabFields
  <2>2. s.key = KeyOfTurn(s.turn)
    BY <1>11, GoesTabs DEF TabsOfTheirTurns
  <2>3. t \in Kept /\ KeyOfTurn(t) = s.key => manual[t].at # "working"
    BY <1>3, <2>1 DEF ManualIInv, NoneKeptBeside
  <2>4. KeyOfTurn(t) # NoKey => t \in Kept
    BY DEF KeyOfTurn
  <2> QED
    BY <1>2, <1>11, <2>3, <2>4
<1>12. CASE s = r
  BY <1>4, <1>5, <1>9, <1>11, <1>12
<1>13. CASE GoesOn(r, s)
  <2>1. /\ s.key = r.key /\ (s.posted <=> r.posted) /\ s.knows = r.knows /\ ~r.strayed
        /\ (s.status = "running" => r.status = "running")
        /\ (s.status = "ready" => r.status = "ready")
    BY <1>3, <1>13, TabFields DEF GoesOn
  <2> QED
    BY <1>4, <1>5, <1>9, <1>11, <2>1
<1>14. CASE GetsPrompt(r, s)
  <2>1. /\ s.key = r.key /\ ~r.strayed /\ r.status = "running" /\ s.status = "running"
        /\ s.knows = {r.turn} \cup (IF r.reused THEN r.knows ELSE HistoryOf(r.turn))
    BY <1>3, <1>14, TabFields DEF GetsPrompt
  <2> QED
    BY <1>4, <1>5, <1>9, <1>10, <2>1
<1>15. CASE Moves(r, s)
  <2>1. CASE s.key = NoKey
    BY <1>4, <1>6, <2>1
  <2>2. CASE s.key # NoKey
    <3>1. /\ ~r.reused /\ r.state = "awaiting-user" /\ s.status = r.status /\ s.key = r.key
          /\ (s.posted <=> r.posted) /\ (r.posted => ~r.strayed /\ s.knows = r.knows)
      BY <1>3, <1>15, <2>2 DEF Moves
    <3>2. s.status = "running"
      BY <1>8, <3>1 DEF LiveStates
    <3> QED
      BY <1>4, <1>5, <1>9, <2>2, <3>1, <3>2
  <2> QED
    BY <2>1, <2>2
<1>16. s # NoTab
  BY DEF Tabs
<1> QED
  BY <1>0, <1>3, <1>12, <1>13, <1>14, <1>15, <1>16 DEF QuietPage

-----------------------------------------------------------------------------
(* A turn gets its page.                                                     *)

\* The turns before and after, the other tabs, and the page.
LEMMA OpensChanges ==
  ASSUME ManualIInv, NEW t \in ManualTurn, NEW p, Opens(t, p)
  PROVE  /\ ManualTyped /\ ManualTyped' /\ helper' = helper /\ answered' = answered
         /\ \A u \in ManualTurn : manual[u].at = "over" => manual'[u].at = "over"
         /\ \A u \in ManualTurn : manual[u].at # "idle" => manual'[u].at # "idle"
         /\ \A u \in Earlier(t) : u \in ManualTurn /\ manual[u].at = "over"
         /\ p \in Page /\ p \in Tabs' /\ manualTabs'[p] \in TabRecords
         /\ \A q \in Tabs' \ {p} : /\ q \in Tabs /\ manualTabs'[q] = manualTabs[q]
                                   /\ manualTabs[q] \in TabRecords /\ manualTabs[q].turn # t
         /\ \A u, v : Earlier(u)' = Earlier(u) /\ KeyOfTurn(v)' = KeyOfTurn(v)
<1>1. ManualTyped /\ ManualTyped' /\ p \in Page /\ manualTabs'[p] \in TabRecords
  BY DEF ManualIInv, Opens
<1>2. manualTabs'[p] # NoTab
  BY <1>1, TabFields
<1>3. ASSUME NEW q \in Tabs', q # p
      PROVE  /\ q \in Tabs /\ manualTabs'[q] = manualTabs[q]
             /\ manualTabs[q] \in TabRecords /\ manualTabs[q].turn # t
  BY <1>1, <1>3, TabThere DEF Tabs, TabsOf, Opens
<1>4. \A u \in Earlier(t) : u \in ManualTurn /\ manual[u].at = "over"
  BY DEF ManualIInv, OneAfterAnother, Opens, Earlier
<1>5. \A u, v : Earlier(u)' = Earlier(u) /\ KeyOfTurn(v)' = KeyOfTurn(v)
  BY DEF Earlier, KeyOfTurn
<1>6. p \in Tabs'
  BY <1>1, <1>2 DEF Tabs
<1>7. /\ \A u \in ManualTurn : manual[u].at = "over" => manual'[u].at = "over"
      /\ \A u \in ManualTurn : manual[u].at # "idle" => manual'[u].at # "idle"
  BY DEF Opens
<1> QED
  BY <1>1, <1>3, <1>4, <1>5, <1>6, <1>7 DEF Opens

LEMMA OpensInTurn ==
  ASSUME ManualIInv, NEW t \in ManualTurn, NEW p, Opens(t, p)
  PROVE  OneAfterAnother'
<1>1. \A u \in answered : manual[u].at \in {"completed", "over"}
  BY DEF ManualIInv, OneAfterAnother
<1>2. \A u \in answered : u \in ManualTurn
  BY OpensChanges DEF ManualTyped
<1>3. \A u \in answered' : manual'[u].at \in {"completed", "over"}
  BY <1>1, <1>2 DEF Opens
<1>4. ASSUME NEW u \in ManualTurn, manual'[u].at # "idle", NEW v \in Earlier(u)
      PROVE  manual'[v].at = "over"
  <2>1. manual[u].at # "idle" /\ v \in ManualTurn
    BY <1>4 DEF Opens, Earlier
  <2> QED
    BY <1>4, <2>1, OpensChanges DEF ManualIInv, OneAfterAnother
<1> QED
  BY <1>3, <1>4, OpensChanges DEF OneAfterAnother

LEMMA OpensTabs ==
  ASSUME ManualIInv, NEW t \in ManualTurn, NEW o, Opens(t, o)
  PROVE  TabsOfTheirTurns'
<1>1. ASSUME NEW p \in Tabs'
      PROVE  LET tab == manualTabs'[p]
             IN /\ tab.pid <= helper'
                /\ tab.pid = helper' => manual'[tab.turn].at # "idle"
                /\ \A u \in Earlier(tab.turn) : manual'[u].at = "over"
                /\ tab.key \in {NoKey, KeyOfTurn(tab.turn)}
                /\ tab.state \in LiveStates => tab.status = "running"
                /\ tab.reused /\ tab.status = "running" => tab.key # NoKey
  <2>1. CASE p = o
    <3> DEFINE s == manualTabs'[o]
    <3>1. /\ s.turn = t /\ s.pid = helper /\ s.status = "running" /\ s.key = KeyOfTurn(t)
          /\ (s.reused => t \in Kept)
      BY DEF Opens
    <3>2. helper \in Nat
      BY OpensChanges DEF ManualTyped, Helper
    <3>3. manual'[t].at # "idle"
      BY DEF Opens
    <3>4. \A u \in Earlier(t) : manual'[u].at = "over"
      BY OpensChanges
    <3> QED
      BY <2>1, <3>1, <3>2, <3>3, <3>4, OpensChanges, Keys
  <2>2. CASE p # o
    <3>1. p \in Tabs /\ manualTabs'[p] = manualTabs[p] /\ manualTabs[p] \in TabRecords
      BY <1>1, <2>2, OpensChanges
    <3>2. manualTabs[p].turn \in ManualTurn
      BY <3>1, TabFields
    <3>3. \A u \in Earlier(manualTabs[p].turn) : u \in ManualTurn
      BY DEF Earlier
    <3> QED
      BY <3>1, <3>2, <3>3, OpensChanges DEF ManualIInv, TabsOfTheirTurns
  <2> QED
    BY <2>1, <2>2
<1>2. \A p, q \in Tabs' : manualTabs'[p].turn = manualTabs'[q].turn => p = q
  <2>1. manualTabs'[o].turn = t
    BY DEF Opens
  <2> QED
    BY <2>1, OpensChanges DEF ManualIInv, TabsOfTheirTurns
<1> QED
  BY <1>1, <1>2, OpensChanges DEF TabsOfTheirTurns

LEMMA OpensPosted ==
  ASSUME ManualIInv, NEW t \in ManualTurn, NEW o, Opens(t, o)
  PROVE  ConnectedIsPosted'
<1> SUFFICES ASSUME NEW p \in Tabs',
                    manualTabs'[p].pid = helper', manualTabs'[p].status = "running",
                    manual'[manualTabs'[p].turn].at \in {"marking", "working", "completed"}
             PROVE  manualTabs'[p].posted
  BY DEF ConnectedIsPosted
<1>1. p # o
  BY DEF Opens
<1>2. p \in Tabs /\ manualTabs'[p] = manualTabs[p] /\ manualTabs[p] \in TabRecords
      /\ manualTabs[p].turn # t /\ helper' = helper
  BY <1>1, OpensChanges
<1>3. manualTabs[p].turn \in ManualTurn
  BY <1>2, TabFields
<1>4. manual[manualTabs[p].turn].at \in {"marking", "working", "completed"}
  BY <1>2, <1>3 DEF Opens
<1> QED
  BY <1>2, <1>4 DEF ManualIInv, ConnectedIsPosted

LEMMA OpensBeside ==
  ASSUME ManualIInv, NEW t \in ManualTurn, NEW o, Opens(t, o)
  PROVE  NoneKeptBeside'
<1> SUFFICES ASSUME NEW v \in Kept, NEW p \in Tabs',
                    manualTabs'[p].status = "ready", manualTabs'[p].key = KeyOfTurn(v)
             PROVE  /\ manual'[v].at \notin {"sending", "connecting", "marking", "working"}
                    /\ manual'[v].at = "starting" => OwnTabs(v)' = {}
  BY OpensChanges DEF NoneKeptBeside
<1>1. p # o
  BY DEF Opens
<1>2. /\ p \in Tabs /\ manualTabs'[p] = manualTabs[p] /\ manualTabs[p] \in TabRecords
      /\ helper' = helper
  BY <1>1, OpensChanges
<1>3. v # t
  <2>1. v = t => p \in Continued(t)
    BY <1>2 DEF Continued, Retained
  <2>2. Continued(t) \subseteq {o}
    BY DEF Opens
  <2> QED
    BY <1>1, <2>1, <2>2
<1>4. v \in ManualTurn
  BY Keys, <1>2, TabFields
<1>5. OwnTabs(v)' \subseteq OwnTabs(v)
  <2>1. manualTabs'[o].turn = t
    BY DEF Opens
  <2> QED
    BY <1>2, <1>3, <2>1, OpensChanges DEF OwnTabs, TabsOf
<1> QED
  BY <1>2, <1>3, <1>4, <1>5 DEF Opens, ManualIInv, NoneKeptBeside

LEMMA OpensKnowing ==
  ASSUME ManualIInv, NEW t \in ManualTurn, NEW o, Opens(t, o)
  PROVE  PagesKnow'
<1> SUFFICES ASSUME NEW p \in Tabs', ~manualTabs'[p].strayed
             PROVE  LET tab == manualTabs'[p]
                    IN /\ tab.status = "running" /\ tab.posted /\ tab.key # NoKey =>
                            Epoch(answered', tab.turn) \cup {tab.turn} \subseteq tab.knows
                       /\ tab.status = "running" /\ tab.reused =>
                            Epoch(answered', tab.turn) \subseteq tab.knows
                       /\ tab.status = "ready" /\ tab.key # NoKey =>
                            \A u \in answered' : KeyOfTurn(u) = tab.key => u \in tab.knows
  BY OpensChanges DEF PagesKnow
<1>1. CASE p = o
  <2> DEFINE s == manualTabs'[o]
             r == manualTabs[o]
  <2>1. s.turn = t /\ s.status = "running" /\ ~s.posted
    BY DEF Opens
  <2>2. CASE ~s.reused
    BY <1>1, <2>1, <2>2
  <2>3. CASE s.reused
    <3>1. /\ t \in Kept /\ o \in Continued(t) /\ s.knows = r.knows /\ s.strayed = r.strayed
      BY <2>3 DEF Opens
    <3>2. o \in Tabs /\ r.status = "ready" /\ r.key = KeyOfTurn(t) /\ ~r.strayed
      BY <1>1, <3>1 DEF Continued, Retained
    <3>3. KeyOfTurn(t) # NoKey
      BY <3>1, Keys
    <3>4. \A u \in answered : KeyOfTurn(u) = KeyOfTurn(t) => u \in r.knows
      BY <3>2, <3>3 DEF ManualIInv, PagesKnow
    <3>5. Epoch(answered, t) \subseteq r.knows
      BY <3>4 DEF Epoch
    <3> QED
      BY <1>1, <2>1, <3>1, <3>5, OpensChanges
  <2> QED
    BY <2>2, <2>3
<1>2. CASE p # o
  <2>1. p \in Tabs /\ manualTabs'[p] = manualTabs[p] /\ answered' = answered
    BY <1>2, OpensChanges
  <2> QED
    BY <2>1 DEF ManualIInv, PagesKnow
<1> QED
  BY <1>1, <1>2

-----------------------------------------------------------------------------
(* The page of a turn that has answered is kept.                             *)

\* The page, and who else wants its key.
LEMMA KeepsChanges ==
  ASSUME ManualIInv, NEW t \in ManualTurn, NEW o, KeepsPage(t, o)
  PROVE  /\ ManualTyped /\ ManualTyped' /\ helper' = helper /\ answered' = answered
         /\ o \in Page /\ o \in Tabs /\ manualTabs[o].turn = t /\ manualTabs[o].pid = helper
         /\ manualTabs[o].key = KeyOfTurn(t) /\ manualTabs[o].status = "running"
         /\ manualTabs[o].posted
         /\ \A p \in Tabs' : p \in Tabs /\ p \in Page /\ manualTabs[p] \in TabRecords
         /\ \A p \in Tabs' \ {o} : manualTabs'[p] = manualTabs[p]
         /\ \A u \in ManualTurn : manual[u].at \notin {"completed", "over"} =>
              u # t /\ manual'[u].at = manual[u].at
         /\ \A u \in ManualTurn : manual[u].at = "over" => manual'[u].at = "over"
         /\ \A u \in ManualTurn : manual[u].at = "completed" =>
              manual'[u].at \in {"completed", "over"}
         /\ \A u \in ManualTurn : u # t /\ KeyOfTurn(u) = KeyOfTurn(t) =>
              manual[u].at = "over" \/ (u > t /\ manual[u].at = "idle")
         /\ \A u, v : Earlier(u)' = Earlier(u) /\ KeyOfTurn(v)' = KeyOfTurn(v)
<1>1. ManualTyped /\ ManualTyped' /\ helper' = helper /\ answered' = answered
  BY DEF ManualIInv, KeepsPage
<1>2. o \in Tabs /\ manualTabs[o].turn = t /\ manualTabs[o].pid = helper
  BY DEF KeepsPage, OwnTabs, TabsOf
<1>3. o \in Page /\ manualTabs[o] \in TabRecords
  BY <1>1, <1>2, TabThere
<1>4. manualTabs[o].key = KeyOfTurn(t) /\ manualTabs[o].status = "running"
  <2>1. manualTabs[o].key # NoKey /\ manualTabs[o].state \in LiveStates
    BY DEF KeepsPage, LiveStates
  <2> QED
    BY <1>2, <2>1 DEF ManualIInv, TabsOfTheirTurns
<1>5. manualTabs[o].posted
  BY <1>2, <1>4 DEF KeepsPage, ManualIInv, ConnectedIsPosted
<1>6. ASSUME NEW p \in Tabs'
      PROVE  /\ p \in Tabs /\ p \in Page /\ manualTabs[p] \in TabRecords
             /\ p # o => manualTabs'[p] = manualTabs[p]
  <2>1. p \in Page /\ (p # o => manualTabs'[p] = manualTabs[p])
    BY DEF Tabs, KeepsPage
  <2>2. p \in Tabs
    BY <1>2, <2>1 DEF Tabs
  <2> QED
    BY <1>1, <2>1, <2>2, TabThere
<1>7. /\ manual[t].at = "completed" /\ manual'[t].at \in {"completed", "over"}
      /\ \A u \in ManualTurn \ {t} : manual'[u].at = manual[u].at
  BY DEF KeepsPage
<1>8. ASSUME NEW u \in ManualTurn, u # t, KeyOfTurn(u) = KeyOfTurn(t)
      PROVE  manual[u].at = "over" \/ (u > t /\ manual[u].at = "idle")
  <2>1. ThreadOf[u] = ThreadOf[t]
    BY <1>8, Keys DEF KeepsPage
  <2>2. u \in Nat /\ t \in Nat
    BY ManualAssumption DEF ManualTurn
  <2>3. CASE u < t
    <3>1. u \in Earlier(t)
      BY <2>1, <2>3 DEF Earlier
    <3> QED
      BY <1>7, <3>1 DEF ManualIInv, OneAfterAnother
  <2>4. CASE u > t
    <3>1. t \in Earlier(u)
      BY <2>1, <2>2, <2>4 DEF Earlier
    <3>2. manual[u].at = "idle"
      BY <1>7, <3>1 DEF ManualIInv, OneAfterAnother
    <3> QED
      BY <2>4, <3>2
  <2> QED
    BY <1>8, <2>2, <2>3, <2>4
<1>9. \A u, v : Earlier(u)' = Earlier(u) /\ KeyOfTurn(v)' = KeyOfTurn(v)
  BY DEF Earlier, KeyOfTurn
<1> QED
  BY <1>1, <1>2, <1>3, <1>4, <1>5, <1>6, <1>7, <1>8, <1>9

LEMMA KeepsInTurn ==
  ASSUME ManualIInv, NEW t \in ManualTurn, NEW o, KeepsPage(t, o)
  PROVE  OneAfterAnother'
<1>1. \A u \in answered : u \in ManualTurn /\ manual[u].at \in {"completed", "over"}
  BY DEF ManualIInv, OneAfterAnother, ManualTyped
<1>2. \A u \in answered' : manual'[u].at \in {"completed", "over"}
  BY <1>1, KeepsChanges
<1>3. ASSUME NEW u \in ManualTurn, manual'[u].at # "idle", NEW v \in Earlier(u)
      PROVE  manual'[v].at = "over"
  <2>1. manual[u].at # "idle" /\ v \in ManualTurn
    BY <1>3, KeepsChanges DEF Earlier
  <2> QED
    BY <1>3, <2>1, KeepsChanges DEF ManualIInv, OneAfterAnother
<1> QED
  BY <1>2, <1>3, KeepsChanges DEF OneAfterAnother

LEMMA KeepsTabs ==
  ASSUME ManualIInv, NEW t \in ManualTurn, NEW o, KeepsPage(t, o)
  PROVE  TabsOfTheirTurns'
<1>1. ASSUME NEW p \in Tabs'
      PROVE  LET tab == manualTabs'[p]
             IN /\ tab.pid <= helper'
                /\ tab.pid = helper' => manual'[tab.turn].at # "idle"
                /\ \A u \in Earlier(tab.turn) : manual'[u].at = "over"
                /\ tab.key \in {NoKey, KeyOfTurn(tab.turn)}
                /\ tab.state \in LiveStates => tab.status = "running"
                /\ tab.reused /\ tab.status = "running" => tab.key # NoKey
  <2>0. p \in Tabs /\ manualTabs[p] \in TabRecords
    BY KeepsChanges
  <2>1. /\ manualTabs[p].pid <= helper
        /\ manualTabs[p].pid = helper => manual[manualTabs[p].turn].at # "idle"
        /\ \A u \in Earlier(manualTabs[p].turn) : manual[u].at = "over"
        /\ manualTabs[p].key \in {NoKey, KeyOfTurn(manualTabs[p].turn)}
        /\ manualTabs[p].state \in LiveStates => manualTabs[p].status = "running"
        /\ manualTabs[p].reused /\ manualTabs[p].status = "running" => manualTabs[p].key # NoKey
    BY <2>0 DEF ManualIInv, TabsOfTheirTurns
  <2>2. /\ manualTabs[p].turn \in ManualTurn
        /\ \A u \in Earlier(manualTabs[p].turn) : u \in ManualTurn
    BY <2>0, TabFields DEF Earlier
  <2>3. /\ manualTabs'[p].turn = manualTabs[p].turn /\ manualTabs'[p].pid = manualTabs[p].pid
        /\ manualTabs'[p].key = manualTabs[p].key
        /\ \/ manualTabs'[p] = manualTabs[p]
           \/ manualTabs'[p].status = "ready" /\ manualTabs'[p].state = "completed"
    BY <1>1, KeepsChanges DEF KeepsPage
  <2>4. manual[manualTabs[p].turn].at # "idle" => manual'[manualTabs[p].turn].at # "idle"
    BY <2>2, KeepsChanges
  <2>5. \A u \in Earlier(manualTabs[p].turn) : manual'[u].at = "over"
    BY <2>1, <2>2, KeepsChanges
  <2> QED
    BY <2>1, <2>3, <2>4, <2>5, KeepsChanges DEF LiveStates
<1>2. \A p \in Tabs' : p \in Tabs /\ manualTabs'[p].turn = manualTabs[p].turn
  BY KeepsChanges DEF KeepsPage
<1>3. \A p, q \in Tabs' : manualTabs'[p].turn = manualTabs'[q].turn => p = q
  BY <1>2 DEF ManualIInv, TabsOfTheirTurns
<1> QED
  BY <1>1, <1>3, KeepsChanges DEF TabsOfTheirTurns

LEMMA KeepsPosted ==
  ASSUME ManualIInv, NEW t \in ManualTurn, NEW o, KeepsPage(t, o)
  PROVE  ConnectedIsPosted'
<1> SUFFICES ASSUME NEW p \in Tabs',
                    manualTabs'[p].pid = helper', manualTabs'[p].status = "running",
                    manual'[manualTabs'[p].turn].at \in {"marking", "working", "completed"}
             PROVE  manualTabs'[p].posted
  BY DEF ConnectedIsPosted
<1>1. p # o
  BY DEF KeepsPage
<1>2. p \in Tabs /\ manualTabs'[p] = manualTabs[p] /\ manualTabs[p] \in TabRecords
      /\ helper' = helper
  BY <1>1, KeepsChanges
<1>3. manualTabs[p].turn \in ManualTurn
  BY <1>2, TabFields
<1>4. manual[manualTabs[p].turn].at \in {"marking", "working", "completed"}
  BY <1>2, <1>3, KeepsChanges
<1> QED
  BY <1>2, <1>4 DEF ManualIInv, ConnectedIsPosted

LEMMA KeepsBeside ==
  ASSUME ManualIInv, NEW t \in ManualTurn, NEW o, KeepsPage(t, o)
  PROVE  NoneKeptBeside'
<1> SUFFICES ASSUME NEW v \in Kept, NEW p \in Tabs',
                    manualTabs'[p].status = "ready", manualTabs'[p].key = KeyOfTurn(v)
             PROVE  /\ manual'[v].at \notin {"sending", "connecting", "marking", "working"}
                    /\ manual'[v].at = "starting" => OwnTabs(v)' = {}
  BY KeepsChanges DEF NoneKeptBeside
<1>0. v \in ManualTurn
  BY ManualAssumption
<1>1. CASE p = o
  <2>1. KeyOfTurn(v) = KeyOfTurn(t)
    BY <1>1, KeepsChanges DEF KeepsPage
  <2>2. v = t \/ manual[v].at \in {"over", "idle"}
    BY <1>0, <2>1, KeepsChanges
  <2> QED
    BY <1>0, <2>2 DEF KeepsPage
<1>2. CASE p # o
  <2>1. p \in Tabs /\ manualTabs'[p] = manualTabs[p]
    BY <1>2, KeepsChanges
  <2>2. /\ manual[v].at \notin {"sending", "connecting", "marking", "working"}
        /\ manual[v].at = "starting" => OwnTabs(v) = {}
    BY <2>1 DEF ManualIInv, NoneKeptBeside
  <2>3. OwnTabs(v)' \subseteq OwnTabs(v)
    <3>1. \A q \in Tabs' : /\ q \in Tabs /\ manualTabs'[q].turn = manualTabs[q].turn
                           /\ manualTabs'[q].pid = manualTabs[q].pid
      BY KeepsChanges DEF KeepsPage
    <3> QED
      BY <3>1, KeepsChanges DEF OwnTabs, TabsOf
  <2> QED
    BY <1>0, <2>2, <2>3 DEF KeepsPage
<1> QED
  BY <1>1, <1>2

LEMMA KeepsKnowing ==
  ASSUME ManualIInv, NEW t \in ManualTurn, NEW o, KeepsPage(t, o)
  PROVE  PagesKnow'
<1> SUFFICES ASSUME NEW p \in Tabs', ~manualTabs'[p].strayed
             PROVE  LET tab == manualTabs'[p]
                    IN /\ tab.status = "running" /\ tab.posted /\ tab.key # NoKey =>
                            Epoch(answered', tab.turn) \cup {tab.turn} \subseteq tab.knows
                       /\ tab.status = "running" /\ tab.reused =>
                            Epoch(answered', tab.turn) \subseteq tab.knows
                       /\ tab.status = "ready" /\ tab.key # NoKey =>
                            \A u \in answered' : KeyOfTurn(u) = tab.key => u \in tab.knows
  BY KeepsChanges DEF PagesKnow
<1>1. CASE p = o
  <2> DEFINE s == manualTabs'[o]
             r == manualTabs[o]
  <2>1. /\ s.status = "ready" /\ s.key = KeyOfTurn(t) /\ s.knows = r.knows /\ ~r.strayed
        /\ r.status = "running" /\ r.posted /\ r.key # NoKey /\ r.turn = t /\ o \in Tabs
    BY <1>1, KeepsChanges DEF KeepsPage
  <2>2. Epoch(answered, t) \cup {t} \subseteq r.knows
    BY <2>1 DEF ManualIInv, PagesKnow
  <2>3. ASSUME NEW u \in answered, KeyOfTurn(u) = KeyOfTurn(t)
        PROVE  u \in r.knows
    <3>1. u \in ManualTurn /\ manual[u].at \in {"completed", "over"}
      BY DEF ManualIInv, OneAfterAnother, ManualTyped
    <3>2. CASE u = t
      BY <2>2, <3>2
    <3>3. CASE u # t
      <4>1. ThreadOf[u] = ThreadOf[t] /\ u \in Nat /\ t \in Nat
        BY <2>3, <3>1, Keys, ManualAssumption DEF KeepsPage, ManualTurn
      <4>2. ~(u > t)
        <5>1. t \in Earlier(u) \/ ~(u > t)
          BY <4>1 DEF Earlier
        <5> QED
          BY <3>1, <5>1 DEF KeepsPage, ManualIInv, OneAfterAnother
      <4>3. u \in Earlier(t)
        BY <3>1, <3>3, <4>1, <4>2 DEF Earlier
      <4> QED
        BY <2>2, <2>3, <4>3 DEF Epoch
    <3> QED
      BY <3>2, <3>3
  <2> QED
    BY <1>1, <2>1, <2>3, KeepsChanges
<1>2. CASE p # o
  <2>1. p \in Tabs /\ manualTabs'[p] = manualTabs[p] /\ answered' = answered
    BY <1>2, KeepsChanges
  <2> QED
    BY <2>1 DEF ManualIInv, PagesKnow
<1> QED
  BY <1>1, <1>2

-----------------------------------------------------------------------------
(* The daemon exits, and the next one asks again.                            *)

\* What ManualIInv says beside the types.
ManualParts ==
  /\ OneAfterAnother
  /\ TabsOfTheirTurns
  /\ ConnectedIsPosted
  /\ NoneKeptBeside
  /\ PagesKnow

LEMMA NextDaemonParts ==
  ASSUME ManualIInv, NextDaemon
  PROVE  ManualTyped' /\ ManualParts'
<1>0. /\ ManualTyped /\ UNCHANGED manualTabs /\ helper' = helper + 1
      /\ answered' = {t \in answered : manual[t].at = "over"}
  BY DEF ManualIInv, NextDaemon
<1>1. /\ \A t \in ManualTurn : manual'[t].at \in {"idle", "over"}
      /\ \A t \in ManualTurn : manual'[t].at = "over" <=> manual[t].at = "over"
  BY DEF NextDaemon, IdleTurn
<1>2. manual' \in [ManualTurn -> TurnRecords]
  <2>1. IdleTurn \in TurnRecords
    BY DEF IdleTurn, TurnRecords, ManualPlaces
  <2>2. \A r \in TurnRecords : [r EXCEPT !.at = "over"] \in TurnRecords
    BY DEF TurnRecords, ManualPlaces
  <2> QED
    BY <2>1, <2>2 DEF NextDaemon
<1>3. helper \in Nat /\ helper' \in Helper
  BY <1>0, ManualAssumption DEF NextDaemon, ManualTyped, Helper
<1>4. ManualTyped'
  BY <1>0, <1>2, <1>3 DEF ManualTyped
<1>5. (\A u : Earlier(u)' = Earlier(u) /\ KeyOfTurn(u)' = KeyOfTurn(u)) /\ Tabs' = Tabs
  BY <1>0 DEF Earlier, KeyOfTurn, Tabs
<1>6. \A u \in ManualTurn : Earlier(u) \subseteq ManualTurn
  BY DEF Earlier
<1>7. OneAfterAnother'
  <2>1. \A u \in ManualTurn : manual'[u].at # "idle" => manual[u].at # "idle"
    BY <1>1 DEF ManualIInv, OneAfterAnother
  <2>2. \A u \in answered : u \in ManualTurn
    BY <1>0 DEF ManualTyped
  <2> QED
    BY <1>0, <1>1, <1>5, <1>6, <2>1, <2>2 DEF ManualIInv, OneAfterAnother
<1>8. \A p \in Tabs : manualTabs[p].pid < helper' /\ manualTabs[p].turn \in ManualTurn
  <2>1. ASSUME NEW p \in Tabs
        PROVE  manualTabs[p].pid < helper' /\ manualTabs[p].turn \in ManualTurn
    <3>1. manualTabs[p].pid \in Nat /\ manualTabs[p].turn \in ManualTurn
      BY <1>0, TabThere, TabFields
    <3>2. manualTabs[p].pid <= helper
      BY DEF ManualIInv, TabsOfTheirTurns
    <3> QED
      BY <1>0, <1>3, <3>1, <3>2
  <2> QED
    BY <2>1
<1>9. TabsOfTheirTurns'
  <2>1. ASSUME NEW p \in Tabs'
        PROVE  LET tab == manualTabs'[p]
             IN /\ tab.pid <= helper'
                /\ tab.pid = helper' => manual'[tab.turn].at # "idle"
                /\ \A u \in Earlier(tab.turn) : manual'[u].at = "over"
                /\ tab.key \in {NoKey, KeyOfTurn(tab.turn)}
                /\ tab.state \in LiveStates => tab.status = "running"
                /\ tab.reused /\ tab.status = "running" => tab.key # NoKey
    <3>1. p \in Tabs /\ manualTabs'[p] = manualTabs[p]
      BY <1>0, <1>5
    <3>2. manualTabs[p].pid < helper' /\ manualTabs[p].turn \in ManualTurn
      BY <1>8, <3>1
    <3>3. manualTabs[p].pid \in Nat /\ helper' \in Nat
      BY <1>0, <1>3, <3>1, TabThere, TabFields
    <3>4. \A u \in Earlier(manualTabs[p].turn) : manual'[u].at = "over"
      BY <1>1, <1>6, <3>1, <3>2 DEF ManualIInv, TabsOfTheirTurns
    <3> QED
      BY <3>1, <3>2, <3>3, <3>4 DEF ManualIInv, TabsOfTheirTurns
  <2>2. \A p, q \in Tabs' : manualTabs'[p].turn = manualTabs'[q].turn => p = q
    BY <1>0, <1>5 DEF ManualIInv, TabsOfTheirTurns
  <2> QED
    BY <1>5, <2>1, <2>2 DEF TabsOfTheirTurns
<1>10. ConnectedIsPosted'
  BY <1>0, <1>1, <1>5, <1>8 DEF ConnectedIsPosted
<1>11. NoneKeptBeside'
  BY <1>1, ManualAssumption DEF NoneKeptBeside
<1>12. PagesKnow'
  <2>1. \A t : Epoch(answered, t)' \subseteq Epoch(answered, t)
    BY <1>0, <1>5 DEF Epoch
  <2> QED
    BY <1>0, <1>5, <2>1 DEF ManualIInv, PagesKnow
<1> QED
  BY <1>4, <1>7, <1>9, <1>10, <1>11, <1>12 DEF ManualParts

-----------------------------------------------------------------------------
(* Which steps are which.                                                    *)

LEMMA TurnFields ==
  ASSUME NEW r \in TurnRecords, NEW to \in ManualPlaces
  PROVE  /\ [r EXCEPT !.at = to] \in TurnRecords
         /\ [r EXCEPT !.tries = 2] \in TurnRecords /\ [r EXCEPT !.tries = 2].at = r.at
         /\ [r EXCEPT !.tries = 2, !.at = to] \in TurnRecords
         /\ [r EXCEPT !.at = to].at = to /\ [r EXCEPT !.tries = 2, !.at = to].at = to
<1>1. [r EXCEPT !.at = to] \in TurnRecords /\ [r EXCEPT !.at = to].at = to
  BY DEF TurnRecords
<1>2. [r EXCEPT !.tries = 2] \in TurnRecords /\ [r EXCEPT !.tries = 2].at = r.at
  BY DEF TurnRecords
<1> DEFINE m == [r EXCEPT !.tries = 2, !.at = to]
<1>3. m = [[r EXCEPT !.tries = 2] EXCEPT !.at = to]
  BY DEF TurnRecords
<1>4. m \in TurnRecords
  BY <1>2 DEF TurnRecords
<1>5. m.at = to
  BY DEF TurnRecords
<1> QED
  BY <1>1, <1>2, <1>4, <1>5

\* A turn that goes to a place, and one that fails.
LEMMA TurnUpdates ==
  ASSUME ManualTyped, NEW t \in ManualTurn
  PROVE  /\ manual[t] \in TurnRecords /\ manual[t].at \in ManualPlaces
         /\ \A to \in ManualPlaces : GoesTo(t, to) =>
              /\ manual' \in [ManualTurn -> TurnRecords] /\ manual'[t].at = to
              /\ \A u \in ManualTurn \ {t} : manual'[u] = manual[u]
         /\ ManualFails(t) =>
              /\ manual' \in [ManualTurn -> TurnRecords]
              /\ manual'[t].at \in {"over", "aborted", "failed"}
              /\ manual[t].at = "starting" => manual'[t].at = "over"
              /\ \A u \in ManualTurn \ {t} : manual'[u] = manual[u]
<1>1. manual[t] \in TurnRecords /\ manual[t].at \in ManualPlaces
  BY DEF ManualTyped, TurnRecords
<1>2. ASSUME NEW to \in ManualPlaces, GoesTo(t, to)
      PROVE  /\ manual' \in [ManualTurn -> TurnRecords] /\ manual'[t].at = to
             /\ \A u \in ManualTurn \ {t} : manual'[u] = manual[u]
  <2> DEFINE m == [[manual[t] EXCEPT !.at = to] EXCEPT !.tries = 2]
  <2>1. m \in TurnRecords /\ m.at = to
    BY <1>1, TurnFields
  <2>2. manual' = [manual EXCEPT ![t] = m]
    BY <1>2 DEF GoesTo, ManualTyped
  <2> HIDE DEF m
  <2> QED
    BY <2>1, <2>2 DEF ManualTyped
<1>3. ASSUME ManualFails(t)
      PROVE  /\ manual' \in [ManualTurn -> TurnRecords]
             /\ manual'[t].at \in {"over", "aborted", "failed"}
             /\ manual[t].at = "starting" => manual'[t].at = "over"
             /\ \A u \in ManualTurn \ {t} : manual'[u] = manual[u]
  <2> DEFINE m == Failing(manual[t])
             to == IF manual[t].at = "starting" THEN "over"
                   ELSE IF manual[t].aborted THEN "aborted" ELSE "failed"
  <2>1. to \in {"over", "aborted", "failed"} /\ (manual[t].at = "starting" => to = "over")
    OBVIOUS
  <2>2. m = [manual[t] EXCEPT !.tries = 2, !.at = to]
    BY DEF Failing
  <2>3. manual' = [manual EXCEPT ![t] = m]
    BY <1>3 DEF ManualFails
  <2> HIDE DEF to, m
  <2>4. to \in ManualPlaces
    BY <2>1 DEF ManualPlaces, Ending
  <2>5. m \in TurnRecords /\ m.at = to
    BY <1>1, <2>2, <2>4, TurnFields
  <2> QED
    BY <2>1, <2>3, <2>5 DEF ManualTyped
<1> QED
  BY <1>1, <1>2, <1>3

\* What the daemon makes of a mutation whose acknowledgement it does not get.
LEMMA UnheardGoes ==
  ASSUME ManualTyped, NEW t \in ManualTurn, Unheard(t)
  PROVE  /\ manual' \in [ManualTurn -> TurnRecords]
         /\ \A u \in ManualTurn \ {t} : manual'[u].at = manual[u].at
         /\ \/ manual'[t].at = manual[t].at
            \/ manual[t].at \in Ending /\ manual'[t].at = "over"
            \/ /\ manual[t].at \notin Ending
               /\ manual'[t].at \in {"over", "aborted", "failed"}
               /\ manual[t].at = "starting" => manual'[t].at = "over"
<1>1. CASE manual[t].tries = 2
  <2> DEFINE m == [manual[t] EXCEPT !.tries = 1]
  <2>1. m \in TurnRecords /\ m.at = manual[t].at
    BY TurnUpdates DEF TurnRecords
  <2>2. manual' = [manual EXCEPT ![t] = m]
    BY <1>1 DEF Unheard
  <2> HIDE DEF m
  <2> QED
    BY <2>1, <2>2 DEF ManualTyped
<1>2. CASE manual[t].tries # 2 /\ manual[t].at \in Ending
  <2>1. GoesTo(t, "over") /\ "over" \in ManualPlaces
    BY <1>2 DEF Unheard, ManualPlaces
  <2> QED
    BY <1>2, <2>1, TurnUpdates
<1>3. CASE manual[t].tries # 2 /\ manual[t].at \notin Ending
  <2>1. ManualFails(t)
    BY <1>3 DEF Unheard
  <2> QED
    BY <1>3, <2>1, TurnUpdates
<1> QED
  BY <1>1, <1>2, <1>3

\* A turn is interrupted where it is.
LEMMA AbortGoes ==
  ASSUME ManualTyped, NEW t \in ManualTurn, manual' = [manual EXCEPT ![t].aborted = TRUE]
  PROVE  /\ manual' \in [ManualTurn -> TurnRecords]
         /\ \A u \in ManualTurn : manual'[u].at = manual[u].at
<1> DEFINE m == [manual[t] EXCEPT !.aborted = TRUE]
<1>1. m \in TurnRecords /\ m.at = manual[t].at
  BY TurnUpdates DEF TurnRecords
<1>2. manual' = [manual EXCEPT ![t] = m]
  OBVIOUS
<1> HIDE DEF m
<1> QED
  BY <1>1, <1>2 DEF ManualTyped

-----------------------------------------------------------------------------
\* Tabs that change in one of the ways are still tabs.
LEMMA TabsTyped ==
  ASSUME ManualTyped, NEW p \in Page, NEW s,
         s = NoTab \/ s \in TabRecords, manualTabs' = [manualTabs EXCEPT ![p] = s]
  PROVE  /\ manualTabs' \in [Page -> TabRecords \cup {NoTab}] /\ manualTabs'[p] = s
         /\ \A q \in Page \ {p} : manualTabs'[q] = manualTabs[q]
  BY DEF ManualTyped

\* How the fields of a tab change.
LEMMA TabUpdates ==
  ASSUME NEW r \in TabRecords
  PROVE  /\ GoesOn(r, [r EXCEPT !.state = "cancelled", !.armed = FALSE, !.closing = TRUE])
         /\ GoesOn(r, [r EXCEPT !.state = "timed-out", !.armed = FALSE, !.status = "error"])
         /\ r.state = "awaiting-user" =>
              GoesOn(r, [r EXCEPT !.state = "sent", !.armed = FALSE])
         /\ r.state \in {"sent", "running"} =>
              GoesOn(r, [r EXCEPT !.state = "running", !.armed = FALSE])
  BY DEF TabRecords, GoesOn, LiveStates, TabStates

LEMMA WithoutTyped ==
  ASSUME ManualTyped, NEW p \in Page, Without(p)
  PROVE  /\ manualTabs' \in [Page -> TabRecords \cup {NoTab}]
         /\ \A q \in Page : manualTabs'[q] \in {manualTabs[q], NoTab}
  BY TabsTyped DEF Without

-----------------------------------------------------------------------------
LEMMA TabsStay ==
  ASSUME ManualTyped, UNCHANGED manualTabs
  PROVE  /\ manualTabs' \in [Page -> TabRecords \cup {NoTab}]
         /\ \A p \in Page : QuietPage(p)
  BY DEF ManualTyped, QuietPage

LEMMA TabsGo ==
  ASSUME ManualTyped, NEW p \in Page, Without(p)
  PROVE  /\ manualTabs' \in [Page -> TabRecords \cup {NoTab}]
         /\ \A q \in Page : QuietPage(q)
  BY WithoutTyped DEF QuietPage

\* The steps of the daemon that leave the launcher alone.
LEMMA DaemonSteps ==
  ASSUME ManualIInv, NEW t \in ManualTurn,
         \/ BeginManual(t) \/ LoseRequest(t) \/ WaitSent(t) \/ AbortSeen(t) \/ TerminalSeen(t)
         \/ LoseWait(t) \/ ConnectorStarts(t) \/ AnswerArrives(t) \/ AbortManual(t)
  PROVE  Goes(t) /\ UNCHANGED opened
<1>1. ManualTyped
  BY DEF ManualIInv
<1>2. UNCHANGED <<manualTabs, opened, helper>>
  BY DEF BeginManual, LoseRequest, WaitSent, AbortSeen, TerminalSeen, LoseWait, ConnectorStarts,
         AnswerArrives, AbortManual, Elsewhere, User
<1>3. manualTabs' \in [Page -> TabRecords \cup {NoTab}] /\ \A p \in Page : QuietPage(p)
  BY <1>1, <1>2, TabsStay
<1>4. helper \in Helper /\ answered \subseteq ManualTurn
  BY <1>1 DEF ManualTyped
<1>5. SUFFICES
             /\ manual' \in [ManualTurn -> TurnRecords]
             /\ \A u \in ManualTurn \ {t} : manual'[u].at = manual[u].at
             /\ \/ /\ answered' = answered
                   /\ \/ manual'[t].at = manual[t].at
                      \/ /\ manual[t].at = "idle" /\ manual'[t].at = "starting"
                         /\ \A u \in Earlier(t) : manual[u].at = "over"
                      \/ manual[t].at \in Waiting /\ manual'[t].at \in {"over", "aborted", "failed"}
                      \/ manual[t].at \in Ending /\ manual'[t].at = "over"
                      \/ manual[t].at = "sending" /\ manual'[t].at = "connecting"
                      \/ /\ manual[t].at = "connecting" /\ manual'[t].at = "marking"
                         /\ \E p \in OwnTabs(t) : manualTabs[p].posted
                \/ /\ manual[t].at = "working" /\ manual'[t].at = "completed"
                   /\ answered' = answered \cup {t}
  <2>1. ManualTyped'
    BY <1>2, <1>3, <1>4, <1>5 DEF ManualTyped
  <2> QED
    BY <1>2, <1>3, <1>5, <2>1 DEF Goes
<1>6. CASE BeginManual(t)
  <2>1. manual[t].at = "idle" /\ GoesTo(t, "starting") /\ UNCHANGED answered
    BY <1>6 DEF BeginManual, Elsewhere
  <2>2. \A u \in Earlier(t) : manual[u].at = "over"
    BY <1>6 DEF BeginManual, Earlier
  <2>3. "starting" \in ManualPlaces
    BY DEF ManualPlaces, Waiting
  <2> QED
    BY <1>1, <2>1, <2>2, <2>3, TurnUpdates
<1>7. CASE LoseRequest(t)
  <2>1. /\ manual[t].at \in {"starting", "marking"} \cup Ending
        /\ Unheard(t) /\ UNCHANGED answered
    BY <1>7 DEF LoseRequest, Elsewhere
  <2>2. manual[t].at \in Ending \/ manual[t].at \in Waiting
    BY <2>1 DEF Waiting
  <2> QED
    BY <1>1, <2>1, <2>2, UnheardGoes
<1>8. CASE WaitSent(t)
  <2>1. /\ manual[t].at = "sending" /\ UNCHANGED answered
        /\ GoesTo(t, "connecting") \/ ManualFails(t)
    BY <1>8 DEF WaitSent, Elsewhere
  <2>2. "connecting" \in ManualPlaces /\ "sending" \in Waiting
    BY DEF ManualPlaces, Waiting
  <2> QED
    BY <1>1, <2>1, <2>2, TurnUpdates
<1>9. CASE AbortSeen(t) \/ TerminalSeen(t) \/ LoseWait(t)
  <2>1. /\ manual[t].at \in {"sending", "connecting", "working"} /\ ManualFails(t)
        /\ UNCHANGED answered
    BY <1>9 DEF AbortSeen, TerminalSeen, LoseWait, Elsewhere
  <2>2. manual[t].at \in Waiting
    BY <2>1 DEF Waiting
  <2> QED
    BY <1>1, <2>1, <2>2, TurnUpdates
<1>10. CASE ConnectorStarts(t)
  <2>1. /\ manual[t].at = "connecting" /\ GoesTo(t, "marking") /\ UNCHANGED answered
        /\ \E p \in OwnTabs(t) : manualTabs[p].posted
    BY <1>10 DEF ConnectorStarts, Elsewhere
  <2>2. "marking" \in ManualPlaces
    BY DEF ManualPlaces, Waiting
  <2> QED
    BY <1>1, <2>1, <2>2, TurnUpdates
<1>11. CASE AnswerArrives(t)
  <2>1. manual[t].at = "working" /\ GoesTo(t, "completed") /\ answered' = answered \cup {t}
    BY <1>11 DEF AnswerArrives
  <2>2. "completed" \in ManualPlaces
    BY DEF ManualPlaces, Ending
  <2> QED
    BY <1>1, <2>1, <2>2, TurnUpdates
<1>12. CASE AbortManual(t)
  <2>1. manual' = [manual EXCEPT ![t].aborted = TRUE] /\ UNCHANGED answered
    BY <1>12 DEF AbortManual, User
  <2> QED
    BY <1>1, <2>1, AbortGoes
<1> QED
  BY <1>6, <1>7, <1>8, <1>9, <1>10, <1>11, <1>12

\* What the user, the page or the launcher does to a tab of a turn.
LEMMA TabSteps ==
  ASSUME ManualIInv, NEW p \in Page, p \in Tabs, UNCHANGED <<helper, answered>>,
         manualTabs' \in [Page -> TabRecords \cup {NoTab}],
         \A q \in Page : QuietPage(q),
         \/ UNCHANGED manual
         \/ manual' = [manual EXCEPT ![manualTabs[p].turn].aborted = TRUE]
  PROVE  \E t \in ManualTurn : Goes(t)
<1>1. ManualTyped
  BY DEF ManualIInv
<1>2. manualTabs[p].turn \in ManualTurn
  BY <1>1, TabThere, TabFields
<1>3. PICK t \in ManualTurn : t = manualTabs[p].turn
  BY <1>2
<1>4. manual' \in [ManualTurn -> TurnRecords] /\ \A u \in ManualTurn : manual'[u].at = manual[u].at
  <2>1. CASE UNCHANGED manual
    BY <1>1, <2>1 DEF ManualTyped
  <2>2. CASE manual' = [manual EXCEPT ![manualTabs[p].turn].aborted = TRUE]
    BY <1>1, <1>3, <2>2, AbortGoes
  <2> QED
    BY <2>1, <2>2
<1>5. ManualTyped'
  BY <1>1, <1>4 DEF ManualTyped
<1> QED
  BY <1>3, <1>4, <1>5 DEF Goes

\* A step that changes one tab.
LEMMA OneTab ==
  ASSUME ManualTyped, NEW p \in Page, p \in Tabs, NEW s,
         manualTabs' = [manualTabs EXCEPT ![p] = s],
         \/ GoesOn(manualTabs[p], s) \/ GetsPrompt(manualTabs[p], s) \/ Moves(manualTabs[p], s)
  PROVE  /\ manualTabs' \in [Page -> TabRecords \cup {NoTab}]
         /\ \A q \in Page : QuietPage(q)
<1>1. s \in TabRecords
  BY DEF GoesOn, GetsPrompt, Moves
<1>2. /\ manualTabs' \in [Page -> TabRecords \cup {NoTab}] /\ manualTabs'[p] = s
      /\ \A q \in Page \ {p} : manualTabs'[q] = manualTabs[q]
  BY <1>1, TabsTyped
<1> QED
  BY <1>2 DEF QuietPage

LEMMA PostUpdates ==
  ASSUME NEW r \in TabRecords, r.status = "running", NEW k \in SUBSET ManualTurn,
         k = {r.turn} \cup (IF r.reused THEN r.knows ELSE HistoryOf(r.turn))
  PROVE  GetsPrompt(r, [r EXCEPT !.posted = TRUE, !.knows = k])
<1> DEFINE s == [r EXCEPT !.posted = TRUE, !.knows = k]
<1>1. s \in TabRecords
  BY DEF TabRecords
<1>2. /\ s.turn = r.turn /\ s.pid = r.pid /\ s.key = r.key /\ s.status = r.status
      /\ s.state = r.state /\ s.knows = k
  BY DEF TabRecords
<1>3. s.reused = r.reused /\ s.strayed = r.strayed /\ s.posted = TRUE
  BY DEF TabRecords
<1> HIDE DEF s
<1>4. /\ s.status = "running"
      /\ s.knows = {r.turn} \cup (IF r.reused THEN r.knows ELSE HistoryOf(r.turn))
  BY <1>2
<1>5. s.posted
  BY <1>3
<1> QED
  BY Zenon, <1>1, <1>2, <1>3, <1>4, <1>5 DEF GetsPrompt, s

\* The page of a tab that was never left, and that of one that was.
LEMMA LeftTab ==
  ASSUME NEW r \in TabRecords, NEW b \in BOOLEAN
  PROVE  LET s == [r EXCEPT !.knows = {}, !.strayed = b]
         IN /\ s \in TabRecords /\ s.strayed = b
            /\ s.turn = r.turn /\ s.pid = r.pid /\ s.key = r.key /\ s.status = r.status
            /\ s.state = r.state /\ s.reused = r.reused /\ s.posted = r.posted
  BY DEF TabRecords

LEMMA ForgottenTab ==
  ASSUME NEW r \in TabRecords
  PROVE  LET s == [r EXCEPT !.key = NoKey]
             e == [[r EXCEPT !.state = "failed", !.armed = FALSE] EXCEPT
                     !.key = NoKey, !.status = "error"]
         IN /\ s \in TabRecords /\ s.key = NoKey
            /\ s.turn = r.turn /\ s.pid = r.pid /\ s.status = r.status
            /\ s.state = r.state /\ s.reused = r.reused /\ s.posted = r.posted
            /\ e \in TabRecords /\ e.key = NoKey /\ e.status = "error" /\ e.state = "failed"
            /\ e.turn = r.turn /\ e.pid = r.pid
            /\ e.reused = r.reused /\ e.posted = r.posted
<1> DEFINE s == [r EXCEPT !.key = NoKey]
           f == [r EXCEPT !.state = "failed", !.armed = FALSE]
           e == [f EXCEPT !.key = NoKey, !.status = "error"]
<1>1. /\ s \in TabRecords /\ s.key = NoKey
      /\ s.turn = r.turn /\ s.pid = r.pid /\ s.status = r.status
      /\ s.state = r.state /\ s.reused = r.reused /\ s.posted = r.posted
  BY DEF TabRecords
<1>2. /\ f \in TabRecords /\ f.state = "failed" /\ f.turn = r.turn /\ f.pid = r.pid
      /\ f.reused = r.reused /\ f.posted = r.posted
  BY DEF TabRecords, TabStates
<1> HIDE DEF f
<1>3. /\ e \in TabRecords /\ e.key = NoKey /\ e.status = "error" /\ e.state = f.state
      /\ e.turn = f.turn /\ e.pid = f.pid
      /\ e.reused = f.reused /\ e.posted = f.posted
  BY <1>2 DEF TabRecords
<1> QED
  BY <1>1, <1>2, <1>3 DEF f

LEMMA NavigateMoves ==
  ASSUME ManualTyped, NEW p \in Page, Navigate(p)
  PROVE  \E s : manualTabs' = [manualTabs EXCEPT ![p] = s] /\ Moves(manualTabs[p], s)
<1> DEFINE r == manualTabs[p]
<1>1. p \in Tabs
  BY DEF Navigate
<1>2. r \in TabRecords
  BY <1>1, TabThere
<1>3. PICK leaves \in BOOLEAN :
        LET moved == IF leaves THEN [r EXCEPT !.knows = {}, !.strayed = Unconfirmed(r)] ELSE r
        IN IF Continues(r)
           THEN manualTabs' = [manualTabs EXCEPT ![p] = moved]
           ELSE IF r.reused /\ r.status = "running"
           THEN manualTabs' = [manualTabs EXCEPT ![p] =
                        [Signalled(moved, "failed") EXCEPT !.key = NoKey, !.status = "error"]]
           ELSE manualTabs' = [manualTabs EXCEPT ![p] = [moved EXCEPT !.key = NoKey]]
  BY DEF Navigate
<1> DEFINE moved == IF leaves THEN [r EXCEPT !.knows = {}, !.strayed = Unconfirmed(r)] ELSE r
<1>4. Unconfirmed(r) \in BOOLEAN
  BY <1>2 DEF Unconfirmed, TabRecords
<1>5. /\ moved \in TabRecords
      /\ moved.turn = r.turn /\ moved.pid = r.pid /\ moved.key = r.key
      /\ moved.status = r.status /\ moved.state = r.state /\ moved.reused = r.reused
      /\ moved.posted = r.posted
      /\ \/ moved = r
         \/ moved.strayed = Unconfirmed(r)
  <2>1. CASE leaves
    BY <1>2, <1>4, <2>1, LeftTab
  <2>2. CASE ~leaves
    BY <1>2, <2>2
  <2> QED
    BY <2>1, <2>2
<1>6. /\ Continues(r) => manualTabs' = [manualTabs EXCEPT ![p] = moved]
      /\ ~Continues(r) /\ r.reused /\ r.status = "running" =>
           manualTabs' = [manualTabs EXCEPT ![p] =
             [Signalled(moved, "failed") EXCEPT !.key = NoKey, !.status = "error"]]
      /\ ~Continues(r) /\ ~(r.reused /\ r.status = "running") =>
           manualTabs' = [manualTabs EXCEPT ![p] = [moved EXCEPT !.key = NoKey]]
  BY <1>3
<1> HIDE DEF moved, r
<1>7. CASE Continues(r)
  <2>1. r.key = NoKey \/ (~r.reused /\ r.state = "awaiting-user")
    BY <1>7 DEF Continues
  <2>2. moved = r \/ (moved.strayed = (r.strayed \/ (r.posted /\ r.state = "awaiting-user")))
    BY <1>5 DEF Unconfirmed
  <2>3. r.key # NoKey /\ ~moved.strayed /\ r.posted => ~r.strayed /\ moved.knows = r.knows
    BY <2>1, <2>2
  <2>4. Moves(r, moved)
    BY <1>5, <2>1, <2>3 DEF Moves
  <2> QED
    BY <1>6, <1>7, <2>4 DEF r
<1>8. CASE ~Continues(r) /\ r.reused /\ r.status = "running"
  <2> DEFINE e == [[moved EXCEPT !.state = "failed", !.armed = FALSE] EXCEPT
                     !.key = NoKey, !.status = "error"]
  <2>1. manualTabs' = [manualTabs EXCEPT ![p] = e]
    BY <1>6, <1>8 DEF Signalled
  <2>2. /\ e \in TabRecords /\ e.key = NoKey /\ e.status = "error" /\ e.state = "failed"
        /\ e.turn = moved.turn /\ e.pid = moved.pid
        /\ e.reused = moved.reused /\ e.posted = moved.posted
    BY <1>5, ForgottenTab
  <2> HIDE DEF e
  <2>3. Moves(r, e)
    BY <1>5, <2>2 DEF Moves, LiveStates
  <2> QED
    BY <2>1, <2>3 DEF r
<1>9. CASE ~Continues(r) /\ ~(r.reused /\ r.status = "running")
  <2> DEFINE e == [moved EXCEPT !.key = NoKey]
  <2>1. manualTabs' = [manualTabs EXCEPT ![p] = e]
    BY <1>6, <1>9
  <2>2. /\ e \in TabRecords /\ e.key = NoKey
        /\ e.turn = moved.turn /\ e.pid = moved.pid /\ e.status = moved.status
        /\ e.state = moved.state /\ e.reused = moved.reused /\ e.posted = moved.posted
    BY <1>5, ForgottenTab
  <2> HIDE DEF e
  <2>3. Moves(r, e)
    BY <1>5, <1>9, <2>2 DEF Moves
  <2> QED
    BY <2>1, <2>3 DEF r
<1> QED
  BY <1>7, <1>8, <1>9

\* What happens to a page.
LEMMA PageGoes ==
  ASSUME ManualIInv, NEW p \in Page, PageSteps(p)
  PROVE  UNCHANGED opened /\ \E t \in ManualTurn : Goes(t)
<1>1. ManualTyped
  BY DEF ManualIInv
<1>2. p \in Tabs
  BY DEF PageSteps, Post, PressSent, Deadline, Navigate, PageFails, CloseManual, CancelTurn,
         ClosedManual, ReapManual
<1>3. UNCHANGED <<opened, helper, answered>>
  BY DEF PageSteps, Post, PressSent, Deadline, Navigate, PageFails, CloseManual, CancelTurn,
         ClosedManual, ReapManual, User
<1>4. \/ UNCHANGED manual
      \/ manual' = [manual EXCEPT ![manualTabs[p].turn].aborted = TRUE]
  BY DEF PageSteps, Post, PressSent, Deadline, Navigate, PageFails, CloseManual, CancelTurn,
         ClosedManual, ReapManual, User
<1> DEFINE r == manualTabs[p]
<1>5. r \in TabRecords
  BY <1>1, <1>2, TabThere
<1>6. SUFFICES \/ UNCHANGED manualTabs \/ Without(p)
               \/ \E s : /\ manualTabs' = [manualTabs EXCEPT ![p] = s]
                         /\ GoesOn(r, s) \/ GetsPrompt(r, s) \/ Moves(r, s)
  <2>1. /\ manualTabs' \in [Page -> TabRecords \cup {NoTab}]
        /\ \A q \in Page : QuietPage(q)
    <3>1. CASE UNCHANGED manualTabs
      BY <1>1, <3>1, TabsStay
    <3>2. CASE Without(p)
      BY <1>1, <3>2, TabsGo
    <3>3. CASE \E s : /\ manualTabs' = [manualTabs EXCEPT ![p] = s]
                      /\ GoesOn(r, s) \/ GetsPrompt(r, s) \/ Moves(r, s)
      BY <1>1, <1>2, <3>3, OneTab
    <3> QED
      BY <1>6, <3>1, <3>2, <3>3
  <2> QED
    BY <1>2, <1>3, <1>4, <2>1, TabSteps
<1>7. CASE Post(p)
  <2> DEFINE k == {r.turn} \cup (IF r.reused THEN r.knows ELSE HistoryOf(r.turn))
  <2>1. /\ r.status = "running"
        /\ manualTabs' = [manualTabs EXCEPT ![p].posted = TRUE, ![p].knows = k]
    BY <1>7 DEF Post
  <2>2. k \in SUBSET ManualTurn
    BY <1>1, <1>5, TabFields DEF HistoryOf, ManualTyped
  <2>3. GetsPrompt(r, [r EXCEPT !.posted = TRUE, !.knows = k])
    BY <1>5, <2>1, <2>2, PostUpdates
  <2> HIDE DEF k
  <2>4. manualTabs' = [manualTabs EXCEPT ![p] = [r EXCEPT !.posted = TRUE, !.knows = k]]
    BY <1>1, <1>5, <2>1 DEF ManualTyped, TabRecords
  <2> QED
    BY <2>3, <2>4
<1>8. CASE PressSent(p)
  <2>1. /\ r.state = "awaiting-user"
        /\ manualTabs' = [manualTabs EXCEPT ![p].state = "sent", ![p].armed = FALSE]
    BY <1>8 DEF PressSent
  <2>2. manualTabs' = [manualTabs EXCEPT ![p] = [r EXCEPT !.state = "sent", !.armed = FALSE]]
    BY <1>1, <1>5, <2>1 DEF ManualTyped, TabRecords
  <2> QED
    BY <1>5, <2>1, <2>2, TabUpdates
<1>9. CASE Deadline(p)
  <2> DEFINE s == [r EXCEPT !.state = "timed-out", !.armed = FALSE, !.status = "error"]
  <2>1. manualTabs' = [manualTabs EXCEPT ![p] =
          [[r EXCEPT !.state = "timed-out", !.armed = FALSE] EXCEPT !.status = "error"]]
    BY <1>9 DEF Deadline, Signalled
  <2>2. [[r EXCEPT !.state = "timed-out", !.armed = FALSE] EXCEPT !.status = "error"] = s
    BY <1>5 DEF TabRecords
  <2>3. manualTabs' = [manualTabs EXCEPT ![p] = s]
    BY <2>1, <2>2
  <2> QED
    BY <1>5, <2>3, TabUpdates
<1>10. CASE Navigate(p)
  BY <1>1, <1>10, NavigateMoves
<1>11. CASE PageFails(p)
  BY <1>11 DEF PageFails, FailsToLoad
<1>12. CASE CloseManual(p)
  <2>1. CASE r.status = "running"
    <3> DEFINE s == [r EXCEPT !.state = "cancelled", !.armed = FALSE, !.closing = TRUE]
    <3>1. manualTabs' = [manualTabs EXCEPT ![p] =
            [[r EXCEPT !.state = "cancelled", !.armed = FALSE] EXCEPT !.closing = TRUE]]
      BY <1>12, <2>1 DEF CloseManual, Signalled
    <3>2. [[r EXCEPT !.state = "cancelled", !.armed = FALSE] EXCEPT !.closing = TRUE] = s
      BY <1>5 DEF TabRecords
    <3>3. manualTabs' = [manualTabs EXCEPT ![p] = s]
      BY <3>1, <3>2
    <3> QED
      BY <1>5, <3>3, TabUpdates
  <2>2. CASE r.status # "running"
    BY <1>12, <2>2 DEF CloseManual
  <2> QED
    BY <2>1, <2>2
<1>13. CASE CancelTurn(p)
  BY <1>13 DEF CancelTurn
<1>14. CASE ClosedManual(p)
  BY <1>14 DEF ClosedManual
<1>15. CASE ReapManual(p)
  BY <1>15 DEF ReapManual
<1>16. \/ Post(p) \/ PressSent(p) \/ Deadline(p) \/ Navigate(p) \/ PageFails(p)
       \/ CloseManual(p) \/ CancelTurn(p) \/ ClosedManual(p) \/ ReapManual(p)
  BY Zenon DEF PageSteps
<1> QED
  BY <1>7, <1>8, <1>9, <1>10, <1>11, <1>12, <1>13, <1>14, <1>15, <1>16

LEMMA ReleaseGoes ==
  ASSUME ManualIInv, NEW t \in Kept, ReleaseKey(KeyOfTurn(t))
  PROVE  UNCHANGED opened /\ Goes(t)
<1>1. ManualTyped /\ t \in ManualTurn
  BY ManualAssumption DEF ManualIInv
<1>2. UNCHANGED <<opened, helper, answered, manual>>
  BY DEF ReleaseKey, User
<1>3. \A q \in Page : manualTabs'[q] \in {manualTabs[q], NoTab}
  BY DEF ReleaseKey
<1>4. manualTabs' \in [Page -> TabRecords \cup {NoTab}]
  BY <1>1 DEF ReleaseKey, ManualTyped
<1>5. ManualTyped'
  BY <1>1, <1>2, <1>4 DEF ManualTyped
<1>6. \A q \in Page : QuietPage(q)
  BY <1>3 DEF QuietPage
<1> QED
  BY <1>1, <1>2, <1>5, <1>6 DEF Goes

\* A mutation of a turn whose tabs stay or go, and what the daemon makes of it.
LEMMA MutationGoes ==
  ASSUME ManualIInv, NEW t \in ManualTurn, UNCHANGED <<helper, answered>>,
         manualTabs' \in [Page -> TabRecords \cup {NoTab}],
         \A q \in Page : QuietPage(q),
         \/ Unheard(t) /\ manual[t].at \in Waiting \cup Ending
         \/ ManualFails(t) /\ manual[t].at \in Waiting
         \/ GoesTo(t, "over") /\ manual[t].at \in Ending
         \/ GoesTo(t, "working") /\ manual[t].at = "marking"
         \/ GoesTo(t, "sending") /\ manual[t].at = "starting" /\ OwnTabs(t) # {}
  PROVE  Goes(t)
<1>1. ManualTyped
  BY DEF ManualIInv
<1>2. SUFFICES
        /\ manual' \in [ManualTurn -> TurnRecords]
        /\ \A u \in ManualTurn \ {t} : manual'[u].at = manual[u].at
        /\ \/ manual'[t].at = manual[t].at
           \/ manual[t].at \in Waiting /\ manual'[t].at \in {"over", "aborted", "failed"}
           \/ manual[t].at \in Ending /\ manual'[t].at = "over"
           \/ manual[t].at = "starting" /\ manual'[t].at = "sending" /\ OwnTabs(t) # {}
           \/ manual[t].at = "marking" /\ manual'[t].at = "working"
  <2>1. ManualTyped'
    BY <1>1, <1>2 DEF ManualTyped
  <2> QED
    BY <1>2, <2>1 DEF Goes
<1>3. "over" \in ManualPlaces /\ "working" \in ManualPlaces /\ "sending" \in ManualPlaces
  BY DEF ManualPlaces, Waiting
<1>4. CASE Unheard(t) /\ manual[t].at \in Waiting \cup Ending
  BY <1>1, <1>4, UnheardGoes
<1>5. CASE ManualFails(t) /\ manual[t].at \in Waiting
  BY <1>1, <1>5, TurnUpdates
<1>6. CASE GoesTo(t, "over") /\ manual[t].at \in Ending
  BY <1>1, <1>3, <1>6, TurnUpdates
<1>7. CASE GoesTo(t, "working") /\ manual[t].at = "marking"
  BY <1>1, <1>3, <1>7, TurnUpdates
<1>8. CASE GoesTo(t, "sending") /\ manual[t].at = "starting" /\ OwnTabs(t) # {}
  BY <1>1, <1>3, <1>8, TurnUpdates
<1> QED
  BY <1>4, <1>5, <1>6, <1>7, <1>8

LEMMA MarkGoes ==
  ASSUME ManualIInv, NEW t \in ManualTurn, MarkStarted(t)
  PROVE  UNCHANGED opened /\ Goes(t)
<1>1. ManualTyped /\ TabsOfTheirTurns
  BY DEF ManualIInv
<1>2. PICK ok \in BOOLEAN :
        /\ HostMark(t, ok)
        /\ \/ Unheard(t)
           \/ UNCHANGED lost /\ IF ok THEN GoesTo(t, "working") ELSE ManualFails(t)
  BY DEF MarkStarted
<1>3. UNCHANGED <<opened, helper, answered>> /\ manual[t].at = "marking"
  BY <1>2 DEF MarkStarted, HostMark
<1>4. Unheard(t) \/ GoesTo(t, "working") \/ ManualFails(t)
  BY <1>2
<1>5. manual[t].at \in Waiting
  BY <1>3 DEF Waiting
<1>6. /\ manualTabs' \in [Page -> TabRecords \cup {NoTab}]
      /\ \A q \in Page : QuietPage(q)
  <2>1. CASE ok
    <3>1. PICK p \in OwnTabs(t) :
            manualTabs' = [manualTabs EXCEPT ![p].state = "running", ![p].armed = FALSE]
      BY <1>2, <2>1 DEF HostMark
    <3>2. PICK q \in OwnTabs(t) : manualTabs[q].state \in {"sent", "running"}
      BY <1>2, <2>1 DEF HostMark
    <3>3. p \in Tabs /\ q \in Tabs /\ manualTabs[p].turn = t /\ manualTabs[q].turn = t
      BY DEF OwnTabs, TabsOf
    <3>4. p = q
      BY <1>1, <3>3 DEF TabsOfTheirTurns
    <3>5. p \in Page /\ manualTabs[p] \in TabRecords
      BY <1>1, <3>3, TabThere
    <3>6. manualTabs' = [manualTabs EXCEPT ![p] =
            [manualTabs[p] EXCEPT !.state = "running", !.armed = FALSE]]
      BY <1>1, <3>1, <3>5 DEF ManualTyped, TabRecords
    <3>7. GoesOn(manualTabs[p], [manualTabs[p] EXCEPT !.state = "running", !.armed = FALSE])
      BY <3>2, <3>4, <3>5, TabUpdates
    <3> QED
      BY <1>1, <3>3, <3>5, <3>6, <3>7, OneTab
  <2>2. CASE ~ok
    BY <1>1, <1>2, <2>2, TabsStay DEF HostMark
  <2> QED
    BY <2>1, <2>2
<1> QED
  BY <1>3, <1>4, <1>5, <1>6, MutationGoes

\* A tab that is kept.
LEMMA KeepUpdates ==
  ASSUME NEW r \in TabRecords
  PROVE  LET s == [r EXCEPT !.state = "completed", !.status = "ready", !.armed = FALSE]
         IN /\ s \in TabRecords /\ s.turn = r.turn /\ s.pid = r.pid /\ s.reused = r.reused
            /\ s.key = r.key /\ s.posted = r.posted /\ s.knows = r.knows
            /\ s.strayed = r.strayed /\ s.status = "ready" /\ s.state = "completed"
  BY DEF TabRecords, TabStates

LEMMA EndGoes ==
  ASSUME ManualIInv, NEW t \in ManualTurn, EndManual(t)
  PROVE  UNCHANGED opened /\ (Goes(t) \/ \E p : KeepsPage(t, p))
<1>1. ManualTyped
  BY DEF ManualIInv
<1>2. PICK ok \in BOOLEAN : IF manual[t].at = "completed" THEN HostCompleted(t, ok)
                            ELSE HostEnded(t, ok)
  BY DEF EndManual
<1>3. /\ UNCHANGED <<opened, helper, answered>> /\ manual[t].at \in Ending
      /\ Unheard(t) \/ GoesTo(t, "over")
  BY <1>2 DEF EndManual, HostCompleted, HostEnded
<1>4. \/ UNCHANGED manualTabs
      \/ \E p \in OwnTabs(t) : Without(p)
      \/ /\ manual[t].at = "completed"
         /\ \E p \in OwnTabs(t) :
              manualTabs[p].state \in {"sent", "running"} /\ Keeps(p, t) /\ KeepTab(p)
  BY <1>2 DEF HostCompleted, HostEnded
<1>5. ASSUME /\ manualTabs' \in [Page -> TabRecords \cup {NoTab}]
             /\ \A q \in Page : QuietPage(q)
      PROVE  Goes(t)
  BY <1>3, <1>5, MutationGoes
<1>6. CASE UNCHANGED manualTabs
  BY <1>1, <1>3, <1>5, <1>6, TabsStay
<1>7. CASE \E p \in OwnTabs(t) : Without(p)
  <2>1. PICK p \in OwnTabs(t) : Without(p)
    BY <1>7
  <2>2. p \in Page
    BY DEF OwnTabs, TabsOf, Tabs
  <2> QED
    BY <1>1, <1>3, <1>5, <2>1, <2>2, TabsGo
<1>8. CASE /\ manual[t].at = "completed"
           /\ \E p \in OwnTabs(t) :
                manualTabs[p].state \in {"sent", "running"} /\ Keeps(p, t) /\ KeepTab(p)
  <2>1. PICK p \in OwnTabs(t) :
               manualTabs[p].state \in {"sent", "running"} /\ Keeps(p, t) /\ KeepTab(p)
    BY <1>8
  <2>2. p \in Tabs
    BY DEF OwnTabs, TabsOf
  <2>3. p \in Page /\ manualTabs[p] \in TabRecords
    BY <1>1, <2>2, TabThere
  <2> DEFINE r == manualTabs[p]
             s == [r EXCEPT !.state = "completed", !.status = "ready", !.armed = FALSE]
  <2>4. manualTabs' = [manualTabs EXCEPT ![p] = s]
    BY <2>1 DEF KeepTab
  <2>5. /\ s \in TabRecords /\ s.turn = r.turn /\ s.pid = r.pid /\ s.reused = r.reused
        /\ s.key = r.key /\ s.posted = r.posted /\ s.knows = r.knows
        /\ s.strayed = r.strayed /\ s.status = "ready" /\ s.state = "completed"
    BY <2>3, KeepUpdates
  <2> HIDE DEF s
  <2>6. /\ manualTabs' \in [Page -> TabRecords \cup {NoTab}] /\ manualTabs'[p] = s
        /\ \A q \in Page \ {p} : manualTabs'[q] = manualTabs[q]
    BY <1>1, <2>3, <2>4, <2>5, TabsTyped
  <2>7. /\ manual' \in [ManualTurn -> TurnRecords]
        /\ \A u \in ManualTurn \ {t} : manual'[u].at = manual[u].at
        /\ manual'[t].at \in {"completed", "over"}
    <3>1. CASE Unheard(t)
      BY <1>1, <1>3, <1>8, <3>1, UnheardGoes
    <3>2. CASE GoesTo(t, "over")
      BY <1>1, <3>2, TurnUpdates DEF ManualPlaces
    <3> QED
      BY <1>3, <3>1, <3>2
  <2>8. ManualTyped'
    BY <1>1, <1>3, <2>6, <2>7 DEF ManualTyped
  <2>9. KeepsPage(t, p)
    BY <1>3, <1>8, <2>1, <2>5, <2>6, <2>7, <2>8 DEF KeepsPage, Keeps
  <2> QED
    BY <1>3, <2>9
<1> QED
  BY <1>4, <1>6, <1>7, <1>8

-----------------------------------------------------------------------------
(* A turn begins at the launcher.                                            *)

LEMMA NewTabs ==
  ASSUME ManualTyped, NEW t \in ManualTurn
  PROVE  LET s == NewTab(t)
         IN /\ s \in TabRecords /\ s.turn = t /\ s.pid = helper /\ s.status = "running"
            /\ s.key = KeyOfTurn(t) /\ ~s.posted /\ ~s.reused
<1>1. NewTab(t) \in TabRecords
  BY DEF ManualTyped, NewTab, TabRecords, TabStates
<1> QED
  BY <1>1 DEF NewTab

\* A page is opened, or is not for want of a clipboard; either way another may be evicted.
LEMMA OpenTabs ==
  ASSUME ManualTyped, PagesInOrder, NEW t \in ManualTurn, NEW ok \in BOOLEAN, OpenTab(t, ok)
  PROVE  /\ opened' = opened + 1 /\ opened' \in Page
         /\ manualTabs' \in [Page -> TabRecords \cup {NoTab}]
         /\ \A q \in Page \ {opened'} : manualTabs'[q] \in {manualTabs[q], NoTab}
         /\ manualTabs'[opened'] = IF ok THEN NewTab(t) ELSE NoTab
<1>1. PICK gone \in SUBSET Reclaimable :
        manualTabs' = [p \in Page |-> IF p \in gone THEN NoTab
                                      ELSE IF p = opened' /\ ok THEN NewTab(t)
                                      ELSE manualTabs[p]]
  BY DEF OpenTab
<1>2. MaxPages \in Nat
  BY ManualAssumption
<1>3. opened < MaxPages /\ opened' = opened + 1 /\ opened \in Nat
  BY <1>2 DEF OpenTab, PagesInOrder
<1>4. opened' \in Page
  BY <1>2, <1>3 DEF Page
<1>5. opened' \notin Tabs
  BY <1>2, <1>3 DEF PagesInOrder
<1>6. opened' \notin gone
  <2>1. Reclaimable \subseteq Tabs
    BY DEF Reclaimable
  <2> QED
    BY <1>5, <2>1
<1>7. manualTabs[opened'] = NoTab
  BY <1>4, <1>5 DEF Tabs
<1>8. NewTab(t) \in TabRecords
  BY NewTabs
<1>9. \A q \in Page : manualTabs[q] \in TabRecords \cup {NoTab}
  BY DEF ManualTyped
<1>10. manualTabs' \in [Page -> TabRecords \cup {NoTab}]
  BY <1>1, <1>8, <1>9
<1>11. manualTabs'[opened'] = IF ok THEN NewTab(t) ELSE NoTab
  BY <1>1, <1>4, <1>6, <1>7
<1>12. \A q \in Page \ {opened'} : manualTabs'[q] \in {manualTabs[q], NoTab}
  BY <1>1
<1> QED
  BY <1>3, <1>4, <1>10, <1>11, <1>12

\* A conversation is continued where one page is kept for it, and no more than one.
LEMMA OnePageContinues ==
  ASSUME NEW t \in ManualTurn, Unstarted(t), ~Denied(t), NEW p \in Continued(t)
  PROVE  t \in Kept /\ Continued(t) = {p} /\ p \in Retained(KeyOfTurn(t))
<1>1. t \in Kept /\ Continued(t) = Retained(KeyOfTurn(t))
  BY DEF Continued
<1>2. ~(Cardinality(Continued(t)) > 1)
  BY DEF Denied
<1>3. IsFiniteSet(Page)
  BY ManualAssumption, FS_Interval DEF Page
<1>4. Continued(t) \in SUBSET Page
  BY <1>1 DEF Retained, Tabs
<1>5. IsFiniteSet(Continued(t)) /\ Cardinality(Continued(t)) \in Nat
  BY <1>3, <1>4, FS_Subset, FS_CardinalityType
<1>6. {p} \in SUBSET Continued(t) /\ Cardinality({p}) = 1
  BY FS_Singleton
<1>7. 1 <= Cardinality(Continued(t))
  BY <1>5, <1>6, FS_Subset
<1>8. Cardinality(Continued(t)) = Cardinality({p})
  BY <1>2, <1>5, <1>6, <1>7
<1>9. Continued(t) = {p}
  BY <1>5, <1>6, <1>8, FS_Subset
<1> QED
  BY <1>1, <1>9

\* The tab of a page that turn t of daemon h goes on with.
ReusedTab(r, t, h) ==
  [r EXCEPT !.turn = t, !.pid = h, !.status = "running", !.state = "awaiting-user",
     !.reused = TRUE, !.armed = TRUE, !.posted = FALSE]

LEMMA ReuseUpdates ==
  ASSUME NEW r \in TabRecords, NEW t \in ManualTurn, NEW h \in Helper
  PROVE  LET s == ReusedTab(r, t, h)
         IN /\ s \in TabRecords /\ s.turn = t /\ s.pid = h /\ s.status = "running"
            /\ s.key = r.key /\ s.knows = r.knows /\ s.strayed = r.strayed
            /\ s.reused = TRUE /\ s.posted = FALSE
  BY DEF ReusedTab, TabRecords, TabStates

LEMMA StartGoes ==
  ASSUME ManualIInv, NEW t \in ManualTurn, StartTurn(t)
  PROVE  /\ opened' \in {opened, opened + 1} /\ opened' <= MaxPages
         /\ Goes(t) \/ \E p : Opens(t, p) /\ p <= opened'
<1>1. ManualTyped /\ PagesInOrder
  BY DEF ManualIInv
<1>2. PICK ok \in BOOLEAN :
       /\ (HostStart(t, ok) /\ UNCHANGED nudges) \/ (~ok /\ HostBusy /\ Nudge)
       /\ \/ Unheard(t)
          \/ UNCHANGED lost /\ IF ok THEN GoesTo(t, "sending") ELSE ManualFails(t)
  BY DEF StartTurn
<1>3. manual[t].at = "starting" /\ UNCHANGED <<helper, answered>> /\ manual[t].at \in Waiting
  BY DEF StartTurn, Waiting
<1>4. MaxPages \in Nat /\ opened \in Nat /\ opened <= MaxPages
  BY <1>1, ManualAssumption DEF PagesInOrder
<1>5. \/ UNCHANGED <<manualTabs, opened>> /\ ~ok
      \/ UNCHANGED <<manualTabs, opened>> /\ ok /\ OwnTabs(t) # {}
      \/ UNCHANGED opened /\ ~ok /\ \E p \in TabsOf(t) : Without(p)
      \/ Unstarted(t) /\ ~Denied(t) /\ Continued(t) = {} /\ OpenTab(t, ok)
      \/ /\ Unstarted(t) /\ ~Denied(t) /\ ok /\ UNCHANGED opened
         /\ \E p \in Continued(t) : ReuseTab(p, t)
  BY <1>2 DEF HostStart, HostBusy
<1>6. ASSUME /\ manualTabs' \in [Page -> TabRecords \cup {NoTab}]
             /\ \A q \in Page : QuietPage(q)
             /\ ~ok \/ OwnTabs(t) # {}
      PROVE  Goes(t)
  <2>1. \/ Unheard(t) \/ ManualFails(t)
        \/ GoesTo(t, "sending") /\ OwnTabs(t) # {}
    BY <1>2, <1>6
  <2> QED
    BY <1>3, <1>6, <2>1, MutationGoes
<1>7. CASE UNCHANGED <<manualTabs, opened>> /\ (~ok \/ OwnTabs(t) # {})
  BY <1>1, <1>4, <1>6, <1>7, TabsStay
<1>8. CASE UNCHANGED opened /\ ~ok /\ \E p \in TabsOf(t) : Without(p)
  <2>1. PICK p \in TabsOf(t) : Without(p)
    BY <1>8
  <2>2. p \in Page
    BY DEF TabsOf, Tabs
  <2> QED
    BY <1>1, <1>4, <1>6, <1>8, <2>1, <2>2, TabsGo
<1>9. CASE OpenTab(t, ok) /\ ~ok
  <2>1. /\ opened' = opened + 1 /\ opened' \in Page
        /\ manualTabs' \in [Page -> TabRecords \cup {NoTab}]
        /\ \A q \in Page : manualTabs'[q] \in {manualTabs[q], NoTab}
    BY <1>1, <1>9, OpenTabs
  <2>2. \A q \in Page : QuietPage(q)
    BY <2>1 DEF QuietPage
  <2>3. opened' <= MaxPages
    BY <2>1, <1>4 DEF Page
  <2> QED
    BY <1>6, <1>9, <2>1, <2>2, <2>3
<1>10. ASSUME ok
       PROVE  /\ manual' \in [ManualTurn -> TurnRecords]
              /\ \A u \in ManualTurn \ {t} : manual'[u].at = manual[u].at
              /\ manual'[t].at \in {"starting", "sending", "over"}
  <2>1. Unheard(t) \/ GoesTo(t, "sending")
    BY <1>2, <1>10
  <2>2. CASE Unheard(t)
    <3>1. manual[t].at \notin Ending
      BY <1>3 DEF Ending
    <3> QED
      BY <1>1, <1>3, <2>2, <3>1, UnheardGoes
  <2>3. CASE GoesTo(t, "sending")
    BY <1>1, <2>3, TurnUpdates DEF ManualPlaces, Waiting
  <2> QED
    BY <2>1, <2>2, <2>3
<1>11. CASE Unstarted(t) /\ ~Denied(t) /\ Continued(t) = {} /\ OpenTab(t, ok) /\ ok
  <2>1. /\ opened' = opened + 1 /\ opened' \in Page
        /\ manualTabs' \in [Page -> TabRecords \cup {NoTab}]
        /\ \A q \in Page \ {opened'} : manualTabs'[q] \in {manualTabs[q], NoTab}
        /\ manualTabs'[opened'] = NewTab(t)
    BY <1>1, <1>11, OpenTabs
  <2>2. LET s == NewTab(t)
        IN /\ s \in TabRecords /\ s.turn = t /\ s.pid = helper /\ s.status = "running"
           /\ s.key = KeyOfTurn(t) /\ ~s.posted /\ ~s.reused
    BY <1>1, NewTabs
  <2>3. ManualTyped'
    BY <1>1, <1>3, <1>10, <1>11, <2>1 DEF ManualTyped
  <2>4. TabsOf(t) = {}
    BY <1>11 DEF Unstarted
  <2>5. Opens(t, opened')
    BY <1>3, <1>10, <1>11, <2>1, <2>2, <2>3, <2>4 DEF Opens
  <2>6. opened' <= MaxPages /\ opened' <= opened'
    BY <2>1, <1>4 DEF Page
  <2> QED
    BY <2>1, <2>5, <2>6
<1>12. CASE /\ Unstarted(t) /\ ~Denied(t) /\ ok /\ UNCHANGED opened
            /\ \E p \in Continued(t) : ReuseTab(p, t)
  <2>1. PICK p \in Continued(t) : ReuseTab(p, t)
    BY <1>12
  <2>2. t \in Kept /\ Continued(t) = {p} /\ p \in Retained(KeyOfTurn(t))
    BY <1>12, OnePageContinues
  <2>3. p \in Tabs /\ manualTabs[p].key = KeyOfTurn(t)
    BY <2>2 DEF Retained
  <2>4. p \in Page /\ manualTabs[p] \in TabRecords
    BY <1>1, <2>3, TabThere
  <2> DEFINE r == manualTabs[p]
             s == ReusedTab(r, t, helper)
  <2>5. manualTabs' = [manualTabs EXCEPT ![p] = s]
    BY <2>1 DEF ReuseTab, ReusedTab
  <2>6. /\ s \in TabRecords /\ s.turn = t /\ s.pid = helper /\ s.status = "running"
        /\ s.key = r.key /\ s.knows = r.knows /\ s.strayed = r.strayed
        /\ s.reused = TRUE /\ s.posted = FALSE
    <3>1. helper \in Helper
      BY <1>1 DEF ManualTyped
    <3> QED
      BY <2>4, <3>1, ReuseUpdates
  <2> HIDE DEF s
  <2>7. /\ manualTabs' \in [Page -> TabRecords \cup {NoTab}] /\ manualTabs'[p] = s
        /\ \A q \in Page \ {p} : manualTabs'[q] = manualTabs[q]
    BY <1>1, <2>4, <2>5, <2>6, TabsTyped
  <2>8. ManualTyped'
    BY <1>1, <1>3, <1>10, <1>12, <2>7 DEF ManualTyped
  <2>9. TabsOf(t) = {}
    BY <1>12 DEF Unstarted
  <2>10. Opens(t, p)
    BY <1>3, <1>10, <1>12, <2>2, <2>3, <2>4, <2>6, <2>7, <2>8, <2>9 DEF Opens
  <2>11. p <= opened' /\ opened' = opened
    BY <1>1, <1>12, <2>3 DEF PagesInOrder
  <2> QED
    BY <1>4, <2>10, <2>11
<1> QED
  BY <1>5, <1>7, <1>8, <1>9, <1>11, <1>12

-----------------------------------------------------------------------------
(* Every step of the specification.                                          *)

LEMMA FewerPages ==
  ASSUME ManualIInv, ManualTyped', NEW t \in ManualTurn,
         opened' \in {opened, opened + 1}, opened' <= MaxPages,
         Goes(t) \/ \E p : KeepsPage(t, p)
  PROVE  PagesInOrder'
<1>1. ManualTyped /\ PagesInOrder
  BY DEF ManualIInv
<1>2. Tabs' \subseteq Tabs
  <2>1. CASE Goes(t)
    <3> SUFFICES ASSUME NEW p \in Tabs'
                 PROVE  p \in Tabs
      OBVIOUS
    <3>1. p \in Page
      BY DEF Tabs
    <3>2. QuietPage(p)
      BY <2>1, <3>1 DEF Goes
    <3> QED
      BY <1>1, <3>1, <3>2, QuietTabs
  <2>2. CASE \E p : KeepsPage(t, p)
    BY <2>2, KeepsChanges
  <2> QED
    BY <2>1, <2>2
<1>3. opened \in Nat /\ MaxPages \in Nat /\ \A p \in Tabs : p \in Nat /\ p <= opened
  BY <1>1, ManualAssumption DEF PagesInOrder, Tabs, Page
<1>4. opened' \in 0 .. MaxPages /\ \A p \in Tabs' : p <= opened'
  BY <1>2, <1>3
<1> QED
  BY <1>4 DEF PagesInOrder

LEMMA NextPage ==
  ASSUME ManualIInv, NEW t \in ManualTurn, NEW o, Opens(t, o), o <= opened',
         opened' \in {opened, opened + 1}, opened' <= MaxPages
  PROVE  PagesInOrder'
<1>1. PagesInOrder
  BY DEF ManualIInv
<1>2. \A q \in Tabs' \ {o} : q \in Tabs
  BY OpensChanges
<1>3. opened \in Nat /\ MaxPages \in Nat /\ \A p \in Tabs : p \in Nat /\ p <= opened
  BY <1>1, ManualAssumption DEF PagesInOrder, Tabs, Page
<1>4. opened' \in 0 .. MaxPages /\ \A p \in Tabs' : p <= opened'
  BY <1>2, <1>3
<1> QED
  BY <1>4 DEF PagesInOrder

LEMMA GoesOnly ==
  ASSUME ManualIInv, NEW t \in ManualTurn, Goes(t),
         opened' \in {opened, opened + 1}, opened' <= MaxPages
  PROVE  ManualIInv'
<1>1. ManualTyped'
  BY DEF Goes
<1>2. PagesInOrder'
  BY <1>1, FewerPages
<1> QED
  BY <1>1, <1>2, GoesInTurn, GoesTabs, GoesPosted, GoesBeside, GoesKnowing DEF ManualIInv

LEMMA OpensOnly ==
  ASSUME ManualIInv, NEW t \in ManualTurn, NEW o, Opens(t, o), o <= opened',
         opened' \in {opened, opened + 1}, opened' <= MaxPages
  PROVE  ManualIInv'
<1>1. ManualTyped'
  BY DEF Opens
<1>2. PagesInOrder'
  BY NextPage
<1> QED
  BY <1>1, <1>2, OpensInTurn, OpensTabs, OpensPosted, OpensBeside, OpensKnowing DEF ManualIInv

LEMMA KeepsOnly ==
  ASSUME ManualIInv, NEW t \in ManualTurn, NEW o, KeepsPage(t, o),
         opened' \in {opened, opened + 1}, opened' <= MaxPages
  PROVE  ManualIInv'
<1>1. ManualTyped'
  BY DEF KeepsPage
<1>2. PagesInOrder'
  BY <1>1, FewerPages
<1> QED
  BY <1>1, <1>2, KeepsInTurn, KeepsTabs, KeepsPosted, KeepsBeside, KeepsKnowing DEF ManualIInv

LEMMA ManualStep ==
  ASSUME ManualIInv, [ManualNext]_manualVars
  PROVE  ManualIInv'
<1>1. opened \in Nat /\ opened <= MaxPages /\ MaxPages \in Nat
  BY ManualAssumption DEF ManualIInv, PagesInOrder
<1>2. ASSUME NEW t \in ManualTurn, TurnSteps(t)
      PROVE  ManualIInv'
  <2>1. CASE \/ BeginManual(t) \/ LoseRequest(t) \/ WaitSent(t) \/ AbortSeen(t)
             \/ TerminalSeen(t) \/ LoseWait(t) \/ ConnectorStarts(t) \/ AnswerArrives(t)
             \/ AbortManual(t)
    <3>1. Goes(t) /\ UNCHANGED opened
      BY <2>1, DaemonSteps
    <3> QED
      BY <1>1, <3>1, GoesOnly
  <2>2. CASE StartTurn(t)
    <3>1. /\ opened' \in {opened, opened + 1} /\ opened' <= MaxPages
          /\ Goes(t) \/ \E p : Opens(t, p) /\ p <= opened'
      BY <2>2, StartGoes
    <3> QED
      BY <3>1, GoesOnly, OpensOnly
  <2>3. CASE MarkStarted(t)
    <3>1. Goes(t) /\ UNCHANGED opened
      BY <2>3, MarkGoes
    <3> QED
      BY <1>1, <3>1, GoesOnly
  <2>4. CASE EndManual(t)
    <3>1. UNCHANGED opened /\ (Goes(t) \/ \E p : KeepsPage(t, p))
      BY <2>4, EndGoes
    <3> QED
      BY <1>1, <3>1, GoesOnly, KeepsOnly
  <2> QED
    BY Zenon, <1>2, <2>1, <2>2, <2>3, <2>4 DEF TurnSteps
<1>3. ASSUME NEW p \in Page, PageSteps(p)
      PROVE  ManualIInv'
  <2>1. UNCHANGED opened /\ \E t \in ManualTurn : Goes(t)
    BY <1>3, PageGoes
  <2> QED
    BY <1>1, <2>1, GoesOnly
<1>4. ASSUME NEW t \in Kept, ReleaseKey(KeyOfTurn(t))
      PROVE  ManualIInv'
  <2>1. UNCHANGED opened /\ Goes(t) /\ t \in ManualTurn
    BY <1>4, ReleaseGoes, ManualAssumption
  <2> QED
    BY <1>1, <2>1, GoesOnly
<1>5. CASE NextDaemon
  <2>1. ManualTyped' /\ ManualParts'
    BY <1>5, NextDaemonParts
  <2>2. UNCHANGED <<opened, manualTabs>>
    BY <1>5 DEF NextDaemon
  <2>3. PagesInOrder'
    BY <2>2 DEF ManualIInv, PagesInOrder, Tabs
  <2> QED
    BY <2>1, <2>3 DEF ManualParts, ManualIInv
<1>6. CASE UNCHANGED manualVars
  BY <1>6 DEF manualVars, ManualIInv, ManualTyped, OneAfterAnother, TabsOfTheirTurns, Tabs,
         ConnectedIsPosted, NoneKeptBeside, OwnTabs, TabsOf, PagesKnow, PagesInOrder
<1> QED
  BY Zenon, <1>2, <1>3, <1>4, <1>5, <1>6 DEF ManualNext

LEMMA ManualStarts ==
  ASSUME ManualInit
  PROVE  ManualIInv
<1>1. /\ manualTabs = [p \in Page |-> NoTab] /\ opened = 0 /\ helper = 1 /\ answered = {}
      /\ manual = [t \in ManualTurn |-> IdleTurn]
  BY DEF ManualInit
<1>2. IdleTurn \in TurnRecords /\ IdleTurn.at = "idle"
  BY DEF IdleTurn, TurnRecords, ManualPlaces
<1>3. \A t \in ManualTurn : manual[t].at = "idle"
  BY <1>1, <1>2
<1>4. Tabs = {}
  BY <1>1 DEF Tabs
<1>5. 1 \in Helper
  BY ManualAssumption DEF Helper
<1>6. ManualTyped
  BY <1>1, <1>2, <1>5 DEF ManualTyped
<1>7. OneAfterAnother
  BY <1>1, <1>3 DEF OneAfterAnother
<1>8. TabsOfTheirTurns /\ ConnectedIsPosted /\ NoneKeptBeside /\ PagesKnow
  BY <1>4 DEF TabsOfTheirTurns, ConnectedIsPosted, NoneKeptBeside, PagesKnow
<1>9. PagesInOrder
  BY <1>1, <1>4, ManualAssumption DEF PagesInOrder
<1> QED
  BY <1>6, <1>7, <1>8, <1>9 DEF ManualIInv

\* The turns of a thread run one after another, each has one tab, and as long as one works no
\* other page is kept under its key; what a kept page knows is every answer of its key (runManual,
\* beginManualTurn, invalidateConversation, endManualTurn).
THEOREM ManualConsistent == ManualSpec => []ManualIInv
<1>1. ManualInit => ManualIInv
  BY ManualStarts
<1>2. ManualIInv /\ [ManualNext]_manualVars => ManualIInv'
  BY ManualStep
<1> QED
  BY <1>1, <1>2, PTL DEF ManualSpec

LEMMA KnownContinues ==
  ASSUME ManualIInv
  PROVE  ResumeContinues
<1>1. SUFFICES ASSUME NEW p \in Page, Resumed(p), ~manualTabs[p].strayed
               PROVE  EpochOf(manualTabs[p].turn) \subseteq manualTabs[p].knows
  BY DEF ResumeContinues
<1>2. ManualTyped /\ PagesKnow
  BY DEF ManualIInv
<1>3. p \in Tabs /\ manualTabs[p].reused /\ manualTabs[p].status = "running"
  BY <1>1 DEF Resumed
<1>4. manualTabs[p].turn \in ManualTurn
  BY <1>2, <1>3, TabThere, TabFields
<1>5. Epoch(answered, manualTabs[p].turn) \subseteq manualTabs[p].knows
  BY <1>1, <1>2, <1>3 DEF PagesKnow
<1> QED
  BY <1>2, <1>4, <1>5, EpochIsHistory

\* A prompt that leaves out what went before the last answer is only used on a page whose
\* conversation has every answer of its epoch (beginManualTurn, invalidateConversation).
THEOREM ResumesContinue == ManualSpec => []ResumeContinues
<1>1. ManualIInv => ResumeContinues
  BY KnownContinues
<1> QED
  BY <1>1, ManualConsistent, PTL
=============================================================================
