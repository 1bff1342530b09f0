------------------------------- MODULE MCLive -------------------------------
(* Liveness of the turn broker and of the turn registry.  A behaviour is one  *)
(* of them, the part chosen at first; the other rests in its initial state,   *)
(* where none of its fair actions is enabled.                                 *)
EXTENDS Naturals, TLC

CONSTANTS
  None,
  \* TurnBroker: a Zero Risk turn.
  BrokerTurns, SafeTurns, IntentTurns, ExternalTurns, BrokerRequests, Observers, Answers,
  MaxTurns, NoAnswer, NoRevision,
  \* TurnSessions: a turn and the instruction that steers it.
  first, steered, thread, turn, i1, i2, SessionRequests, MaxSessions, MaxActive

VARIABLES
  part,
  status, ttl, activities, completedActivities, revision, committed, invocations, queued,
  delivered, waiters, startWaiters, batchTimer, compactionRequested, compactionDeliveries,
  safe, launcherSent, connectorStarted, finalAnswer, accepting, fence, fenceSeen, target,
  mcp, claim, invoke, release, settle,
  entries, conversationHeads, retirements, ownerRetirements, conversationRetirements,
  created, sessionKey, outcome, settled, aborted, supersededError, attached,
  toolsOut, pc, asks, waitsFor, serves, pruned, closed, forgotten

Threads == first :> thread @@ steered :> thread
NativeTurns == first :> turn @@ steered :> turn
KeyInstructions == first :> i1 @@ steered :> i2
Nothing == first :> None @@ steered :> None
Lineage == i1 :> {} @@ i2 :> {i1}

Broker == INSTANCE TurnBroker WITH
  Turns <- BrokerTurns, Requests <- BrokerRequests, NoTurn <- None

Registry == INSTANCE TurnSessions WITH
  Keys <- {first, steered}, Owners <- {thread}, Turns <- {turn}, Instructions <- {i1, i2},
  Conversations <- {}, OwnerOf <- Threads, TurnOf <- NativeTurns,
  InstructionOf <- KeyInstructions, ConversationOf <- Nothing, Replaces <- Nothing,
  Predecessors <- Lineage, Manual <- {}, Requests <- SessionRequests

brokerVars ==
  <<status, ttl, activities, completedActivities, revision, committed, invocations, queued,
    delivered, waiters, startWaiters, batchTimer, compactionRequested, compactionDeliveries,
    safe, launcherSent, connectorStarted, finalAnswer, accepting, fence, fenceSeen, target,
    mcp, claim, invoke, release, settle>>
registryVars ==
  <<entries, conversationHeads, retirements, ownerRetirements, conversationRetirements,
    created, sessionKey, outcome, settled, aborted, supersededError, attached,
    toolsOut, pc, asks, waitsFor, serves, pruned, closed, forgotten>>

LiveInit == part \in {"broker", "registry"} /\ Broker!Init /\ Registry!SessionsInit

LiveNext ==
  /\ UNCHANGED part
  /\ \/ part = "broker" /\ Broker!Next /\ UNCHANGED registryVars
     \/ part = "registry" /\ Registry!SessionsNext /\ UNCHANGED brokerVars

LiveSpec ==
  /\ LiveInit /\ [][LiveNext]_<<part, brokerVars, registryVars>>
  /\ Broker!Fairness /\ Registry!SessionsFairness

\* TurnBroker: the handlers of a turn that has ended get their answer.
AbandonedHandlersEnd == Broker!AbandonedHandlersEnd

\* TurnBroker: a queued call reaches an observer, or its turn ends.
QueuedReachesObserver == Broker!QueuedReachesObserver

\* TurnSessions: a newer instruction gets its browser turn, although the old one waits
\* for results that only the newer one brings.
SteeringProceeds == Registry!SteeringProceeds
=============================================================================
