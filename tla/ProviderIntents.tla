-------------------------- MODULE ProviderIntents --------------------------
(***************************************************************************)
(* The sampling rounds behind POST /v1/responses: providerIntentRounds of  *)
(* src/src/adapters/chatgpt-web/index.ts.  Requests with the same body     *)
(* share one round.  A round runs one ChatGPT browser turn; it commits one *)
(* tool call, whose call_id an exact retry must see again, or ends with an *)
(* answer.  A round whose last observer went away is aborted, unless it    *)
(* has committed.                                                          *)
(*                                                                         *)
(* Every synchronous stretch of the code is one step; a promise and the    *)
(* handlers that await it settle in the same stretch.  Rounds are numbered *)
(* in the order of their creation.                                         *)
(***************************************************************************)
EXTENDS Naturals, FiniteSets

CONSTANTS
  Keys,       \* providerIntentRoundKey: the digest of a request body
  ToolKeys,   \* keys of requests whose model mode has local tools
  Requests,   \* HTTP requests being handled
  MaxRounds,  \* rounds ever created
  None

ASSUME IntentShapes ==
  /\ MaxRounds \in Nat
  /\ ToolKeys \subseteq Keys
  /\ None \notin Nat

Rounds == 1..MaxRounds

VARIABLES
  providerIntentRounds,  \* the round of a key, or None
  launched,              \* rounds created so far
  roundKey,
  phase,      \* "sampling" until an outcome is known, "retiring" until the browser
              \* turn it cancelled has settled physically, then "completed"
  result,     \* what round.events becomes
  committed,
  aborted,    \* the signal of the round's controller
  observes,   \* the round a request awaits, or None
  late,       \* history: requests that joined a round already aborted
  handed      \* history: the rounds whose tool call a client was given

intentVars == <<providerIntentRounds, launched, roundKey, phase, result, committed, aborted,
                observes, late, handed>>

IntentTypeOK ==
  /\ providerIntentRounds \in [Keys -> Rounds \cup {None}]
  /\ launched \in 0..MaxRounds
  /\ roundKey \in [Rounds -> Keys \cup {None}]
  /\ phase \in [Rounds -> {"none", "sampling", "retiring", "completed"}]
  /\ result \in [Rounds -> {"none", "call", "answer", "error"}]
  /\ committed \in [Rounds -> BOOLEAN]
  /\ aborted \in [Rounds -> BOOLEAN]
  /\ observes \in [Requests -> Rounds \cup {None}]
  /\ late \in SUBSET Requests
  /\ handed \in SUBSET Rounds

IntentInit ==
  /\ providerIntentRounds = [k \in Keys |-> None]
  /\ launched = 0
  /\ roundKey = [n \in Rounds |-> None]
  /\ phase = [n \in Rounds |-> "none"]
  /\ result = [n \in Rounds |-> "none"]
  /\ committed = [n \in Rounds |-> FALSE]
  /\ aborted = [n \in Rounds |-> FALSE]
  /\ observes = [r \in Requests |-> None]
  /\ late = {}
  /\ handed = {}

-----------------------------------------------------------------------------

Observers(n) == {r \in Requests : observes[r] = n}

\* The browser turn of a round holds its surface until it has settled.
HoldsSurface(n) == phase[n] \in {"sampling", "retiring"}

\* Mutant of Prunable: a completed round is forgotten after a while, come what may.
PrunableAny(k) == providerIntentRounds[k] # None /\ phase[providerIntentRounds[k]] = "completed"

\* What pruneProviderIntentRounds may forget, by age or above 256 rounds.
Prunable(k) ==
  /\ providerIntentRounds[k] # None
  /\ phase[providerIntentRounds[k]] = "completed"
  /\ ~committed[providerIntentRounds[k]]

Pruned(stale) == [k \in Keys |-> IF k \in stale THEN None ELSE providerIntentRounds[k]]

\* A request creates the round of its key.
Create(r, k, stale) ==
  /\ observes[r] = None
  /\ stale \subseteq {x \in Keys : Prunable(x)}
  /\ Pruned(stale)[k] = None
  /\ launched < MaxRounds
  /\ launched' = launched + 1
  /\ roundKey' = [roundKey EXCEPT ![launched + 1] = k]
  /\ phase' = [phase EXCEPT ![launched + 1] = "sampling"]
  /\ providerIntentRounds' = [Pruned(stale) EXCEPT ![k] = launched + 1]
  /\ observes' = [observes EXCEPT ![r] = launched + 1]
  /\ UNCHANGED <<result, committed, aborted, late, handed>>

\* It joins the round that is there, and awaits it if it has not completed.
Join(r, k, stale) ==
  LET n == Pruned(stale)[k] IN
  /\ observes[r] = None
  /\ stale \subseteq {x \in Keys : Prunable(x)}
  /\ n # None
  /\ providerIntentRounds' = Pruned(stale)
  /\ IF phase[n] = "completed"
     THEN /\ handed' = handed \cup (IF result[n] = "call" THEN {n} ELSE {})
          /\ UNCHANGED <<observes, late>>
     ELSE /\ observes' = [observes EXCEPT ![r] = n]
          /\ late' = (IF aborted[n] THEN late \cup {r} ELSE late)
          /\ UNCHANGED handed
  /\ UNCHANGED <<launched, roundKey, phase, result, committed, aborted>>

\* A request whose signal is aborted already creates the round of its key all the
\* same; its handler leaves before anything else happens, so the browser turn
\* that was started is cancelled.
VisitNew(k, stale) ==
  /\ stale \subseteq {x \in Keys : Prunable(x)}
  /\ Pruned(stale)[k] = None
  /\ launched < MaxRounds
  /\ launched' = launched + 1
  /\ roundKey' = [roundKey EXCEPT ![launched + 1] = k]
  /\ phase' = [phase EXCEPT ![launched + 1] = "retiring"]
  /\ result' = [result EXCEPT ![launched + 1] = "error"]
  /\ aborted' = [aborted EXCEPT ![launched + 1] = TRUE]
  /\ providerIntentRounds' = [Pruned(stale) EXCEPT ![k] = launched + 1]
  /\ UNCHANGED <<committed, observes, late, handed>>

\* Or it looks in at a round that is there.
VisitExisting(k, stale) ==
  LET n == Pruned(stale)[k] IN
  /\ stale \subseteq {x \in Keys : Prunable(x)}
  /\ n # None
  /\ providerIntentRounds' = Pruned(stale)
  /\ aborted' = [aborted EXCEPT ![n] =
                   @ \/ (HoldsSurface(n) /\ Observers(n) = {} /\ ~committed[n])]
  /\ UNCHANGED <<launched, roundKey, phase, result, committed, observes, late, handed>>

\* Mutant of Abandons: the count is looked at before the request is taken off it.
AbandonsUncounted(r, n) == Observers(n) = {} /\ ~committed[n]

\* The last observer leaves a round that has not committed.
Abandons(r, n) == Observers(n) = {r} /\ ~committed[n]

\* Mutant of Kept: an aborted round is forgotten at once.
KeptUnlessAborted(r, n) ==
  [k \in Keys |-> IF providerIntentRounds[k] = n /\ Abandons(r, n) THEN None
                  ELSE providerIntentRounds[k]]

\* An aborted round stays where a retry finds it until its browser has settled.
Kept(r, n) == providerIntentRounds

\* The HTTP request of an observer is aborted.  An outcome that is already known
\* stays; a round that still samples fails and cancels its browser turn.
Detach(r) ==
  LET n == observes[r] IN
  /\ n # None
  /\ observes' = [observes EXCEPT ![r] = None]
  /\ late' = late \ {r}
  /\ IF Abandons(r, n)
     THEN /\ aborted' = [aborted EXCEPT ![n] = TRUE]
          /\ result' = [result EXCEPT ![n] = IF phase[n] = "sampling" THEN "error" ELSE @]
          /\ phase' = [phase EXCEPT ![n] = IF @ = "sampling" THEN "retiring" ELSE @]
     ELSE UNCHANGED <<aborted, result, phase>>
  /\ providerIntentRounds' = Kept(r, n)
  /\ UNCHANGED <<launched, roundKey, committed, handed>>

\* nextToolBatch brings a tool call: the round commits and cancels its browser
\* turn.  More than one call, or an undeclared tool, makes it fail committed.
CommitCall(n, outcome) ==
  /\ phase[n] = "sampling"
  /\ roundKey[n] \in ToolKeys
  /\ outcome \in {"call", "error"}
  /\ committed' = [committed EXCEPT ![n] = TRUE]
  /\ result' = [result EXCEPT ![n] = outcome]
  /\ phase' = [phase EXCEPT ![n] = "retiring"]
  /\ UNCHANGED <<providerIntentRounds, launched, roundKey, aborted, observes, late, handed>>

\* round.events settles: its observers are answered, a failed round is forgotten
\* unless it has committed.
Complete(n, outcome) ==
  /\ phase' = [phase EXCEPT ![n] = "completed"]
  /\ result' = [result EXCEPT ![n] = outcome]
  /\ providerIntentRounds' = [k \in Keys |->
       IF outcome = "error" /\ ~committed[n] /\ providerIntentRounds[k] = n THEN None
       ELSE providerIntentRounds[k]]
  /\ observes' = [r \in Requests |-> IF observes[r] = n THEN None ELSE observes[r]]
  /\ late' = late \ Observers(n)
  /\ handed' = handed \cup (IF outcome = "call" /\ Observers(n) # {} THEN {n} ELSE {})
  /\ UNCHANGED <<launched, roundKey, committed, aborted>>

\* The browser turn ends with its answer, or fails.
BrowserEnds(n, outcome) ==
  /\ phase[n] = "sampling" /\ outcome \in {"answer", "error"}
  /\ Complete(n, outcome)

\* The capability of the turn is revoked: nextToolBatch rejects, the browser turn
\* is cancelled.
Revoked(n) ==
  /\ phase[n] = "sampling" /\ roundKey[n] \in ToolKeys
  /\ phase' = [phase EXCEPT ![n] = "retiring"]
  /\ result' = [result EXCEPT ![n] = "error"]
  /\ UNCHANGED <<providerIntentRounds, launched, roundKey, committed, aborted, observes, late,
                 handed>>

\* The cancelled browser turn has settled physically.
Retired(n) ==
  /\ phase[n] = "retiring"
  /\ Complete(n, result[n])

-----------------------------------------------------------------------------

RoundStep(n) ==
  \/ \E outcome \in {"call", "error"} : CommitCall(n, outcome)
  \/ \E outcome \in {"answer", "error"} : BrowserEnds(n, outcome)
  \/ Revoked(n) \/ Retired(n)

IntentNext ==
  \/ \E r \in Requests, k \in Keys, stale \in SUBSET Keys : Create(r, k, stale) \/ Join(r, k, stale)
  \/ \E k \in Keys, stale \in SUBSET Keys : VisitNew(k, stale) \/ VisitExisting(k, stale)
  \/ \E r \in Requests : Detach(r)
  \/ \E n \in Rounds : RoundStep(n)

IntentSpec == IntentInit /\ [][IntentNext]_intentVars

-----------------------------------------------------------------------------
(* Properties.                                                             *)

\* Exact retries never sample beside each other: the requests of one body hold at
\* most one browser surface, and one that is being cancelled counts until it is
\* released.
OneSurfacePerKey ==
  \A m, n \in 1..launched :
    HoldsSurface(m) /\ HoldsSurface(n) /\ roundKey[m] = roundKey[n] => m = n

\* An exact retry replays the same call_id: no two rounds of a body hand out a
\* tool call, and once one did no later round samples the body again.
SameCall ==
  \A m, n \in 1..launched :
    m \in handed /\ roundKey[m] = roundKey[n] => n <= m

\* Nobody loses a round to the disconnect of another client: when a round was
\* aborted, whoever awaits it came later.
AbortHurtsNobody ==
  \A r \in Requests : observes[r] # None /\ aborted[observes[r]] => r \in late

\* A browser turn that nobody waits for is being cancelled.
NobodySamplesAlone ==
  \A n \in Rounds : phase[n] = "sampling" => Observers(n) # {}

\* A committed call is never aborted, and an aborted round never commits.
AbortOrCommit == \A n \in Rounds : ~(aborted[n] /\ committed[n])

\* A browser turn that nobody waits for is released.
AbandonedReleased ==
  \A n \in Rounds : HoldsSurface(n) /\ Observers(n) = {} ~> ~HoldsSurface(n) \/ Observers(n) # {}

-----------------------------------------------------------------------------
(* The inductive invariant.                                                *)

\* Only created rounds do anything, and created rounds have keys.
RoundsCreated ==
  \A n \in Rounds :
    /\ n <= launched => roundKey[n] \in Keys /\ phase[n] # "none"
    /\ n > launched => phase[n] = "none" /\ ~committed[n] /\ ~aborted[n] /\ n \notin handed

\* The round of a key was created for it.
KeysMatch ==
  \A k \in Keys : providerIntentRounds[k] # None =>
    providerIntentRounds[k] <= launched /\ roundKey[providerIntentRounds[k]] = k

\* A round that holds a surface or has committed is the round of its key.
RoundsFound ==
  \A n \in 1..launched :
    HoldsSurface(n) \/ committed[n] => providerIntentRounds[roundKey[n]] = n

\* A round is its key's last as long as it is its key's round.
RoundIsLast ==
  \A k \in Keys : providerIntentRounds[k] # None =>
    \A n \in 1..launched : roundKey[n] = k => n <= providerIntentRounds[k]

\* Calls come from committed rounds; a sampling round has done neither.
CallsAreCommitted ==
  \A n \in Rounds :
    /\ result[n] = "call" \/ n \in handed => committed[n]
    /\ phase[n] = "sampling" => ~committed[n] /\ ~aborted[n]

\* Observers await unfinished rounds.
ObserversAwait == \A r \in Requests : observes[r] # None => HoldsSurface(observes[r])

IntentIInv ==
  /\ IntentTypeOK
  /\ RoundsCreated
  /\ KeysMatch
  /\ RoundsFound
  /\ RoundIsLast
  /\ CallsAreCommitted
  /\ ObserversAwait
  /\ AbortOrCommit
  /\ AbortHurtsNobody
  /\ NobodySamplesAlone

=============================================================================
