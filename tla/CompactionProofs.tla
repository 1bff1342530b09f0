-------------------------- MODULE CompactionProofs --------------------------
(***************************************************************************)
(* The gate of structured compactions, for any number of runs, keys and    *)
(* threads: a run of a thread works after the one before, but for the turn *)
(* of a handoff that was given up.  And the body of one, for any request   *)
(* and any source: it does not cost the task its answer.  Last, the        *)
(* development chat, whose histories are compacted by hand,                *)
(* before a turn and within one, for any number of processes, turns and    *)
(* failed saves: what is in its file is whole.                             *)
(***************************************************************************)
EXTENDS CompactionRuns, CompactionHandoff, DevChat, FiniteSetTheorems, TLAPS

LEMMA RunsTypeNext ==
  ASSUME RunsTypeOK, [RunsNext]_runVars PROVE RunsTypeOK'
<1>1. ASSUME NEW k \in CompactionKeys, RunOnce(k) PROVE RunsTypeOK'
  <2>1. registered + 1 \in Runs /\ registered' \in 0..MaxRuns
    BY <1>1, RunShapes DEF RunOnce, RunsTypeOK, Runs
  <2>2. CompactionOwner[k] \in Owners
    BY RunShapes
  <2>3. /\ structuredCompactionRuns' \in [CompactionKeys -> Runs \cup {NoRun}]
        /\ structuredCompactionOwners' \in [Owners -> Runs \cup {NoRun}]
    BY <1>1, <2>1 DEF RunOnce, RunsTypeOK
  <2>4. /\ runKey' \in [Runs -> CompactionKeys \cup {NoRun}]
        /\ previousOwner' \in [Runs -> Runs \cup {NoRun}]
    BY <1>1, <2>1, <2>2 DEF RunOnce, RunsTypeOK
  <2>5. /\ stage' \in [Runs -> RunStages]
        /\ active' \in [Runs -> BOOLEAN]
    BY <1>1, <2>1 DEF RunOnce, RunsTypeOK, RunStages
  <2> QED BY <1>1, <2>1, <2>3, <2>4, <2>5 DEF RunOnce, RunsTypeOK
<1>2. ASSUME NEW n \in Runs, BodyStep(n) \/ HandoffReleased(n) \/ FreshReleased(n) PROVE RunsTypeOK'
  <2>1. stage' \in [Runs -> RunStages]
    <3>1. CASE SourceRetired(n)
      <4> DEFINE next == IF after[n] = "summary" /\ runAborted[n] THEN "failed" ELSE after[n]
      <4>1. next \in {"none", "summary", "failed", "fresh"}
        BY DEF RunsTypeOK
      <4>2. stage' = [stage EXCEPT ![n] = next]
        BY <3>1 DEF SourceRetired
      <4> HIDE DEF next
      <4> QED BY <4>1, <4>2 DEF RunsTypeOK, RunStages
    <3>2. CASE ~SourceRetired(n)
      BY <1>2, <3>2 DEF RunsTypeOK, RunStages, BodyStep, StartBody, QueuedFails, OpenHandoff,
                        OpenFresh, RetireSource, Summarizes, Fails, Settle, HandoffReleased,
                        FreshReleased
    <3> QED BY <3>1, <3>2
  <2>2. after' \in [Runs -> {"none", "summary", "failed", "fresh"}]
    BY <1>2 DEF RunsTypeOK, BodyStep, StartBody, QueuedFails, OpenHandoff, OpenFresh, SourceRetired,
                RetireSource, Summarizes, Fails, Settle, HandoffReleased, FreshReleased
  <2>3. surface' \in [Runs -> {"closed", "live"}] /\ handoffTurn' \in [Runs -> {"closed", "live"}]
    BY <1>2 DEF RunsTypeOK, BodyStep, StartBody, QueuedFails, OpenHandoff, OpenFresh, SourceRetired,
                RetireSource, Summarizes, Fails, Settle, HandoffReleased, FreshReleased
  <2>4. CASE Settle(n)
    <3>1. active' \in [Runs -> BOOLEAN]
      BY <2>4 DEF Settle, RunsTypeOK
    <3>2. /\ structuredCompactionRuns' \in [CompactionKeys -> Runs \cup {NoRun}]
          /\ structuredCompactionOwners' \in [Owners -> Runs \cup {NoRun}]
      BY <2>4 DEF Settle, RunsTypeOK
    <3> QED BY <2>4, <2>1, <2>2, <2>3, <3>1, <3>2 DEF Settle, RunsTypeOK
  <2>5. CASE ~Settle(n)
    <3>1. UNCHANGED <<registryUnchanged, runAborted>>
      BY <1>2, <2>5 DEF BodyStep, StartBody, QueuedFails, OpenHandoff, OpenFresh, SourceRetired,
                        RetireSource, Summarizes, Fails, HandoffReleased, FreshReleased
    <3> QED BY <2>1, <2>2, <2>3, <3>1 DEF RunsTypeOK, registryUnchanged
  <2> QED BY <2>4, <2>5
<1>3. ASSUME NEW S, AbortRuns(S), UNCHANGED cancelUnchanged,
             structuredCompactionInterruptions' \in SUBSET NativeTurns
      PROVE  RunsTypeOK'
  <2>1. runAborted' \in [Runs -> BOOLEAN]
    BY <1>3, ZenonT(30) DEF AbortRuns, RunsTypeOK
  <2> QED BY <1>3, <2>1 DEF RunsTypeOK, cancelUnchanged
<1>4. ASSUME NEW k \in CompactionKeys, CancelRunTrace(k) PROVE RunsTypeOK'
  BY <1>3, <1>4 DEF CancelRunTrace, RunsTypeOK
<1>5. ASSUME NEW k \in CompactionKeys, PruneRun(k) PROVE RunsTypeOK'
  BY <1>5 DEF PruneRun, RunsTypeOK
<1>6. ASSUME NEW t \in NativeTurns, InterruptRuns(t) PROVE RunsTypeOK'
  BY <1>3, <1>6 DEF InterruptRuns, RunsTypeOK
<1>7. ASSUME NEW t \in NativeTurns, PruneInterruption(t) PROVE RunsTypeOK'
  BY <1>7 DEF PruneInterruption, RunsTypeOK, cancelUnchanged
<1>8. ASSUME CancelAllRuns PROVE RunsTypeOK'
  BY <1>3, <1>8 DEF CancelAllRuns, RunsTypeOK
<1>9. ASSUME UNCHANGED runVars PROVE RunsTypeOK'
  BY <1>9 DEF runVars, RunsTypeOK
<1> QED
  BY <1>1, <1>2, <1>4, <1>5, <1>6, <1>7, <1>8, <1>9 DEF RunsNext

-----------------------------------------------------------------------------
(* The gate.                                                               *)

\* What the invariant says beyond the types.
Gated ==
  /\ RunsRegistered
  /\ GateIsLast
  /\ InOrder
  /\ AtRest
  /\ Serialized

gateVars == <<structuredCompactionOwners, registered, runKey, previousOwner, stage, after,
              handoffTurn, surface, active>>

\* When the run it was queued behind has settled, all earlier ones have.
LEMMA PredecessorsSettled ==
  ASSUME RunsTypeOK, Gated, NEW n \in 1..registered, PreviousSettled(n),
         NEW m \in 1..registered, m < n, RunOwner(m) = RunOwner(n)
  PROVE  ~active[m]
<1> DEFINE p == previousOwner[n]
<1>1. ~active[m] \/ (p # NoRun /\ p \in m..(n - 1) /\ RunOwner(p) = RunOwner(n))
  BY DEF Gated, InOrder
<1>2. CASE p # NoRun /\ p \in m..(n - 1) /\ RunOwner(p) = RunOwner(n)
  <2>1. ~active[p]
    BY <1>2 DEF PreviousSettled
  <2>2. p \in 1..registered
    BY <1>2 DEF RunsTypeOK
  <2>3. CASE p = m
    BY <2>1, <2>3
  <2>4. CASE p # m
    <3>1. m < p
      BY <1>2, <2>2, <2>4
    <3> HIDE DEF p
    <3> QED BY <1>2, <2>1, <2>2, <3>1 DEF Gated, InOrder
  <2> QED BY <2>3, <2>4
<1> QED BY <1>1, <1>2

\* A registration queues the new run behind all of its owner.
LEMMA RegisterGated ==
  ASSUME RunsTypeOK, Gated, NEW k \in CompactionKeys, RunOnce(k)
  PROVE  Gated'
<1> DEFINE o == CompactionOwner[k]
           g == structuredCompactionOwners[o]
           own(x) == CompactionOwner[runKey[x]]
           own2(x) == CompactionOwner[runKey'[x]]
<1> PICK n \in Nat : n = registered + 1
  BY DEF RunsTypeOK
<1>1. registered \in Nat /\ n \in Runs /\ registered' = n /\ o \in Owners /\ n \notin 1..registered
  <2>1. registered \in Nat /\ registered < MaxRuns /\ MaxRuns \in Nat
    BY RunShapes DEF RunOnce, RunsTypeOK
  <2>2. registered' = n
    BY DEF RunOnce
  <2>3. o \in Owners
    BY RunShapes
  <2> QED BY <2>1, <2>2, <2>3 DEF Runs
<1>2. /\ runKey' = [runKey EXCEPT ![n] = k]
      /\ previousOwner' = [previousOwner EXCEPT ![n] = g]
      /\ stage' = [stage EXCEPT ![n] = "queued"]
      /\ active' = [active EXCEPT ![n] = TRUE]
      /\ structuredCompactionOwners' = [structuredCompactionOwners EXCEPT ![o] = n]
      /\ UNCHANGED <<after, handoffTurn, surface>>
  BY DEF RunOnce
<1>3. \A x \in 1..registered' : x \in Runs /\ (x # n => x \in 1..registered) /\ x <= n
  BY <1>1, RunShapes DEF Runs
<1>4. \A x \in 1..registered : x \in Runs /\ x # n /\ x < n /\ x \in 1..registered'
  BY <1>1, RunShapes DEF Runs
<1>5. \A x \in Runs : x # n => /\ runKey'[x] = runKey[x] /\ previousOwner'[x] = previousOwner[x]
                               /\ stage'[x] = stage[x] /\ active'[x] = active[x]
                               /\ own2(x) = own(x)
  BY <1>2 DEF RunsTypeOK
<1>6. /\ runKey'[n] = k /\ previousOwner'[n] = g /\ stage'[n] = "queued" /\ active'[n] = TRUE
      /\ own2(n) = o /\ after'[n] = "none"
      /\ handoffTurn'[n] = "closed" /\ surface'[n] = "closed"
  <2>1. after[n] = "none" /\ handoffTurn[n] = "closed" /\ surface[n] = "closed"
    BY <1>1 DEF Gated, RunsRegistered
  <2> QED BY <1>1, <1>2, <2>1 DEF RunsTypeOK
<1>7. \A x \in 1..registered : runKey[x] \in CompactionKeys /\ own(x) \in Owners
  BY <1>4, RunShapes DEF Gated, RunsRegistered
<1>8. \A q \in Owners : structuredCompactionOwners'[q] =
                          IF q = o THEN n ELSE structuredCompactionOwners[q]
  BY <1>2 DEF RunsTypeOK
<1>9. \A x \in 1..registered : active[x] =>
        \E m \in x..registered : structuredCompactionOwners[own(x)] = m /\ own(m) = own(x)
  BY DEF Gated, GateIsLast, RunOwner
<1> HIDE DEF o, g, own, own2
<1>10. RunsRegistered'
  <2> SUFFICES ASSUME NEW x \in Runs
               PROVE  /\ x <= registered' => runKey'[x] \in CompactionKeys
                      /\ x > registered' => /\ ~active'[x] /\ stage'[x] = "none" /\ after'[x] = "none"
                                            /\ handoffTurn'[x] = "closed" /\ surface'[x] = "closed"
    BY DEF RunsRegistered
  <2>1. CASE x = n
    BY <1>1, <1>6, <2>1
  <2>2. CASE x # n
    <3>1. (x <= registered' => x <= registered) /\ (x > registered' => x > registered)
      BY <1>1, <2>2 DEF Runs
    <3> QED BY <1>2, <1>5, <2>2, <3>1 DEF Gated, RunsRegistered
  <2> QED BY <2>1, <2>2
<1>11. \A x \in 1..registered' : active'[x] =>
         \E m \in x..registered' : structuredCompactionOwners'[own2(x)] = m /\ own2(m) = own2(x)
  <2> SUFFICES ASSUME NEW x \in 1..registered', active'[x]
               PROVE  \E m \in x..registered' :
                        structuredCompactionOwners'[own2(x)] = m /\ own2(m) = own2(x)
    OBVIOUS
  <2>1. CASE own2(x) = o
    <3>1. n \in x..registered' /\ structuredCompactionOwners'[own2(x)] = n
      BY <1>1, <1>3, <1>8, <2>1
    <3> QED BY <1>6, <2>1, <3>1
  <2>2. CASE own2(x) # o
    <3>1. x # n /\ x \in 1..registered /\ own2(x) = own(x) /\ active[x] /\ own(x) \in Owners
      BY <1>3, <1>5, <1>6, <1>7, <2>2
    <3>2. PICK m \in x..registered : structuredCompactionOwners[own(x)] = m /\ own(m) = own(x)
      BY <1>9, <3>1
    <3>3. m \in 1..registered /\ m \in x..registered'
      BY <1>1, <3>1, <3>2
    <3>4. own2(m) = own(m)
      BY <1>4, <1>5, <3>3
    <3> QED BY <1>8, <2>2, <3>1, <3>2, <3>3, <3>4
  <2> QED BY <2>1, <2>2
<1>12. \A q \in Owners : structuredCompactionOwners'[q] # NoRun =>
         /\ active'[structuredCompactionOwners'[q]]
         /\ structuredCompactionOwners'[q] <= registered'
         /\ own2(structuredCompactionOwners'[q]) = q
         /\ \A x \in 1..registered' : own2(x) = q => x <= structuredCompactionOwners'[q]
  <2> SUFFICES ASSUME NEW q \in Owners, structuredCompactionOwners'[q] # NoRun
               PROVE  /\ active'[structuredCompactionOwners'[q]]
                      /\ structuredCompactionOwners'[q] <= registered'
                      /\ own2(structuredCompactionOwners'[q]) = q
                      /\ \A x \in 1..registered' : own2(x) = q => x <= structuredCompactionOwners'[q]
    OBVIOUS
  <2>1. CASE q = o
    <3>1. structuredCompactionOwners'[q] = n
      BY <1>8, <2>1
    <3> QED BY <1>1, <1>3, <1>6, <2>1, <3>1
  <2>2. CASE q # o
    <3>1. PICK h \in Runs : h = structuredCompactionOwners[q] /\ structuredCompactionOwners'[q] = h
      BY <1>8, <2>2 DEF RunsTypeOK
    <3>2. /\ active[h] /\ h <= registered /\ own(h) = q
          /\ \A x \in 1..registered : own(x) = q => x <= h
      BY <2>2, <3>1, <1>8 DEF Gated, GateIsLast, RunOwner, own
    <3>3. h # n /\ h <= registered'
      BY <1>1, <3>2 DEF Runs
    <3>4. active'[h] /\ own2(h) = q
      BY <1>5, <3>2, <3>3
    <3>5. \A x \in 1..registered' : own2(x) = q => x <= h
      BY <1>3, <1>5, <1>6, <2>2, <3>2
    <3> QED BY <3>1, <3>3, <3>4, <3>5
  <2> QED BY <2>1, <2>2
<1>13. \A x, y \in 1..registered' : x < y /\ own2(x) = own2(y) =>
         \/ ~active'[x]
         \/ active'[y] /\ previousOwner'[y] # NoRun /\ previousOwner'[y] \in x..(y - 1)
            /\ own2(previousOwner'[y]) = own2(y)
  <2> SUFFICES ASSUME NEW x \in 1..registered', NEW y \in 1..registered', x < y,
                      own2(x) = own2(y), active'[x]
               PROVE  /\ active'[y] /\ previousOwner'[y] # NoRun /\ previousOwner'[y] \in x..(y - 1)
                      /\ own2(previousOwner'[y]) = own2(y)
    OBVIOUS
  <2>1. x \in 1..registered /\ x # n /\ x \in Runs /\ own2(x) = own(x) /\ active[x]
    <3>1. x # n
      BY <1>1, <1>3
    <3> QED BY <1>3, <1>5, <3>1
  <2>2. CASE y = n
    <3>1. PICK m \in x..registered : structuredCompactionOwners[own(x)] = m /\ own(m) = own(x)
      BY <1>9, <2>1
    <3>2. m \in 1..registered /\ own(x) = o
      <4>1. m \in 1..registered
        BY <1>1, <2>1, <3>1
      <4>2. own2(y) = o
        BY <1>6, <2>2
      <4> QED BY <2>1, <4>1, <4>2
    <3>3. g = m
      BY <3>1, <3>2 DEF g
    <3>4. own2(m) = o
      BY <1>4, <1>5, <3>1, <3>2
    <3>5. m \in x..(n - 1) /\ m # NoRun
      BY <1>1, <2>1, <3>1, RunShapes
    <3> QED BY <1>6, <2>2, <3>3, <3>4, <3>5
  <2>3. CASE y # n
    <3>1. /\ y \in 1..registered /\ y \in Runs /\ own2(y) = own(y) /\ active'[y] = active[y]
          /\ previousOwner'[y] = previousOwner[y]
      BY <1>3, <1>5, <2>3
    <3>2. /\ active[y] /\ previousOwner[y] # NoRun /\ previousOwner[y] \in x..(y - 1)
          /\ own(previousOwner[y]) = own(y)
      <4>1. own(x) = own(y)
        BY <2>1, <3>1
      <4> QED BY <2>1, <3>1, <4>1 DEF Gated, InOrder, RunOwner, own
    <3>3. PICK z \in 1..registered : z = previousOwner[y]
      BY <1>1, <2>1, <3>1, <3>2
    <3>4. own2(z) = own(z)
      BY <1>4, <1>5
    <3> QED BY <3>1, <3>2, <3>3, <3>4
  <2> QED BY <2>2, <2>3
<1>14. AtRest'
  BY <1>2, <1>5, <1>6 DEF Gated, AtRest, OneTurnAtMost, Working, Overstays
<1>15. \A x, y \in 1..registered' : x < y /\ own2(x) = own2(y) /\ active'[x] => ~Working(y)'
  <2> SUFFICES ASSUME NEW x \in 1..registered', NEW y \in 1..registered', x < y,
                      own2(x) = own2(y), active'[x]
               PROVE  ~Working(y)'
    OBVIOUS
  <2>1. CASE y = n
    BY <1>6, <2>1 DEF Working
  <2>2. CASE y # n
    <3>1. x # n
      BY <1>1, <1>3
    <3>2. /\ x \in 1..registered /\ y \in 1..registered /\ own(x) = own(y) /\ active[x]
          /\ stage'[y] = stage[y]
      BY <1>3, <1>5, <2>2, <3>1
    <3> QED BY <1>2, <3>2 DEF Gated, Serialized, Working, RunOwner, own
  <2> QED BY <2>1, <2>2
<1>16. GateIsLast'
  BY <1>11, <1>12 DEF GateIsLast, RunOwner, own2
<1>17. InOrder' /\ Serialized'
  BY <1>13, <1>15 DEF InOrder, Serialized, RunOwner, own2
<1> QED BY <1>10, <1>14, <1>16, <1>17 DEF Gated

\* The body and the browser turns of a run are as they were.
SameBody(x) == /\ stage'[x] = stage[x] /\ after'[x] = after[x]
               /\ handoffTurn'[x] = handoffTurn[x] /\ surface'[x] = surface[x]

\* A step that only moves a body or its browser turns on, but not from the queue.
LEMMA MoveGated ==
  ASSUME RunsTypeOK, Gated, RunsTypeOK', NEW n \in Runs, n <= registered,
         UNCHANGED <<structuredCompactionOwners, registered, runKey, previousOwner, active>>,
         \A x \in Runs : x # n => SameBody(x),
         active[n] \/ (~Working(n)' /\ stage'[n] # "queued"),
         Working(n)' => Working(n),
         OneTurnAtMost(n)'
  PROVE  Gated'
<1>1. RunsRegistered'
  <2>1. registered \in Nat /\ n \in Nat /\ ~(n > registered)
    BY DEF RunsTypeOK, Runs
  <2> QED BY <2>1 DEF Gated, RunsRegistered, SameBody
<1>2. GateIsLast' /\ InOrder'
  BY DEF Gated, GateIsLast, InOrder, RunOwner
<1>3. AtRest'
  <2>1. ASSUME NEW x \in Runs, x # n
        PROVE  /\ OneTurnAtMost(x)'
               /\ ~active'[x] => (Working(x)' => Overstays(x)') /\ stage'[x] # "queued"
    BY <2>1 DEF Gated, AtRest, OneTurnAtMost, Working, Overstays, SameBody
  <2>2. /\ OneTurnAtMost(n)'
        /\ ~active'[n] => (Working(n)' => Overstays(n)') /\ stage'[n] # "queued"
    OBVIOUS
  <2> QED BY <2>1, <2>2, Zenon DEF AtRest
<1>4. Serialized'
  <2> SUFFICES ASSUME NEW x \in 1..registered, NEW y \in 1..registered, x < y,
                      CompactionOwner[runKey[x]] = CompactionOwner[runKey[y]], active[x]
               PROVE  ~Working(y)'
    BY DEF Serialized, RunOwner
  <2>1. y \in Runs
    BY RunShapes DEF RunsTypeOK, Runs
  <2>2. ~Working(y)
    BY DEF Gated, Serialized, RunOwner
  <2>3. CASE y = n
    BY <2>2, <2>3
  <2>4. CASE y # n
    BY <2>1, <2>2, <2>4 DEF Working, SameBody
  <2> QED BY <2>3, <2>4
<1> QED BY <1>1, <1>2, <1>3, <1>4 DEF Gated

\* The body starts only behind settled runs.
LEMMA StartGated ==
  ASSUME RunsTypeOK, Gated, RunsTypeOK', NEW n \in Runs, StartBody(n)
  PROVE  Gated'
<1>1. /\ stage[n] = "queued" /\ PreviousSettled(n) /\ stage' = [stage EXCEPT ![n] = "source"]
      /\ UNCHANGED <<structuredCompactionOwners, registered, runKey, previousOwner, active, after,
                     handoffTurn, surface>>
  BY DEF StartBody, registryUnchanged
<1>2. /\ n \in 1..registered /\ active[n]
      /\ handoffTurn[n] = "closed" /\ surface[n] = "closed" /\ after[n] = "none"
  <2>1. ~(n > registered) /\ registered \in Nat
    BY <1>1 DEF Gated, RunsRegistered, RunsTypeOK
  <2> QED BY <1>1, <2>1 DEF Gated, AtRest, OneTurnAtMost, Runs
<1>3. \A x \in Runs : stage'[x] = IF x = n THEN "source" ELSE stage[x]
  BY <1>1 DEF RunsTypeOK
<1>4. RunsRegistered'
  BY <1>1, <1>2, <1>3 DEF Gated, RunsRegistered, Runs
<1>5. GateIsLast' /\ InOrder'
  BY <1>1 DEF Gated, GateIsLast, InOrder, RunOwner
<1>6. AtRest'
  BY <1>1, <1>2, <1>3 DEF Gated, AtRest, OneTurnAtMost, Working, Overstays
<1>7. Serialized'
  <2> SUFFICES ASSUME NEW x \in 1..registered, NEW y \in 1..registered, x < y,
                      RunOwner(x) = RunOwner(y), active[x]
               PROVE  ~Working(y)'
    BY <1>1 DEF Serialized, RunOwner
  <2>1. y \in Runs
    BY RunShapes DEF RunsTypeOK, Runs
  <2>2. y # n
    BY <1>1, <1>2, PredecessorsSettled
  <2>3. ~Working(y)
    BY DEF Gated, Serialized
  <2> QED BY <1>1, <1>3, <2>1, <2>2, <2>3 DEF Working
<1> QED BY <1>4, <1>5, <1>6, <1>7 DEF Gated

\* The gate opens only behind settled runs.
LEMMA SettleGated ==
  ASSUME RunsTypeOK, Gated, RunsTypeOK', NEW n \in Runs, Settle(n)
  PROVE  Gated'
<1>1. /\ active[n] /\ Physically(n) /\ active' = [active EXCEPT ![n] = FALSE]
      /\ structuredCompactionOwners' = [o \in Owners |->
           IF structuredCompactionOwners[o] = n THEN NoRun ELSE structuredCompactionOwners[o]]
      /\ UNCHANGED <<registered, runKey, previousOwner, stage, after, handoffTurn, surface>>
  BY DEF Settle
<1>2. n \in 1..registered
  <2>1. ~(n > registered) /\ registered \in Nat
    BY <1>1 DEF Gated, RunsRegistered, RunsTypeOK
  <2> QED BY <2>1 DEF Runs
<1>3. \A x \in Runs : active'[x] <=> active[x] /\ x # n
  BY <1>1 DEF RunsTypeOK
<1>4. \A x \in 1..registered : x \in Runs
  BY RunShapes DEF RunsTypeOK, Runs
<1>5. \A x \in 1..registered : x < n /\ RunOwner(x) = RunOwner(n) => ~active[x]
  BY <1>1, <1>2, PredecessorsSettled DEF Physically
<1>6. RunsRegistered'
  BY <1>1, <1>3 DEF Gated, RunsRegistered
<1>7. AtRest'
  BY <1>1, <1>3 DEF Gated, AtRest, OneTurnAtMost, Working, Overstays, Physically
<1>8. Serialized'
  BY <1>1, <1>3, <1>4 DEF Gated, Serialized, Working, RunOwner
<1>9. GateIsLast'
  <2>1. ASSUME NEW x \in 1..registered, active'[x]
        PROVE  \E m \in x..registered : /\ structuredCompactionOwners'[RunOwner(x)] = m
                                      /\ RunOwner(m) = RunOwner(x)
    <3>1. active[x] /\ x # n /\ x \in Runs
      BY <1>3, <1>4, <2>1
    <3>2. PICK m \in x..registered : structuredCompactionOwners[RunOwner(x)] = m /\ RunOwner(m) = RunOwner(x)
      BY <3>1 DEF Gated, GateIsLast
    <3>3. m # n
      <4>1. x < n => RunOwner(x) # RunOwner(n)
        BY <1>5, <3>1
      <4> QED BY <1>2, <3>1, <3>2, <4>1
    <3>4. RunOwner(x) \in Owners
      BY <3>1, RunShapes DEF Gated, RunsRegistered, RunOwner, RunsTypeOK
    <3> QED BY <1>1, <3>2, <3>3, <3>4
  <2>2. ASSUME NEW o \in Owners, structuredCompactionOwners'[o] # NoRun
        PROVE  /\ structuredCompactionOwners'[o] = structuredCompactionOwners[o]
               /\ active'[structuredCompactionOwners[o]]
               /\ structuredCompactionOwners[o] <= registered
               /\ RunOwner(structuredCompactionOwners[o]) = o
               /\ \A x \in 1..registered : RunOwner(x) = o => x <= structuredCompactionOwners[o]
    <3>1. /\ structuredCompactionOwners'[o] = structuredCompactionOwners[o]
          /\ structuredCompactionOwners[o] # n /\ structuredCompactionOwners[o] \in Runs
      BY <1>1, <2>2 DEF RunsTypeOK
    <3> QED BY <1>3, <2>2, <3>1 DEF Gated, GateIsLast
  <2> QED BY <1>1, <2>1, <2>2 DEF GateIsLast, RunOwner
<1>10. InOrder'
  <2> SUFFICES ASSUME NEW x \in 1..registered, NEW y \in 1..registered, x < y,
                      RunOwner(x) = RunOwner(y), active'[x]
               PROVE  /\ active'[y] /\ previousOwner[y] # NoRun /\ previousOwner[y] \in x..(y - 1)
                      /\ RunOwner(previousOwner[y]) = RunOwner(y)
    BY <1>1 DEF InOrder, RunOwner
  <2>1. active[x] /\ x # n
    BY <1>3, <1>4
  <2>2. y # n
    BY <1>5, <2>1
  <2> QED BY <1>3, <1>4, <2>1, <2>2 DEF Gated, InOrder
<1> QED BY <1>6, <1>7, <1>8, <1>9, <1>10 DEF Gated

\* Every step keeps the gate.
LEMMA GatedNext ==
  ASSUME RunsTypeOK, Gated, RunsTypeOK', [RunsNext]_runVars PROVE Gated'
<1>1. CASE UNCHANGED gateVars
  BY <1>1 DEF gateVars, Gated, RunsRegistered, GateIsLast, InOrder, AtRest, OneTurnAtMost, Serialized,
              Working, Overstays, RunOwner
<1>2. ASSUME NEW n \in Runs, BodyStep(n) \/ HandoffReleased(n) \/ FreshReleased(n) PROVE Gated'
  <2>1. CASE StartBody(n)
    BY <2>1, StartGated
  <2>2. CASE Settle(n)
    BY <2>2, SettleGated
  <2>3. CASE ~StartBody(n) /\ ~Settle(n)
    <3>1. /\ UNCHANGED <<structuredCompactionOwners, registered, runKey, previousOwner, active>>
          /\ \A x \in Runs : x # n => SameBody(x)
      BY <1>2, <2>3 DEF BodyStep, QueuedFails, OpenHandoff, OpenFresh, SourceRetired, RetireSource,
                        Summarizes, Fails, HandoffReleased, FreshReleased, registryUnchanged,
                        RunsTypeOK, SameBody
    <3>2. stage[n] = "queued" \/ Working(n)
      BY <1>2, <2>3 DEF BodyStep, QueuedFails, OpenHandoff, OpenFresh, SourceRetired, RetireSource,
                        Summarizes, Fails, HandoffReleased, FreshReleased, Working
    <3>3. n <= registered
      <4>1. stage[n] # "none" \/ handoffTurn[n] # "closed" \/ surface[n] # "closed"
        BY <3>2 DEF Working
      <4>2. registered \in Nat /\ ~(n > registered)
        BY <4>1 DEF Gated, RunsRegistered, RunsTypeOK
      <4> QED BY <4>2 DEF Runs
    <3>4. active[n] \/ (~Working(n)' /\ stage'[n] # "queued")
      <4> SUFFICES ASSUME ~active[n] PROVE ~Working(n)' /\ stage'[n] # "queued"
        OBVIOUS
      <4>1. Overstays(n)
        BY <3>2 DEF Gated, AtRest
      <4>2. HandoffReleased(n)
        BY <1>2, <2>3, <4>1 DEF BodyStep, QueuedFails, OpenHandoff, OpenFresh, SourceRetired,
                                RetireSource, Summarizes, Fails, FreshReleased, Overstays
      <4> QED BY <4>1, <4>2 DEF HandoffReleased, Overstays, Working, RunsTypeOK
    <3>5. Working(n)' => Working(n)
      <4>1. CASE Working(n)
        BY <4>1
      <4>2. CASE ~Working(n)
        <5>1. stage[n] = "queued" /\ handoffTurn[n] # "live" /\ surface[n] # "live"
          BY <3>2, <4>2 DEF Working
        <5>2. stage'[n] = "failed" /\ handoffTurn'[n] # "live" /\ surface'[n] # "live"
          BY <1>2, <2>3, <5>1 DEF BodyStep, QueuedFails, OpenHandoff, OpenFresh, SourceRetired,
                                  RetireSource, Summarizes, Fails, HandoffReleased, FreshReleased,
                                  RunsTypeOK
        <5> QED BY <5>2 DEF Working
      <4> QED BY <4>1, <4>2
    <3>6. OneTurnAtMost(n)'
      <4>1. OneTurnAtMost(n)
        BY DEF Gated, AtRest
      <4>2. CASE SourceRetired(n)
        BY <4>1, <4>2 DEF SourceRetired, RunsTypeOK, OneTurnAtMost
      <4>3. CASE \E next \in {"summary", "failed", "fresh"} : RetireSource(n, next)
        BY <4>1, <4>3 DEF RetireSource, RunsTypeOK, OneTurnAtMost
      <4>4. CASE OpenHandoff(n) \/ HandoffReleased(n) \/ OpenFresh(n) \/ FreshReleased(n)
        BY <4>1, <4>4 DEF OpenHandoff, HandoffReleased, OpenFresh, FreshReleased, RunsTypeOK,
                          OneTurnAtMost
      <4>5. CASE QueuedFails(n) \/ Summarizes(n) \/ Fails(n)
        BY <4>1, <4>5 DEF QueuedFails, Summarizes, Fails, RunsTypeOK, OneTurnAtMost
      <4> QED BY <1>2, <2>3, <4>2, <4>3, <4>4, <4>5 DEF BodyStep
    <3> QED BY <3>1, <3>3, <3>4, <3>5, <3>6, MoveGated
  <2> QED BY <2>1, <2>2, <2>3
<1>3. ASSUME \/ \E k \in CompactionKeys : CancelRunTrace(k) \/ PruneRun(k)
             \/ \E t \in NativeTurns : InterruptRuns(t) \/ PruneInterruption(t)
             \/ CancelAllRuns
             \/ UNCHANGED runVars
      PROVE  UNCHANGED gateVars
  BY <1>3 DEF CancelRunTrace, PruneRun, InterruptRuns, PruneInterruption, CancelAllRuns,
              cancelUnchanged, gateVars, runVars
<1> QED BY <1>1, <1>2, <1>3, RegisterGated DEF RunsNext

\* structuredCompactionOwners always names the last unsettled run of a thread,
\* and the runs before it settle in their order.
THEOREM RunsGated == RunsSpec => []RunsIInv
<1>1. RunsInit => RunsIInv
  <2> SUFFICES ASSUME RunsInit PROVE RunsIInv
    OBVIOUS
  <2>1. RunsTypeOK
    <3>1. registered \in 0..MaxRuns
      BY RunShapes DEF RunsInit
    <3> QED BY <3>1, ZenonT(30) DEF RunsInit, RunsTypeOK, RunStages
  <2>2. RunsRegistered
    BY RunShapes DEF RunsInit, RunsRegistered, Runs
  <2>3. AtRest
    BY DEF RunsInit, AtRest, OneTurnAtMost, Working, Overstays
  <2>4. GateIsLast /\ InOrder /\ Serialized
    BY DEF RunsInit, GateIsLast, InOrder, Serialized
  <2> QED BY <2>1, <2>2, <2>3, <2>4 DEF RunsIInv
<1>2. RunsIInv /\ [RunsNext]_runVars => RunsIInv'
  <2> SUFFICES ASSUME RunsIInv, [RunsNext]_runVars PROVE RunsIInv'
    OBVIOUS
  <2>1. RunsTypeOK /\ Gated
    BY DEF RunsIInv, Gated
  <2>2. RunsTypeOK'
    BY <2>1, RunsTypeNext
  <2>3. Gated'
    BY <2>1, <2>2, GatedNext
  <2> QED BY <2>2, <2>3 DEF RunsIInv, Gated
<1> QED BY <1>1, <1>2, PTL DEF RunsSpec

\* A native thread is compacted by one run at a time, however its runs fail, are
\* cancelled in the queue, or time out before their fresh turn is released.  The one
\* thing that may go on beside a later run is the browser turn of a retained handoff
\* whose run was cancelled or timed out (compaction-handoff.ts:355-368).
THEOREM OneRunPerThread == RunsSpec => []OneCompactionPerOwner
<1>1. RunsIInv => OneCompactionPerOwner
  <2> SUFFICES ASSUME RunsIInv, NEW m \in 1..registered, NEW n \in 1..registered, m < n,
                      RunOwner(m) = RunOwner(n), Working(m), Working(n)
               PROVE  Overstays(m)
    BY DEF OneCompactionPerOwner
  <2>1. ~active[m]
    BY DEF RunsIInv, Serialized
  <2>2. m \in Runs
    BY RunShapes DEF RunsIInv, RunsTypeOK, Runs
  <2> QED BY <2>1, <2>2 DEF RunsIInv, AtRest
<1> QED BY <1>1, RunsGated, PTL

-----------------------------------------------------------------------------
(* The body of one compaction, whatever its request and its source.          *)

\* A source is told whenever the broker delivered the instruction, and a Zero Risk source
\* with its last results too.
ToldWhenStopped ==
  /\ delivered => told
  /\ compaction.manual /\ hadOutstanding => told

\* A source is in the registry, and one that still works is looked after by a body that has
\* not closed its conversation, or has ended without one.
SourceKept ==
  /\ source.state = "none" <=> entry = "none"
  /\ Active => /\ entry = "registered"
               /\ body \in {"start", "epoch", "settle", "outcome"} \/ failure = "failed"

\* What has failed for good comes to its end.
FailureEnds ==
  /\ failure \in {"failed", "refused"} => body \in {"recover", "done"}
  /\ body = "recover" => failure # "none"

\* Where every turn is fresh no other body is reached, and an answer keeps its session.
FreshOnly ==
  compaction.everyTurnFresh =>
    /\ body \in {"start", "previous", "fresh", "freshPhysical", "done"}
    /\ source.state = "final" => entry = "registered"

\* From where a source has settled, its undisturbed answer is to be preserved.
AnswerPreserved ==
  ~compaction.everyTurnFresh /\ source.state = "final" /\ failure \in {"none", "gone"}
    => body \in {"start", "epoch", "settle", "outcome", "physical"} \/ preserve \/ told

\* The inductive invariant.
HandoffIInv ==
  /\ HandoffTypeOK
  /\ ToldWhenStopped
  /\ SourceKept
  /\ FailureEnds
  /\ FreshOnly
  /\ AnswerPreserved
  /\ entry = "removed" /\ source.state = "final" => told \/ failure \in {"failed", "refused"}

\* A step sets single fields of the source, or none.
LEMMA SourceTyped ==
  ASSUME HandoffTypeOK, HandoffNext PROVE source' \in SourceShapes
<1> USE DEF HandoffTypeOK, SourceShapes, Closes, Throws, Retires, Canonical,
            turnsUnchanged, bodyUnchanged, othersUnchanged
<1>1. CASE SourceCalls \/ SourceEnds \/ SourceReleased
  <2>1. CASE SourceCalls
    BY <2>1 DEF SourceCalls
  <2>2. CASE SourceEnds
    BY <2>2 DEF SourceEnds
  <2>3. CASE SourceReleased
    BY <2>3 DEF SourceReleased
  <2> QED BY <1>1, <2>1, <2>2, <2>3
<1>2. CASE SettlesSource
  <2>1. 0 \in 0..1
    OBVIOUS
  <2>2. source' = [source EXCEPT !.out = 0, !.queued = 0]
    BY <1>2 DEF SettlesSource
  <2> QED BY <2>1, <2>2
<1>3. CASE Begins \/ CannotSettle \/ SourceFailed \/ SourceSettled \/ EndsWithoutHandoff
  BY <1>3 DEF Begins, CannotSettle, SourceFailed, SourceSettled, EndsWithoutHandoff
<1>4. CASE HandoffCloses \/ FreshAnswers \/ FreshSettled \/ GivesUp
  BY <1>4 DEF HandoffCloses, FreshAnswers, FreshSettled, GivesUp
<1>5. CASE UNCHANGED source
  BY <1>5
<1> QED
  BY <1>1, <1>2, <1>3, <1>4, <1>5
  DEF HandoffNext, Proceeds, ChatGptSubmits, HandoffEnds, FreshEnds, Signals, FindsSource,
      SourceAnswered, AsksForHandoff, ConversationClosed, Recovers, PreviousReleased

\* A fresh turn is opened, ends, and is released.
LEMMA FreshTurnTyped ==
  ASSUME HandoffTypeOK, HandoffNext PROVE freshTurn' \in FreshTurns
<1> USE DEF HandoffTypeOK, FreshTurns
<1>1. CASE OpensFresh
  BY <1>1 DEF OpensFresh
<1>2. CASE FreshEnds
  <2>1. PICK s \in {"running", "final", "error"}, l \in BOOLEAN :
               freshTurn' = [state |-> s, live |-> l] \/ freshTurn' = [freshTurn EXCEPT !.live = l]
    BY <1>2 DEF FreshEnds
  <2> QED BY <2>1
<1>3. CASE GivesUp
  BY <1>3 DEF GivesUp
<1>4. CASE UNCHANGED freshTurn
  BY <1>4
<1> QED
  BY <1>1, <1>2, <1>3, <1>4
  DEF HandoffNext, Proceeds, SourceCalls, SourceEnds, SourceReleased, ChatGptSubmits, HandoffEnds,
      Signals, Begins, FindsSource, SettlesSource, CannotSettle, SourceAnswered, SourceFailed,
      SourceSettled, AsksForHandoff, EndsWithoutHandoff, HandoffCloses, ConversationClosed,
      Recovers, PreviousReleased, FreshAnswers, FreshSettled, turnsUnchanged, othersUnchanged,
      Retires, Canonical

\* The handoff's turn is asked for, ends, and is aborted.
LEMMA HandoffTurnTyped ==
  ASSUME HandoffTypeOK, HandoffNext PROVE handoff' \in HandoffTurns
<1> USE DEF HandoffTypeOK, HandoffTurns
<1>1. CASE ChatGptSubmits
  BY <1>1 DEF ChatGptSubmits
<1>4. CASE HandoffEnds
  BY <1>4 DEF HandoffEnds
<1>5. CASE AsksForHandoff
  BY <1>5 DEF AsksForHandoff
<1>3. CASE Signals \/ GivesUp
  <2>1. (handoff.aborted \/ HandoffLive) \in BOOLEAN
    BY DEF HandoffLive
  <2>2. handoff' = [handoff EXCEPT !.aborted = handoff.aborted \/ HandoffLive]
    BY <1>3 DEF Signals, GivesUp
  <2> QED BY <2>1, <2>2
<1>2. CASE UNCHANGED handoff
  BY <1>2
<1> QED
  BY <1>1, <1>2, <1>3, <1>4, <1>5
  DEF HandoffNext, Proceeds, SourceCalls, SourceEnds, SourceReleased, FreshEnds,
      Begins, FindsSource, SettlesSource, CannotSettle, SourceAnswered, SourceFailed,
      SourceSettled, EndsWithoutHandoff, HandoffCloses, ConversationClosed,
      Recovers, PreviousReleased, FreshAnswers, FreshSettled, turnsUnchanged, othersUnchanged,
      Retires, Canonical, OpensFresh

\* Every step keeps the types.
LEMMA HandoffTypeNext ==
  ASSUME HandoffTypeOK, [HandoffNext]_handoffVars PROVE HandoffTypeOK'
<1>a. CASE UNCHANGED handoffVars
  BY <1>a DEF handoffVars, HandoffTypeOK
<1>b. CASE HandoffNext
<2>0. source' \in SourceShapes /\ freshTurn' \in FreshTurns /\ handoff' \in HandoffTurns
  BY <1>b, SourceTyped, FreshTurnTyped, HandoffTurnTyped
<2> USE DEF HandoffTypeOK, Awaiting, Closes, Throws, OpensFresh, Retires, Canonical, turnsUnchanged, bodyUnchanged, othersUnchanged
<2>1. CASE SourceCalls
  <3>1. told' \in BOOLEAN /\ delivered' \in BOOLEAN
    BY <2>1 DEF SourceCalls
  <3> QED BY <2>0, <2>1, <3>1 DEF SourceCalls
<2>2. CASE SourceEnds
  <3>1. UNCHANGED othersUnchanged
    BY <2>2 DEF SourceEnds
  <3> QED BY <2>0, <3>1
<2>3. CASE SourceReleased
  BY <2>0, <2>3 DEF SourceReleased
<2>4. CASE ChatGptSubmits
  BY <2>0, <2>4 DEF ChatGptSubmits
<2>5. CASE HandoffEnds
  BY <2>0, <2>5 DEF HandoffEnds
<2>6. CASE FreshEnds
  BY <2>0, <2>6 DEF FreshEnds
<2>7. CASE Signals
  BY <2>0, <2>7 DEF Signals
<2>8. CASE Begins
  BY <2>0, <2>8 DEF Begins
<2>9. CASE FindsSource
  BY <2>0, <2>9 DEF FindsSource
<2>10. CASE SettlesSource
  BY <2>0, <2>10 DEF SettlesSource
<2>11. CASE CannotSettle
  BY <2>0, <2>11 DEF CannotSettle
<2>12. CASE SourceAnswered
  BY <2>0, <2>12 DEF SourceAnswered
<2>13. CASE SourceFailed
  BY <2>0, <2>13 DEF SourceFailed
<2>14. CASE SourceSettled
  <3>1. /\ UNCHANGED bodyUnchanged
        /\ \/ body' = "retire" /\ Closes /\ UNCHANGED <<preserve, failure>> /\ summary' = "zeroRisk"
              /\ UNCHANGED turnsUnchanged
           \/ Throws("refused") /\ UNCHANGED turnsUnchanged
           \/ preserve' = Undisturbed /\ UNCHANGED <<source, entry, summary, failure>> 
              /\ body' \in {"fresh", "begin"} /\ transaction' = transaction
    BY <2>14 DEF SourceSettled
  <3>2. Undisturbed \in BOOLEAN
    BY DEF Undisturbed
  <3> QED BY <2>0, <3>1, <3>2
<2>15. CASE AsksForHandoff
  BY <2>0, <2>15 DEF AsksForHandoff
<2>16. CASE EndsWithoutHandoff
  BY <2>0, <2>16 DEF EndsWithoutHandoff
<2>17. CASE HandoffCloses
  BY <2>0, <2>17 DEF HandoffCloses
<2>18. CASE ConversationClosed
  BY <2>0, <2>18 DEF ConversationClosed
<2>19. CASE Recovers
  BY <2>0, <2>19 DEF Recovers
<2>20. CASE PreviousReleased
  BY <2>0, <2>20 DEF PreviousReleased
<2>21. CASE FreshAnswers
  BY <2>0, <2>21 DEF FreshAnswers
<2>22. CASE FreshSettled
  BY <2>0, <2>22 DEF FreshSettled
<2>23. CASE GivesUp
  BY <2>0, <2>23 DEF GivesUp
<2> QED BY <1>b, <2>1, <2>2, <2>3, <2>4, <2>5, <2>6, <2>7, <2>8, <2>9, <2>10, <2>11, <2>12, <2>13, <2>14, <2>15, <2>16, <2>17, <2>18, <2>19, <2>20, <2>21, <2>22, <2>23 DEF HandoffNext, Proceeds
<1> QED BY <1>a, <1>b

\* What closing the conversation of the source leaves.
LEMMA WhatClosing ==
  ASSUME HandoffTypeOK, Closes
  PROVE  /\ entry # "registered" => entry' = entry
         /\ entry = "registered" => entry' = IF preserve THEN "preserved" ELSE "removed"
         /\ source'.state = IF Active THEN "error" ELSE source.state
BY DEF Closes, HandoffTypeOK, SourceShapes

\* Every step keeps the invariant.
LEMMA HandoffInvNext ==
  ASSUME HandoffIInv, [HandoffNext]_handoffVars PROVE HandoffIInv'
<1> HandoffTypeOK /\ HandoffTypeOK'
  BY HandoffTypeNext DEF HandoffIInv
<1> SUFFICES ASSUME HandoffNext PROVE HandoffIInv'
  BY DEF handoffVars, HandoffIInv, ToldWhenStopped, SourceKept, FailureEnds, FreshOnly, AnswerPreserved, Active
<1> USE DEF HandoffIInv, HandoffTypeOK, SourceShapes, ToldWhenStopped, SourceKept, FailureEnds, FreshOnly, AnswerPreserved, Awaiting, Active, Aborted, HandoffLive, turnsUnchanged, bodyUnchanged, othersUnchanged, Closes, Throws, OpensFresh, Retires, Canonical, ClosedOff, Undisturbed
<1>1. CASE SourceCalls
  BY <1>1, SMTT(20) DEF SourceCalls
<1>2. CASE SourceEnds
  <2>1. UNCHANGED othersUnchanged /\ Active
    BY <1>2 DEF SourceEnds
  <2>2. source'.state \in {"final", "error"}
    BY <1>2 DEF SourceEnds
  <2>3. entry = "registered"
    BY <2>1
  <2>4. source'.state = "final" => source.out = 0 /\ source.queued = 0
    BY <1>2 DEF SourceEnds
  <2> QED BY <2>1, <2>2, <2>3
<1>3. CASE SourceReleased
  BY <1>3, SMTT(20) DEF SourceReleased
<1>4. CASE ChatGptSubmits
  BY <1>4, SMTT(20) DEF ChatGptSubmits
<1>5. CASE HandoffEnds
  BY <1>5, SMTT(20) DEF HandoffEnds
<1>6. CASE FreshEnds
  BY <1>6, SMTT(20) DEF FreshEnds
<1>7. CASE Signals
  BY <1>7, SMTT(20) DEF Signals
<1>8. CASE Begins
  <2>1. CASE compaction.everyTurnFresh
    <3>1. CASE source.state = "final"
      BY <1>8, <2>1, <3>1 DEF Begins
    <3>2. CASE source.state # "final"
      <4>1. Closes
        BY <1>8, <2>1, <3>2 DEF Begins
      <4> HIDE DEF Closes
      <4> QED BY <1>8, <2>1, <3>2, <4>1, WhatClosing DEF Begins
    <3> QED BY <3>1, <3>2
  <2>2. CASE ~compaction.everyTurnFresh
    BY <1>8, <2>2 DEF Begins
  <2> QED BY <2>1, <2>2
<1>9. CASE FindsSource
  <2>1. CASE OpensFresh
    BY <1>9, <2>1 DEF FindsSource
  <2>2. CASE Active /\ ~OpensFresh
    BY <1>9, <2>2 DEF FindsSource
  <2>3. CASE body' = "begin"
    BY <1>9, <2>3 DEF FindsSource
  <2> QED BY <1>9, <2>1, <2>2, <2>3 DEF FindsSource
<1>10. CASE SettlesSource
  BY <1>10, SMTT(20) DEF SettlesSource
<1>11. CASE CannotSettle
  BY <1>11, SMTT(20) DEF CannotSettle
<1>12. CASE SourceAnswered
  BY <1>12, SMTT(20) DEF SourceAnswered
<1>13. CASE SourceFailed
  BY <1>13, SMTT(20) DEF SourceFailed
<1>14. CASE SourceSettled
  <2>1. CASE Throws("refused")
    BY <1>14, <2>1 DEF SourceSettled
  <2>2. CASE Retires
    <3> HIDE DEF Closes
    <3> QED BY <1>14, <2>2, WhatClosing DEF SourceSettled
  <2>3. CASE /\ preserve' = Undisturbed /\ UNCHANGED <<source, entry, summary, failure>>
             /\ OpensFresh \/ (body' = "begin" /\ UNCHANGED turnsUnchanged)
    <3>1. CASE OpensFresh
      BY <1>14, <2>3, <3>1 DEF SourceSettled
    <3>2. CASE body' = "begin"
      BY <1>14, <2>3, <3>2 DEF SourceSettled
    <3> QED BY <2>3, <3>1, <3>2
  <2> QED BY <1>14, <2>1, <2>2, <2>3 DEF SourceSettled
<1>15. CASE AsksForHandoff
  BY <1>15, SMTT(20) DEF AsksForHandoff
<1>16. CASE EndsWithoutHandoff
  BY <1>16, SMTT(20) DEF EndsWithoutHandoff
<1>17. CASE HandoffCloses
  <2>1. CASE Throws("refused")
    BY <1>17, <2>1 DEF HandoffCloses
  <2>2. CASE Retires /\ UNCHANGED summary /\ UNCHANGED <<preserve, failure>>
    <3> HIDE DEF Closes
    <3> QED BY <1>17, <2>2, WhatClosing DEF HandoffCloses
  <2> QED BY <1>17, <2>1, <2>2 DEF HandoffCloses
<1>18. CASE ConversationClosed
  BY <1>18, SMTT(20) DEF ConversationClosed
<1>19. CASE Recovers
  BY <1>19, SMTT(20) DEF Recovers
<1>20. CASE PreviousReleased
  BY <1>20, SMTT(20) DEF PreviousReleased
<1>21. CASE FreshAnswers
  BY <1>21, SMTT(20) DEF FreshAnswers
<1>22. CASE FreshSettled
  BY <1>22, SMTT(20) DEF FreshSettled
<1>23. CASE GivesUp
  BY <1>23, SMTT(20) DEF GivesUp
<1> QED BY <1>1, <1>2, <1>3, <1>4, <1>5, <1>6, <1>7, <1>8, <1>9, <1>10, <1>11, <1>12, <1>13, <1>14, <1>15, <1>16, <1>17, <1>18, <1>19, <1>20, <1>21, <1>22, <1>23 DEF HandoffNext, Proceeds
THEOREM HandoffConsistent == HandoffSpec => []HandoffIInv
<1>1. ASSUME HandoffInit PROVE HandoffIInv
  <2>1. source \in SourceShapes
    BY <1>1, HandoffShapes DEF HandoffInit
  <2>2. handoff \in HandoffTurns
    BY <1>1 DEF HandoffInit, HandoffTurns
  <2>3. freshTurn \in FreshTurns
    BY <1>1 DEF HandoffInit, FreshTurns
  <2>4. HandoffTypeOK
    BY <1>1, <2>1, <2>2, <2>3, HandoffShapes DEF HandoffInit, HandoffTypeOK, Awaiting
  <2> QED
    BY <1>1, <2>1, <2>4
    DEF HandoffInit, HandoffIInv, SourceShapes, ToldWhenStopped, SourceKept, FailureEnds,
        FreshOnly, AnswerPreserved, Active
<1> QED BY <1>1, HandoffInvNext, PTL DEF HandoffSpec

\* The answer of a task outlives its compaction: when the run resolves and nobody told the
\* source to stop, its final response is still there to be asked for (index.ts,
\* turn-execution.ts, retireConversationPreservingFinalResponse).
THEOREM AnswerOutlivesCompaction == HandoffSpec => []FinalSurvives
<1>1. HandoffIInv => FinalSurvives
  BY DEF HandoffIInv, HandoffTypeOK, SourceKept, FinalSurvives, FailureEnds
<1> QED BY <1>1, HandoffConsistent, PTL

-----------------------------------------------------------------------------
(* The development chat.                                                    *)

Items == [kind : Kinds, turn : Nat, round : Nat]
Chats == [thread : Nat, luna : BOOLEAN, input : SUBSET Items, turns : Nat,
          compactions : Nat, fills : Nat]
Works == [turn : Nat, input : SUBSET Items, pending : Nat, round : Nat]
Made == [turns : Nat, fills : Nat, threads : Nat, compactions : Nat, faults : Nat]
Stages == {"off", "prompt", "compact", "before", "round", "between"}

\* What SavedIsWhole says of the file, said of any history with its counters.
Whole(input, turns, compactions, fills) ==
  /\ \A i \in input : i.turn # 0 =>
       /\ \E j \in input : j.turn = i.turn /\ j.kind = "instruction"
       /\ \E j \in input : j.turn = i.turn /\ j.kind = "answer"
  /\ \A i \in input : i.kind = "call" => Item("receipt", i.turn, i.round) \in input
  /\ compactions > 0 => \E i \in input : i.kind = "compaction"
  /\ IsFiniteSet(OfKind(input, "answer")) /\ IsFiniteSet(OfKind(input, "fill"))
  /\ compactions = 0 => /\ turns = Cardinality(OfKind(input, "answer"))
                        /\ fills = Cardinality(OfKind(input, "fill"))

\* Turn and filler numbers of a history are numbers that were given.
Dated(input, turns, fills) ==
  \A i \in input : i.turn <= turns /\ (i.kind = "fill" => i.round <= fills)

GoodChat(c, turns, fills) ==
  /\ c \in Chats
  /\ Whole(c.input, c.turns, c.compactions, c.fills)
  /\ Dated(c.input, turns, fills)

\* What a turn adds to the chat's history before it has its answer.
TurnItems(input, held, turn, round) ==
  /\ held \subseteq input
  /\ \A i \in input \ held :
       /\ i.turn = turn
       /\ i.kind \in {"instruction", "call", "receipt"}
       /\ i.kind = "call" => /\ i.round <= round
                             /\ Item("receipt", i.turn, i.round) \in input

\* A turn that still has its instruction has not been compacted, and works on the chat's
\* history and its own items; no item of it is in the chat.
GoodWork(w, c, doing, turns) ==
  /\ w \in Works
  /\ doing \in {"before", "round", "between"} =>
       /\ w.turn \in 1..turns
       /\ \A i \in c.input : i.turn # w.turn
  /\ doing = "before" => w.pending = 0
  /\ doing \in {"round", "between"} /\ HasInstruction(w.input, w.turn) =>
       w.pending = 0 /\ TurnItems(w.input, c.input, w.turn, w.round)

DevChatIInv ==
  /\ made \in Made
  /\ mem \in [Procs -> Chats] /\ cli \in [Procs -> Stages] /\ work \in [Procs -> Works]
  /\ GoodChat(saved, made.turns, made.fills)
  /\ \A p \in Procs : /\ GoodChat(mem[p], made.turns, made.fills)
                      /\ GoodWork(work[p], mem[p], cli[p], made.turns)

LEMMA ItemFields ==
  ASSUME NEW kind \in Kinds, NEW turn \in Nat, NEW round \in Nat
  PROVE  LET i == Item(kind, turn, round)
         IN  i \in Items /\ i.kind = kind /\ i.turn = turn /\ i.round = round
  BY DEF Item, Items

LEMMA ItemsDiffer ==
  ASSUME NEW i \in Items
  PROVE  /\ i.kind \in Kinds /\ i.turn \in Nat /\ i.round \in Nat
         /\ [i EXCEPT !.kind = "receipt"] = Item("receipt", i.turn, i.round)
  BY DEF Item, Items

LEMMA NoChatIsGood ==
  /\ NoChat \in Chats /\ NoChat.input = {} /\ NoChat.turns = 0
  /\ NoChat.compactions = 0 /\ NoChat.fills = 0
  /\ NoWork \in Works
  BY DEF NoChat, Chats, NoWork, Works

LEMMA NothingIsWhole == Whole({}, 0, 0, 0)
<1>1. OfKind({}, "answer") = {} /\ OfKind({}, "fill") = {}
  BY DEF OfKind
<1> QED
  BY <1>1, FS_EmptySet DEF Whole

LEMMA LaterIsDated ==
  ASSUME NEW input \in SUBSET Items, NEW turns \in Nat, NEW fills \in Nat,
         NEW moreTurns \in Nat, NEW moreFills \in Nat,
         turns <= moreTurns, fills <= moreFills, Dated(input, turns, fills)
  PROVE  Dated(input, moreTurns, moreFills)
<1> SUFFICES ASSUME NEW i \in input
             PROVE  i.turn <= moreTurns /\ (i.kind = "fill" => i.round <= moreFills)
  BY DEF Dated
<1>1. i.turn \in Nat /\ i.round \in Nat /\ i.turn <= turns /\ (i.kind = "fill" => i.round <= fills)
  BY ItemsDiffer DEF Dated
<1> QED
  BY <1>1

\* A filler is new, and the only thing added.
LEMMA FillIsWhole ==
  ASSUME NEW input \in SUBSET Items, NEW turns \in Nat, NEW compactions \in Nat,
         NEW fills \in Nat, NEW madeTurns \in Nat, NEW madeFills \in Nat,
         Whole(input, turns, compactions, fills), Dated(input, madeTurns, madeFills)
  PROVE  LET more == input \cup {Item("fill", 0, madeFills + 1)}
         IN  /\ more \in SUBSET Items
             /\ Whole(more, turns, compactions, fills + 1)
             /\ Dated(more, madeTurns, madeFills + 1)
<1> DEFINE new == Item("fill", 0, madeFills + 1)
           more == input \cup {new}
<1>1. new \in Items /\ new.kind = "fill" /\ new.turn = 0 /\ new.round = madeFills + 1
  BY ItemFields DEF Kinds
<1> HIDE DEF new
<1>2. \A i \in input : i \in Items /\ i.turn \in Nat /\ i.round \in Nat
  BY ItemsDiffer
<1>3. new \notin input
  BY <1>1, <1>2 DEF Dated
<1>4. Dated(more, madeTurns, madeFills + 1)
  <2> SUFFICES ASSUME NEW i \in more
               PROVE  i.turn <= madeTurns /\ (i.kind = "fill" => i.round <= madeFills + 1)
    BY DEF Dated
  <2>1. CASE i = new
    BY <1>1, <2>1
  <2>2. CASE i \in input
    BY <1>2, <2>2 DEF Dated
  <2> QED
    BY <2>1, <2>2
<1>5. OfKind(more, "answer") = OfKind(input, "answer")
  BY <1>1 DEF OfKind
<1>6. OfKind(more, "fill") = OfKind(input, "fill") \cup {new} /\ new \notin OfKind(input, "fill")
  BY <1>1, <1>3 DEF OfKind
<1>7. IsFiniteSet(OfKind(input, "fill"))
  BY DEF Whole
<1> HIDE DEF more
<1>8. /\ IsFiniteSet(OfKind(more, "fill"))
      /\ Cardinality(OfKind(more, "fill")) = Cardinality(OfKind(input, "fill")) + 1
  BY <1>6, <1>7, FS_AddElement
<1>9. Whole(more, turns, compactions, fills + 1)
  <2>1. ASSUME NEW i \in more, i.turn # 0
        PROVE  /\ \E j \in more : j.turn = i.turn /\ j.kind = "instruction"
               /\ \E j \in more : j.turn = i.turn /\ j.kind = "answer"
    BY <1>1, <2>1 DEF Whole, more
  <2>2. ASSUME NEW i \in more, i.kind = "call"
        PROVE  Item("receipt", i.turn, i.round) \in more
    BY <1>1, <2>2 DEF Whole, more
  <2>3. compactions > 0 => \E i \in more : i.kind = "compaction"
    BY DEF Whole, more
  <2>4. IsFiniteSet(OfKind(more, "answer"))
    BY <1>5 DEF Whole
  <2>5. compactions = 0 => /\ turns = Cardinality(OfKind(more, "answer"))
                           /\ fills + 1 = Cardinality(OfKind(more, "fill"))
    BY <1>5, <1>8 DEF Whole
  <2> QED
    BY <1>8, <2>1, <2>2, <2>3, <2>4, <2>5 DEF Whole
<1> QED
  <2>1. more \in SUBSET Items
    BY <1>1 DEF more
  <2> QED
    BY <1>4, <1>9, <2>1 DEF new, more

\* A compaction leaves its item and nothing of a turn.
LEMMA CompactionIsWhole ==
  ASSUME NEW report \in CompactionReports, NEW turns \in Nat, NEW compactions \in Nat,
         NEW fills \in Nat, NEW madeTurns \in Nat, NEW madeFills \in Nat
  PROVE  LET output == buildResponseJSON(report, TRUE, 0, 0)
         IN  /\ output \in SUBSET Items
             /\ \A i \in output : i.turn = 0 /\ i.kind \in {"reasoning", "compaction"}
             /\ Whole(output, turns, compactions + 1, fills)
             /\ Dated(output, madeTurns, madeFills)
<1> DEFINE output == buildResponseJSON(report, TRUE, 0, 0)
           item == Item("compaction", 0, 0)
           thought == Item("reasoning", 0, 0)
<1>1. item \in Items /\ item.kind = "compaction" /\ item.turn = 0
  BY ItemFields DEF Kinds
<1>2. thought \in Items /\ thought.kind = "reasoning" /\ thought.turn = 0
  BY ItemFields DEF Kinds
<1>3. output \subseteq {thought, item} /\ item \in output
  BY DEF buildResponseJSON
<1> HIDE DEF item, thought, output
<1>4. \A i \in output : i.turn = 0 /\ i.kind \in {"reasoning", "compaction"} /\ i \in Items
  BY <1>1, <1>2, <1>3
<1>5. OfKind(output, "answer") = {} /\ OfKind(output, "fill") = {}
  BY <1>4 DEF OfKind
<1>6. Dated(output, madeTurns, madeFills)
  BY <1>4 DEF Dated
<1>7. compactions + 1 # 0
  OBVIOUS
<1>8. Whole(output, turns, compactions + 1, fills)
  BY <1>1, <1>3, <1>4, <1>5, <1>7, FS_EmptySet DEF Whole
<1> QED
  BY <1>4, <1>6, <1>8 DEF output

\* A turn that has its answer makes the history longer by one whole turn.
LEMMA TurnIsWhole ==
  ASSUME NEW held \in SUBSET Items, NEW input \in SUBSET Items,
         NEW turn \in Nat, turn # 0, NEW round \in Nat,
         NEW turns \in Nat, NEW compactions \in Nat, NEW fills \in Nat,
         NEW madeTurns \in Nat, NEW madeFills \in Nat, turn <= madeTurns,
         Whole(held, turns, compactions, fills), Dated(held, madeTurns, madeFills),
         \A i \in held : i.turn # turn,
         TurnItems(input, held, turn, round), HasInstruction(input, turn),
         NEW thoughts, thoughts \in {{}, {Item("reasoning", turn, round + 1)}}
  PROVE  LET all == input \cup (thoughts \cup {Item("answer", turn, round + 1)})
         IN  /\ all \in SUBSET Items
             /\ Whole(all, turns + 1, compactions, fills)
             /\ Dated(all, madeTurns, madeFills)
<1> DEFINE answer == Item("answer", turn, round + 1)
           thought == Item("reasoning", turn, round + 1)
           all == input \cup (thoughts \cup {answer})
<1>1. answer \in Items /\ answer.kind = "answer" /\ answer.turn = turn
  BY ItemFields DEF Kinds
<1>2. thought \in Items /\ thought.kind = "reasoning" /\ thought.turn = turn
  BY ItemFields DEF Kinds
<1>3. thoughts \subseteq {thought}
  OBVIOUS
<1> HIDE DEF answer, thought
<1>4. \A i \in all \ held :
        /\ i.turn = turn /\ i \in Items
        /\ i.kind \in {"instruction", "call", "receipt", "reasoning", "answer"}
        /\ i.kind = "answer" => i = answer
        /\ i.kind = "call" => i \in input \ held
  BY <1>1, <1>2, <1>3 DEF TurnItems
<1>5. held \subseteq all /\ all \subseteq Items /\ input \subseteq all /\ answer \in all
  BY <1>1, <1>2, <1>3 DEF TurnItems
<1>6. answer \notin held
  BY <1>1
<1> HIDE DEF all
<1>7. OfKind(all, "fill") = OfKind(held, "fill")
  BY <1>4, <1>5 DEF OfKind
<1>8. /\ OfKind(all, "answer") = OfKind(held, "answer") \cup {answer}
      /\ answer \notin OfKind(held, "answer")
  BY <1>1, <1>4, <1>5, <1>6 DEF OfKind
<1>9. IsFiniteSet(OfKind(held, "answer")) /\ IsFiniteSet(OfKind(held, "fill"))
  BY DEF Whole
<1>10. /\ IsFiniteSet(OfKind(all, "answer"))
       /\ Cardinality(OfKind(all, "answer")) = Cardinality(OfKind(held, "answer")) + 1
  BY <1>8, <1>9, FS_AddElement
<1>11. Dated(all, madeTurns, madeFills)
  BY <1>4 DEF Dated
<1>12. Whole(all, turns + 1, compactions, fills)
  <2>1. ASSUME NEW i \in all, i.turn # 0
        PROVE  /\ \E j \in all : j.turn = i.turn /\ j.kind = "instruction"
               /\ \E j \in all : j.turn = i.turn /\ j.kind = "answer"
    <3>1. CASE i \in held
      BY <1>5, <2>1, <3>1 DEF Whole
    <3>2. CASE i \notin held
      <4>1. i.turn = turn
        BY <1>4, <2>1, <3>2
      <4> QED
        BY <1>1, <1>5, <4>1 DEF HasInstruction
    <3> QED
      BY <3>1, <3>2
  <2>2. ASSUME NEW i \in all, i.kind = "call"
        PROVE  Item("receipt", i.turn, i.round) \in all
    <3>1. CASE i \in held
      BY <1>5, <2>2, <3>1 DEF Whole
    <3>2. CASE i \notin held
      BY <1>4, <1>5, <2>2, <3>2 DEF TurnItems
    <3> QED
      BY <3>1, <3>2
  <2>3. compactions > 0 => \E i \in all : i.kind = "compaction"
    BY <1>5 DEF Whole
  <2>4. compactions = 0 => /\ turns + 1 = Cardinality(OfKind(all, "answer"))
                           /\ fills = Cardinality(OfKind(all, "fill"))
    BY <1>7, <1>10 DEF Whole
  <2> QED
    BY <1>7, <1>9, <1>10, <2>1, <2>2, <2>3, <2>4 DEF Whole
<1> QED
  BY <1>5, <1>11, <1>12 DEF all, answer

LEMMA LaterIsGood ==
  ASSUME NEW c, NEW turns \in Nat, NEW fills \in Nat, NEW moreTurns \in Nat,
         NEW moreFills \in Nat, turns <= moreTurns, fills <= moreFills,
         GoodChat(c, turns, fills)
  PROVE  GoodChat(c, moreTurns, moreFills)
<1>1. c.input \in SUBSET Items
  BY DEF GoodChat, Chats
<1> QED
  BY <1>1, LaterIsDated DEF GoodChat

Grows == made' \in Made /\ made.turns <= made'.turns /\ made.fills <= made'.fills

\* A step of one process, which may change its chat and write it.
LEMMA ChatStep ==
  ASSUME DevChatIInv, Grows, NEW p \in Procs, NEW state,
         GoodChat(state, made'.turns, made'.fills),
         saved' \in {saved, state}, mem' \in {mem, [mem EXCEPT ![p] = state]},
         cli' \in [Procs -> Stages], work' \in [Procs -> Works],
         \A q \in Procs \ {p} : cli'[q] = cli[q] /\ work'[q] = work[q],
         GoodWork(work'[p], mem'[p], cli'[p], made'.turns)
  PROVE  DevChatIInv'
<1>1. /\ made.turns \in Nat /\ made.fills \in Nat /\ made'.turns \in Nat /\ made'.fills \in Nat
      /\ made.turns <= made'.turns /\ made.fills <= made'.fills
  BY DEF DevChatIInv, Grows, Made
<1>2. \A c : GoodChat(c, made.turns, made.fills) => GoodChat(c, made'.turns, made'.fills)
  BY <1>1, LaterIsGood
<1>3. state \in Chats
  BY DEF GoodChat
<1>4. mem' \in [Procs -> Chats] /\ \A q \in Procs \ {p} : mem'[q] = mem[q]
  BY <1>3 DEF DevChatIInv
<1>5. mem'[p] = mem[p] \/ mem'[p] = state
  BY DEF DevChatIInv
<1>6. GoodChat(saved', made'.turns, made'.fills)
  BY <1>2 DEF DevChatIInv
<1>7. ASSUME NEW q \in Procs
      PROVE  /\ GoodChat(mem'[q], made'.turns, made'.fills)
             /\ GoodWork(work'[q], mem'[q], cli'[q], made'.turns)
  <2>1. CASE q = p
    BY <1>2, <1>5, <2>1 DEF DevChatIInv
  <2>2. CASE q # p
    <3>1. mem'[q] = mem[q] /\ cli'[q] = cli[q] /\ work'[q] = work[q]
      BY <1>4, <2>2
    <3>2. /\ GoodChat(mem[q], made'.turns, made'.fills)
          /\ GoodWork(work[q], mem[q], cli[q], made.turns)
      BY <1>2 DEF DevChatIInv
    <3>3. GoodWork(work[q], mem[q], cli[q], made'.turns)
      <4>1. work[q].turn \in 1..made.turns => work[q].turn \in 1..made'.turns
        BY <1>1
      <4> QED
        BY <3>2, <4>1 DEF GoodWork
    <3> QED
      BY <3>1, <3>2, <3>3
  <2> QED
    BY <2>1, <2>2
<1>8. made' \in Made
  BY DEF Grows
<1> HIDE DEF Grows
<1> QED
  BY <1>4, <1>6, <1>7, <1>8 DEF DevChatIInv

LEMMA IdleWork ==
  ASSUME NEW w \in Works, NEW c, NEW doing \in {"off", "prompt", "compact"}, NEW turns
  PROVE  GoodWork(w, c, doing, turns)
  BY DEF GoodWork

\* A save that fails changes the count of faults only.
LEMMA SavesWrites ==
  ASSUME NEW p \in Procs, NEW state, NEW count \in Made, Saves(p, state, count)
  PROVE  /\ mem' = [mem EXCEPT ![p] = state] /\ saved' \in {saved, state}
         /\ made' \in Made /\ made'.turns = count.turns /\ made'.fills = count.fills
<1>1. /\ mem' = [mem EXCEPT ![p] = state] /\ saved' \in {saved, state}
      /\ made' = count \/ made' = [count EXCEPT !.faults = @ + 1]
  BY DEF Saves
<1> QED
  BY <1>1 DEF Made

LEMMA MadeFields ==
  ASSUME NEW m \in Made
  PROVE  m.turns \in Nat /\ m.fills \in Nat /\ m.threads + 1 \in Nat
  BY DEF Made

LEMMA MadeThread ==
  ASSUME NEW m \in Made
  PROVE  LET n == [m EXCEPT !.threads = @ + 1]
         IN  n \in Made /\ n.turns = m.turns /\ n.fills = m.fills
  BY DEF Made

LEMMA MadeFill ==
  ASSUME NEW m \in Made
  PROVE  LET n == [m EXCEPT !.fills = @ + 1]
         IN  n \in Made /\ n.turns = m.turns /\ n.fills = m.fills + 1
  BY DEF Made

LEMMA MadeCompaction ==
  ASSUME NEW m \in Made
  PROVE  LET n == [m EXCEPT !.compactions = @ + 1]
         IN  n \in Made /\ n.turns = m.turns /\ n.fills = m.fills
  BY DEF Made

LEMMA MadeTurn ==
  ASSUME NEW m \in Made
  PROVE  LET n == [m EXCEPT !.turns = @ + 1]
         IN  n \in Made /\ n.turns = m.turns + 1 /\ n.fills = m.fills
  BY DEF Made

LEMMA MadeTwice ==
  ASSUME NEW m \in Made, NEW x \in Nat, NEW y \in Nat
  PROVE  LET n == [m EXCEPT !.turns = x, !.compactions = y]
         IN  n \in Made /\ n.turns = x /\ n.fills = m.fills
  BY DEF Made

LEMMA MadeCompactedTurn ==
  ASSUME NEW m \in Made
  PROVE  LET n == [m EXCEPT !.turns = @ + 1, !.compactions = @ + 1]
         IN  n \in Made /\ n.turns = m.turns + 1 /\ n.fills = m.fills
<1>1. m.turns + 1 \in Nat /\ m.compactions + 1 \in Nat
  BY DEF Made
<1> QED
  BY <1>1, MadeTwice

LEMMA NewChatIsGood ==
  ASSUME NEW n \in Nat, NEW luna \in BOOLEAN, NEW turns \in Nat, NEW fills \in Nat
  PROVE  GoodChat([NoChat EXCEPT !.thread = n, !.luna = luna], turns, fills)
<1> DEFINE c == [NoChat EXCEPT !.thread = n, !.luna = luna]
<1>1. /\ c \in Chats /\ c.input = {} /\ c.turns = 0 /\ c.compactions = 0 /\ c.fills = 0
  BY DEF NoChat, Chats
<1>2. Dated({}, turns, fills)
  BY DEF Dated
<1> HIDE DEF c
<1>3. GoodChat(c, turns, fills)
  BY <1>1, <1>2, NothingIsWhole DEF GoodChat
<1> QED
  BY <1>3 DEF c

LEMMA NoChatGood ==
  ASSUME NEW turns \in Nat, NEW fills \in Nat
  PROVE  GoodChat(NoChat, turns, fills)
<1>1. Dated({}, turns, fills)
  BY DEF Dated
<1> QED
  BY <1>1, NoChatIsGood, NothingIsWhole DEF GoodChat

LEMMA LunaChat ==
  ASSUME NEW c, NEW luna \in BOOLEAN, NEW turns, NEW fills, GoodChat(c, turns, fills)
  PROVE  GoodChat([c EXCEPT !.luna = luna], turns, fills)
<1> DEFINE d == [c EXCEPT !.luna = luna]
<1>1. /\ d \in Chats /\ d.input = c.input /\ d.turns = c.turns
      /\ d.compactions = c.compactions /\ d.fills = c.fills
  BY DEF GoodChat, Chats
<1> HIDE DEF d
<1>2. GoodChat(d, turns, fills)
  BY <1>1 DEF GoodChat
<1> QED
  BY <1>2 DEF d

Filled(c, input, n) == [c EXCEPT !.input = input, !.fills = n]

LEMMA FilledChat ==
  ASSUME NEW c \in Chats, NEW input \in SUBSET Items, NEW n \in Nat
  PROVE  /\ Filled(c, input, n) \in Chats /\ Filled(c, input, n).input = input
         /\ Filled(c, input, n).turns = c.turns /\ Filled(c, input, n).fills = n
         /\ Filled(c, input, n).compactions = c.compactions
  BY DEF Chats, Filled

LEMMA OpenStep ==
  ASSUME DevChatIInv, NEW p \in Procs, Open(p)
  PROVE  DevChatIInv'
<1>1. /\ cli \in [Procs -> Stages] /\ work \in [Procs -> Works] /\ work' = work
      /\ made \in Made /\ cli[p] = "off" /\ mem \in [Procs -> Chats]
      /\ made.threads + 1 \in Nat /\ made.turns \in Nat /\ made.fills \in Nat
  BY MadeFields DEF DevChatIInv, Open
<1> DEFINE Chosen == \E state, count :
        /\ Opened(p, state, count)
        /\ count \in Made /\ count.turns = made.turns /\ count.fills = made.fills
        /\ GoodChat(state, made.turns, made.fills)
<1>2. Chosen
  <2>1. ASSUME NEW luna \in BOOLEAN,
               Opened(p, [NoChat EXCEPT !.thread = made.threads + 1, !.luna = luna],
                         [made EXCEPT !.threads = @ + 1])
        PROVE  Chosen
    BY <1>1, <2>1, NewChatIsGood, MadeThread
  <2>2. ASSUME NEW luna \in BOOLEAN, Opened(p, [saved EXCEPT !.luna = luna], made)
        PROVE  Chosen
    BY <1>1, <2>2, LunaChat DEF DevChatIInv
  <2> QED
    BY <2>1, <2>2 DEF Open, Models
<1>3. PICK state, count :
        /\ Opened(p, state, count)
        /\ count \in Made /\ count.turns = made.turns /\ count.fills = made.fills
        /\ GoodChat(state, made.turns, made.fills)
  BY <1>2
<1>4. made' = count \/ made' = [count EXCEPT !.faults = @ + 1]
  BY <1>3 DEF Opened
<1>5. made' \in Made /\ made'.turns = made.turns /\ made'.fills = made.fills
  BY <1>3, <1>4 DEF Made
<1>6. Grows
  BY <1>1, <1>5 DEF Grows
<1>7. saved' \in {saved, state} /\ mem' \in {mem, [mem EXCEPT ![p] = state]}
  BY <1>3 DEF Opened
<1>8. /\ cli' \in [Procs -> Stages] /\ \A q \in Procs \ {p} : cli'[q] = cli[q]
      /\ cli'[p] \in {"off", "prompt", "compact"}
  <2>1. cli' = cli \/ cli' = [cli EXCEPT ![p] = "prompt"]
    BY <1>3 DEF Opened
  <2> QED
    BY <1>1, <2>1 DEF Stages
<1>9. GoodWork(work'[p], mem'[p], cli'[p], made'.turns)
  BY <1>1, <1>8, IdleWork
<1> QED
  BY <1>1, <1>3, <1>5, <1>6, <1>7, <1>8, <1>9, ChatStep

LEMMA CommandStep ==
  ASSUME DevChatIInv, NEW p \in Procs, Command(p)
  PROVE  DevChatIInv'
<1>1. /\ cli \in [Procs -> Stages] /\ work \in [Procs -> Works] /\ work' = work /\ cli' = cli
      /\ made \in Made /\ cli[p] = "prompt" /\ GoodChat(mem[p], made.turns, made.fills)
      /\ made.threads + 1 \in Nat /\ mem[p] \in Chats
      /\ made.turns \in Nat /\ made.fills \in Nat
  BY DEF DevChatIInv, Command, Made
<1>2. \E state, count :
        /\ Saves(p, state, count)
        /\ count \in Made /\ count.turns = made.turns
        /\ count.fills \in Nat /\ made.fills <= count.fills
        /\ GoodChat(state, count.turns, count.fills)
  <2>1. CASE setModel(p)
    <3>1. mem[p].luna \in BOOLEAN
      BY <1>1 DEF Chats
    <3>2. [mem[p] EXCEPT !.luna = ~@] = [mem[p] EXCEPT !.luna = ~(mem[p].luna)]
      OBVIOUS
    <3>3. GoodChat([mem[p] EXCEPT !.luna = ~@], made.turns, made.fills)
      BY <1>1, <3>1, <3>2, LunaChat
    <3> QED
      BY <1>1, <2>1, <3>3 DEF setModel
  <2>2. CASE reset(p)
    <3>1. mem[p].luna \in BOOLEAN
      BY <1>1 DEF Chats
    <3>2. GoodChat([NoChat EXCEPT !.thread = made.threads + 1, !.luna = mem[p].luna],
                   made.turns, made.fills)
      BY <1>1, <3>1, NewChatIsGood
    <3> DEFINE count == [made EXCEPT !.threads = @ + 1]
    <3>3. count \in Made /\ count.turns = made.turns /\ count.fills = made.fills
      BY <1>1, MadeThread
    <3>4. Saves(p, [NoChat EXCEPT !.thread = made.threads + 1, !.luna = mem[p].luna], count)
      BY <2>2 DEF reset
    <3> HIDE DEF count
    <3> QED
      BY <1>1, <3>2, <3>3, <3>4
  <2>3. CASE fill(p)
    <3> DEFINE more == mem[p].input \cup {Item("fill", 0, made.fills + 1)}
               c == [mem[p] EXCEPT !.input = @ \cup {Item("fill", 0, made.fills + 1)},
                                   !.fills = @ + 1]
    <3>1. /\ mem[p].input \in SUBSET Items /\ mem[p].turns \in Nat
          /\ mem[p].compactions \in Nat /\ mem[p].fills \in Nat
      BY <1>1 DEF Chats
    <3>2. /\ more \in SUBSET Items
          /\ Whole(more, mem[p].turns, mem[p].compactions, mem[p].fills + 1)
          /\ Dated(more, made.turns, made.fills + 1)
      BY <1>1, <3>1, FillIsWhole DEF GoodChat
    <3>3. c = Filled(mem[p], more, mem[p].fills + 1)
      BY DEF Filled
    <3>9. more \in SUBSET Items
      BY <3>2
    <3> HIDE DEF more, c
    <3>4. /\ c \in Chats /\ c.input = more /\ c.turns = mem[p].turns
          /\ c.compactions = mem[p].compactions /\ c.fills = mem[p].fills + 1
      <4>1. mem[p].fills + 1 \in Nat
        BY <3>1
      <4> QED
        BY <1>1, <3>3, <3>9, <4>1, FilledChat
    <3>5. GoodChat(c, made.turns, made.fills + 1)
      BY <3>2, <3>4 DEF GoodChat
    <3> DEFINE count == [made EXCEPT !.fills = @ + 1]
    <3>6. Saves(p, c, count)
      BY <2>3 DEF fill, c
    <3>8. count \in Made /\ count.turns = made.turns /\ count.fills = made.fills + 1
      BY <1>1, MadeFill
    <3> HIDE DEF count
    <3>7. made.fills + 1 \in Nat /\ made.fills <= made.fills + 1
      BY <1>1
    <3> QED
      BY <1>1, <3>5, <3>6, <3>7, <3>8
  <2> QED
    BY <2>1, <2>2, <2>3 DEF Command
<1>3. PICK state, count :
        /\ Saves(p, state, count)
        /\ count \in Made /\ count.turns = made.turns
        /\ count.fills \in Nat /\ made.fills <= count.fills
        /\ GoodChat(state, count.turns, count.fills)
  BY <1>2
<1>4. /\ mem' = [mem EXCEPT ![p] = state] /\ saved' \in {saved, state}
      /\ made' \in Made /\ made'.turns = count.turns /\ made'.fills = count.fills
  BY <1>3, SavesWrites
<1>5. Grows
  BY <1>1, <1>3, <1>4 DEF Grows
<1>6. GoodWork(work'[p], mem'[p], cli'[p], made'.turns)
  BY <1>1, IdleWork
<1> QED
  BY <1>1, <1>3, <1>4, <1>5, <1>6, ChatStep

\* Steps that leave the chats and the file as they are.
LEMMA UnsavedStep ==
  ASSUME DevChatIInv, NEW p \in Procs, NEW doing \in Stages, NEW w \in Works,
         UNCHANGED <<saved, mem>>, Grows,
         cli' = [cli EXCEPT ![p] = doing], work' = [work EXCEPT ![p] = w],
         GoodWork(w, mem[p], doing, made'.turns)
  PROVE  DevChatIInv'
<1>1. /\ cli' \in [Procs -> Stages] /\ work' \in [Procs -> Works]
      /\ cli'[p] = doing /\ work'[p] = w
      /\ \A q \in Procs \ {p} : cli'[q] = cli[q] /\ work'[q] = work[q]
  BY DEF DevChatIInv
<1>2. GoodChat(saved, made'.turns, made'.fills)
  BY LaterIsGood DEF DevChatIInv, Grows, Made
<1> QED
  BY <1>1, <1>2, ChatStep

LEMMA LeavingStep ==
  ASSUME DevChatIInv, NEW p \in Procs, Quit(p) \/ CompactionFails(p) \/ RoundFails(p)
  PROVE  DevChatIInv'
<1>1. /\ made \in Made /\ made.turns \in Nat /\ made.fills \in Nat
      /\ cli \in [Procs -> Stages] /\ work \in [Procs -> Works]
  BY DEF DevChatIInv, Made
<1>2. made' = made /\ saved' = saved /\ work' = [work EXCEPT ![p] = NoWork]
  BY DEF Quit, CompactionFails, RoundFails, Unsaved
<1>3. Grows
  BY <1>1, <1>2 DEF Grows
<1>4. \/ mem' = [mem EXCEPT ![p] = NoChat] /\ cli' = [cli EXCEPT ![p] = "off"]
      \/ mem' = mem /\ cli' = [cli EXCEPT ![p] = "prompt"]
  BY DEF Quit, CompactionFails, RoundFails, Unsaved
<1>5. /\ cli' \in [Procs -> Stages] /\ work' \in [Procs -> Works]
      /\ cli'[p] \in {"off", "prompt", "compact"} /\ work'[p] = NoWork
      /\ \A q \in Procs \ {p} : cli'[q] = cli[q] /\ work'[q] = work[q]
  BY <1>1, <1>2, <1>4, NoChatIsGood DEF Stages
<1>6. GoodWork(work'[p], mem'[p], cli'[p], made'.turns)
  BY <1>5, IdleWork, NoChatIsGood
<1>7. GoodChat(NoChat, made'.turns, made'.fills)
  BY <1>1, <1>2, NoChatGood
<1> QED
  BY <1>2, <1>3, <1>4, <1>5, <1>6, <1>7, ChatStep

LEMMA CompactInputStep ==
  ASSUME DevChatIInv, NEW p \in Procs, compactInput(p)
  PROVE  DevChatIInv'
<1> DEFINE count == [made EXCEPT !.compactions = @ + 1]
<1>1. /\ made \in Made /\ work[p] \in Works /\ work \in [Procs -> Works]
  BY DEF DevChatIInv
<1>2. count \in Made /\ count.turns = made.turns /\ count.fills = made.fills
  BY <1>1, MadeCompaction
<1>3. /\ made' = count /\ saved' = saved /\ mem' = mem /\ work' = work
      /\ cli' = [cli EXCEPT ![p] = "compact"]
  BY DEF compactInput, CompactionStarts
<1> HIDE DEF count
<1>4. Grows
  BY <1>1, <1>2, <1>3, MadeFields DEF Grows
<1>5. GoodWork(work[p], mem[p], "compact", made'.turns)
  BY <1>1, IdleWork
<1>6. "compact" \in Stages /\ work' = [work EXCEPT ![p] = work[p]]
  BY <1>1, <1>3 DEF Stages
<1> QED
  BY <1>1, <1>3, <1>4, <1>5, <1>6, UnsavedStep

\* The chat after a compaction of its history.
Shortened(c, input, n) == [c EXCEPT !.input = input, !.compactions = n]

LEMMA ShortenedChat ==
  ASSUME NEW c \in Chats, NEW input \in SUBSET Items, NEW n \in Nat
  PROVE  /\ Shortened(c, input, n) \in Chats /\ Shortened(c, input, n).input = input
         /\ Shortened(c, input, n).turns = c.turns
         /\ Shortened(c, input, n).compactions = n
         /\ Shortened(c, input, n).fills = c.fills
  BY DEF Chats, Shortened

LEMMA CompactedIsGood ==
  ASSUME NEW p, mem[p] \in Chats, NEW report \in CompactionReports,
         NEW madeTurns \in Nat, NEW madeFills \in Nat
  PROVE  LET output == buildResponseJSON(report, TRUE, 0, 0)
         IN  /\ GoodChat(Compacted(p, output), madeTurns, madeFills)
             /\ Compacted(p, output).input = output
<1> DEFINE output == buildResponseJSON(report, TRUE, 0, 0)
           n == mem[p].compactions + 1
<1>1. /\ mem[p].turns \in Nat /\ mem[p].fills \in Nat /\ mem[p].compactions \in Nat
      /\ n \in Nat
  BY DEF Chats
<1>2. /\ output \in SUBSET Items
      /\ Whole(output, mem[p].turns, n, mem[p].fills)
      /\ Dated(output, madeTurns, madeFills)
  BY <1>1, CompactionIsWhole
<1>3. Compacted(p, output) = Shortened(mem[p], output, n)
  BY DEF Compacted, Shortened
<1> HIDE DEF output, n
<1>4. /\ Shortened(mem[p], output, n) \in Chats
      /\ Shortened(mem[p], output, n).input = output
      /\ Shortened(mem[p], output, n).turns = mem[p].turns
      /\ Shortened(mem[p], output, n).compactions = n
      /\ Shortened(mem[p], output, n).fills = mem[p].fills
  BY <1>1, <1>2, ShortenedChat
<1>5. GoodChat(Compacted(p, output), madeTurns, madeFills) /\ Compacted(p, output).input = output
  BY <1>2, <1>3, <1>4 DEF GoodChat
<1> QED
  BY <1>5 DEF output

\* The turn's own copy after a step of it.
Copied(w, input) == [w EXCEPT !.input = input]
Pending(w, input, n) == [w EXCEPT !.input = input, !.pending = n]

LEMMA CopiedWork ==
  ASSUME NEW w \in Works, NEW input \in SUBSET Items
  PROVE  /\ Copied(w, input) \in Works /\ Copied(w, input).input = input
         /\ Copied(w, input).turn = w.turn /\ Copied(w, input).pending = w.pending
         /\ Copied(w, input).round = w.round
  BY DEF Works, Copied

LEMMA PendingWork ==
  ASSUME NEW w \in Works, NEW input \in SUBSET Items, NEW n \in Nat
  PROVE  /\ Pending(w, input, n) \in Works /\ Pending(w, input, n).input = input
         /\ Pending(w, input, n).turn = w.turn
  BY DEF Works, Pending

LEMMA CompactStep ==
  ASSUME DevChatIInv, NEW p \in Procs, NEW report \in CompactionReports,
         compact(p, buildResponseJSON(report, TRUE, 0, 0))
  PROVE  DevChatIInv'
<1> DEFINE output == buildResponseJSON(report, TRUE, 0, 0)
           state == Compacted(p, output)
<1>1. /\ made \in Made /\ made.turns \in Nat /\ made.fills \in Nat /\ mem[p] \in Chats
      /\ cli \in [Procs -> Stages] /\ work \in [Procs -> Works]
  BY MadeFields DEF DevChatIInv
<1>2. GoodChat(state, made.turns, made.fills)
  BY <1>1, CompactedIsGood
<1>3. Saves(p, state, made) /\ cli' = [cli EXCEPT ![p] = "prompt"] /\ work' = work
  BY DEF compact
<1> HIDE DEF state
<1>4. /\ mem' = [mem EXCEPT ![p] = state] /\ saved' \in {saved, state}
      /\ made' \in Made /\ made'.turns = made.turns /\ made'.fills = made.fills
  BY <1>1, <1>3, SavesWrites
<1>5. Grows
  BY <1>1, <1>4 DEF Grows
<1>6. /\ cli' \in [Procs -> Stages] /\ work' \in [Procs -> Works] /\ cli'[p] = "prompt"
      /\ \A q \in Procs \ {p} : cli'[q] = cli[q] /\ work'[q] = work[q]
  BY <1>1, <1>3 DEF Stages
<1>7. GoodWork(work'[p], mem'[p], cli'[p], made'.turns)
  BY <1>6, IdleWork
<1> QED
  BY <1>2, <1>4, <1>5, <1>6, <1>7, ChatStep

LEMMA CompactBeforeStep ==
  ASSUME DevChatIInv, NEW p \in Procs, NEW report \in CompactionReports,
         CompactBefore(p, buildResponseJSON(report, TRUE, 0, 0))
  PROVE  DevChatIInv'
<1> DEFINE output == buildResponseJSON(report, TRUE, 0, 0)
           state == Compacted(p, output)
           asked == Item("instruction", work[p].turn, 0)
           w == Copied(work[p], output \cup {asked})
<1>1. /\ made \in Made /\ made.turns \in Nat /\ made.fills \in Nat /\ mem[p] \in Chats
      /\ cli \in [Procs -> Stages] /\ work \in [Procs -> Works] /\ work[p] \in Works
      /\ GoodWork(work[p], mem[p], cli[p], made.turns) /\ cli[p] = "before"
      /\ mem \in [Procs -> Chats]
  BY MadeFields DEF DevChatIInv, CompactBefore
<1>2. GoodChat(state, made.turns, made.fills) /\ state.input = output
  BY <1>1, CompactedIsGood
<1>3. /\ Saves(p, state, made)
      /\ \/ /\ cli' = [cli EXCEPT ![p] = "round"]
            /\ work' = [work EXCEPT ![p] = w]
         \/ /\ cli' = [cli EXCEPT ![p] = "prompt"]
            /\ work' = [work EXCEPT ![p] = NoWork]
  BY DEF CompactBefore, Copied
<1>4. output \in SUBSET Items /\ \A i \in output : i.turn = 0
  BY CompactionIsWhole
<1>5. /\ work[p].turn \in 1..made.turns /\ work[p].pending = 0 /\ work[p].turn \in Nat
  BY <1>1 DEF GoodWork, Works
<1>6. /\ asked \in Items /\ asked.kind = "instruction" /\ asked.turn = work[p].turn
  BY <1>5, ItemFields DEF Kinds
<1> HIDE DEF state, output, asked
<1>7. output \cup {asked} \in SUBSET Items
  BY <1>4, <1>6
<1>8. /\ w \in Works /\ w.input = output \cup {asked} /\ w.turn = work[p].turn /\ w.pending = 0
  BY <1>1, <1>5, <1>7, CopiedWork
<1> HIDE DEF w
<1>9. /\ mem' = [mem EXCEPT ![p] = state] /\ saved' \in {saved, state}
      /\ made' \in Made /\ made'.turns = made.turns /\ made'.fills = made.fills
  BY <1>1, <1>3, SavesWrites
<1>10. Grows
  BY <1>1, <1>9 DEF Grows
<1>11. mem'[p] = state
  BY <1>1, <1>9
<1>12. GoodWork(w, state, "round", made.turns)
  <2>1. TurnItems(w.input, state.input, w.turn, w.round)
    BY <1>2, <1>6, <1>8 DEF TurnItems
  <2>2. \A i \in state.input : i.turn # w.turn
    BY <1>2, <1>4, <1>5, <1>8
  <2> QED
    BY <1>5, <1>8, <2>1, <2>2 DEF GoodWork
<1>13. /\ cli' \in [Procs -> Stages] /\ work' \in [Procs -> Works]
       /\ \A q \in Procs \ {p} : cli'[q] = cli[q] /\ work'[q] = work[q]
       /\ \/ cli'[p] = "round" /\ work'[p] = w
          \/ cli'[p] = "prompt" /\ work'[p] = NoWork
  BY <1>1, <1>3, <1>8, NoChatIsGood DEF Stages
<1>14. GoodWork(work'[p], mem'[p], cli'[p], made'.turns)
  BY <1>9, <1>11, <1>12, <1>13, IdleWork, NoChatIsGood
<1> QED
  BY <1>2, <1>9, <1>10, <1>13, <1>14, ChatStep

\* A turn that was compacted has no instruction, and nothing more is asked of it.
LEMMA CompactBetweenStep ==
  ASSUME DevChatIInv, NEW p \in Procs, NEW report \in CompactionReports,
         CompactBetween(p, buildResponseJSON(report, TRUE, 0, 0))
  PROVE  DevChatIInv'
<1> DEFINE output == buildResponseJSON(report, TRUE, 0, 0)
           n == work[p].pending + 1
           w == Pending(work[p], output, n)
<1>1. /\ made \in Made /\ made.turns \in Nat /\ work[p] \in Works /\ cli[p] = "between"
      /\ GoodWork(work[p], mem[p], cli[p], made.turns) /\ work \in [Procs -> Works]
  BY MadeFields DEF DevChatIInv, CompactBetween
<1>2. /\ output \in SUBSET Items
      /\ \A i \in output : i.kind \in {"reasoning", "compaction"}
  BY CompactionIsWhole
<1>3. /\ cli' = [cli EXCEPT ![p] = "round"] /\ UNCHANGED <<saved, mem, made>>
      /\ work' = [work EXCEPT ![p].input = output, ![p].pending = @ + 1]
  BY DEF CompactBetween, Unsaved
<1>4. work' = [work EXCEPT ![p] = w]
  BY <1>1, <1>3 DEF Pending
<1>9. n \in Nat
  BY <1>1 DEF Works
<1> HIDE DEF output, n
<1>5. w \in Works /\ w.input = output /\ w.turn = work[p].turn
  BY <1>1, <1>2, <1>9, PendingWork
<1> HIDE DEF w
<1>6. ~HasInstruction(w.input, w.turn)
  BY <1>2, <1>5 DEF HasInstruction
<1>7. GoodWork(w, mem[p], "round", made'.turns)
  BY <1>1, <1>3, <1>5, <1>6 DEF GoodWork
<1>8. Grows
  BY <1>1, <1>3, MadeFields DEF Grows
<1> QED
  BY <1>3, <1>4, <1>5, <1>7, <1>8, UnsavedStep DEF Stages

LEMMA SendStep ==
  ASSUME DevChatIInv, NEW p \in Procs, send(p)
  PROVE  DevChatIInv'
<1> DEFINE turn == made.turns + 1
           asked == Item("instruction", turn, 0)
           input == mem[p].input \cup {asked}
           w == [turn |-> turn, pending |-> 0, round |-> 0, input |-> input]
<1>1. /\ made \in Made /\ made.turns \in Nat /\ made.fills \in Nat /\ mem[p] \in Chats
      /\ Dated(mem[p].input, made.turns, made.fills)
      /\ mem[p].input \in SUBSET Items
  BY MadeFields DEF DevChatIInv, GoodChat, Chats
<1>2. turn \in Nat /\ turn \in 1..turn /\ turn > made.turns
  BY <1>1
<1>3. asked \in Items /\ asked.kind = "instruction" /\ asked.turn = turn
  BY <1>2, ItemFields DEF Kinds
<1>4. \A i \in mem[p].input : i.turn # turn
  <2> TAKE i \in mem[p].input
  <2>1. i.turn <= made.turns /\ i.turn \in Nat
    BY <1>1, ItemsDiffer DEF Dated
  <2> QED
    BY <1>1, <2>1
<1>5. /\ saved' = saved /\ mem' = mem /\ work' = [work EXCEPT ![p] = w]
      /\ \/ /\ cli' = [cli EXCEPT ![p] = "round"]
            /\ made' = [made EXCEPT !.turns = @ + 1]
         \/ /\ cli' = [cli EXCEPT ![p] = "before"]
            /\ made' = [made EXCEPT !.turns = @ + 1, !.compactions = @ + 1]
  BY DEF send, CompactionStarts
<1>6. made' \in Made /\ made'.turns = turn /\ made'.fills = made.fills
  BY <1>1, <1>5, MadeTurn, MadeCompactedTurn
<1> HIDE DEF turn, asked
<1>7. /\ w \in Works /\ w.turn = turn /\ w.pending = 0 /\ w.round = 0 /\ w.input = input
  BY <1>1, <1>2, <1>3 DEF Works
<1>8. TurnItems(input, mem[p].input, turn, 0)
  BY <1>3 DEF TurnItems
<1> HIDE DEF w, input
<1>9. \A doing \in {"round", "before"} : GoodWork(w, mem[p], doing, turn)
  BY <1>2, <1>4, <1>7, <1>8 DEF GoodWork
<1>10. Grows
  BY <1>1, <1>2, <1>6 DEF Grows
<1>11. PICK doing \in {"round", "before"} : cli' = [cli EXCEPT ![p] = doing]
  BY <1>5
<1>12. doing \in Stages
  BY DEF Stages
<1>13. GoodWork(w, mem[p], doing, made'.turns)
  BY <1>6, <1>9, <1>11
<1> QED
  BY <1>5, <1>7, <1>13, <1>10, <1>11, <1>12, UnsavedStep

Finished(c, input, t, n) == [c EXCEPT !.input = input, !.turns = t, !.compactions = n]
Stepped(w, input, n) == [w EXCEPT !.input = input, !.round = n]

LEMMA FinishedChat ==
  ASSUME NEW c \in Chats, NEW input \in SUBSET Items, NEW t \in Nat, NEW n \in Nat
  PROVE  /\ Finished(c, input, t, n) \in Chats /\ Finished(c, input, t, n).input = input
         /\ Finished(c, input, t, n).turns = t
         /\ Finished(c, input, t, n).compactions = n
         /\ Finished(c, input, t, n).fills = c.fills
  BY DEF Chats, Finished

LEMMA SteppedWork ==
  ASSUME NEW w \in Works, NEW input \in SUBSET Items, NEW n \in Nat
  PROVE  /\ Stepped(w, input, n) \in Works /\ Stepped(w, input, n).input = input
         /\ Stepped(w, input, n).turn = w.turn /\ Stepped(w, input, n).pending = w.pending
         /\ Stepped(w, input, n).round = n
  BY DEF Works, Stepped

\* What a process that is about to hear an answer works on.
Hearing(p) ==
  /\ made \in Made /\ made.turns \in Nat /\ made.fills \in Nat
  /\ mem[p] \in Chats /\ mem[p].input \in SUBSET Items
  /\ GoodChat(mem[p], made.turns, made.fills)
  /\ work[p] \in Works /\ work[p].input \in SUBSET Items
  /\ work[p].turn \in Nat /\ work[p].round \in Nat
  /\ work[p].turn \in 1..made.turns
  /\ \A i \in mem[p].input : i.turn # work[p].turn
  /\ work[p].pending = 0
  /\ TurnItems(work[p].input, mem[p].input, work[p].turn, work[p].round)
  /\ HasInstruction(work[p].input, work[p].turn)
  /\ mem \in [Procs -> Chats] /\ cli \in [Procs -> Stages] /\ work \in [Procs -> Works]

LEMMA RoundHears ==
  ASSUME DevChatIInv, NEW p \in Procs, cli[p] = "round",
         HasInstruction(work[p].input, work[p].turn)
  PROVE  Hearing(p)
<1>1. GoodWork(work[p], mem[p], cli[p], made.turns) /\ work[p] \in Works /\ mem[p] \in Chats
  BY DEF DevChatIInv
<1>2. /\ work[p].input \in SUBSET Items /\ work[p].turn \in Nat /\ work[p].round \in Nat
      /\ mem[p].input \in SUBSET Items
  BY <1>1 DEF Works, Chats
<1>3. /\ work[p].turn \in 1..made.turns
      /\ \A i \in mem[p].input : i.turn # work[p].turn
      /\ work[p].pending = 0
      /\ TurnItems(work[p].input, mem[p].input, work[p].turn, work[p].round)
  BY <1>1 DEF GoodWork
<1>4. /\ made \in Made /\ GoodChat(mem[p], made.turns, made.fills)
      /\ mem \in [Procs -> Chats] /\ cli \in [Procs -> Stages] /\ work \in [Procs -> Works]
  BY DEF DevChatIInv
<1> QED
  BY <1>1, <1>2, <1>3, <1>4, MadeFields DEF Hearing

\* The call of the round that comes is not in the history yet.
LEMMA CallIsNew ==
  ASSUME NEW p, Hearing(p)
  PROVE  Item("call", work[p].turn, work[p].round + 1) \notin work[p].input
<1> DEFINE call == Item("call", work[p].turn, work[p].round + 1)
<1>0. work[p].turn \in Nat /\ work[p].round + 1 \in Nat /\ "call" \in Kinds
  BY DEF Hearing, Kinds
<1>1. call.kind = "call" /\ call.turn = work[p].turn /\ call.round = work[p].round + 1
  BY <1>0, ItemFields
<1> HIDE DEF call
<1>2. call \notin mem[p].input
  BY <1>1 DEF Hearing
<1>3. call \notin work[p].input \ mem[p].input
  <2> SUFFICES ASSUME call \in work[p].input \ mem[p].input
               PROVE  FALSE
    OBVIOUS
  <2>1. call.round <= work[p].round /\ work[p].round \in Nat
    BY <1>1 DEF Hearing, TurnItems
  <2> QED
    BY <1>1, <2>1
<1> QED
  BY <1>2, <1>3 DEF call

\* What a round answers.
LEMMA RoundOutput ==
  ASSUME NEW report \in RoundReports, NEW turn \in Nat, NEW round \in Nat
  PROVE  \/ buildResponseJSON(report, FALSE, turn, round) = {Item("call", turn, round)}
         \/ \E thoughts \in {{}, {Item("reasoning", turn, round)}} :
              buildResponseJSON(report, FALSE, turn, round)
                = thoughts \cup {Item("answer", turn, round)}
<1> DEFINE output == buildResponseJSON(report, FALSE, turn, round)
           thoughts == {i \in {Item("reasoning", turn, round)} : report.thinking}
<1>1. output = thoughts \cup {Item(IF report.calls THEN "call" ELSE "answer", turn, round)}
  BY DEF buildResponseJSON
<1>2. report.calls \in BOOLEAN /\ (report.calls => ~report.thinking)
  BY DEF RoundReports, Reports
<1>3. CASE report.calls
  <2>1. thoughts = {}
    BY <1>2, <1>3
  <2> QED
    BY <1>1, <1>3, <2>1
<1>4. CASE ~report.calls
  <2>1. output = thoughts \cup {Item("answer", turn, round)}
    BY <1>1, <1>4
  <2>2. thoughts \in {{}, {Item("reasoning", turn, round)}}
    OBVIOUS
  <2> HIDE DEF thoughts
  <2> QED
    BY <2>1, <2>2
<1> QED
  BY <1>2, <1>3, <1>4

LEMMA FinishStep ==
  ASSUME DevChatIInv, NEW p \in Procs, Hearing(p), NEW report \in RoundReports,
         FinishTurn(p, work[p].input
           \cup buildResponseJSON(report, FALSE, work[p].turn, work[p].round + 1))
  PROVE  DevChatIInv'
<1> DEFINE turn == work[p].turn
           round == work[p].round
           output == buildResponseJSON(report, FALSE, turn, round + 1)
           call == Item("call", turn, round + 1)
<1>1. turn \in Nat /\ round \in Nat /\ round + 1 \in Nat
  BY DEF Hearing
<1>2. call.kind = "call" /\ call \notin work[p].input
  <2>1. "call" \in Kinds
    BY DEF Kinds
  <2>2. call.kind = "call"
    BY <1>1, <2>1, ItemFields
  <2> QED
    BY <2>2, CallIsNew
<1>3. OfKind(work[p].input \cup output, "call") = OfKind(work[p].input, "call")
  BY DEF FinishTurn
<1>4. call \notin output
  BY <1>2, <1>3 DEF OfKind
<1>5. PICK thoughts \in {{}, {Item("reasoning", turn, round + 1)}} :
        output = thoughts \cup {Item("answer", turn, round + 1)}
  <2>1. output # {call}
    <3> HIDE DEF output, call
    <3> QED
      BY <1>4
  <2> QED
    BY <1>1, <2>1, RoundOutput
<1> DEFINE all == work[p].input \cup (thoughts \cup {Item("answer", turn, round + 1)})
           state == Finished(mem[p], all, mem[p].turns + 1, mem[p].compactions)
<1>6. /\ mem[p].turns \in Nat /\ mem[p].compactions \in Nat /\ mem[p].fills \in Nat
      /\ mem[p].turns + 1 \in Nat /\ mem[p].compactions + 0 = mem[p].compactions
  BY DEF Hearing, Chats
<1>7. /\ Whole(mem[p].input, mem[p].turns, mem[p].compactions, mem[p].fills)
      /\ Dated(mem[p].input, made.turns, made.fills)
  BY DEF Hearing, GoodChat
<1>8. turn # 0 /\ turn <= made.turns
  BY DEF Hearing
<1>82. /\ mem[p].input \in SUBSET Items /\ work[p].input \in SUBSET Items
       /\ made.turns \in Nat /\ made.fills \in Nat
       /\ \A i \in mem[p].input : i.turn # turn
       /\ TurnItems(work[p].input, mem[p].input, turn, round)
       /\ HasInstruction(work[p].input, turn)
  BY DEF Hearing
<1> HIDE DEF call, output
<1>9. /\ all \in SUBSET Items
      /\ Whole(all, mem[p].turns + 1, mem[p].compactions, mem[p].fills)
      /\ Dated(all, made.turns, made.fills)
  <2> DEFINE held == mem[p].input
             input == work[p].input
             turns == mem[p].turns
             compactions == mem[p].compactions
             fills == mem[p].fills
             madeTurns == made.turns
             madeFills == made.fills
  <2>1. /\ held \in SUBSET Items /\ input \in SUBSET Items /\ turn \in Nat /\ turn # 0
        /\ round \in Nat /\ turns \in Nat /\ compactions \in Nat /\ fills \in Nat
        /\ madeTurns \in Nat /\ madeFills \in Nat /\ turn <= madeTurns
        /\ Whole(held, turns, compactions, fills) /\ Dated(held, madeTurns, madeFills)
        /\ \A i \in held : i.turn # turn
        /\ TurnItems(input, held, turn, round) /\ HasInstruction(input, turn)
        /\ thoughts \in {{}, {Item("reasoning", turn, round + 1)}}
    BY <1>1, <1>5, <1>6, <1>7, <1>8, <1>82
  <2>2. all = input \cup (thoughts \cup {Item("answer", turn, round + 1)})
    OBVIOUS
  <2> HIDE DEF held, input, turns, compactions, fills, madeTurns, madeFills, all, turn, round
  <2>3. /\ all \in SUBSET Items
        /\ Whole(all, turns + 1, compactions, fills)
        /\ Dated(all, madeTurns, madeFills)
    BY ONLY <2>1, <2>2, TurnIsWhole
  <2> QED
    BY <2>3 DEF turns, compactions, fills, madeTurns, madeFills
<1>10. /\ Saves(p, [mem[p] EXCEPT !.input = work[p].input \cup output, !.turns = @ + 1,
                                  !.compactions = @ + work[p].pending], made)
       /\ cli' = [cli EXCEPT ![p] = "prompt"] /\ work' = [work EXCEPT ![p] = NoWork]
  BY DEF FinishTurn, output
<1>11. work[p].input \cup output = all
  BY <1>5
<1>12. Saves(p, state, made)
  BY <1>6, <1>10, <1>11 DEF Finished, Hearing
<1> HIDE DEF all
<1>13. /\ state \in Chats /\ state.input = all /\ state.turns = mem[p].turns + 1
       /\ state.compactions = mem[p].compactions /\ state.fills = mem[p].fills
  BY <1>6, <1>9, FinishedChat DEF Hearing
<1> HIDE DEF state
<1>14. GoodChat(state, made.turns, made.fills)
  BY <1>9, <1>13 DEF GoodChat
<1>15. /\ mem' = [mem EXCEPT ![p] = state] /\ saved' \in {saved, state}
       /\ made' \in Made /\ made'.turns = made.turns /\ made'.fills = made.fills
  BY <1>12, SavesWrites DEF Hearing
<1>16. Grows
  BY <1>15 DEF Grows, Hearing
<1>17. /\ cli' \in [Procs -> Stages] /\ work' \in [Procs -> Works] /\ cli'[p] = "prompt"
       /\ \A q \in Procs \ {p} : cli'[q] = cli[q] /\ work'[q] = work[q]
  BY <1>10, NoChatIsGood DEF Stages, Hearing
<1>18. GoodWork(work'[p], mem'[p], cli'[p], made'.turns)
  BY <1>17, IdleWork
<1> QED
  BY <1>14, <1>15, <1>16, <1>17, <1>18, ChatStep

LEMMA CallStep ==
  ASSUME DevChatIInv, NEW p \in Procs, Hearing(p), NEW report \in RoundReports,
         CallTools(p, work[p].input
           \cup buildResponseJSON(report, FALSE, work[p].turn, work[p].round + 1))
  PROVE  DevChatIInv'
<1> DEFINE turn == work[p].turn
           next == work[p].round + 1
           output == buildResponseJSON(report, FALSE, turn, next)
           call == Item("call", turn, next)
           receipt == Item("receipt", turn, next)
           thought == Item("reasoning", turn, next)
           answer == Item("answer", turn, next)
           more == work[p].input \cup output \cup {receipt}
           w == Stepped(work[p], more, next)
<1>1. turn \in Nat /\ next \in Nat
  BY DEF Hearing
<1>2. /\ call \in Items /\ call.kind = "call" /\ call.turn = turn /\ call.round = next
      /\ call \notin work[p].input
  BY <1>1, ItemFields, CallIsNew DEF Kinds
<1>3. receipt \in Items /\ receipt.kind = "receipt" /\ receipt.turn = turn
  BY <1>1, ItemFields DEF Kinds
<1>4. thought.kind = "reasoning" /\ answer.kind = "answer"
  BY <1>1, ItemFields DEF Kinds
<1>5. call \in work[p].input \cup output
  BY DEF CallTools
<1>6. output = {call}
  <2>1. call # thought /\ call # answer
    BY <1>2, <1>4
  <2>2. output = {call} \/ output \subseteq {thought, answer}
    <3>1. \/ output = {call}
          \/ \E thoughts \in {{}, {thought}} : output = thoughts \cup {answer}
      BY <1>1, RoundOutput
    <3> HIDE DEF output, call, thought, answer
    <3> QED
      BY <3>1
  <2> HIDE DEF output, call, thought, answer
  <2> QED
    BY <1>2, <1>5, <2>1, <2>2
<1>7. /\ work' = [work EXCEPT ![p].input = more, ![p].round = next]
      /\ mem' = [mem EXCEPT ![p].input = mem[p].input] /\ saved' = saved
      /\ \/ cli' = [cli EXCEPT ![p] = "round"] /\ made' = made
         \/ /\ cli' = [cli EXCEPT ![p] = "between"]
            /\ made' = [made EXCEPT !.compactions = @ + 1]
  BY DEF CallTools, Meanwhile, CompactionStarts
<1>8. mem' = mem
  BY <1>7 DEF Hearing, Chats
<1>9. work' = [work EXCEPT ![p] = w]
  BY <1>7 DEF Stepped, Hearing
<1>10. made' \in Made /\ made'.turns = made.turns /\ made'.fills = made.fills
  BY <1>7, MadeCompaction DEF Hearing
<1> HIDE DEF call, receipt, output, thought, answer
<1>11. more \in SUBSET Items
  BY <1>2, <1>3, <1>6 DEF Hearing
<1>12. more = work[p].input \cup {call, receipt}
  BY <1>6
<1> HIDE DEF more
<1>13. /\ w \in Works /\ w.input = more /\ w.turn = turn /\ w.pending = 0 /\ w.round = next
  BY <1>1, <1>11, SteppedWork DEF Hearing
<1> HIDE DEF w
<1>14. TurnItems(more, mem[p].input, turn, next)
  <2>1. mem[p].input \subseteq more
    BY <1>12 DEF Hearing, TurnItems
  <2>2. ASSUME NEW i \in more \ mem[p].input
        PROVE  /\ i.turn = turn
               /\ i.kind \in {"instruction", "call", "receipt"}
               /\ i.kind = "call" => /\ i.round <= next
                                     /\ Item("receipt", i.turn, i.round) \in more
    <3>1. CASE i = call
      <4>1. Item("receipt", i.turn, i.round) \in more
        BY <1>2, <1>12, <3>1 DEF receipt
      <4> QED
        BY <1>1, <1>2, <3>1, <4>1
    <3>2. CASE i = receipt
      BY <1>3, <3>2
    <3>3. CASE i \in work[p].input
      <4>1. /\ i.turn = turn /\ i.kind \in {"instruction", "call", "receipt"}
            /\ i.kind = "call" => /\ i.round <= work[p].round
                                  /\ Item("receipt", i.turn, i.round) \in work[p].input
        BY <2>2, <3>3 DEF Hearing, TurnItems
      <4>2. i.round \in Nat /\ work[p].round \in Nat
        BY <3>3, ItemsDiffer DEF Hearing
      <4> QED
        BY <1>12, <4>1, <4>2
    <3> QED
      BY <1>12, <2>2, <3>1, <3>2, <3>3
  <2> QED
    BY <2>1, <2>2 DEF TurnItems
<1>15. PICK doing \in {"round", "between"} : cli' = [cli EXCEPT ![p] = doing]
  BY <1>7
<1>16. GoodWork(w, mem[p], doing, made'.turns)
  BY <1>10, <1>13, <1>14 DEF GoodWork, Hearing
<1>17. Grows
  BY <1>10 DEF Grows, Hearing
<1>18. doing \in Stages
  BY DEF Stages
<1> QED
  BY <1>7, <1>8, <1>9, <1>13, <1>15, <1>16, <1>17, <1>18, UnsavedStep

LEMMA DevChatStep ==
  ASSUME DevChatIInv, DevChatNext
  PROVE  DevChatIInv'
<1>1. PICK p \in Procs :
        \/ Open(p) \/ Quit(p) \/ Command(p)
        \/ compactInput(p) \/ CompactionFails(p) \/ CompactionAnswers(p)
        \/ send(p) \/ RoundFails(p) \/ RoundAnswers(p)
  BY DEF DevChatNext
<1>2. CASE CompactionAnswers(p)
  <2>1. PICK report \in CompactionReports :
          LET output == buildResponseJSON(report, TRUE, 0, 0)
          IN  compact(p, output) \/ CompactBefore(p, output) \/ CompactBetween(p, output)
    BY <1>2 DEF CompactionAnswers
  <2> QED
    BY <2>1, CompactStep, CompactBeforeStep, CompactBetweenStep
<1>3. CASE RoundAnswers(p)
  <2>1. Hearing(p)
    BY <1>3, RoundHears DEF RoundAnswers
  <2>2. PICK report \in RoundReports :
          LET input == work[p].input
                \cup buildResponseJSON(report, FALSE, work[p].turn, work[p].round + 1)
          IN  FinishTurn(p, input) \/ CallTools(p, input)
    BY <1>3 DEF RoundAnswers
  <2> QED
    BY <2>1, <2>2, FinishStep, CallStep
<1> QED
  BY <1>1, <1>2, <1>3, OpenStep, LeavingStep, CommandStep, CompactInputStep, SendStep

\* The invariant of the development chat: every history that a process holds or has saved is
\* whole, and what a turn adds to its own copy is its own.
THEOREM ChatsConsistent == DevChatSpec => []DevChatIInv
<1>1. DevChatInit => DevChatIInv
  <2> SUFFICES ASSUME DevChatInit
               PROVE  DevChatIInv
    OBVIOUS
  <2>1. made \in Made /\ made.turns \in Nat /\ made.fills \in Nat
    BY DEF DevChatInit, Made
  <2>2. GoodChat(NoChat, made.turns, made.fills)
    BY <2>1, NoChatGood
  <2>3. /\ saved = NoChat /\ mem \in [Procs -> Chats] /\ cli \in [Procs -> Stages]
        /\ work \in [Procs -> Works]
        /\ \A p \in Procs : mem[p] = NoChat /\ work[p] = NoWork /\ cli[p] = "off"
    BY NoChatIsGood DEF DevChatInit, Stages
  <2>4. \A p \in Procs : GoodWork(work[p], mem[p], cli[p], made.turns)
    BY <2>3, IdleWork
  <2> QED
    BY <2>1, <2>2, <2>3, <2>4 DEF DevChatIInv
<1>2. DevChatIInv /\ [DevChatNext]_dcVars => DevChatIInv'
  <2> SUFFICES ASSUME DevChatIInv, [DevChatNext]_dcVars
               PROVE  DevChatIInv'
    OBVIOUS
  <2>1. CASE DevChatNext
    BY <2>1, DevChatStep
  <2>2. CASE UNCHANGED dcVars
    BY <2>2 DEF DevChatIInv, dcVars
  <2> QED
    BY <2>1, <2>2
<1> QED
  BY <1>1, <1>2, PTL DEF DevChatSpec

\* What is in a chat's file is whole, whatever failed before it was written: its turns, its
\* calls and its counters (writeState, runTurn and compactInput of src/dev-chat).
THEOREM SavedChatsAreWhole == DevChatSpec => []SavedIsWhole
<1>1. DevChatIInv => SavedIsWhole
  <2> SUFFICES ASSUME DevChatIInv
               PROVE  SavedIsWhole
    OBVIOUS
  <2> DEFINE input == saved.input
  <2>1. /\ Whole(input, saved.turns, saved.compactions, saved.fills)
        /\ input \in SUBSET Items /\ saved.compactions \in Nat
    BY DEF DevChatIInv, GoodChat, Chats
  <2> HIDE DEF input
  <2>2. ASSUME NEW t \in {i.turn : i \in input} \ {0}
        PROVE  /\ \E i \in input : i.turn = t /\ i.kind = "instruction"
               /\ \E i \in input : i.turn = t /\ i.kind = "answer"
    BY <2>1, <2>2 DEF Whole
  <2>3. ASSUME NEW c \in OfKind(input, "call")
        PROVE  [c EXCEPT !.kind = "receipt"] \in input
    <3>1. c \in input /\ c.kind = "call" /\ c \in Items
      BY <2>1, <2>3 DEF OfKind
    <3>2. Item("receipt", c.turn, c.round) \in input
      BY <2>1, <3>1 DEF Whole
    <3> QED
      BY <3>1, <3>2, ItemsDiffer
  <2>4. saved.compactions > 0 => OfKind(input, "compaction") # {}
    BY <2>1 DEF Whole, OfKind
  <2>5. saved.compactions = 0 =>
          /\ saved.turns = Cardinality(OfKind(input, "answer"))
          /\ saved.fills = Cardinality(OfKind(input, "fill"))
    BY <2>1 DEF Whole
  <2>6. \A t \in {i.turn : i \in input} \ {0} : \A kind \in {"instruction", "answer"} :
          \E i \in input : i.turn = t /\ i.kind = kind
    BY <2>2
  <2> QED
    BY <2>3, <2>4, <2>5, <2>6 DEF SavedIsWhole, input
<1> QED
  BY <1>1, ChatsConsistent, PTL
=============================================================================
