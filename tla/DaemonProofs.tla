---------------------------- MODULE DaemonProofs ----------------------------
(***************************************************************************)
(* The sampling rounds, for any number of bodies, requests and rounds: one *)
(* browser surface and one tool call per body.  The daemon, for any number *)
(* of requests, bodies, turns and rounds: an interruption reaches every    *)
(* request of its turn and no other, and an accepted shutdown leaves       *)
(* nobody waiting.  The lock, for any set of processes: it is exclusive    *)
(* until a contender unlinks another lock than the one it proved stale,    *)
(* and until then uninstall removes what its caller proved.  And the       *)
(* commands given in any number of terminals, of which setup and uninstall *)
(* take the lock: they leave nothing half done that none of them owes or   *)
(* admitted.                                                               *)
(***************************************************************************)
EXTENDS Daemon, LifecycleLock, TerminalService, TLAPS

LEMMA PrunedTyped ==
  ASSUME IntentTypeOK, NEW stale
  PROVE  Pruned(stale) \in [Keys -> Rounds \cup {None}]
BY DEF Pruned, IntentTypeOK

LEMMA IntentTypeNext ==
  ASSUME IntentTypeOK, [IntentNext]_intentVars PROVE IntentTypeOK'
<1>1. launched < MaxRounds => launched + 1 \in Rounds /\ launched + 1 \in 0..MaxRounds
  BY IntentShapes DEF IntentTypeOK, Rounds
<1>2. ASSUME NEW r \in Requests, NEW k \in Keys, NEW stale, Create(r, k, stale)
      PROVE  IntentTypeOK'
  BY <1>1, <1>2, PrunedTyped DEF Create, IntentTypeOK
<1>3. ASSUME NEW r \in Requests, NEW k \in Keys, NEW stale, Join(r, k, stale)
      PROVE  IntentTypeOK'
  <2>1. Pruned(stale)[k] \in Rounds
    BY <1>3, PrunedTyped DEF Join
  <2>2. observes' \in [Requests -> Rounds \cup {None}] /\ late' \in SUBSET Requests
    BY <1>3, <2>1 DEF Join, IntentTypeOK
  <2>3. handed' \in SUBSET Rounds
    BY <1>3, <2>1 DEF Join, IntentTypeOK
  <2> QED BY <1>3, <2>2, <2>3, PrunedTyped DEF Join, IntentTypeOK
<1>4. ASSUME NEW k \in Keys, NEW stale, VisitNew(k, stale) PROVE IntentTypeOK'
  BY <1>1, <1>4, PrunedTyped DEF VisitNew, IntentTypeOK
<1>5. ASSUME NEW k \in Keys, NEW stale, VisitExisting(k, stale) PROVE IntentTypeOK'
  <2>1. aborted' \in [Rounds -> BOOLEAN]
    <3> DEFINE n == Pruned(stale)[k]
               b == aborted[n] \/ (HoldsSurface(n) /\ Observers(n) = {} /\ ~committed[n])
    <3>1. b \in BOOLEAN
      OBVIOUS
    <3>2. aborted' = [aborted EXCEPT ![n] = b]
      BY <1>5, ZenonT(30) DEF VisitExisting
    <3> HIDE DEF b
    <3> QED BY <3>1, <3>2 DEF IntentTypeOK
  <2> QED BY <1>5, <2>1, PrunedTyped DEF VisitExisting, IntentTypeOK
<1>6. ASSUME NEW r \in Requests, Detach(r) PROVE IntentTypeOK'
  <2> DEFINE n == observes[r]
  <2>1. n \in Rounds
    BY <1>6 DEF Detach, IntentTypeOK
  <2>2. /\ observes' \in [Requests -> Rounds \cup {None}]
        /\ late' \in SUBSET Requests
    BY <1>6 DEF Detach, IntentTypeOK
  <2>3. providerIntentRounds' \in [Keys -> Rounds \cup {None}]
    BY <1>6 DEF Detach, Kept, IntentTypeOK
  <2>4. CASE Abandons(r, n)
    <3>1. aborted' \in [Rounds -> BOOLEAN]
      BY <1>6, <2>4 DEF Detach, IntentTypeOK
    <3>2. result' \in [Rounds -> {"none", "call", "answer", "error"}]
      BY <1>6, <2>4 DEF Detach, IntentTypeOK
    <3>3. phase' \in [Rounds -> {"none", "sampling", "retiring", "completed"}]
      BY <1>6, <2>4 DEF Detach, IntentTypeOK
    <3> QED BY <1>6, <2>2, <2>3, <3>1, <3>2, <3>3 DEF Detach, IntentTypeOK
  <2>5. CASE ~Abandons(r, n)
    BY <1>6, <2>2, <2>3, <2>5 DEF Detach, IntentTypeOK
  <2> QED BY <2>4, <2>5
<1>7. ASSUME NEW n \in Rounds, NEW outcome, CommitCall(n, outcome) PROVE IntentTypeOK'
  BY <1>7 DEF CommitCall, IntentTypeOK
<1>8. ASSUME NEW n \in Rounds, Revoked(n) PROVE IntentTypeOK'
  BY <1>8 DEF Revoked, IntentTypeOK
<1>9. ASSUME NEW n \in Rounds, NEW outcome \in {"none", "call", "answer", "error"},
             Complete(n, outcome)
      PROVE  IntentTypeOK'
  <2>1. providerIntentRounds' \in [Keys -> Rounds \cup {None}]
    BY <1>9 DEF Complete, IntentTypeOK
  <2>2. observes' \in [Requests -> Rounds \cup {None}]
    BY <1>9 DEF Complete, IntentTypeOK
  <2> QED BY <1>9, <2>1, <2>2 DEF Complete, IntentTypeOK
<1>10. ASSUME NEW n \in Rounds, RoundStep(n) PROVE IntentTypeOK'
  <2>1. result[n] \in {"none", "call", "answer", "error"}
    BY DEF IntentTypeOK
  <2> QED BY <1>7, <1>8, <1>9, <1>10, <2>1 DEF RoundStep, BrowserEnds, Retired
<1>11. ASSUME UNCHANGED intentVars PROVE IntentTypeOK'
  BY <1>11 DEF intentVars, IntentTypeOK
<1> QED BY <1>2, <1>3, <1>4, <1>5, <1>6, <1>10, <1>11 DEF IntentNext

-----------------------------------------------------------------------------

\* What the invariant says beyond the types.
Orderly ==
  /\ RoundsCreated
  /\ KeysMatch
  /\ RoundsFound
  /\ RoundIsLast
  /\ CallsAreCommitted
  /\ ObserversAwait
  /\ AbortOrCommit
  /\ AbortHurtsNobody
  /\ NobodySamplesAlone

\* Forgetting prunable rounds forgets none that is at work or has committed.
LEMMA PruneKeeps ==
  ASSUME IntentTypeOK, Orderly, NEW stale, stale \subseteq {x \in Keys : Prunable(x)}
  PROVE  /\ \A k \in Keys : Pruned(stale)[k] \in {providerIntentRounds[k], None}
         /\ \A n \in 1..launched : HoldsSurface(n) \/ committed[n] =>
              Pruned(stale)[roundKey[n]] = n
<1>1. \A k \in Keys : Pruned(stale)[k] = IF k \in stale THEN None ELSE providerIntentRounds[k]
  BY DEF Pruned
<1>2. ASSUME NEW n \in 1..launched, HoldsSurface(n) \/ committed[n]
      PROVE  roundKey[n] \in Keys /\ roundKey[n] \notin stale /\ providerIntentRounds[roundKey[n]] = n
  <2>1. n \in Rounds /\ n <= launched
    BY IntentShapes DEF IntentTypeOK, Rounds
  <2>2. roundKey[n] \in Keys /\ providerIntentRounds[roundKey[n]] = n
    BY <1>2, <2>1 DEF Orderly, RoundsFound, RoundsCreated
  <2> QED BY <1>2, <2>2 DEF Prunable, HoldsSurface
<1> QED BY <1>1, <1>2

\* A new round is the round of its key, and nothing of the key was at work.
LEMMA NewRoundOrderly ==
  ASSUME IntentTypeOK, Orderly, NEW k \in Keys, NEW stale,
         stale \subseteq {x \in Keys : Prunable(x)}, Pruned(stale)[k] = None,
         launched < MaxRounds, NEW n, n = launched + 1,
         launched' = n, roundKey' = [roundKey EXCEPT ![n] = k],
         providerIntentRounds' = [Pruned(stale) EXCEPT ![k] = n],
         NEW p \in {"sampling", "retiring"}, phase' = [phase EXCEPT ![n] = p],
         \A x \in Rounds : x # n => aborted'[x] = aborted[x] /\ result'[x] = result[x],
         p = "sampling" => ~aborted'[n], result'[n] # "call",
         UNCHANGED <<committed, late, handed>>,
         \A r \in Requests : observes'[r] = observes[r] \/ (observes[r] = None /\ observes'[r] = n),
         \A r \in Requests : observes'[r] = n => ~aborted'[n],
         p = "sampling" => \E r \in Requests : observes'[r] = n
  PROVE  Orderly'
<1>1. n \in Rounds /\ launched \in Nat /\ n \in Nat /\ MaxRounds \in Nat /\ n > launched
  BY IntentShapes DEF IntentTypeOK, Rounds
<1>2. /\ \A x \in Rounds : x # n => roundKey'[x] = roundKey[x] /\ phase'[x] = phase[x]
      /\ roundKey'[n] = k /\ phase'[n] = p
  BY <1>1 DEF IntentTypeOK
<1>3. /\ \A x \in Keys : x # k => providerIntentRounds'[x] \in {providerIntentRounds[x], None}
      /\ providerIntentRounds'[k] = n
      /\ \A x \in 1..launched : HoldsSurface(x) \/ committed[x] =>
           providerIntentRounds'[roundKey[x]] = x /\ roundKey[x] # k
  <2>1. Pruned(stale) \in [Keys -> Rounds \cup {None}]
    BY PrunedTyped
  <2>2. \A x \in 1..launched : HoldsSurface(x) \/ committed[x] =>
           roundKey[x] \in Keys /\ Pruned(stale)[roundKey[x]] = x
    <3>1. \A x \in 1..launched : x \in Rounds /\ roundKey[x] \in Keys
      BY IntentShapes DEF IntentTypeOK, Rounds, Orderly, RoundsCreated
    <3> QED BY <3>1, PruneKeeps
  <2>3. \A x \in 1..launched : x # None
    BY IntentShapes
  <2> QED BY <2>1, <2>2, <2>3, PruneKeeps
<1>4. ~committed[n] /\ n \notin handed /\ (\A r \in Requests : observes[r] # n)
  <2>1. phase[n] = "none" /\ n # None
    BY <1>1, IntentShapes DEF Orderly, RoundsCreated
  <2> QED BY <1>1, <2>1 DEF Orderly, RoundsCreated, ObserversAwait, HoldsSurface
<1>5. \A x \in Rounds : x <= n <=> x <= launched \/ x = n
  BY <1>1 DEF Rounds
<1>6. \A x \in 1..n : x \in Rounds /\ (x # n => x \in 1..launched)
  BY <1>1 DEF Rounds
<1>7. RoundsCreated'
  BY <1>1, <1>2, <1>4, <1>5 DEF Orderly, RoundsCreated, Rounds
<1>8. KeysMatch'
  <2> SUFFICES ASSUME NEW x \in Keys, providerIntentRounds'[x] # None
               PROVE  providerIntentRounds'[x] <= n /\ roundKey'[providerIntentRounds'[x]] = x
    BY DEF KeysMatch
  <2>1. CASE x = k
    BY <1>1, <1>2, <1>3, <2>1
  <2>2. CASE x # k
    <3>1. /\ providerIntentRounds'[x] = providerIntentRounds[x]
          /\ providerIntentRounds[x] <= launched /\ roundKey[providerIntentRounds[x]] = x
          /\ providerIntentRounds[x] \in Rounds
      BY <1>3, <2>2 DEF Orderly, KeysMatch, IntentTypeOK
    <3> QED BY <1>1, <1>2, <3>1 DEF Rounds
  <2> QED BY <2>1, <2>2
<1>9. RoundsFound'
  <2> SUFFICES ASSUME NEW x \in 1..n, HoldsSurface(x)' \/ committed'[x]
               PROVE  providerIntentRounds'[roundKey'[x]] = x
    BY DEF RoundsFound
  <2>1. CASE x = n
    BY <1>2, <1>3, <2>1
  <2>2. CASE x # n
    BY <1>2, <1>3, <1>6, <2>2 DEF HoldsSurface
  <2> QED BY <2>1, <2>2
<1>10. RoundIsLast'
  <2> SUFFICES ASSUME NEW x \in Keys, providerIntentRounds'[x] # None,
                      NEW y \in 1..n, roundKey'[y] = x
               PROVE  y <= providerIntentRounds'[x]
    BY DEF RoundIsLast
  <2>1. CASE x = k
    BY <1>1, <1>3, <2>1
  <2>2. CASE x # k
    <3>1. y # n
      BY <1>2, <2>2
    <3> QED BY <1>2, <1>3, <1>6, <2>2, <3>1 DEF Orderly, RoundIsLast
  <2> QED BY <2>1, <2>2
<1>11. CallsAreCommitted'
  BY <1>1, <1>2, <1>4 DEF Orderly, CallsAreCommitted
<1>12. ObserversAwait'
  BY <1>1, <1>2 DEF Orderly, ObserversAwait, HoldsSurface, IntentTypeOK
<1>13. AbortOrCommit'
  BY <1>4 DEF Orderly, AbortOrCommit
<1>14. AbortHurtsNobody'
  <2> SUFFICES ASSUME NEW r \in Requests, observes'[r] # None, aborted'[observes'[r]]
               PROVE  r \in late
    BY DEF AbortHurtsNobody
  <2>1. observes'[r] # n /\ observes'[r] = observes[r] /\ observes[r] \in Rounds
    BY DEF IntentTypeOK
  <2> QED BY <2>1 DEF Orderly, AbortHurtsNobody
<1>15. NobodySamplesAlone'
  <2> SUFFICES ASSUME NEW x \in Rounds, phase'[x] = "sampling"
               PROVE  \E r \in Requests : observes'[r] = x
    BY DEF NobodySamplesAlone, Observers
  <2>1. CASE x = n
    BY <1>2, <2>1
  <2>2. CASE x # n
    <3>1. PICK r \in Requests : observes[r] = x
      BY <1>2, <2>2 DEF Orderly, NobodySamplesAlone, Observers
    <3>2. x # None
      BY IntentShapes DEF Rounds
    <3> QED BY <3>1, <3>2
  <2> QED BY <2>1, <2>2
<1> QED BY <1>7, <1>8, <1>9, <1>10, <1>11, <1>12, <1>13, <1>14, <1>15 DEF Orderly

\* A step that creates no round and completes none, and that forgets only what
\* may be forgotten.
LEMMA QuietStepOrderly ==
  ASSUME IntentTypeOK, Orderly, UNCHANGED <<launched, roundKey>>,
         \A k \in Keys : providerIntentRounds'[k] \in {providerIntentRounds[k], None},
         \A n \in 1..launched : HoldsSurface(n)' \/ committed'[n] =>
           (HoldsSurface(n) \/ committed[n]) /\
           providerIntentRounds'[roundKey[n]] = providerIntentRounds[roundKey[n]],
         \A n \in Rounds : phase'[n] = "none" <=> phase[n] = "none",
         \A n \in Rounds : n > launched => ~committed'[n] /\ ~aborted'[n] /\ n \notin handed'
  PROVE  RoundsCreated' /\ KeysMatch' /\ RoundsFound' /\ RoundIsLast'
<1>1. RoundsCreated'
  BY DEF Orderly, RoundsCreated
<1>2. KeysMatch'
  BY DEF Orderly, KeysMatch
<1>3. RoundsFound'
  BY DEF Orderly, RoundsFound
<1>4. RoundIsLast'
  BY DEF Orderly, RoundIsLast
<1> QED BY <1>1, <1>2, <1>3, <1>4

LEMMA OrderlyNext ==
  ASSUME IntentTypeOK, Orderly, [IntentNext]_intentVars PROVE Orderly'
<1> USE DEF Orderly
<1>1. ASSUME NEW r \in Requests, NEW k \in Keys, NEW stale, Create(r, k, stale) PROVE Orderly'
  <2>1. launched + 1 \in Rounds /\ launched + 1 \notin 1..launched
    BY <1>1, IntentShapes DEF Create, IntentTypeOK, Rounds
  <2>2. launched + 1 > launched /\ launched \in Nat
    BY DEF IntentTypeOK
  <2>3. ~aborted[launched + 1] /\ result[launched + 1] # "call"
    BY <2>1, <2>2 DEF RoundsCreated, CallsAreCommitted
  <2>4. \A x \in Requests : observes'[x] = observes[x] \/ (observes[x] = None /\ observes'[x] = launched + 1)
    BY <1>1 DEF Create, IntentTypeOK
  <2>5. observes'[r] = launched + 1
    BY <1>1 DEF Create, IntentTypeOK
  <2> QED BY <1>1, <2>3, <2>4, <2>5, NewRoundOrderly DEF Create
<1>2. ASSUME NEW k \in Keys, NEW stale, VisitNew(k, stale) PROVE Orderly'
  <2>1. launched + 1 \in Rounds
    BY <1>2, IntentShapes DEF VisitNew, IntentTypeOK, Rounds
  <2>2. /\ \A x \in Rounds : x # launched + 1 => aborted'[x] = aborted[x] /\ result'[x] = result[x]
        /\ result'[launched + 1] # "call"
    BY <1>2, <2>1 DEF VisitNew, IntentTypeOK
  <2>3. \A r \in Requests : observes'[r] = observes[r] /\ observes[r] # launched + 1
    <3>1. phase[launched + 1] = "none" /\ launched + 1 # None
      BY <2>1, IntentShapes DEF RoundsCreated, IntentTypeOK
    <3> QED BY <1>2, <3>1 DEF VisitNew, ObserversAwait, HoldsSurface
  <2> QED BY <1>2, <2>2, <2>3, NewRoundOrderly DEF VisitNew
<1>3. ASSUME NEW r \in Requests, NEW k \in Keys, NEW stale, Join(r, k, stale) PROVE Orderly'
  <2> DEFINE n == Pruned(stale)[k]
  <2>1. /\ n \in Rounds /\ n = providerIntentRounds[k] /\ n <= launched
        /\ \A x \in Keys : providerIntentRounds'[x] \in {providerIntentRounds[x], None}
        /\ \A x \in 1..launched : HoldsSurface(x) \/ committed[x] =>
             providerIntentRounds'[roundKey[x]] = x
    <3>1. n \in {providerIntentRounds[k], None} /\ n # None /\ providerIntentRounds' = Pruned(stale)
      BY <1>3, PruneKeeps DEF Join
    <3> HIDE DEF n
    <3> QED BY <1>3, <3>1, PruneKeeps DEF Join, KeysMatch, IntentTypeOK
  <2> HIDE DEF n
  <2>2. UNCHANGED <<launched, roundKey, phase, result, committed, aborted>>
    BY <1>3 DEF Join
  <2>3. handed' = handed \/ (handed' = handed \cup {n} /\ result[n] = "call")
    BY <1>3 DEF Join, n
  <2>4. \/ observes' = observes /\ late' = late
        \/ /\ observes' = [observes EXCEPT ![r] = n] /\ phase[n] # "completed"
           /\ late \subseteq late' /\ (aborted[n] => r \in late')
    BY <1>3 DEF Join, n
  <2>5. RoundsCreated' /\ KeysMatch' /\ RoundsFound' /\ RoundIsLast'
    <3>1. \A x \in Rounds : x > launched => x # n
      BY <2>1 DEF IntentTypeOK, Rounds
    <3>2. \A x \in 1..launched : HoldsSurface(x) \/ committed[x] => providerIntentRounds[roundKey[x]] = x
      BY DEF RoundsFound
    <3> QED BY <2>1, <2>2, <2>3, <3>1, <3>2, QuietStepOrderly DEF RoundsCreated, HoldsSurface
  <2>6. CallsAreCommitted' /\ AbortOrCommit'
    BY <2>2, <2>3 DEF CallsAreCommitted, AbortOrCommit
  <2>7. ObserversAwait'
    <3>1. HoldsSurface(n) \/ phase[n] = "completed"
      BY <2>1 DEF RoundsCreated, HoldsSurface, IntentTypeOK
    <3> QED BY <2>1, <2>2, <2>4, <3>1 DEF ObserversAwait, HoldsSurface, IntentTypeOK
  <2>8. AbortHurtsNobody'
    BY <2>1, <2>2, <2>4 DEF AbortHurtsNobody, IntentTypeOK
  <2>9. NobodySamplesAlone'
    <3>1. observes[r] = None
      BY <1>3 DEF Join
    <3>2. \A x \in Rounds : x # None
      BY IntentShapes DEF Rounds
    <3> QED BY <2>2, <2>4, <3>1, <3>2 DEF NobodySamplesAlone, Observers, IntentTypeOK
  <2> QED BY <2>5, <2>6, <2>7, <2>8, <2>9
<1>4. ASSUME NEW k \in Keys, NEW stale, VisitExisting(k, stale) PROVE Orderly'
  <2> DEFINE n == Pruned(stale)[k]
             b == aborted[n] \/ (HoldsSurface(n) /\ Observers(n) = {} /\ ~committed[n])
  <2>1. /\ n \in Rounds /\ n <= launched
        /\ \A x \in Keys : providerIntentRounds'[x] \in {providerIntentRounds[x], None}
        /\ \A x \in 1..launched : HoldsSurface(x) \/ committed[x] =>
             providerIntentRounds'[roundKey[x]] = x
    <3>1. n \in {providerIntentRounds[k], None} /\ n # None /\ providerIntentRounds' = Pruned(stale)
      BY <1>4, PruneKeeps DEF VisitExisting
    <3> HIDE DEF n
    <3> QED BY <1>4, <3>1, PruneKeeps DEF VisitExisting, KeysMatch, IntentTypeOK
  <2>2. UNCHANGED <<launched, roundKey, phase, result, committed, observes, late, handed>>
    BY <1>4 DEF VisitExisting
  <2>3. aborted' = [aborted EXCEPT ![n] = b]
    BY <1>4, ZenonT(30) DEF VisitExisting
  <2>4. b => aborted[n] \/ (phase[n] # "sampling" /\ Observers(n) = {} /\ ~committed[n])
    BY <2>1 DEF NobodySamplesAlone
  <2> HIDE DEF n, b
  <2>5. \A x \in Rounds : aborted'[x] =>
          aborted[x] \/ (x = n /\ phase[x] # "sampling" /\ Observers(x) = {} /\ ~committed[x])
    BY <2>3, <2>4 DEF IntentTypeOK
  <2>6. RoundsCreated' /\ KeysMatch' /\ RoundsFound' /\ RoundIsLast'
    <3>1. \A x \in Rounds : x > launched => ~aborted'[x]
      BY <2>1, <2>5 DEF RoundsCreated, IntentTypeOK, Rounds
    <3>2. \A x \in 1..launched : HoldsSurface(x) \/ committed[x] => providerIntentRounds[roundKey[x]] = x
      BY DEF RoundsFound
    <3> QED BY <2>1, <2>2, <3>1, <3>2, QuietStepOrderly DEF RoundsCreated, HoldsSurface
  <2>7. CallsAreCommitted' /\ AbortOrCommit'
    BY <2>2, <2>5 DEF CallsAreCommitted, AbortOrCommit
  <2>8. ObserversAwait' /\ NobodySamplesAlone'
    BY <2>2 DEF ObserversAwait, NobodySamplesAlone, Observers, HoldsSurface
  <2>9. AbortHurtsNobody'
    BY <2>2, <2>5 DEF AbortHurtsNobody, Observers, IntentTypeOK
  <2> QED BY <2>6, <2>7, <2>8, <2>9
<1>5. ASSUME NEW r \in Requests, Detach(r) PROVE Orderly'
  <2> DEFINE n == observes[r]
  <2>1. n \in Rounds /\ HoldsSurface(n) /\ n <= launched
    BY <1>5 DEF Detach, IntentTypeOK, ObserversAwait, RoundsCreated, HoldsSurface, Rounds
  <2>2. /\ UNCHANGED <<launched, roundKey, committed, handed, providerIntentRounds>>
        /\ observes' = [observes EXCEPT ![r] = None] /\ late' = late \ {r}
    BY <1>5 DEF Detach, Kept
  <2>3. \/ UNCHANGED <<aborted, result, phase>> /\ ~Abandons(r, n)
        \/ /\ Abandons(r, n)
           /\ aborted' = [aborted EXCEPT ![n] = TRUE]
           /\ result' = [result EXCEPT ![n] = IF phase[n] = "sampling" THEN "error" ELSE @]
           /\ phase' = [phase EXCEPT ![n] = IF @ = "sampling" THEN "retiring" ELSE @]
    BY <1>5 DEF Detach
  <2>4. /\ \A x \in Rounds : x # n =>
             aborted'[x] = aborted[x] /\ result'[x] = result[x] /\ phase'[x] = phase[x]
        /\ phase'[n] \in {"sampling", "retiring"} /\ (result'[n] = "call" => result[n] = "call")
        /\ phase'[n] = "sampling" => ~Abandons(r, n) /\ phase[n] = "sampling" /\ ~aborted'[n]
        /\ aborted'[n] => aborted[n] \/ Abandons(r, n)
    BY <2>1, <2>3 DEF IntentTypeOK, HoldsSurface, CallsAreCommitted
  <2> HIDE DEF n
  <2>5. RoundsCreated' /\ KeysMatch' /\ RoundsFound' /\ RoundIsLast'
    <3>1. \A x \in Rounds : phase'[x] = "none" <=> phase[x] = "none"
      BY <2>1, <2>4 DEF HoldsSurface
    <3>2. \A x \in Rounds : x > launched => ~aborted'[x]
      BY <2>1, <2>4 DEF RoundsCreated, IntentTypeOK, Rounds
    <3>3. \A x \in 1..launched : HoldsSurface(x)' \/ committed'[x] => HoldsSurface(x) \/ committed[x]
      <4>1. \A x \in 1..launched : x \in Rounds
        BY IntentShapes DEF IntentTypeOK, Rounds
      <4> QED BY <2>1, <2>2, <2>4, <4>1 DEF HoldsSurface
    <3> QED BY <2>2, <3>1, <3>2, <3>3, QuietStepOrderly DEF RoundsCreated
  <2>6. CallsAreCommitted'
    BY <2>1, <2>2, <2>4 DEF CallsAreCommitted
  <2>7. AbortOrCommit'
    BY <2>1, <2>2, <2>4 DEF AbortOrCommit, Abandons
  <2>8. ObserversAwait'
    BY <2>1, <2>2, <2>4 DEF ObserversAwait, HoldsSurface, IntentTypeOK
  <2>9. AbortHurtsNobody'
    <3> SUFFICES ASSUME NEW x \in Requests, observes'[x] # None, aborted'[observes'[x]]
                 PROVE  x \in late'
      BY DEF AbortHurtsNobody
    <3>1. x # r /\ observes'[x] = observes[x] /\ observes[x] \in Rounds
      BY <2>2 DEF IntentTypeOK
    <3>2. ~Abandons(r, n) \/ observes[x] # n
      BY <3>1 DEF Abandons, Observers
    <3>3. aborted[observes[x]]
      BY <2>4, <3>1, <3>2
    <3> QED BY <2>2, <3>1, <3>3 DEF AbortHurtsNobody
  <2>10. NobodySamplesAlone'
    <3> SUFFICES ASSUME NEW x \in Rounds, phase'[x] = "sampling"
                 PROVE  \E y \in Requests : observes'[y] = x
      BY DEF NobodySamplesAlone, Observers
    <3>1. CASE x # n
      <4>1. PICK y \in Requests : observes[y] = x
        BY <2>4, <3>1 DEF NobodySamplesAlone, Observers
      <4> QED BY <2>2, <3>1, <4>1 DEF IntentTypeOK, n
    <3>2. CASE x = n
      <4>1. Observers(n) # {r} /\ r \in Observers(n)
        BY <2>4, <3>2 DEF Abandons, CallsAreCommitted, Observers, n
      <4>2. PICK y \in Requests : y # r /\ observes[y] = n
        BY <4>1 DEF Observers
      <4> QED BY <2>2, <3>2, <4>2 DEF IntentTypeOK
    <3> QED BY <3>1, <3>2
  <2> QED BY <2>5, <2>6, <2>7, <2>8, <2>9, <2>10
<1>6. ASSUME NEW n \in Rounds, NEW outcome, CommitCall(n, outcome) \/ Revoked(n) PROVE Orderly'
  <2>1. phase[n] = "sampling" /\ n <= launched /\ ~aborted[n]
    BY <1>6 DEF CommitCall, Revoked, RoundsCreated, CallsAreCommitted, IntentTypeOK, Rounds
  <2>2. /\ UNCHANGED <<providerIntentRounds, launched, roundKey, aborted, observes, late, handed>>
        /\ phase' = [phase EXCEPT ![n] = "retiring"]
        /\ \A x \in Rounds : x # n => committed'[x] = committed[x] /\ result'[x] = result[x]
        /\ result'[n] = "call" => committed'[n]
        /\ committed[n] => committed'[n]
    BY <1>6 DEF CommitCall, Revoked, IntentTypeOK
  <2>3. RoundsCreated' /\ KeysMatch' /\ RoundsFound' /\ RoundIsLast'
    <3>1. \A x \in Rounds : phase'[x] = "none" <=> phase[x] = "none"
      BY <2>1, <2>2 DEF IntentTypeOK
    <3>2. \A x \in Rounds : x > launched => ~committed'[x]
      BY <2>1, <2>2 DEF RoundsCreated, IntentTypeOK, Rounds
    <3>3. \A x \in 1..launched : HoldsSurface(x)' \/ committed'[x] => HoldsSurface(x) \/ committed[x]
      <4>1. \A x \in 1..launched : x \in Rounds
        BY IntentShapes DEF IntentTypeOK, Rounds
      <4> QED BY <2>1, <2>2, <4>1 DEF HoldsSurface, IntentTypeOK
    <3> QED BY <2>2, <3>1, <3>2, <3>3, QuietStepOrderly DEF RoundsCreated
  <2>4. CallsAreCommitted' /\ AbortOrCommit'
    BY <2>1, <2>2 DEF CallsAreCommitted, AbortOrCommit, IntentTypeOK
  <2>5. ObserversAwait' /\ AbortHurtsNobody' /\ NobodySamplesAlone'
    BY <2>2 DEF ObserversAwait, AbortHurtsNobody, NobodySamplesAlone, Observers, HoldsSurface, IntentTypeOK
  <2> QED BY <2>3, <2>4, <2>5
<1>7. ASSUME NEW n \in Rounds, NEW outcome, Complete(n, outcome), HoldsSurface(n),
             outcome = "call" => committed[n]
      PROVE  Orderly'
  <2>1. n <= launched
    BY <1>7 DEF HoldsSurface, RoundsCreated, IntentTypeOK, Rounds
  <2>2. /\ UNCHANGED <<launched, roundKey, committed, aborted>>
        /\ phase' = [phase EXCEPT ![n] = "completed"] /\ result' = [result EXCEPT ![n] = outcome]
        /\ late' = late \ Observers(n)
        /\ handed' = handed \/ (handed' = handed \cup {n} /\ outcome = "call")
    BY <1>7 DEF Complete
  <2>3. \A r \in Requests : observes'[r] = IF observes[r] = n THEN None ELSE observes[r]
    BY <1>7 DEF Complete
  <2>4. \A k \in Keys : \/ providerIntentRounds'[k] = providerIntentRounds[k]
                        \/ /\ providerIntentRounds[k] = n /\ providerIntentRounds'[k] = None
                           /\ ~committed[n]
    BY <1>7 DEF Complete
  <2>5. RoundsCreated' /\ KeysMatch' /\ RoundsFound' /\ RoundIsLast'
    <3>1. \A x \in Rounds : phase'[x] = "none" <=> phase[x] = "none"
      BY <1>7, <2>2 DEF IntentTypeOK, HoldsSurface
    <3>2. \A x \in Rounds : x > launched => x \notin handed'
      BY <2>1, <2>2 DEF RoundsCreated, IntentTypeOK, Rounds
    <3>3. ASSUME NEW x \in 1..launched, HoldsSurface(x)' \/ committed'[x]
          PROVE  /\ HoldsSurface(x) \/ committed[x]
                 /\ providerIntentRounds'[roundKey[x]] = providerIntentRounds[roundKey[x]]
      <4>1. x \in Rounds /\ roundKey[x] \in Keys
        BY IntentShapes DEF IntentTypeOK, Rounds, RoundsCreated
      <4>2. x = n => committed[n]
        BY <2>2, <3>3 DEF HoldsSurface, IntentTypeOK
      <4>3. HoldsSurface(x) \/ committed[x]
        BY <2>2, <3>3, <4>1, <4>2 DEF HoldsSurface, IntentTypeOK
      <4>4. providerIntentRounds[roundKey[x]] = x
        BY <4>3 DEF RoundsFound
      <4> QED BY <2>4, <4>1, <4>2, <4>3, <4>4
    <3> QED BY <2>2, <2>4, <3>1, <3>2, <3>3, QuietStepOrderly DEF RoundsCreated
  <2>6. CallsAreCommitted' /\ AbortOrCommit'
    BY <1>7, <2>2 DEF CallsAreCommitted, AbortOrCommit, IntentTypeOK
  <2>7. ObserversAwait'
    BY <2>2, <2>3 DEF ObserversAwait, HoldsSurface, IntentTypeOK
  <2>8. AbortHurtsNobody'
    BY <2>2, <2>3 DEF AbortHurtsNobody, Observers, IntentTypeOK
  <2>9. NobodySamplesAlone'
    BY <2>2, <2>3 DEF NobodySamplesAlone, Observers, IntentTypeOK
  <2> QED BY <2>5, <2>6, <2>7, <2>8, <2>9
<1>8. ASSUME NEW n \in Rounds, RoundStep(n) PROVE Orderly'
  <2>1. ASSUME Retired(n) PROVE Orderly'
    <3>1. HoldsSurface(n) /\ (result[n] = "call" => committed[n]) /\ Complete(n, result[n])
      BY <2>1 DEF Retired, HoldsSurface, CallsAreCommitted
    <3> QED BY <1>7, <3>1
  <2>2. ASSUME NEW outcome, BrowserEnds(n, outcome) PROVE Orderly'
    <3>1. HoldsSurface(n) /\ outcome # "call" /\ Complete(n, outcome)
      BY <2>2 DEF BrowserEnds, HoldsSurface
    <3> QED BY <1>7, <3>1
  <2> QED BY <1>6, <1>8, <2>1, <2>2 DEF RoundStep
<1>9. ASSUME UNCHANGED intentVars PROVE Orderly'
  BY <1>9 DEF intentVars, RoundsCreated, KeysMatch, RoundsFound, RoundIsLast, CallsAreCommitted,
              ObserversAwait, AbortOrCommit, AbortHurtsNobody, NobodySamplesAlone, Observers,
              HoldsSurface
<1> QED BY <1>1, <1>2, <1>3, <1>4, <1>5, <1>8, <1>9 DEF IntentNext

-----------------------------------------------------------------------------

LEMMA IntentInitInv == IntentInit => IntentIInv
<1> SUFFICES ASSUME IntentInit PROVE IntentIInv
  OBVIOUS
<1>1. IntentTypeOK
  <2>1. /\ aborted \in [Rounds -> BOOLEAN] /\ committed \in [Rounds -> BOOLEAN]
        /\ roundKey \in [Rounds -> Keys \cup {None}]
        /\ phase \in [Rounds -> {"none", "sampling", "retiring", "completed"}]
        /\ result \in [Rounds -> {"none", "call", "answer", "error"}]
    BY ZenonT(30) DEF IntentInit
  <2>2. /\ providerIntentRounds \in [Keys -> Rounds \cup {None}]
        /\ observes \in [Requests -> Rounds \cup {None}]
    BY ZenonT(30) DEF IntentInit
  <2>3. launched \in 0..MaxRounds /\ late \in SUBSET Requests /\ handed \in SUBSET Rounds
    BY IntentShapes DEF IntentInit
  <2> QED BY <2>1, <2>2, <2>3 DEF IntentTypeOK
<1>2. launched = 0 /\ 1..launched = {}
  BY DEF IntentInit
<1>3. \A n \in Rounds : ~(n <= launched) /\ n # None
  BY <1>2, IntentShapes DEF Rounds
<1>4. RoundsCreated /\ KeysMatch /\ RoundsFound /\ RoundIsLast
  BY <1>2, <1>3 DEF IntentInit, RoundsCreated, KeysMatch, RoundsFound, RoundIsLast
<1>5. CallsAreCommitted /\ ObserversAwait /\ AbortOrCommit /\ AbortHurtsNobody /\ NobodySamplesAlone
  BY DEF IntentInit, CallsAreCommitted, ObserversAwait, AbortOrCommit, AbortHurtsNobody,
         NobodySamplesAlone
<1> QED BY <1>1, <1>4, <1>5 DEF IntentIInv

LEMMA IntentStepInv == IntentIInv /\ [IntentNext]_intentVars => IntentIInv'
<1> SUFFICES ASSUME IntentIInv, [IntentNext]_intentVars PROVE IntentIInv'
  OBVIOUS
<1>1. IntentTypeOK /\ Orderly
  BY DEF IntentIInv, Orderly
<1>2. IntentTypeOK'
  BY <1>1, IntentTypeNext
<1>3. Orderly'
  BY <1>1, OrderlyNext
<1> QED BY <1>2, <1>3 DEF IntentIInv, Orderly

\* The rounds, the map that finds them and the requests that await them always
\* agree; in particular a browser turn that nobody waits for is being cancelled,
\* and whoever awaits an aborted round came after the abort.
THEOREM RoundsConsistent == IntentSpec => []IntentIInv
<1>1. IntentInit => IntentIInv
  BY IntentInitInv
<1>2. IntentIInv /\ [IntentNext]_intentVars => IntentIInv'
  BY IntentStepInv
<1> QED BY <1>1, <1>2, PTL DEF IntentSpec

\* Exact retries never hold two browser surfaces: a round at work is the round of
\* its key.
THEOREM RetriesShareASurface == IntentSpec => []OneSurfacePerKey
<1>1. IntentIInv => OneSurfacePerKey
  <2> SUFFICES ASSUME IntentIInv, NEW m \in 1..launched, NEW n \in 1..launched,
                      HoldsSurface(m), HoldsSurface(n), roundKey[m] = roundKey[n]
               PROVE  m = n
    BY DEF OneSurfacePerKey
  <2> QED BY DEF IntentIInv, RoundsFound
<1> QED BY <1>1, RoundsConsistent, PTL

\* Exact retries replay one tool call: its round has committed, so it stays the
\* round of its key, and so the key's last.
THEOREM RetriesReplayOneCall == IntentSpec => []SameCall
<1>1. IntentIInv => SameCall
  <2> SUFFICES ASSUME IntentIInv, NEW m \in 1..launched, NEW n \in 1..launched,
                      m \in handed, roundKey[m] = roundKey[n]
               PROVE  n <= m
    BY DEF SameCall
  <2>1. m \in Rounds /\ m # None /\ roundKey[m] \in Keys
    BY IntentShapes DEF IntentIInv, IntentTypeOK, Rounds, RoundsCreated
  <2>2. providerIntentRounds[roundKey[m]] = m
    BY <2>1 DEF IntentIInv, CallsAreCommitted, RoundsFound
  <2> QED BY <2>1, <2>2 DEF IntentIInv, RoundIsLast
<1> QED BY <1>1, RoundsConsistent, PTL

-----------------------------------------------------------------------------
(* The daemon *)


\* What an action of the daemon does to the rounds is a step of theirs.
LEMMA DaemonStepsRounds ==
  [DaemonNext]_daemonVars => [IntentNext]_intentVars
BY DEF DaemonNext, daemonVars, Accept, Bind, ClientGone, DetachAborted, Release, RunStep, Drain,
       ResumeTurns, InterruptTurn, CancelTurns, Shutdown, ShutdownRuns, IntentNext

LEMMA AbortTyped ==
  ASSUME NEW Q, Abort(Q)
  PROVE  /\ httpAborted' \in [Requests -> BOOLEAN]
         /\ \A r \in Requests : httpAborted'[r] <=> (httpAborted[r] \/ r \in Q)
BY ZenonT(30) DEF Abort

LEMMA DaemonTypeNext ==
  ASSUME DaemonTypeOK, [DaemonNext]_daemonVars PROVE DaemonTypeOK'
<1>1. ASSUME NEW r \in Requests, NEW k \in Keys, Bind(r, k) PROVE DaemonTypeOK'
  <2>1. httpAborted' \in [Requests -> BOOLEAN]
    BY <1>1, AbortTyped DEF Bind, DaemonTypeOK
  <2>2. identity' \in [Requests -> Turns \cup {None}]
    BY <1>1, TurnShapes DEF Bind, DaemonTypeOK
  <2> QED BY <1>1, <2>1, <2>2 DEF Bind, DaemonTypeOK, adminVars
<1>2. ASSUME NEW r \in Requests, Accept(r) \/ Release(r) \/ DetachAborted(r) PROVE DaemonTypeOK'
  BY <1>2 DEF Accept, Release, DetachAborted, DaemonTypeOK, adminVars, httpVars
<1>3. ASSUME NEW r \in Requests, ClientGone(r) PROVE DaemonTypeOK'
  BY <1>3, AbortTyped DEF ClientGone, DaemonTypeOK, adminVars
<1>4. ASSUME NEW t \in Turns, InterruptTurn(t) PROVE DaemonTypeOK'
  BY <1>4, AbortTyped DEF InterruptTurn, DaemonTypeOK, adminVars
<1>5. ASSUME CancelTurns PROVE DaemonTypeOK'
  BY <1>5, AbortTyped DEF CancelTurns, DaemonTypeOK, adminVars
<1>6. ASSUME Drain \/ ResumeTurns \/ Shutdown \/ ShutdownRuns PROVE DaemonTypeOK'
  BY <1>6 DEF Drain, ResumeTurns, Shutdown, ShutdownRuns, DaemonTypeOK, httpVars
<1>7. ASSUME UNCHANGED <<httpVars, adminVars>> PROVE DaemonTypeOK'
  BY <1>7 DEF DaemonTypeOK, httpVars, adminVars
<1> QED
  BY <1>1, <1>2, <1>3, <1>4, <1>5, <1>6, <1>7 DEF DaemonNext, RunStep, daemonVars

-----------------------------------------------------------------------------

\* What the invariant says about the requests.
Told ==
  /\ HandlersCounted
  /\ IdentitiesMatch
  /\ InterruptedTold
  /\ ShutdownDrained

\* A step that only aborts requests, among them those of new interruptions.
LEMMA AbortsTold ==
  ASSUME DaemonTypeOK, Told, UNCHANGED <<intentVars, http, identity, adminVars>>,
         \A r \in Requests : httpAborted[r] => httpAborted'[r],
         \A r \in Requests : identity[r] \in interrupted' =>
           identity[r] \in interrupted \/ httpAborted'[r]
  PROVE  Told'
BY DEF Told, HandlersCounted, IdentitiesMatch, InterruptedTold, ShutdownDrained, Idle, intentVars,
       adminVars

\* A step of the rounds only: handlers stop awaiting, or go on.
LEMMA RoundsTold ==
  ASSUME DaemonTypeOK, Told, UNCHANGED <<httpVars, roundKey>>,
         \A r \in Requests : observes'[r] \in {observes[r], None}
  PROVE  HandlersCounted' /\ IdentitiesMatch' /\ InterruptedTold'
BY DEF Told, HandlersCounted, IdentitiesMatch, InterruptedTold, httpVars

LEMMA ToldNext ==
  ASSUME DaemonTypeOK, IntentTypeOK, RoundsCreated, KeysMatch, ObserversAwait, Told,
         [DaemonNext]_daemonVars
  PROVE  Told'
<1>1. ASSUME NEW r \in Requests, NEW k \in Keys, Bind(r, k) PROVE Told'
  <2>1. /\ http' = [http EXCEPT ![r] = "sampling"] /\ http[r] = "tracked"
        /\ identity' = [identity EXCEPT ![r] = KeyTurn[k]]
        /\ UNCHANGED <<interrupted, adminVars>>
    BY <1>1 DEF Bind
  <2>2. CASE httpAborted[r] \/ LateBound(KeyTurn[k])
    <3>1. /\ \A x \in Requests : httpAborted'[x] <=> (httpAborted[x] \/ x = r)
          /\ observes' = observes
          /\ \A n \in 1..launched : roundKey'[n] = roundKey[n]
      <4>1. Abort({r})
        BY <1>1, <2>2 DEF Bind
      <4>2. \E stale : VisitNew(k, stale) \/ VisitExisting(k, stale)
        BY <1>1, <2>2 DEF Bind
      <4>3. \A n \in 1..launched : n # launched + 1
        BY DEF IntentTypeOK
      <4>4. observes' = observes
        BY <4>2 DEF VisitNew, VisitExisting
      <4>5. roundKey' = roundKey \/ roundKey' = [roundKey EXCEPT ![launched + 1] = k]
        BY <4>2 DEF VisitNew, VisitExisting
      <4>6. \A n \in 1..launched : n \in Rounds
        BY IntentShapes DEF IntentTypeOK, Rounds
      <4>7. \A n \in 1..launched : roundKey'[n] = roundKey[n]
        BY <4>3, <4>5, <4>6 DEF IntentTypeOK
      <4> QED BY <4>1, <4>4, <4>7, AbortTyped
    <3>2. \A x \in Requests : observes[x] # None => observes[x] \in 1..launched
      BY DEF ObserversAwait, HoldsSurface, RoundsCreated, IntentTypeOK, Rounds
    <3>3. HandlersCounted'
      BY <2>1, <3>1 DEF Told, HandlersCounted, DaemonTypeOK
    <3>4. IdentitiesMatch'
      BY <2>1, <3>1, <3>2 DEF Told, IdentitiesMatch, DaemonTypeOK
    <3>5. InterruptedTold'
      BY <2>1, <3>1 DEF Told, InterruptedTold, DaemonTypeOK
    <3>6. ShutdownDrained'
      BY <2>1 DEF Told, ShutdownDrained, Idle, adminVars
    <3> QED BY <3>3, <3>4, <3>5, <3>6 DEF Told
  <2>3. CASE ~(httpAborted[r] \/ LateBound(KeyTurn[k]))
    <3>1. UNCHANGED httpAborted /\ KeyTurn[k] \notin interrupted
      BY <1>1, <2>3 DEF Bind, LateBound
    <3>2. PICK stale \in SUBSET Keys : Create(r, k, stale) \/ Join(r, k, stale)
      BY <1>1, <2>3 DEF Bind
    <3>3. /\ \A x \in Requests : x # r => observes'[x] = observes[x]
          /\ \A n \in 1..launched : roundKey'[n] = roundKey[n]
      <4>1. \A n \in 1..launched : n # launched + 1
        BY DEF IntentTypeOK
      <4>2. \A n \in 1..launched : n \in Rounds
        BY IntentShapes DEF IntentTypeOK, Rounds
      <4>3. roundKey' = roundKey \/ roundKey' = [roundKey EXCEPT ![launched + 1] = k]
        BY <3>2 DEF Create, Join
      <4>4. observes' = observes \/ \E n : observes' = [observes EXCEPT ![r] = n]
        BY <3>2 DEF Create, Join
      <4>5. \A n \in 1..launched : roundKey'[n] = roundKey[n]
        BY <4>1, <4>2, <4>3 DEF IntentTypeOK
      <4> QED BY <4>4, <4>5 DEF IntentTypeOK
    <3>4. observes'[r] # None => roundKey'[observes'[r]] = k
      <4>1. CASE Create(r, k, stale)
        <5>1. launched + 1 \in Rounds
          BY <4>1, IntentShapes DEF Create, IntentTypeOK, Rounds
        <5> QED BY <4>1, <5>1 DEF Create, IntentTypeOK
      <4>2. CASE Join(r, k, stale)
        <5>1. Pruned(stale)[k] # None => Pruned(stale)[k] = providerIntentRounds[k]
          BY DEF Pruned
        <5>2. UNCHANGED roundKey /\ observes[r] = None
          BY <4>2 DEF Join
        <5>3. Pruned(stale)[k] # None /\ observes' \in {observes, [observes EXCEPT ![r] = Pruned(stale)[k]]}
          BY <4>2 DEF Join
        <5> QED BY <5>1, <5>2, <5>3 DEF KeysMatch, IntentTypeOK
      <4> QED BY <3>2, <4>1, <4>2
    <3>5. \A x \in Requests : observes[x] # None => observes[x] \in 1..launched
      BY DEF ObserversAwait, HoldsSurface, RoundsCreated, IntentTypeOK, Rounds
    <3>6. HandlersCounted'
      BY <2>1, <3>1, <3>3 DEF Told, HandlersCounted, DaemonTypeOK
    <3>7. IdentitiesMatch'
      BY <2>1, <3>1, <3>3, <3>4, <3>5 DEF Told, IdentitiesMatch, DaemonTypeOK
    <3>8. InterruptedTold'
      BY <2>1, <3>1 DEF Told, InterruptedTold, DaemonTypeOK
    <3>9. ShutdownDrained'
      BY <2>1 DEF Told, ShutdownDrained, Idle, adminVars
    <3> QED BY <3>6, <3>7, <3>8, <3>9 DEF Told
  <2> QED BY <2>2, <2>3
<1>2. ASSUME NEW r \in Requests, Accept(r) PROVE Told'
  <2>1. /\ UNCHANGED <<intentVars, identity, interrupted, adminVars>>
        /\ http' = [http EXCEPT ![r] = "tracked"] /\ http[r] = "none" /\ observes[r] = None
        /\ httpAborted' = [httpAborted EXCEPT ![r] = FALSE] /\ ~draining
    BY <1>2 DEF Accept
  <2>2. \A x \in Requests : x # r => httpAborted'[x] = httpAborted[x] /\ http'[x] = http[x]
    BY <2>1 DEF DaemonTypeOK
  <2>3. http'[r] = "tracked" /\ identity'[r] = None
    BY <2>1 DEF Told, IdentitiesMatch, DaemonTypeOK
  <2>4. None \notin interrupted
    BY TurnShapes DEF DaemonTypeOK
  <2>5. HandlersCounted'
    BY <2>1, <2>2 DEF Told, HandlersCounted, intentVars
  <2>6. IdentitiesMatch'
    BY <2>1, <2>2, <2>3 DEF Told, IdentitiesMatch, intentVars
  <2>7. InterruptedTold'
    BY <2>1, <2>2, <2>3, <2>4 DEF Told, InterruptedTold
  <2>8. ShutdownDrained'
    BY <2>1 DEF Told, ShutdownDrained, adminVars
  <2> QED BY <2>5, <2>6, <2>7, <2>8 DEF Told
<1>3. ASSUME NEW r \in Requests, ClientGone(r) PROVE Told'
  <2>1. UNCHANGED <<intentVars, http, identity, interrupted, adminVars>> /\ Abort({r})
    BY <1>3 DEF ClientGone
  <2> QED BY <2>1, AbortTyped, AbortsTold
<1>4. ASSUME NEW t \in Turns, InterruptTurn(t) PROVE Told'
  <2>1. /\ UNCHANGED <<intentVars, http, identity, adminVars>>
        /\ Abort(BoundTo(t)) /\ interrupted' = interrupted \cup {t}
    BY <1>4 DEF InterruptTurn
  <2>2. \A x \in Requests : httpAborted'[x] <=> (httpAborted[x] \/ x \in BoundTo(t))
    BY <2>1, AbortTyped
  <2> QED BY <2>1, <2>2, AbortsTold DEF BoundTo
<1>5. ASSUME CancelTurns PROVE Told'
  <2>1. /\ UNCHANGED <<intentVars, http, identity, interrupted, adminVars>>
        /\ Abort({r \in Requests : http[r] # "none"})
    BY <1>5 DEF CancelTurns
  <2>2. \A x \in Requests : httpAborted[x] => httpAborted'[x]
    BY <2>1, AbortTyped
  <2> QED BY <2>1, <2>2, AbortsTold
<1>6. ASSUME NEW r \in Requests, DetachAborted(r) PROVE Told'
  <2>1. UNCHANGED <<httpVars, adminVars, roundKey>> /\ observes' = [observes EXCEPT ![r] = None]
    BY <1>6 DEF DetachAborted, Detach
  <2>2. \A x \in Requests : observes'[x] \in {observes[x], None}
    BY <2>1 DEF IntentTypeOK
  <2>3. ShutdownDrained'
    BY <2>1 DEF Told, ShutdownDrained, Idle, httpVars, adminVars
  <2> QED BY <2>1, <2>2, <2>3, RoundsTold DEF Told
<1>7. ASSUME NEW n \in Rounds, RunStep(n) PROVE Told'
  <2>1. UNCHANGED <<httpVars, adminVars, roundKey>>
    BY <1>7 DEF RunStep, RoundStep, CommitCall, BrowserEnds, Revoked, Retired, Complete
  <2>2. observes' = observes \/ observes' = [r \in Requests |-> IF observes[r] = n THEN None ELSE observes[r]]
    BY <1>7 DEF RunStep, RoundStep, CommitCall, BrowserEnds, Revoked, Retired, Complete
  <2>3. \A x \in Requests : observes'[x] \in {observes[x], None}
    BY <2>2
  <2>4. ShutdownDrained'
    BY <2>1 DEF Told, ShutdownDrained, Idle, httpVars, adminVars
  <2> QED BY <2>1, <2>3, <2>4, RoundsTold DEF Told
<1>8. ASSUME NEW r \in Requests, Release(r) PROVE Told'
  <2>1. /\ UNCHANGED <<intentVars, httpAborted, interrupted, adminVars>>
        /\ http' = [http EXCEPT ![r] = "none"] /\ identity' = [identity EXCEPT ![r] = None]
        /\ Ended(r)
    BY <1>8 DEF Release
  <2>2. \A x \in Requests : x # r => http'[x] = http[x] /\ identity'[x] = identity[x]
    BY <2>1 DEF DaemonTypeOK
  <2>3. http'[r] = "none" /\ identity'[r] = None
    BY <2>1 DEF DaemonTypeOK
  <2>4. observes[r] = None \/ httpAborted[r]
    BY <2>1 DEF Ended
  <2>5. None \notin interrupted
    BY TurnShapes DEF DaemonTypeOK
  <2>6. HandlersCounted'
    BY <2>1, <2>2, <2>4 DEF Told, HandlersCounted, intentVars
  <2>7. IdentitiesMatch'
    BY <2>1, <2>2, <2>3, <2>4 DEF Told, IdentitiesMatch, intentVars
  <2>8. InterruptedTold'
    BY <2>1, <2>2, <2>3, <2>5 DEF Told, InterruptedTold
  <2>9. ShutdownDrained'
    BY <2>1, <2>2, <2>3 DEF Told, ShutdownDrained, Idle, adminVars
  <2> QED BY <2>6, <2>7, <2>8, <2>9 DEF Told
<1>9. ASSUME Drain \/ ResumeTurns \/ Shutdown \/ ShutdownRuns PROVE Told'
  <2>1. UNCHANGED <<intentVars, httpVars>>
    BY <1>9 DEF Drain, ResumeTurns, Shutdown, ShutdownRuns
  <2>2. \A x \in Requests : observes'[x] \in {observes[x], None}
    BY <2>1 DEF intentVars
  <2>3. HandlersCounted' /\ IdentitiesMatch' /\ InterruptedTold'
    BY <2>1, <2>2, RoundsTold DEF intentVars
  <2>4. ShutdownDrained'
    <3>1. UNCHANGED http
      BY <2>1 DEF httpVars
    <3>2. CASE Drain
      BY <3>1, <3>2 DEF Drain, Told, ShutdownDrained, Idle
    <3>3. CASE ResumeTurns
      <4>1. shuttingDown \in {"no", "accepted"} /\ UNCHANGED shuttingDown
        BY <3>3 DEF ResumeTurns, Up, DaemonTypeOK
      <4>2. shuttingDown = "accepted" => resumed'
        BY <3>3 DEF ResumeTurns
      <4> QED BY <4>1, <4>2 DEF ShutdownDrained
    <3>4. CASE Shutdown
      BY <3>1, <3>4 DEF Shutdown, ShutdownDrained, Idle
    <3>5. CASE ShutdownRuns
      BY <3>1, <3>5 DEF ShutdownRuns, Told, ShutdownDrained, Idle
    <3> QED BY <1>9, <3>2, <3>3, <3>4, <3>5
  <2> QED BY <2>3, <2>4 DEF Told
<1>10. CASE UNCHANGED daemonVars
  BY <1>10 DEF daemonVars, intentVars, httpVars, adminVars, Told, HandlersCounted, IdentitiesMatch,
               InterruptedTold, ShutdownDrained, Idle
<1> QED
  BY <1>1, <1>2, <1>3, <1>4, <1>5, <1>6, <1>7, <1>8, <1>9, <1>10 DEF DaemonNext

-----------------------------------------------------------------------------

LEMMA DaemonInitInv == DaemonInit => DaemonIInv
<1> SUFFICES ASSUME DaemonInit PROVE DaemonIInv
  OBVIOUS
<1>1. httpAborted \in [Requests -> BOOLEAN]
  BY ZenonT(30) DEF DaemonInit
<1>2. DaemonTypeOK
  BY <1>1 DEF DaemonInit, DaemonTypeOK
<1>3. IntentIInv
  BY IntentInitInv DEF DaemonInit
<1>4. HandlersCounted /\ IdentitiesMatch /\ InterruptedTold /\ ShutdownDrained
  BY DEF DaemonInit, IntentInit, HandlersCounted, IdentitiesMatch, InterruptedTold, ShutdownDrained
<1> QED BY <1>2, <1>3, <1>4 DEF DaemonIInv

LEMMA DaemonStepInv == DaemonIInv /\ [DaemonNext]_daemonVars => DaemonIInv'
<1> SUFFICES ASSUME DaemonIInv, [DaemonNext]_daemonVars PROVE DaemonIInv'
  OBVIOUS
<1>1. DaemonTypeOK' /\ IntentIInv'
  BY DaemonTypeNext, DaemonStepsRounds, IntentStepInv DEF DaemonIInv
<1>2. Told'
  BY ToldNext DEF DaemonIInv, IntentIInv, Told
<1> QED BY <1>1, <1>2 DEF DaemonIInv, Told

\* The daemon keeps its books: what HttpTurnCounter counts, is bound to and has
\* told agrees with who awaits which round.
THEOREM DaemonConsistent == DaemonSpec => []DaemonIInv
<1> QED BY DaemonInitInv, DaemonStepInv, PTL DEF DaemonSpec

\* After interrupt-turn nothing of the turn is wanted, and no request that was
\* still on its way when it came is let through.
THEOREM InterruptionReachesAll == DaemonSpec => []InterruptReachesAll
<1>1. DaemonIInv => InterruptReachesAll
  <2> SUFFICES ASSUME DaemonIInv, NEW n \in 1..launched, KeyTurn[roundKey[n]] \in interrupted,
                      NEW r \in Observers(n)
               PROVE  httpAborted[r]
    BY DEF InterruptReachesAll, Wanted
  <2>1. r \in Requests /\ observes[r] = n
    BY DEF Observers
  <2>2. n # None
    BY IntentShapes DEF DaemonIInv, IntentIInv, IntentTypeOK
  <2> QED BY <2>1, <2>2 DEF DaemonIInv, IdentitiesMatch, InterruptedTold
<1> QED BY <1>1, DaemonConsistent, PTL

\* An interruption aborts no request that is bound to another turn.
THEOREM InterruptionSpares == DaemonSpec => InterruptSpares
<1>1. DaemonIInv /\ [DaemonNext]_daemonVars =>
        [\A t \in Turns : interrupted' = interrupted \cup {t} /\ interrupted' # interrupted =>
           \A r \in Requests : identity[r] # t => httpAborted'[r] = httpAborted[r]]_daemonVars
  <2> SUFFICES ASSUME DaemonIInv, DaemonNext, NEW t \in Turns,
                      interrupted' = interrupted \cup {t}, interrupted' # interrupted,
                      NEW r \in Requests, identity[r] # t
               PROVE  httpAborted'[r] = httpAborted[r]
    OBVIOUS
  <2>1. PICK u \in Turns : InterruptTurn(u)
    BY DEF DaemonNext, Accept, Bind, ClientGone, DetachAborted, Release, RunStep, Drain,
           ResumeTurns, CancelTurns, Shutdown, ShutdownRuns, httpVars
  <2>2. u = t
    BY <2>1 DEF InterruptTurn
  <2>3. Abort(BoundTo(t))
    BY <2>1, <2>2 DEF InterruptTurn
  <2>4. httpAborted'[r] <=> httpAborted[r]
    BY <2>3, AbortTyped DEF BoundTo
  <2>5. httpAborted[r] \in BOOLEAN /\ httpAborted'[r] \in BOOLEAN
    BY <2>3, AbortTyped DEF DaemonIInv, DaemonTypeOK
  <2> QED BY <2>4, <2>5
<1> QED BY <1>1, DaemonConsistent, PTL DEF DaemonSpec, InterruptSpares

\* A shutdown is accepted when nobody waits for anything, and nobody does as long
\* as the daemon is not resumed.
THEOREM ShutdownIsIdle == DaemonSpec => []ShutdownStaysIdle
<1>1. DaemonIInv => ShutdownStaysIdle
  <2> SUFFICES ASSUME DaemonIInv, shuttingDown # "no", ~resumed, NEW n \in Rounds,
                      NEW r \in Observers(n)
               PROVE  httpAborted[r]
    BY DEF ShutdownStaysIdle, Wanted
  <2>1. r \in Requests /\ observes[r] # None
    BY IntentShapes DEF Observers, Rounds
  <2>2. http[r] = "none"
    BY <2>1 DEF DaemonIInv, ShutdownDrained, Idle
  <2> QED BY <2>1, <2>2 DEF DaemonIInv, HandlersCounted
<1> QED BY <1>1, DaemonConsistent, PTL

-----------------------------------------------------------------------------
(* The lifecycle lock and the commands that take it.                         *)

\* What a token is made of.
LEMMA TokenParts ==
  ASSUME NEW tok \in Tokens
  PROVE  tok.pid \in Procs /\ tok.run \in Nat /\ tok # NoFile
<1>1. tok.pid \in Procs /\ tok.run \in 1..MaxRuns
  BY DEF Tokens
<1>2. tok.run \in Nat
  BY <1>1, Bounds
<1>3. tok \in [pid : Procs, run : Nat]
  BY <1>1, <1>2 DEF Tokens
<1> QED
  BY <1>1, <1>2, <1>3, NoFileIsNoToken

\* The token of an acquisition under way.
LEMMA TokenOf ==
  ASSUME LockTypeOK, NEW p \in Procs
  PROVE  /\ Token(p).pid = p /\ Token(p).run = run[p] /\ Token(p) # NoFile
         /\ run[p] # 0 => Token(p) \in Tokens
<1>1. run[p] \in 0..MaxRuns
  BY DEF LockTypeOK
<1>2. Token(p) \in [pid : Procs, run : Nat]
  BY <1>1, Bounds DEF Token
<1>3. run[p] # 0 => Token(p) \in Tokens
  BY <1>1, Bounds DEF Token, Tokens
<1> QED
  BY <1>2, <1>3, NoFileIsNoToken DEF Token

\* The initial states satisfy the inductive invariant.
LEMMA InitIInv == LockInit => LockInv
<1> SUFFICES ASSUME LockInit PROVE LockInv
  OBVIOUS
<1>0. 0 \in 0..MaxRuns /\ 0 \in 0..MaxEnds
  BY Bounds
<1>1. LockTypeOK
  BY <1>0, ZenonT(30) DEF LockInit, LockTypeOK
<1>2. CreatorsFile /\ TokensAreIssued /\ StaleIsOver /\ RemovesWhatWasProved
  BY DEF LockInit, CreatorsFile, TokensAreIssued, StaleIsOver, RemovesWhatWasProved, Owns
<1> QED
  BY <1>1, <1>2 DEF LockInv

\* Two windows on the lock at once would need one file with two tokens.
LEMMA OneCreator ==
  ASSUME LockInv, ~stolen,
         NEW p \in Procs, NEW q \in Procs,
         pc[p] = "write" \/ Owns(p), pc[q] = "write" \/ Owns(q)
  PROVE  p = q
BY DEF LockInv, CreatorsFile, Token

\* The conjuncts that no step can disturb but those that touch their state.
LEMMA TypeStep == LockInv /\ [LockNext]_commandVars => LockTypeOK'
<1> SUFFICES ASSUME LockInv, [LockNext]_commandVars PROVE LockTypeOK'
  OBVIOUS
<1> USE DEF LockInv, LockTypeOK, Goto
<1>1. CASE UNCHANGED commandVars
  BY <1>1 DEF commandVars, lockVars
<1>2. ASSUME NEW p \in Procs, NEW c \in {"setup", "uninstall"}, Start(p, c) PROVE LockTypeOK'
  <2>1. run' \in [Procs -> 0..MaxRuns]
    BY <1>2, Bounds DEF Start
  <2> QED
    BY <1>2, <2>1 DEF Start
<1>3. ASSUME NEW p \in Procs, CreateLock(p) \/ Retry(p) \/ Recreate(p) PROVE LockTypeOK'
  <2>1. Token(p) \in Tokens
    BY <1>3, TokenOf DEF CreateLock, Retry, Recreate, StaleIsOver
  <2>2. \E l \in {"read", "idle", "write"} : pc' = [pc EXCEPT ![p] = l]
    BY <1>3 DEF CreateLock, Retry, Recreate, TryCreate
  <2> QED
    BY <1>3, <2>1, <2>2 DEF CreateLock, Retry, Recreate, TryCreate
<1>4. ASSUME NEW p \in Procs, Write(p) \/ WriteFails(p) PROVE LockTypeOK'
  BY <1>4, TokenOf DEF Write, WriteFails, StaleIsOver
<1>5. ASSUME NEW p \in Procs, Read(p) PROVE LockTypeOK'
  BY <1>5 DEF Read, AfterRead
<1>6. ASSUME NEW p \in Procs, Inspect(p) \/ Unlink(p) PROVE LockTypeOK'
  BY <1>6 DEF Inspect, Unlink
<1>7. ASSUME NEW p \in Procs, Setup(p) \/ Check(p) PROVE LockTypeOK'
  BY <1>7 DEF Setup, Check, Kinds
<1>8. ASSUME NEW p \in Procs, NEW keepData \in BOOLEAN, Remove(p, keepData) PROVE LockTypeOK'
  BY <1>8 DEF Remove, Kinds
<1>9. ASSUME NEW p \in Procs, ReleaseLock(p) \/ UnlinkOwn(p) \/ UnlinkOwnFails(p) PROVE LockTypeOK'
  BY <1>9 DEF ReleaseLock, UnlinkOwn, UnlinkOwnFails
<1>10. ASSUME NEW p \in Procs, End(p) \/ Restart(p) PROVE LockTypeOK'
  <2>1. ends' \in 0..MaxEnds
    BY <1>10, Bounds DEF End, Restart
  <2> QED
    BY <1>10, <2>1 DEF End, Restart
<1> QED
  BY <1>1, <1>2, <1>3, <1>4, <1>5, <1>6, <1>7, <1>8, <1>9, <1>10 DEF LockNext

\* A file is the creator's from its exclusive create on: a release unlinks its
\* own file only, and a reclaim that is not a theft one whose creator is gone.
LEMMA CreatorsFileStep == LockInv /\ [LockNext]_commandVars => CreatorsFile'
<1> SUFFICES ASSUME LockInv, [LockNext]_commandVars, ~stolen' PROVE CreatorsFile'
  BY DEF CreatorsFile
<1> USE Bounds DEF LockInv, LockTypeOK, CreatorsFile, Owns, Goto, Token
<1>1. CASE UNCHANGED commandVars
  BY <1>1 DEF commandVars, lockVars
<1>2. ASSUME NEW p \in Procs, NEW c \in {"setup", "uninstall"}, Start(p, c) PROVE CreatorsFile'
  BY <1>2 DEF Start
<1>3. ASSUME NEW p \in Procs, CreateLock(p) \/ Retry(p) \/ Recreate(p) PROVE CreatorsFile'
  <2>1. ~stolen /\ run' = run
    BY <1>3 DEF CreateLock, Retry, Recreate, TryCreate
  <2>2. CASE Vacant
    <3>1. \A q \in Procs : ~(pc[q] = "write" \/ Owns(q))
      BY <2>1, <2>2, TokenOf DEF Vacant
    <3>2. file' = Token(p) /\ pc' = [pc EXCEPT ![p] = "write"]
      BY <1>3, <2>2 DEF CreateLock, Retry, Recreate, TryCreate
    <3> QED
      BY <2>1, <3>1, <3>2
  <2>3. CASE ~Vacant
    BY <1>3, <2>1, <2>3 DEF CreateLock, Retry, Recreate, TryCreate
  <2> QED
    BY <2>2, <2>3
<1>4. ASSUME NEW p \in Procs, Write(p) \/ WriteFails(p) PROVE CreatorsFile'
  BY <1>4 DEF Write, WriteFails
<1>5. ASSUME NEW p \in Procs, Read(p) \/ Inspect(p) PROVE CreatorsFile'
  BY <1>5 DEF Read, AfterRead, Inspect
<1>6. ASSUME NEW p \in Procs, Unlink(p) PROVE CreatorsFile'
  <2>1. ~stolen /\ file \in {seen[p], NoFile}
    BY <1>6 DEF Unlink
  <2>2. Over(seen[p])
    BY <1>6 DEF Unlink, StaleIsOver
  <2>3. ASSUME NEW q \in Procs, pc[q] = "write" \/ Owns(q) PROVE FALSE
    <3>1. file = Token(q)
      BY <2>1, <2>3
    <3>2. seen[p] = Token(q)
      BY <2>1, <3>1, TokenOf
    <3>3. run[q] \in 0..MaxRuns
      OBVIOUS
    <3>4. ~(run[q] < run[q])
      BY <3>3, Bounds
    <3> QED
      BY <2>2, <2>3, <3>2, <3>4, TokenOf DEF Over
  <2> QED
    BY <1>6, <2>3 DEF Unlink
<1>7. ASSUME NEW p \in Procs, Setup(p) \/ Check(p) \/ ReleaseLock(p) PROVE CreatorsFile'
  BY <1>7 DEF Setup, Check, ReleaseLock
<1>8. ASSUME NEW p \in Procs, NEW keepData \in BOOLEAN, Remove(p, keepData) PROVE CreatorsFile'
  BY <1>8 DEF Remove
<1>9. ASSUME NEW p \in Procs, UnlinkOwn(p) \/ UnlinkOwnFails(p) PROVE CreatorsFile'
  <2>1. ASSUME NEW q \in Procs, pc[q] = "write" \/ Owns(q) PROVE q = p
    BY <1>9, <2>1, OneCreator DEF UnlinkOwn, UnlinkOwnFails
  <2> QED
    BY <1>9, <2>1 DEF UnlinkOwn, UnlinkOwnFails
<1>10. ASSUME NEW p \in Procs, End(p) \/ Restart(p) PROVE CreatorsFile'
  BY <1>10 DEF End, Restart
<1> QED
  BY <1>1, <1>2, <1>3, <1>4, <1>5, <1>6, <1>7, <1>8, <1>9, <1>10 DEF LockNext

\* run only grows, and new files belong to the current run of their creator.
LEMMA TokensAreIssuedStep == LockInv /\ [LockNext]_commandVars => TokensAreIssued'
<1> SUFFICES ASSUME LockInv, [LockNext]_commandVars PROVE TokensAreIssued'
  OBVIOUS
<1>1. \A p \in Procs : run[p] \in Nat /\ run'[p] \in Nat
  BY TypeStep, Bounds DEF LockInv, LockTypeOK
<1>2. \A p \in Procs : run[p] <= run'[p]
  <2>1. run' = run \/ \E p \in Procs : run' = [run EXCEPT ![p] = @ + 1]
    BY DEF LockNext, commandVars, lockVars, Start, CreateLock, Retry, Recreate, TryCreate, Write,
      WriteFails,
           Read, Inspect, Unlink, Setup, Check, Remove, ReleaseLock, UnlinkOwn, UnlinkOwnFails,
           End, Restart
  <2> QED
    BY <1>1, <2>1 DEF LockInv, LockTypeOK
<1>3. file' \in {file, NoFile} \/ (\E p \in Procs : file' = Token(p) /\ run' = run)
  BY DEF LockNext, commandVars, lockVars, Start, CreateLock, Retry, Recreate, TryCreate, Write,
    WriteFails,
         Read, Inspect, Unlink, Setup, Check, Remove, ReleaseLock, UnlinkOwn, UnlinkOwnFails,
         End, Restart
<1>4. \A p \in Procs : seen'[p] \in {seen[p], file}
  BY DEF LockInv, LockTypeOK, LockNext, commandVars, lockVars, Start, CreateLock, Retry, Recreate,
    TryCreate, Write,
         WriteFails, Read, Inspect, Unlink, Setup, Check, Remove, ReleaseLock, UnlinkOwn,
         UnlinkOwnFails, End, Restart
<1>5. ASSUME NEW tok \in Tokens, tok.run <= run[tok.pid] PROVE tok.run <= run'[tok.pid]
  <2>1. tok.pid \in Procs /\ tok.run \in Nat
    BY TokenParts
  <2> QED
    BY <1>1, <1>2, <1>5, <2>1
<1>6. file \in Tokens \cup {NoFile} /\ \A p \in Procs : seen[p] \in Tokens \cup {NoFile}
  BY DEF LockInv, LockTypeOK
<1>7. file' # NoFile => file'.run <= run'[file'.pid]
  <2>1. CASE file' = file
    BY <1>5, <1>6, <2>1 DEF LockInv, TokensAreIssued
  <2>2. CASE \E p \in Procs : file' = Token(p) /\ run' = run
    BY <1>1, <2>2, TokenOf DEF LockInv
  <2> QED
    BY <1>3, <2>1, <2>2
<1>8. ASSUME NEW p \in Procs, seen'[p] # NoFile PROVE seen'[p].run <= run'[seen'[p].pid]
  BY <1>4, <1>5, <1>6, <1>8 DEF LockInv, TokensAreIssued
<1> QED
  BY <1>7, <1>8 DEF TokensAreIssued

\* An acquisition that is over stays over.
LEMMA OverStays ==
  ASSUME LockInv, [LockNext]_commandVars, NEW tok \in Tokens, Over(tok)
  PROVE  Over(tok)'
<1> USE DEF LockInv, LockTypeOK, Over, Goto
<1>0. tok.pid \in Procs /\ tok.run \in Nat
  BY TokenParts
<1>1. CASE UNCHANGED commandVars
  BY <1>1 DEF commandVars, lockVars
<1>2. ASSUME NEW p \in Procs, NEW c \in {"setup", "uninstall"}, Start(p, c) PROVE Over(tok)'
  <2>1. run[tok.pid] \in Nat
    BY <1>0, Bounds
  <2>2. CASE p = tok.pid
    BY <1>0, <1>2, <2>1, <2>2 DEF Start
  <2>3. CASE p # tok.pid
    BY <1>0, <1>2, <2>1, <2>3 DEF Start
  <2> QED
    BY <2>2, <2>3
<1>3. ASSUME NEW p \in Procs,
             run' = run, pc[p] \notin {"idle", "dead"} \/ pc'[p] \in {"idle", "dead"},
             \E l : pc' = [pc EXCEPT ![p] = l]
      PROVE  Over(tok)'
  BY <1>0, <1>3
<1>4. ASSUME NEW p \in Procs, CreateLock(p) \/ Retry(p) \/ Recreate(p) PROVE Over(tok)'
  BY <1>3, <1>4 DEF CreateLock, Retry, Recreate, TryCreate
<1>5. ASSUME NEW p \in Procs, Write(p) \/ WriteFails(p) \/ Read(p) \/ Inspect(p) \/ Unlink(p)
      PROVE  Over(tok)'
  BY <1>3, <1>5 DEF Write, WriteFails, Read, Inspect, Unlink
<1>6. ASSUME NEW p \in Procs, NEW keepData \in BOOLEAN,
             Setup(p) \/ Check(p) \/ Remove(p, keepData) \/ ReleaseLock(p) \/ UnlinkOwn(p)
               \/ UnlinkOwnFails(p)
      PROVE  Over(tok)'
  BY <1>3, <1>6 DEF Setup, Check, Remove, ReleaseLock, UnlinkOwn, UnlinkOwnFails
<1>7. ASSUME NEW p \in Procs, End(p) \/ Restart(p) PROVE Over(tok)'
  BY <1>3, <1>7 DEF End, Restart
<1> QED
  BY <1>1, <1>2, <1>4, <1>5, <1>6, <1>7 DEF LockNext

\* A contender unlinks only what it read from an acquisition that is over.
LEMMA StaleIsOverStep == LockInv /\ [LockNext]_commandVars => StaleIsOver'
<1> SUFFICES ASSUME LockInv, [LockNext]_commandVars PROVE StaleIsOver'
  OBVIOUS
<1> USE DEF LockInv, LockTypeOK, Goto
<1>1. ASSUME NEW p \in Procs, pc[p] = "unlink", seen'[p] = seen[p] PROVE Over(seen[p])'
  <2>1. seen[p] \in Tokens
    BY <1>1 DEF StaleIsOver
  <2>2. Over(seen[p])
    BY <1>1 DEF StaleIsOver
  <2> QED
    BY <1>1, <2>1, <2>2, OverStays DEF Over
<1>2. CASE UNCHANGED commandVars
  BY <1>2 DEF commandVars, lockVars, StaleIsOver, Over
<1>3. ASSUME NEW p \in Procs, NEW c \in {"setup", "uninstall"}, Start(p, c) PROVE StaleIsOver'
  <2>1. seen' = seen /\ pc' = [pc EXCEPT ![p] = "create"] /\ pc[p] = "idle" /\ alive' = alive
    BY <1>3 DEF Start
  <2>2. run' = [run EXCEPT ![p] = run[p] + 1]
    BY <1>3 DEF Start
  <2>3. \A q \in Procs : run'[q] = 0 => q # p /\ run[q] = 0
    BY <2>2, Bounds
  <2>4. \A q \in Procs : pc'[q] = "unlink" => Over(seen[q])'
    BY <1>1, <2>1
  <2> QED
    BY <2>1, <2>3, <2>4 DEF StaleIsOver
<1>4. ASSUME NEW p \in Procs, CreateLock(p) \/ Retry(p) \/ Recreate(p) PROVE StaleIsOver'
  BY <1>1, <1>4 DEF CreateLock, Retry, Recreate, TryCreate, StaleIsOver
<1>5. ASSUME NEW p \in Procs, Write(p) \/ WriteFails(p) \/ Unlink(p) PROVE StaleIsOver'
  BY <1>1, <1>5 DEF Write, WriteFails, Unlink, StaleIsOver
<1>6. ASSUME NEW p \in Procs, Read(p) PROVE StaleIsOver'
  BY <1>1, <1>6 DEF Read, AfterRead, StaleIsOver
<1>7. ASSUME NEW p \in Procs, Inspect(p) PROVE StaleIsOver'
  <2>1. pc'[p] = "unlink" => Over(seen[p])'
    <3>1. seen[p] \in Tokens /\ seen[p].pid \in Procs
      BY <1>7, TokenParts DEF Inspect, StaleIsOver
    <3>2. ProvenGone(p, seen[p].pid) => pc[seen[p].pid] = "dead"
      BY <3>1 DEF ProvenGone, StaleIsOver
    <3>3. ProvenGone(p, seen[p].pid) => pc'[seen[p].pid] = "dead"
      BY <1>7, <3>1, <3>2 DEF Inspect, ProvenGone
    <3>4. seen[p].run <= run[seen[p].pid] /\ run[seen[p].pid] \in Nat /\ seen[p].run \in Nat
      BY <3>1, Bounds, TokenParts DEF TokensAreIssued, Tokens
    <3> QED
      BY <1>7, <3>3, <3>4 DEF Inspect, Over
  <2> QED
    BY <1>1, <1>7, <2>1 DEF Inspect, StaleIsOver
<1>8. ASSUME NEW p \in Procs, NEW keepData \in BOOLEAN,
             Setup(p) \/ Check(p) \/ Remove(p, keepData) \/ ReleaseLock(p) \/ UnlinkOwn(p)
               \/ UnlinkOwnFails(p)
      PROVE  StaleIsOver'
  BY <1>1, <1>8 DEF Setup, Check, Remove, ReleaseLock, UnlinkOwn, UnlinkOwnFails, StaleIsOver
<1>9. ASSUME NEW p \in Procs, End(p) \/ Restart(p) PROVE StaleIsOver'
  BY <1>1, <1>9 DEF End, Restart, StaleIsOver
<1> QED
  BY <1>2, <1>3, <1>4, <1>5, <1>6, <1>7, <1>8, <1>9 DEF LockNext

\* Only a holder changes the installation, and there is one.
LEMMA RemovesStep == LockInv /\ [LockNext]_commandVars => RemovesWhatWasProved'
<1> SUFFICES ASSUME LockInv, [LockNext]_commandVars, ~stolen' PROVE RemovesWhatWasProved'
  BY DEF RemovesWhatWasProved
<1> USE Bounds DEF LockInv, LockTypeOK, RemovesWhatWasProved, Goto
<1>1. CASE UNCHANGED commandVars
  BY <1>1 DEF commandVars, lockVars
<1>2. ASSUME NEW p \in Procs, NEW c \in {"setup", "uninstall"}, Start(p, c)
      PROVE  RemovesWhatWasProved'
  BY <1>2 DEF Start
<1>3. ASSUME NEW p \in Procs, CreateLock(p) \/ Retry(p) \/ Recreate(p) PROVE RemovesWhatWasProved'
  BY <1>3 DEF CreateLock, Retry, Recreate, TryCreate
<1>4. ASSUME NEW p \in Procs, Write(p) \/ WriteFails(p) \/ Read(p) \/ Inspect(p) \/ Unlink(p)
      PROVE  RemovesWhatWasProved'
  BY <1>4 DEF Write, WriteFails, Read, AfterRead, Inspect, Unlink
<1>5. ASSUME NEW p \in Procs, Setup(p) PROVE RemovesWhatWasProved'
  <2>1. ~stolen /\ Owns(p)
    BY <1>5 DEF Setup, Owns
  <2>2. ASSUME NEW q \in Procs, pc'[q] = "removing" PROVE FALSE
    <3>1. q # p /\ pc[q] = "removing"
      BY <1>5, <2>2 DEF Setup
    <3> QED
      BY <2>1, <3>1, OneCreator DEF Owns
  <2> QED
    BY <2>2
<1>6. ASSUME NEW p \in Procs, Check(p) PROVE RemovesWhatWasProved'
  BY <1>6 DEF Check, Matches
<1>7. ASSUME NEW p \in Procs, NEW keepData \in BOOLEAN, Remove(p, keepData)
      PROVE  RemovesWhatWasProved'
  <2>1. ~stolen /\ Owns(p)
    BY <1>7 DEF Remove, Owns
  <2>2. ASSUME NEW q \in Procs, pc'[q] = "removing" PROVE FALSE
    <3>1. q # p /\ pc[q] = "removing"
      BY <1>7, <2>2 DEF Remove
    <3> QED
      BY <2>1, <3>1, OneCreator DEF Owns
  <2> QED
    BY <2>2
<1>8. ASSUME NEW p \in Procs, ReleaseLock(p) \/ UnlinkOwn(p) \/ UnlinkOwnFails(p)
      PROVE  RemovesWhatWasProved'
  BY <1>8 DEF ReleaseLock, UnlinkOwn, UnlinkOwnFails
<1>9. ASSUME NEW p \in Procs, End(p) \/ Restart(p) PROVE RemovesWhatWasProved'
  BY <1>9 DEF End, Restart
<1> QED
  BY <1>1, <1>2, <1>3, <1>4, <1>5, <1>6, <1>7, <1>8, <1>9 DEF LockNext

\* The inductive invariant holds in every reachable state.
THEOREM LockConsistent == LockSpec => []LockInv
<1>1. LockInit => LockInv
  BY InitIInv
<1>2. LockInv /\ [LockNext]_commandVars => LockInv'
  BY TypeStep, CreatorsFileStep, TokensAreIssuedStep, StaleIsOverStep, RemovesStep DEF LockInv
<1> QED
  BY <1>1, <1>2, PTL DEF LockSpec

\* Releases, failed writes, deaths, reclaims of the lock that was read and
\* reused pids never put two commands under one lock.
THEOREM LockIsExclusive == LockSpec => []ExclusiveUntilStolen
<1>1. LockInv => ExclusiveUntilStolen
  BY OneCreator DEF LockInv, CreatorsFile, ExclusiveUntilStolen, MutualExclusion
<1> QED
  BY <1>1, LockConsistent, PTL

\* uninstall removes exactly the installation the Launcher proved.
THEOREM RemovalIsProved == LockSpec => []RemovesWhatWasProved
<1>1. LockInv => RemovesWhatWasProved
  BY DEF LockInv
<1> QED
  BY <1>1, LockConsistent, PTL

-----------------------------------------------------------------------------
PlanSteps ==
  {"drain", "release", "bootout", "bootstrap", "start", "install", "unlist", "tunnelunlist",
   "cancel", "client", "save", "proxy", "tunnel", "tunneldown", "tunnelup", "connect",
   "disconnect"}
Steps == PlanSteps \cup {"binary", "manifest", "rollback"}

Services == [installed : BOOLEAN, loaded : BOOLEAN, draining : BOOLEAN, busy : BOOLEAN, token : Nat]
TunnelJobs == [installed : BOOLEAN, loaded : BOOLEAN, temporary : BOOLEAN]
Clients == {"none", "old", "new"}
Installations == [binary : Clients, manifest : Clients]
CommandsUnderWay ==
  [todo : Seq(Steps), token : Nat, lease : BOOLEAN, locked : BOOLEAN, previous : Clients]

ServiceTypeOK ==
  /\ service \in Services
  /\ saved \in Nat
  /\ tunnelJob \in TunnelJobs
  /\ client \in Installations
  /\ terminal \in [Terminals -> CommandsUnderWay]
  /\ admitted \subseteq {"drain", "client", "runtime"}
  /\ setbacks \in Nat

\* A plan ends every drain with a resume or a stop, and every temporary runtime.
Planned(todo) ==
  /\ todo \in Seq(PlanSteps)
  /\ \A i \in 1 .. Len(todo) :
       /\ todo[i] = "drain" => i < Len(todo) /\ todo[i + 1] \in {"release", "bootout"}
       /\ todo[i] = "connect" => i < Len(todo) /\ todo[i + 1] = "disconnect"

\* It installs the tunnel client under the lifecycle lock only.
ClientLocked(t) == ~t.locked => \A i \in 1 .. Len(t.todo) : t.todo[i] # "client"

\* The files of the client are written, or put back, by the command that has the lock.
WritesFiles(t) ==
  /\ t.locked /\ ~t.lease
  /\ \/ t.todo = <<"rollback">>
     \/ Len(t.todo) > 0 /\ t.todo[1] = "manifest" /\ Planned(Tail(t.todo))
     \/ /\ Len(t.todo) > 1 /\ t.todo[1] = "binary" /\ t.todo[2] = "manifest"
        /\ Planned(Tail(Tail(t.todo)))

\* A command has the drain only when it resumes or replaces the daemon next.
FollowsPlan(t) ==
  /\ Planned(t.todo) /\ ClientLocked(t)
  /\ t.lease => Len(t.todo) > 0 /\ t.todo[1] \in {"release", "bootout", "bootstrap"}

CommandsKnowWhatIsLeft == \A c \in Terminals : FollowsPlan(terminal[c]) \/ WritesFiles(terminal[c])

OneHoldsTheLock ==
  \A c, d \in Terminals : terminal[c].locked /\ terminal[d].locked => c = d

\* The manifest is written after its client.
ClientBeforeManifest == \A c \in Terminals : At(c, "manifest") => client.binary = "new"

ServiceIInv ==
  /\ ServiceTypeOK
  /\ CommandsKnowWhatIsLeft
  /\ OneHoldsTheLock
  /\ ClientBeforeManifest
  /\ LeavesNothingHalf

\* What remains of a plan is one.
LEMMA PlannedTail ==
  ASSUME NEW s, Planned(s), Len(s) > 0
  PROVE  Planned(Tail(s)) /\ \A i \in 1 .. Len(Tail(s)) : Tail(s)[i] = s[i + 1]
<1>1. Len(Tail(s)) = Len(s) - 1 /\ Tail(s) \in Seq(PlanSteps) /\ Len(s) \in Nat
  BY DEF Planned
<1>2. \A i \in 1 .. Len(Tail(s)) : Tail(s)[i] = s[i + 1]
  BY DEF Planned
<1>3. ASSUME NEW i \in 1 .. Len(Tail(s))
      PROVE  /\ Tail(s)[i] = "drain" =>
                  i < Len(Tail(s)) /\ Tail(s)[i + 1] \in {"release", "bootout"}
             /\ Tail(s)[i] = "connect" => i < Len(Tail(s)) /\ Tail(s)[i + 1] = "disconnect"
  <2>1. i + 1 \in 1 .. Len(s) /\ Tail(s)[i] = s[i + 1]
    BY <1>1, <1>2
  <2>2. i < Len(Tail(s)) => Tail(s)[i + 1] = s[(i + 1) + 1]
    BY <1>1, <1>2
  <2>3. i + 1 < Len(s) => i < Len(Tail(s))
    BY <1>1
  <2> HIDE DEF Planned
  <2>4. /\ s[i + 1] = "drain" => i + 1 < Len(s) /\ s[(i + 1) + 1] \in {"release", "bootout"}
        /\ s[i + 1] = "connect" => i + 1 < Len(s) /\ s[(i + 1) + 1] = "disconnect"
    BY <2>1 DEF Planned
  <2> QED BY <2>1, <2>2, <2>3, <2>4
<1> QED BY <1>1, <1>2, <1>3 DEF Planned

\* Plans one after the other are one.
LEMMA PlannedConcat ==
  ASSUME NEW s, Planned(s), NEW u, Planned(u)
  PROVE  /\ Planned(s \o u)
         /\ Len(s \o u) = Len(s) + Len(u)
         /\ \A i \in 1 .. Len(s \o u) :
              (s \o u)[i] = IF i <= Len(s) THEN s[i] ELSE u[i - Len(s)]
<1> DEFINE w == s \o u
<1>1. s \in Seq(PlanSteps) /\ u \in Seq(PlanSteps)
  BY DEF Planned
<1>2. /\ w \in Seq(PlanSteps) /\ Len(w) = Len(s) + Len(u)
      /\ \A i \in 1 .. Len(w) : w[i] = IF i <= Len(s) THEN s[i] ELSE u[i - Len(s)]
      /\ Len(s) \in Nat /\ Len(u) \in Nat
  BY <1>1
<1> HIDE DEF w
<1>3. ASSUME NEW i \in 1 .. Len(w)
      PROVE  /\ w[i] = "drain" => i < Len(w) /\ w[i + 1] \in {"release", "bootout"}
             /\ w[i] = "connect" => i < Len(w) /\ w[i + 1] = "disconnect"
  <2>1. CASE i <= Len(s)
    <3>1. w[i] = s[i] /\ (i < Len(s) => i < Len(w) /\ w[i + 1] = s[i + 1]) /\ i \in 1 .. Len(s)
      BY <1>2, <2>1
    <3> QED BY <3>1 DEF Planned
  <2>2. CASE i > Len(s)
    <3> DEFINE j == i - Len(s)
    <3>1. w[i] = u[j] /\ j \in 1 .. Len(u)
      BY <1>2, <2>2
    <3>2. j < Len(u) => i < Len(w) /\ w[i + 1] = u[j + 1]
      <4>1. ASSUME j < Len(u) PROVE i < Len(w) /\ i + 1 \in 1 .. Len(w) /\ (i + 1) - Len(s) = j + 1
        BY <1>2, <2>2, <4>1
      <4> QED BY <1>2, <2>2, <4>1
    <3> HIDE DEF j
    <3> QED BY <3>1, <3>2 DEF Planned
  <2> QED BY <1>2, <2>1, <2>2
<1> QED BY <1>2, <1>3 DEF Planned, w

\* The plans that commands are made of.
LEMMA PlannedPieces ==
  /\ Planned(<<>>) /\ Planned(IdleProof) /\ Planned(StopsService)
  /\ \A step \in PlanSteps \ {"drain", "connect"} : Planned(<<step>>)
  /\ Planned(<<"connect", "disconnect", "tunnelup">>)
  /\ Planned(<<"client", "save", "install">>)
  /\ Planned(<<"bootstrap", "proxy", "tunnel">>)
  /\ Planned(<<"client", "save", "install", "proxy", "tunnel">>)
  /\ Planned(<<"tunnelunlist", "disconnect">>)
BY DEF Planned, IdleProof, StopsService, PlanSteps

HoldsDrain == {"release", "bootout", "bootstrap"}

\* A terminal goes on with the plan of its command, or is at its prompt again.
Continues(c) ==
  \E t \in CommandsUnderWay :
    /\ terminal' = [terminal EXCEPT ![c] = t]
    /\ FollowsPlan(t)
    /\ t.locked => terminal[c].locked

\* It goes on with the files of the client.
Writes(c, step) ==
  \E t \in CommandsUnderWay :
    /\ terminal' = [terminal EXCEPT ![c] = t]
    /\ WritesFiles(t) /\ t.todo[1] = step
    /\ t.locked => terminal[c].locked

Commanding == ServiceTypeOK /\ CommandsKnowWhatIsLeft

\* A terminal at its prompt owes nothing.
LEMMA PromptOK ==
  /\ AtPrompt \in CommandsUnderWay /\ FollowsPlan(AtPrompt)
  /\ ~AtPrompt.locked /\ ~AtPrompt.lease /\ AtPrompt.todo = <<>>
BY PlannedPieces DEF AtPrompt, CommandsUnderWay, FollowsPlan, ClientLocked, Clients

\* What a command knows of a step of its plan.
LEMMA PlanStep ==
  ASSUME Commanding, NEW c \in Terminals, NEW step \in PlanSteps, At(c, step)
  PROVE  /\ FollowsPlan(terminal[c])
         /\ terminal[c].todo \in Seq(PlanSteps) /\ Len(terminal[c].todo) > 0
         /\ terminal[c].todo[1] = step
         /\ Planned(Rest(c))
         /\ \A i \in 1 .. Len(Rest(c)) : Rest(c)[i] = "client" => terminal[c].locked
         /\ step = "drain" => Len(Rest(c)) > 0 /\ Rest(c)[1] \in {"release", "bootout"}
         /\ step = "connect" => Len(Rest(c)) > 0 /\ Rest(c)[1] = "disconnect"
         /\ terminal[c].lease => step \in HoldsDrain
<1> DEFINE t == terminal[c]
<1>1. t.todo # <<>> /\ Head(t.todo) = step /\ t.todo \in Seq(Steps)
  BY DEF At, Commanding, ServiceTypeOK, CommandsUnderWay
<1>2. Len(t.todo) > 0 /\ t.todo[1] = step
  BY <1>1
<1>3. FollowsPlan(t)
  BY <1>1, <1>2 DEF Commanding, CommandsKnowWhatIsLeft, WritesFiles, PlanSteps
<1>4. Planned(t.todo)
  BY <1>3 DEF FollowsPlan
<1>5. Planned(Rest(c)) /\ \A i \in 1 .. Len(Rest(c)) : Rest(c)[i] = t.todo[i + 1]
  BY <1>2, <1>4, PlannedTail DEF Rest
<1>6. Len(Rest(c)) = Len(t.todo) - 1 /\ Len(t.todo) \in Nat
  BY <1>1, <1>2 DEF Rest
<1>7. \A i \in 1 .. Len(Rest(c)) : Rest(c)[i] = "client" => t.locked
  BY <1>3, <1>5, <1>6 DEF FollowsPlan, ClientLocked
<1>8. /\ step = "drain" => Len(t.todo) > 1 /\ t.todo[2] \in {"release", "bootout"}
      /\ step = "connect" => Len(t.todo) > 1 /\ t.todo[2] = "disconnect"
  <2>1. 1 \in 1 .. Len(t.todo)
    BY <1>2, <1>6
  <2> QED BY <1>2, <1>4, <2>1 DEF Planned
<1>9. Len(t.todo) > 1 => 1 \in 1 .. Len(Rest(c)) /\ Rest(c)[1] = t.todo[2]
  BY <1>5, <1>6
<1> QED BY <1>2, <1>3, <1>4, <1>5, <1>6, <1>7, <1>8, <1>9 DEF FollowsPlan, Planned, HoldsDrain

\* A command that does next what a plan says goes on.
LEMMA GoesOn ==
  ASSUME ServiceTypeOK, NEW c \in Terminals, NEW todo, Planned(todo),
         \A i \in 1 .. Len(todo) : todo[i] = "client" => terminal[c].locked,
         NEW lease \in BOOLEAN, lease /\ todo # <<>> => todo[1] \in HoldsDrain,
         NEW token \in Nat, NEW previous \in Clients,
         \/ terminal' = [terminal EXCEPT ![c] = IF todo = <<>> THEN AtPrompt ELSE
              [@ EXCEPT !.todo = todo, !.lease = lease, !.token = token, !.previous = previous]]
         \/ (lease => todo # <<>>) /\ terminal' = [terminal EXCEPT ![c] =
              [@ EXCEPT !.todo = todo, !.lease = lease, !.token = token, !.previous = previous]]
  PROVE  Continues(c)
<1> DEFINE t == [terminal[c] EXCEPT !.todo = todo, !.lease = lease, !.token = token,
                                    !.previous = previous]
<1>1. CASE terminal' = [terminal EXCEPT ![c] = AtPrompt]
  BY <1>1, PromptOK DEF Continues
<1>2. CASE (lease => todo # <<>>) /\ terminal' = [terminal EXCEPT ![c] = t]
  <2>1. terminal' = [terminal EXCEPT ![c] = t]
    BY <1>2
  <2>2. todo \in Seq(Steps) /\ (lease => Len(todo) > 0)
    BY <1>2 DEF Planned, Steps
  <2>3. t \in CommandsUnderWay /\ t.todo = todo /\ t.lease = lease /\ t.locked = terminal[c].locked
    BY <2>2 DEF ServiceTypeOK, CommandsUnderWay
  <2> HIDE DEF t
  <2>4. FollowsPlan(t)
    BY <1>2, <2>2, <2>3 DEF FollowsPlan, ClientLocked, HoldsDrain
  <2> QED BY <2>1, <2>3, <2>4 DEF Continues
<1> QED BY <1>1, <1>2

\* The same when only what is left to do changes.
LEMMA GoesPlanned ==
  ASSUME Commanding, NEW c \in Terminals, NEW todo, Planned(todo),
         \A i \in 1 .. Len(todo) : todo[i] = "client" => terminal[c].locked,
         terminal[c].lease /\ todo # <<>> => todo[1] \in HoldsDrain,
         Goes(c, todo)
  PROVE  Continues(c)
<1> DEFINE t == terminal[c]
<1>1. t \in CommandsUnderWay
  BY DEF Commanding, ServiceTypeOK
<1>2. t = [t EXCEPT !.todo = t.todo, !.lease = t.lease, !.token = t.token, !.previous = t.previous]
  BY <1>1 DEF CommandsUnderWay
<1>3. [t EXCEPT !.todo = todo] =
        [t EXCEPT !.todo = todo, !.lease = t.lease, !.token = t.token, !.previous = t.previous]
  BY <1>1 DEF CommandsUnderWay
<1>4. terminal' = [terminal EXCEPT ![c] = IF todo = <<>> THEN AtPrompt ELSE
              [@ EXCEPT !.todo = todo, !.lease = t.lease, !.token = t.token,
                        !.previous = t.previous]]
  BY <1>3 DEF Goes
<1>5. t.lease \in BOOLEAN /\ t.token \in Nat /\ t.previous \in Clients
  BY <1>1 DEF CommandsUnderWay
<1> HIDE DEF t
<1>6. t.lease /\ todo # <<>> => todo[1] \in HoldsDrain
  BY DEF t
<1> QED BY <1>4, <1>5, <1>6, GoesOn DEF Commanding

\* A step that does not hold the drain is followed by the rest of the plan.
LEMMA AdvancesPlanned ==
  ASSUME Commanding, NEW c \in Terminals, NEW step \in PlanSteps \ HoldsDrain, At(c, step),
         Advances(c)
  PROVE  Continues(c)
BY PlanStep, GoesPlanned DEF Advances

\* So is a command that fails.
LEMMA GivesBackPlanned ==
  ASSUME Commanding, NEW c \in Terminals, GivesBack(c)
  PROVE  Continues(c)
<1> DEFINE todo == IF terminal[c].lease THEN <<"release">> ELSE <<>>
<1>1. /\ Planned(todo) /\ (todo # <<>> => todo[1] = "release")
      /\ \A i \in 1 .. Len(todo) : todo[i] # "client"
  BY PlannedPieces DEF PlanSteps
<1>2. Goes(c, todo)
  BY DEF GivesBack
<1> HIDE DEF todo
<1> QED BY <1>1, <1>2, GoesPlanned DEF HoldsDrain

\* And one whose drain was refused.
LEMMA RefusesPlanned ==
  ASSUME Commanding, NEW c \in Terminals, NEW answered, Refuses(c, answered)
  PROVE  Continues(c)
<1> DEFINE todo == IF Compensates(answered) THEN <<"release">> ELSE <<>>
<1>1. /\ Planned(todo) /\ (todo # <<>> => todo[1] = "release")
      /\ \A i \in 1 .. Len(todo) : todo[i] # "client"
  BY PlannedPieces DEF PlanSteps
<1>2. Goes(c, todo)
  BY DEF Refuses
<1> HIDE DEF todo
<1> QED BY <1>1, <1>2, GoesPlanned DEF HoldsDrain

\* What negotiateDrain leads to is a plan: a stop that needs no drain keeps the rest.
LEMMA DrainContinues ==
  ASSUME Commanding, NEW c \in Terminals, NegotiatesDrain(c)
  PROVE  Continues(c)
<1>1. At(c, "drain") /\ "drain" \in PlanSteps
  BY DEF NegotiatesDrain, PlanSteps
<1>2. /\ Planned(Rest(c)) /\ Len(Rest(c)) > 0 /\ Rest(c)[1] \in {"release", "bootout"}
      /\ \A i \in 1 .. Len(Rest(c)) : Rest(c)[i] = "client" => terminal[c].locked
      /\ ~terminal[c].lease /\ Rest(c) \in Seq(PlanSteps)
  BY <1>1, PlanStep DEF HoldsDrain, Planned
<1>3. CASE Goes(c, Undrained(c))
  <2> DEFINE rest == Rest(c)
  <2>1. Planned(Tail(rest)) /\ \A i \in 1 .. Len(Tail(rest)) : Tail(rest)[i] = rest[i + 1]
    BY <1>2, PlannedTail
  <2>2. \A i \in 1 .. Len(Tail(rest)) : Tail(rest)[i] = "client" => terminal[c].locked
    BY <1>2, <2>1
  <2>3. CASE ~(Len(rest) > 1 /\ rest[2] = "bootstrap")
    <3>1. Goes(c, Tail(rest))
      BY <1>3, <2>3 DEF Undrained
    <3> QED BY <1>2, <2>1, <2>2, <3>1, GoesPlanned
  <2>4. CASE Len(rest) > 1 /\ rest[2] = "bootstrap"
    <3> DEFINE tail == Tail(Tail(rest))
               plan == <<"start">> \o tail
    <3>1. SubSeq(rest, 3, Len(rest)) = tail
      BY <1>2, <2>4
    <3>2. Len(Tail(rest)) > 0
      BY <1>2, <2>4
    <3>3. Planned(tail) /\ \A i \in 1 .. Len(tail) : tail[i] = Tail(rest)[i + 1]
      BY <2>1, <3>2, PlannedTail
    <3>4. \A i \in 1 .. Len(tail) : tail[i] = "client" => terminal[c].locked
      BY <1>2, <2>2, <3>2, <3>3
    <3>5. Planned(<<"start">>) /\ Len(<<"start">>) = 1 /\ <<"start">>[1] = "start"
      BY PlannedPieces DEF PlanSteps
    <3>6. /\ Planned(plan) /\ Len(plan) = 1 + Len(tail)
          /\ \A i \in 1 .. Len(plan) : plan[i] = IF i <= 1 THEN <<"start">>[i] ELSE tail[i - 1]
      BY <3>3, <3>5, PlannedConcat
    <3>7. Len(tail) \in Nat
      BY <3>3 DEF Planned
    <3>8. Goes(c, plan)
      BY <1>3, <2>4, <3>1 DEF Undrained
    <3> HIDE DEF plan, tail
    <3>9. \A i \in 1 .. Len(plan) : plan[i] = "client" => terminal[c].locked
      BY <3>4, <3>5, <3>6, <3>7
    <3> QED BY <1>2, <3>6, <3>8, <3>9, GoesPlanned
  <2> QED BY <2>3, <2>4
<1>4. CASE terminal' = [terminal EXCEPT ![c].todo = Tail(@), ![c].lease = TRUE]
  <2> DEFINE t == terminal[c]
  <2>1. t \in CommandsUnderWay
    BY DEF Commanding, ServiceTypeOK
  <2>2. [t EXCEPT !.todo = Rest(c), !.lease = TRUE] =
          [t EXCEPT !.todo = Rest(c), !.lease = TRUE, !.token = t.token, !.previous = t.previous]
    BY <2>1 DEF CommandsUnderWay
  <2>3. terminal' = [terminal EXCEPT ![c] = [t EXCEPT !.todo = Rest(c), !.lease = TRUE]]
    BY <1>4, <2>1 DEF Rest, Commanding, ServiceTypeOK, CommandsUnderWay
  <2>4. terminal' = [terminal EXCEPT ![c] = [@ EXCEPT !.todo = Rest(c), !.lease = TRUE,
                       !.token = t.token, !.previous = t.previous]]
    BY <2>2, <2>3
  <2>5. t.token \in Nat /\ t.previous \in Clients /\ Rest(c) # <<>> /\ Rest(c)[1] \in HoldsDrain
    BY <1>2, <2>1 DEF CommandsUnderWay, HoldsDrain
  <2> HIDE DEF t
  <2> QED BY <1>2, <2>4, <2>5, GoesOn DEF Commanding
<1> QED BY <1>3, <1>4, RefusesPlanned DEF NegotiatesDrain

\* After a resume or a start the command has no drain any more; after a stop it has one
\* only when it starts the daemon next.
LEMMA LeaseChanges ==
  ASSUME Commanding, NEW c \in Terminals, NEW step \in PlanSteps, At(c, step),
         NEW lease \in BOOLEAN, lease /\ Rest(c) # <<>> => Rest(c)[1] \in HoldsDrain,
         terminal' = [terminal EXCEPT ![c] = IF Rest(c) = <<>> THEN AtPrompt
                                             ELSE [@ EXCEPT !.todo = Rest(c), !.lease = lease]]
  PROVE  Continues(c)
<1> DEFINE todo == Rest(c)
           t == [terminal[c] EXCEPT !.todo = todo, !.lease = lease]
<1>1. terminal[c] \in CommandsUnderWay
  BY DEF Commanding, ServiceTypeOK
<1>2. Planned(todo) /\ \A i \in 1 .. Len(todo) : todo[i] = "client" => terminal[c].locked
  BY PlanStep
<1>3. todo \in Seq(Steps)
  BY <1>2 DEF Planned, Steps
<1>4. CASE todo = <<>>
  <2>1. terminal' = [terminal EXCEPT ![c] = AtPrompt]
    BY <1>4
  <2> QED BY <2>1, PromptOK DEF Continues
<1>5. CASE todo # <<>>
  <2>1. terminal' = [terminal EXCEPT ![c] = t]
    BY <1>5
  <2>2. lease => Len(todo) > 0 /\ todo[1] \in HoldsDrain
    BY <1>3, <1>5
  <2> HIDE DEF todo
  <2>3. t \in CommandsUnderWay /\ t.todo = todo /\ t.lease = lease /\ t.locked = terminal[c].locked
    BY <1>1, <1>3 DEF CommandsUnderWay
  <2> HIDE DEF t
  <2>4. FollowsPlan(t)
    BY <1>2, <2>2, <2>3 DEF FollowsPlan, ClientLocked, HoldsDrain
  <2> QED BY <2>1, <2>3, <2>4 DEF Continues
<1> QED BY <1>4, <1>5

\* The steps of the service: resume, stop, start and installation.
LEMMA ServiceContinues ==
  ASSUME Commanding, NEW c \in Terminals,
         Resume(c) \/ Bootout(c) \/ Bootstrap(c) \/ StartService(c) \/ InstallService(c)
  PROVE  Continues(c)
<1>0. HoldsDrain \subseteq PlanSteps /\ {"start", "install"} \subseteq PlanSteps \ HoldsDrain
  BY DEF PlanSteps, HoldsDrain
<1>1. ASSUME NEW step \in PlanSteps, At(c, step), Loads(c) PROVE Continues(c)
  BY <1>1, LeaseChanges, GivesBackPlanned DEF Loads
<1>2. CASE Resume(c)
  <2>1. CASE Goes(c, <<>>)
    BY <2>1, PlannedPieces, GoesPlanned
  <2>2. CASE terminal' = [terminal EXCEPT ![c] = IF Rest(c) = <<>> THEN AtPrompt
                                                ELSE [@ EXCEPT !.todo = Rest(c), !.lease = FALSE]]
    BY <1>0, <1>2, <2>2, LeaseChanges DEF Resume, HoldsDrain
  <2> QED BY <1>2, <2>1, <2>2 DEF Resume
<1>3. CASE Bootout(c)
  <2> DEFINE lease == Head(Rest(c)) = "bootstrap"
  <2>1. CASE terminal' = [terminal EXCEPT ![c] = IF Rest(c) = <<>> THEN AtPrompt
                            ELSE [@ EXCEPT !.todo = Rest(c), !.lease = Head(Rest(c)) = "bootstrap"]]
    <3>1. lease /\ Rest(c) # <<>> => Rest(c)[1] \in HoldsDrain
      BY <1>0, <1>3, PlanStep DEF Bootout, HoldsDrain, Planned
    <3>2. At(c, "bootout") /\ lease \in BOOLEAN
      BY <1>3 DEF Bootout
    <3>3. terminal' = [terminal EXCEPT ![c] = IF Rest(c) = <<>> THEN AtPrompt
                            ELSE [@ EXCEPT !.todo = Rest(c), !.lease = lease]]
      BY <2>1
    <3> HIDE DEF lease
    <3> QED BY <1>0, <3>1, <3>2, <3>3, LeaseChanges DEF HoldsDrain
  <2> QED BY <1>3, <2>1, GivesBackPlanned DEF Bootout
<1>4. CASE Bootstrap(c)
  BY <1>0, <1>1, <1>4, GivesBackPlanned DEF Bootstrap, HoldsDrain
<1>5. CASE StartService(c)
  BY <1>0, <1>1, <1>5, AdvancesPlanned, GivesBackPlanned DEF StartService
<1>6. CASE InstallService(c)
  BY <1>0, <1>1, <1>6, AdvancesPlanned DEF InstallService
<1> QED BY <1>2, <1>3, <1>4, <1>5, <1>6

\* The steps that only advance, and interruptions.
LEMMA StepsContinue ==
  ASSUME Commanding, NEW c \in Terminals,
         \/ Unlist(c) \/ CancelsTurns(c) \/ SaveConfig(c) \/ StopTunnelService(c)
         \/ StartTunnelService(c) \/ StopTunnel(c) \/ Interrupted(c)
  PROVE  Continues(c)
<1>0. {"unlist", "tunnelunlist", "cancel", "save", "tunneldown", "tunnelup", "disconnect"}
        \subseteq PlanSteps \ HoldsDrain
  BY DEF PlanSteps, HoldsDrain
<1>1. CASE Unlist(c)
  BY <1>0, <1>1, AdvancesPlanned DEF Unlist
<1>2. CASE CancelsTurns(c)
  BY <1>0, <1>2, AdvancesPlanned, GivesBackPlanned DEF CancelsTurns
<1>3. CASE SaveConfig(c)
  BY <1>0, <1>3, AdvancesPlanned DEF SaveConfig
<1>4. CASE StopTunnelService(c)
  BY <1>0, <1>4, AdvancesPlanned, GivesBackPlanned DEF StopTunnelService
<1>5. CASE StartTunnelService(c)
  BY <1>0, <1>5, AdvancesPlanned, GivesBackPlanned DEF StartTunnelService
<1>6. CASE StopTunnel(c)
  BY <1>0, <1>6, AdvancesPlanned, GivesBackPlanned DEF StopTunnel
<1>7. CASE Interrupted(c)
  BY <1>7, PromptOK DEF Interrupted, Continues
<1> QED BY <1>1, <1>2, <1>3, <1>4, <1>5, <1>6, <1>7

\* A setup takes a plan for the tunnel into its own.
LEMMA TunnelContinues ==
  ASSUME Commanding, NEW c \in Terminals, PlanTunnel(c) \/ Connect(c) \/ Proxy(c)
  PROVE  Continues(c)
<1>1. CASE PlanTunnel(c)
  <2>1. PICK plan \in TunnelPlans : Goes(c, plan \o Rest(c))
    BY <1>1 DEF PlanTunnel
  <2>2. At(c, "tunnel") /\ "tunnel" \in PlanSteps
    BY <1>1 DEF PlanTunnel, PlanSteps
  <2>3. Planned(IdleProof) /\ Planned(<<"tunneldown">>) /\ Planned(<<"tunnelup">>)
    BY PlannedPieces DEF PlanSteps
  <2>4. Planned(StopsTunnel)
    BY <2>3, PlannedConcat DEF StopsTunnel
  <2>5. Planned(plan) /\ \A i \in 1 .. Len(plan) : plan[i] # "client"
    <3>1. plan \in {StopsTunnel \o <<"connect", "disconnect", "tunnelup">>,
                    StopsTunnel \o <<"tunnelup">>, <<>>}
      BY <2>1 DEF TunnelPlans
    <3>2. Planned(plan)
      BY <2>3, <2>4, <3>1, PlannedPieces, PlannedConcat
    <3>3. \A i \in 1 .. Len(plan) : plan[i] # "client"
      BY <3>1 DEF StopsTunnel, IdleProof
    <3> QED BY <3>2, <3>3
  <2>6. /\ Planned(Rest(c)) /\ ~terminal[c].lease
        /\ \A i \in 1 .. Len(Rest(c)) : Rest(c)[i] = "client" => terminal[c].locked
    BY <2>2, PlanStep DEF HoldsDrain
  <2>7. \A i \in 1 .. Len(plan \o Rest(c)) : (plan \o Rest(c))[i] = "client" => terminal[c].locked
    <3>1. Len(plan) \in Nat /\ Len(Rest(c)) \in Nat
      BY <2>5, <2>6 DEF Planned
    <3> QED BY <2>5, <2>6, <3>1, PlannedConcat
  <2>8. Planned(plan \o Rest(c))
    BY <2>5, <2>6, PlannedConcat
  <2> QED BY <2>1, <2>6, <2>7, <2>8, GoesPlanned
<1>2. CASE Connect(c)
  <2>1. At(c, "connect") /\ "connect" \in PlanSteps \ HoldsDrain
    BY <1>2 DEF Connect, PlanSteps, HoldsDrain
  <2>2. ~terminal[c].lease
    BY <2>1, PlanStep
  <2>3. CASE Goes(c, <<"disconnect">>)
    <3>1. Planned(<<"disconnect">>)
      BY PlannedPieces DEF PlanSteps
    <3> QED BY <2>2, <2>3, <3>1, GoesPlanned
  <2> QED BY <1>2, <2>1, <2>3, AdvancesPlanned DEF Connect
<1>3. CASE Proxy(c)
  <2>1. At(c, "proxy") /\ "proxy" \in PlanSteps \ HoldsDrain
    BY <1>3 DEF Proxy, PlanSteps, HoldsDrain
  <2>2. CASE terminal' = [terminal EXCEPT ![c].todo = Tail(@), ![c].token = saved]
    <3> DEFINE t == terminal[c]
    <3>1. t \in CommandsUnderWay /\ saved \in Nat
      BY DEF Commanding, ServiceTypeOK
    <3>2. [t EXCEPT !.todo = Rest(c), !.token = saved] =
            [t EXCEPT !.todo = Rest(c), !.lease = FALSE, !.token = saved, !.previous = t.previous]
      BY <2>1, <3>1, PlanStep DEF CommandsUnderWay
    <3>3. terminal' = [terminal EXCEPT ![c] = [t EXCEPT !.todo = Rest(c), !.token = saved]]
      BY <2>2 DEF Rest, Commanding, ServiceTypeOK, CommandsUnderWay
    <3>4. t.previous \in Clients
      BY <3>1 DEF CommandsUnderWay
    <3>5. terminal' = [terminal EXCEPT ![c] =
            [@ EXCEPT !.todo = Rest(c), !.lease = FALSE, !.token = saved, !.previous = t.previous]]
      BY <3>2, <3>3
    <3> DEFINE todo == Rest(c)
               previous == t.previous
    <3>6. /\ Planned(todo)
          /\ \A i \in 1 .. Len(todo) : todo[i] = "client" => terminal[c].locked
      BY <2>1, PlanStep
    <3>7. terminal' = [terminal EXCEPT ![c] =
            [@ EXCEPT !.todo = todo, !.lease = FALSE, !.token = saved, !.previous = previous]]
      BY <3>5
    <3>8. previous \in Clients
      BY <3>4
    <3> HIDE DEF t, todo, previous
    <3> QED BY <3>1, <3>6, <3>7, <3>8, GoesOn DEF Commanding
  <2> QED BY <1>3, <2>2, GivesBackPlanned DEF Proxy
<1> QED BY <1>1, <1>2, <1>3

\* The commands that install the client's files hold the lock and no drain.
LEMMA FileStep ==
  ASSUME Commanding, NEW c \in Terminals, NEW step \in {"binary", "manifest", "rollback"},
         At(c, step)
  PROVE  /\ WritesFiles(terminal[c]) /\ terminal[c].locked /\ ~terminal[c].lease
         /\ terminal[c].todo \in Seq(Steps) /\ Len(terminal[c].todo) > 0
         /\ terminal[c].todo[1] = step
         /\ step = "rollback" => Rest(c) = <<>>
         /\ step = "manifest" => Planned(Rest(c))
         /\ step = "binary" => Len(Rest(c)) > 0 /\ Rest(c)[1] = "manifest" /\ Planned(Tail(Rest(c)))
<1> DEFINE t == terminal[c]
<1>1. t.todo # <<>> /\ Head(t.todo) = step /\ t.todo \in Seq(Steps)
  BY DEF At, Commanding, ServiceTypeOK, CommandsUnderWay
<1>2. Len(t.todo) > 0 /\ t.todo[1] = step
  BY <1>1
<1>3. ~Planned(t.todo)
  BY <1>1, <1>2 DEF Planned, PlanSteps
<1>4. WritesFiles(t)
  BY <1>3 DEF Commanding, CommandsKnowWhatIsLeft, FollowsPlan
<1>5. Len(t.todo) > 1 => Len(Rest(c)) > 0 /\ Rest(c)[1] = t.todo[2]
  BY <1>1 DEF Rest
<1> QED BY <1>1, <1>2, <1>4, <1>5 DEF WritesFiles, Rest

\* The client is found complete, or is to be written, by a command with the lock.
LEMMA FindContinues ==
  ASSUME Commanding, NEW c \in Terminals, FindClient(c)
  PROVE  (Continues(c) \/ Writes(c, "binary")) /\ terminal[c].locked
<1> DEFINE t == terminal[c]
<1>1. At(c, "client") /\ "client" \in PlanSteps \ HoldsDrain
  BY DEF FindClient, PlanSteps, HoldsDrain
<1>2. /\ ~t.lease /\ FollowsPlan(t) /\ t.todo \in Seq(PlanSteps) /\ Len(t.todo) > 0
      /\ t.todo[1] = "client" /\ Planned(Rest(c))
  BY <1>1, PlanStep
<1>3. t.locked
  <2>1. 1 \in 1 .. Len(t.todo)
    BY <1>2
  <2> QED BY <1>2, <2>1 DEF FollowsPlan, ClientLocked
<1>4. t \in CommandsUnderWay
  BY DEF Commanding, ServiceTypeOK
<1>5. ASSUME NEW n \in CommandsUnderWay, n.todo = <<"binary", "manifest">> \o Rest(c),
             n.lease = t.lease, n.locked = t.locked
      PROVE  WritesFiles(n) /\ n.todo[1] = "binary"
  <2> DEFINE todo == <<"binary", "manifest">> \o Rest(c)
  <2>1. Rest(c) \in Seq(PlanSteps)
    BY <1>2 DEF Planned
  <2>2. /\ todo \in Seq(Steps) /\ Len(todo) > 1 /\ todo[1] = "binary" /\ todo[2] = "manifest"
        /\ Tail(Tail(todo)) = Rest(c)
    <3>1. Rest(c) \in Seq(Steps) /\ <<"binary", "manifest">> \in Seq(Steps)
      BY <2>1 DEF Steps
    <3>2. todo \in Seq(Steps) /\ Len(todo) = 2 + Len(Rest(c)) /\ Len(Rest(c)) \in Nat
      BY <3>1
    <3>3. todo[1] = "binary" /\ todo[2] = "manifest"
      BY <3>1, <3>2
    <3>4. \A i \in 1 .. Len(Rest(c)) : todo[i + 2] = Rest(c)[i]
      BY <3>1, <3>2
    <3> DEFINE tail == Tail(todo)
    <3>5. /\ tail \in Seq(Steps) /\ Len(tail) = 1 + Len(Rest(c))
          /\ \A i \in 1 .. Len(tail) : tail[i] = todo[i + 1]
      BY <3>2
    <3> HIDE DEF tail
    <3>8. /\ Tail(tail) \in Seq(Steps) /\ Len(Tail(tail)) = Len(Rest(c))
          /\ \A i \in 1 .. Len(Rest(c)) : Tail(tail)[i] = tail[i + 1]
      BY <3>2, <3>5
    <3>6. \A i \in 1 .. Len(Rest(c)) : Tail(tail)[i] = todo[i + 2]
      BY <3>2, <3>5, <3>8
    <3> HIDE DEF todo
    <3>7. Tail(tail) = Rest(c)
      BY <3>1, <3>4, <3>8, <3>6
    <3> QED BY <3>2, <3>3, <3>7 DEF tail
  <2> HIDE DEF todo
  <2> QED BY <1>2, <1>3, <1>5, <2>2 DEF WritesFiles, todo
<1>6. t.previous \in Clients /\ client.binary \in Clients
  BY <1>4 DEF CommandsUnderWay, Commanding, ServiceTypeOK, Installations
<1>7. CASE terminal' = [terminal EXCEPT ![c].todo = <<"binary", "manifest">> \o Tail(@),
                                       ![c].previous = client.binary]
  <2> DEFINE n == [t EXCEPT !.todo = <<"binary", "manifest">> \o Rest(c),
                            !.previous = client.binary]
  <2>1. terminal' = [terminal EXCEPT ![c] = n]
    BY <1>4, <1>7 DEF Rest, Commanding, ServiceTypeOK, CommandsUnderWay
  <2>2. <<"binary", "manifest">> \o Rest(c) \in Seq(Steps)
    <3>1. Rest(c) \in Seq(PlanSteps)
      BY <1>2 DEF Planned
    <3>2. Rest(c) \in Seq(Steps) /\ <<"binary", "manifest">> \in Seq(Steps)
      BY <3>1 DEF Steps
    <3> QED BY <3>2
  <2>3. /\ n \in CommandsUnderWay /\ n.todo = <<"binary", "manifest">> \o Rest(c)
        /\ n.lease = t.lease /\ n.locked = t.locked
    BY <1>4, <1>6, <2>2 DEF CommandsUnderWay
  <2> HIDE DEF n
  <2>4. WritesFiles(n) /\ n.todo[1] = "binary"
    BY <1>5, <2>3
  <2> QED BY <1>3, <2>1, <2>3, <2>4 DEF Writes
<1>8. CASE terminal' = [terminal EXCEPT ![c].todo = <<"binary", "manifest">> \o Tail(@)]
  <2> DEFINE n == [t EXCEPT !.todo = <<"binary", "manifest">> \o Rest(c)]
  <2>1. terminal' = [terminal EXCEPT ![c] = n]
    BY <1>4, <1>8 DEF Rest, Commanding, ServiceTypeOK, CommandsUnderWay
  <2>2. <<"binary", "manifest">> \o Rest(c) \in Seq(Steps)
    <3>1. Rest(c) \in Seq(PlanSteps)
      BY <1>2 DEF Planned
    <3>2. Rest(c) \in Seq(Steps) /\ <<"binary", "manifest">> \in Seq(Steps)
      BY <3>1 DEF Steps
    <3> QED BY <3>2
  <2>3. /\ n \in CommandsUnderWay /\ n.todo = <<"binary", "manifest">> \o Rest(c)
        /\ n.lease = t.lease /\ n.locked = t.locked
    BY <1>4, <1>6, <2>2 DEF CommandsUnderWay
  <2> HIDE DEF n
  <2>4. WritesFiles(n) /\ n.todo[1] = "binary"
    BY <1>5, <2>3
  <2> QED BY <1>3, <2>1, <2>3, <2>4 DEF Writes
<1> QED BY <1>1, <1>3, <1>7, <1>8, AdvancesPlanned, GivesBackPlanned DEF FindClient

\* What is written next.
LEMMA FilesGoOn ==
  ASSUME Commanding, NEW c \in Terminals, terminal[c].locked, ~terminal[c].lease,
         NEW todo \in Seq(Steps), todo # <<>>, Goes(c, todo),
         \A t \in CommandsUnderWay :
           t.locked /\ ~t.lease /\ t.todo = todo => WritesFiles(t)
  PROVE  Writes(c, todo[1])
<1> DEFINE t == [terminal[c] EXCEPT !.todo = todo]
<1>1. t \in CommandsUnderWay /\ t.todo = todo /\ t.locked /\ ~t.lease
  BY DEF Commanding, ServiceTypeOK, CommandsUnderWay
<1>2. terminal' = [terminal EXCEPT ![c] = t]
  BY DEF Goes
<1> HIDE DEF t
<1> QED BY <1>1, <1>2 DEF Writes

\* The two files of the client, and what a failing write goes on with.
LEMMA WriteContinues ==
  ASSUME Commanding, NEW c \in Terminals, WriteClient(c) \/ RollBackClient(c)
  PROVE  /\ terminal[c].locked
         /\ \/ RollBackClient(c) /\ Continues(c)
            \/ Writes(c, "rollback") /\ client' = client
            \/ Writes(c, "manifest") /\ client' = [client EXCEPT !["binary"] = "new"]
            \/ /\ At(c, "manifest") /\ Continues(c)
               /\ client' = [client EXCEPT !["manifest"] = "new"]
<1>1. CASE RollBackClient(c)
  <2>1. terminal[c].locked /\ ~terminal[c].lease
    BY <1>1, FileStep DEF RollBackClient
  <2> QED BY <1>1, <2>1, PlannedPieces, GoesPlanned DEF RollBackClient
<1>2. ASSUME NEW which \in {"binary", "manifest"}, At(c, which)
      PROVE  /\ terminal[c].locked
             /\ Goes(c, <<"rollback">>) => Writes(c, "rollback")
             /\ Advances(c) /\ which = "binary" => Writes(c, "manifest")
             /\ Advances(c) /\ which = "manifest" => Continues(c)
  <2>1. /\ terminal[c].locked /\ ~terminal[c].lease
        /\ terminal[c].todo \in Seq(Steps) /\ Len(terminal[c].todo) > 0
    BY <1>2, FileStep
  <2>2. ASSUME Goes(c, <<"rollback">>) PROVE Writes(c, "rollback")
    <3> DEFINE todo == <<"rollback">>
    <3>1. todo \in Seq(Steps) /\ todo[1] = "rollback" /\ todo # <<>> /\ Goes(c, todo)
      BY <2>2 DEF Steps
    <3>2. \A t \in CommandsUnderWay : t.locked /\ ~t.lease /\ t.todo = todo => WritesFiles(t)
      BY DEF WritesFiles
    <3> HIDE DEF todo
    <3> QED BY <2>1, <3>1, <3>2, FilesGoOn
  <2>3. ASSUME Advances(c), which = "manifest" PROVE Continues(c)
    <3>1. Planned(Rest(c))
      BY <1>2, <2>3, FileStep
    <3>2. \A i \in 1 .. Len(Rest(c)) : Rest(c)[i] = "client" => terminal[c].locked
      BY <2>1
    <3> QED BY <2>1, <2>3, <3>1, <3>2, GoesPlanned DEF Advances
  <2>4. ASSUME Advances(c), which = "binary" PROVE Writes(c, "manifest")
    <3> DEFINE todo == Rest(c)
    <3>1. Len(todo) > 0 /\ todo[1] = "manifest" /\ Planned(Tail(todo))
      BY <1>2, <2>4, FileStep
    <3>2. todo \in Seq(Steps) /\ Goes(c, todo)
      BY <2>1, <2>4 DEF Rest, Advances
    <3> HIDE DEF todo
    <3>3. \A t \in CommandsUnderWay : t.locked /\ ~t.lease /\ t.todo = todo => WritesFiles(t)
      BY <3>1, <3>2 DEF WritesFiles
    <3>4. todo # <<>>
      BY <3>1, <3>2
    <3> QED BY <2>1, <3>1, <3>2, <3>3, <3>4, FilesGoOn
  <2> QED BY <2>1, <2>2, <2>3, <2>4
<1>3. CASE WriteClient(c)
  <2>1. PICK which \in {"binary", "manifest"} :
          /\ At(c, which)
          /\ \/ client' = [client EXCEPT ![which] = "new"] /\ Advances(c)
             \/ Goes(c, <<"rollback">>) /\ client' = client
    BY <1>3 DEF WriteClient
  <2>2. CASE which = "binary"
    BY <1>2, <2>1, <2>2
  <2>3. CASE which = "manifest"
    BY <1>2, <2>1, <2>3
  <2> QED BY <2>1, <2>2, <2>3
<1> QED BY <1>1, <1>3

\* A plan that does not install the client.
Plain(todo) == Planned(todo) /\ \A i \in 1 .. Len(todo) : todo[i] # "client"

\* Such plans one after the other are one.
LEMMA PlainConcat ==
  ASSUME NEW s, Plain(s), NEW u, Plain(u)
  PROVE  Plain(s \o u)
<1>1. Planned(s) /\ Planned(u) /\ Len(s) \in Nat /\ Len(u) \in Nat
  BY DEF Plain, Planned
<1> QED BY <1>1, PlannedConcat DEF Plain

\* The plans of the commands.
LEMMA CommandsPlanned ==
  (\A todo \in Commands \cup {UninstallPlan} : Plain(todo)) /\ Planned(SetupPlan)
<1>1. /\ Plain(IdleProof) /\ Plain(StopsService)
      /\ Plain(<<"tunneldown">>) /\ Plain(<<"tunnelup">>) /\ Plain(<<"disconnect">>)
      /\ Plain(<<"bootstrap">>) /\ Plain(<<"unlist">>)
      /\ Plain(<<"tunnelunlist", "disconnect">>)
      /\ Plain(<<"cancel">>) /\ Plain(<<"install">>) /\ Plain(<<"start">>)
  BY PlannedPieces DEF PlanSteps, Plain, IdleProof, StopsService
<1>2. Plain(StopsTunnel)
  BY <1>1, PlainConcat DEF StopsTunnel
<1>3. Plain(UninstallPlan)
  BY <1>1, <1>2, PlainConcat DEF UninstallPlan
<1>4. \A todo \in Commands : Plain(todo)
  BY <1>1, <1>2, PlainConcat DEF Commands
<1>5. Planned(SetupPlan)
  BY <1>1, PlannedPieces, PlannedConcat DEF SetupPlan, Plain
<1> QED BY <1>3, <1>4, <1>5

\* A command begins at a prompt.
LEMMA BeginsContinues ==
  ASSUME Commanding, NEW c \in Terminals, Given(c) \/ SetUp(c) \/ Uninstalled(c)
  PROVE  \E t \in CommandsUnderWay :
           /\ terminal' = [terminal EXCEPT ![c] = t]
           /\ FollowsPlan(t)
           /\ t.locked => ~Locked
<1>1. ASSUME NEW todo, Planned(todo), NEW locked \in BOOLEAN,
             ~locked => \A i \in 1 .. Len(todo) : todo[i] # "client",
             Begins(c, todo, locked), locked => ~Locked
      PROVE  \E t \in CommandsUnderWay :
               /\ terminal' = [terminal EXCEPT ![c] = t]
               /\ FollowsPlan(t)
               /\ t.locked => ~Locked
  <2> DEFINE t == [AtPrompt EXCEPT !.todo = todo, !.token = saved, !.locked = locked]
  <2>1. todo \in Seq(Steps) /\ saved \in Nat
    BY <1>1 DEF Planned, Steps, Commanding, ServiceTypeOK
  <2>2. t \in CommandsUnderWay /\ t.todo = todo /\ t.locked = locked /\ ~t.lease
    BY <2>1, PromptOK DEF CommandsUnderWay
  <2>3. terminal' = [terminal EXCEPT ![c] = t]
    BY <1>1 DEF Begins
  <2> HIDE DEF t
  <2>4. FollowsPlan(t)
    BY <1>1, <2>2 DEF FollowsPlan, ClientLocked
  <2> QED BY <1>1, <2>2, <2>3, <2>4
<1>2. CASE Given(c)
  BY <1>1, <1>2, CommandsPlanned DEF Given, Plain
<1>3. CASE SetUp(c)
  BY <1>1, <1>3, CommandsPlanned DEF SetUp
<1>4. CASE Uninstalled(c)
  BY <1>1, <1>4, CommandsPlanned DEF Uninstalled, Plain
<1> QED BY <1>2, <1>3, <1>4

\* The steps of a command that follow its plan.
Follows(c) ==
  \/ NegotiatesDrain(c) \/ Resume(c) \/ Bootout(c) \/ Bootstrap(c) \/ StartService(c)
  \/ InstallService(c) \/ Unlist(c) \/ CancelsTurns(c) \/ SaveConfig(c) \/ Proxy(c)
  \/ PlanTunnel(c) \/ StopTunnelService(c) \/ StartTunnelService(c) \/ Connect(c)
  \/ StopTunnel(c) \/ Interrupted(c)

\* Whatever step of its plan a command takes, it has a plan afterwards.
LEMMA FollowsContinues ==
  ASSUME Commanding, NEW c \in Terminals, Follows(c)
  PROVE  Continues(c)
BY DrainContinues, ServiceContinues, StepsContinue, TunnelContinues DEF Follows

\* The steps of a plan that have nothing to do with the client's files.
LEMMA FollowsLeavesClient ==
  ASSUME NEW c \in Terminals, Follows(c)
  PROVE  client' = client
BY DEF Follows, NegotiatesDrain, Resume, Bootout, Bootstrap, StartService, InstallService, Unlist,
  CancelsTurns, SaveConfig, Proxy, PlanTunnel, StopTunnelService, StartTunnelService, Connect,
  StopTunnel, Interrupted

\* The steps, sorted by what they do to the client.
LEMMA ServiceCases ==
  ASSUME ServiceNext
  PROVE  \/ \E c \in Terminals :
              \/ Given(c) \/ SetUp(c) \/ Uninstalled(c)
              \/ Follows(c) \/ FindClient(c) \/ WriteClient(c) \/ RollBackClient(c)
         \/ TurnComes \/ TurnEnds \/ DaemonRestarts
BY DEF ServiceNext, Follows

\* What a step does to the terminals.
LEMMA TerminalMoves ==
  ASSUME Commanding, ServiceNext
  PROVE  \/ terminal' = terminal
         \/ \E c \in Terminals, t \in CommandsUnderWay :
              /\ terminal' = [terminal EXCEPT ![c] = t]
              /\ FollowsPlan(t) \/ WritesFiles(t)
              /\ t.locked => terminal[c].locked \/ ~Locked
<1>1. CASE TurnComes \/ TurnEnds \/ DaemonRestarts
  BY <1>1 DEF TurnComes, TurnEnds, DaemonRestarts
<1>2. ASSUME NEW c \in Terminals, Given(c) \/ SetUp(c) \/ Uninstalled(c)
      PROVE  \E t \in CommandsUnderWay :
               /\ terminal' = [terminal EXCEPT ![c] = t]
               /\ FollowsPlan(t) \/ WritesFiles(t)
               /\ t.locked => terminal[c].locked \/ ~Locked
  BY <1>2, BeginsContinues
<1>3. ASSUME NEW c \in Terminals,
             Follows(c) \/ FindClient(c) \/ WriteClient(c) \/ RollBackClient(c)
      PROVE  \E t \in CommandsUnderWay :
               /\ terminal' = [terminal EXCEPT ![c] = t]
               /\ FollowsPlan(t) \/ WritesFiles(t)
               /\ t.locked => terminal[c].locked \/ ~Locked
  <2>1. Continues(c) \/ \E step \in Steps : Writes(c, step)
    BY <1>3, FollowsContinues, FindContinues, WriteContinues DEF Steps
  <2> QED BY <2>1 DEF Continues, Writes
<1> QED BY <1>1, <1>2, <1>3, ServiceCases

\* Every terminal has a plan afterwards, and one at most has the lock.
LEMMA TerminalsNext ==
  ASSUME Commanding, OneHoldsTheLock, ServiceNext
  PROVE  /\ terminal' \in [Terminals -> CommandsUnderWay]
         /\ CommandsKnowWhatIsLeft' /\ OneHoldsTheLock'
<1>0. terminal \in [Terminals -> CommandsUnderWay]
  BY DEF Commanding, ServiceTypeOK
<1>1. CASE terminal' = terminal
  BY <1>0, <1>1 DEF Commanding, CommandsKnowWhatIsLeft, OneHoldsTheLock
<1>2. ASSUME NEW c \in Terminals, NEW t \in CommandsUnderWay,
             terminal' = [terminal EXCEPT ![c] = t], FollowsPlan(t) \/ WritesFiles(t),
             t.locked => terminal[c].locked \/ ~Locked
      PROVE  /\ terminal' \in [Terminals -> CommandsUnderWay]
             /\ CommandsKnowWhatIsLeft' /\ OneHoldsTheLock'
  <2>1. \A d \in Terminals : terminal'[d] = IF d = c THEN t ELSE terminal[d]
    BY <1>0, <1>2
  <2>2. terminal' \in [Terminals -> CommandsUnderWay]
    BY <1>0, <1>2
  <2>3. CommandsKnowWhatIsLeft'
    BY <1>2, <2>1 DEF Commanding, CommandsKnowWhatIsLeft
  <2>4. OneHoldsTheLock'
    BY <1>2, <2>1 DEF OneHoldsTheLock, Locked
  <2> QED BY <2>2, <2>3, <2>4
<1> QED BY <1>1, <1>2, TerminalMoves

\* The other terminals are not touched.
OthersWait(c) == \A d \in Terminals \ {c} : terminal'[d] = terminal[d]

\* A step of a command is one terminal's.
LEMMA ContinuesAlone ==
  ASSUME Commanding, NEW c \in Terminals, Continues(c) \/ \E step \in Steps : Writes(c, step)
  PROVE  OthersWait(c)
BY DEF Continues, Writes, OthersWait, Commanding, ServiceTypeOK

\* So is its beginning, which changes nothing else.
LEMMA BeginsAlone ==
  ASSUME Commanding, NEW c \in Terminals, Given(c) \/ SetUp(c) \/ Uninstalled(c)
  PROVE  /\ OthersWait(c) /\ terminal[c] = AtPrompt
         /\ UNCHANGED <<service, saved, tunnelJob, client, admitted, setbacks>>
<1>1. PICK todo, locked : Begins(c, todo, locked)
  BY DEF Given, SetUp, Uninstalled
<1> QED BY <1>1, BeginsContinues DEF Begins, OthersWait, Commanding, ServiceTypeOK

\* The types of the service, the configuration and the faults.
LEMMA ServicesNext ==
  ASSUME ServiceTypeOK, ServiceNext
  PROVE  service' \in Services /\ saved' \in Nat /\ setbacks' \in Nat
<1>0. service \in Services /\ saved \in Nat /\ setbacks \in Nat
  BY DEF ServiceTypeOK
<1>1. ASSUME NEW s \in Services, Accepting(s) PROVE service' \in Services
  BY <1>1 DEF Accepting, Services
<1>2. /\ [service EXCEPT !.installed = TRUE, !.loaded = TRUE, !.busy = FALSE, !.token = saved]
             \in Services
      /\ [service EXCEPT !.loaded = FALSE, !.busy = FALSE] \in Services
      /\ [service EXCEPT !.busy = FALSE, !.token = saved] \in Services
      /\ \A b \in BOOLEAN : /\ [service EXCEPT !.draining = b] \in Services
                            /\ [service EXCEPT !.busy = b] \in Services
                            /\ [service EXCEPT !.installed = b] \in Services
  BY <1>0 DEF Services
<1>3. Setback => setbacks' \in Nat
  BY <1>0 DEF Setback
<1>4. ASSUME NEW c \in Terminals, Loads(c) PROVE service' \in Services /\ setbacks' \in Nat
  BY <1>0, <1>1, <1>2, <1>3, <1>4 DEF Loads
<1>5. ASSUME NEW c \in Terminals, Given(c) \/ SetUp(c) \/ Uninstalled(c)
      PROVE  UNCHANGED <<service, saved, setbacks>>
  BY <1>5 DEF Given, SetUp, Uninstalled, Begins
<1>6. ASSUME NEW c \in Terminals, Follows(c)
      PROVE  service' \in Services /\ saved' \in Nat /\ setbacks' \in Nat
  <2>1. CASE NegotiatesDrain(c) \/ Resume(c) \/ Bootout(c)
    BY <2>1, <1>0, <1>1, <1>2, <1>3 DEF NegotiatesDrain, Resume, Bootout
  <2>2. CASE Bootstrap(c) \/ StartService(c) \/ InstallService(c)
    BY <2>2, <1>0, <1>2, <1>4 DEF Bootstrap, StartService, InstallService
  <2>3. CASE Unlist(c) \/ CancelsTurns(c) \/ SaveConfig(c) \/ Proxy(c)
    <3>1. CASE Unlist(c)
      BY <3>1, <1>0, <1>2 DEF Unlist
    <3>2. CASE CancelsTurns(c)
      BY <3>2, <1>0, <1>2, <1>3 DEF CancelsTurns
    <3>3. CASE SaveConfig(c) \/ Proxy(c)
      BY <3>3, <1>0, <1>3 DEF SaveConfig, Proxy
    <3> QED BY <2>3, <3>1, <3>2, <3>3
  <2>4. CASE PlanTunnel(c) \/ StopTunnelService(c) \/ StartTunnelService(c) \/ Connect(c)
    BY <2>4, <1>0, <1>3 DEF PlanTunnel, StopTunnelService, StartTunnelService, Connect
  <2>5. CASE StopTunnel(c) \/ Interrupted(c)
    BY <2>5, <1>0, <1>3 DEF StopTunnel, Interrupted
  <2> QED BY <1>6, <2>1, <2>2, <2>3, <2>4, <2>5 DEF Follows
<1>7. ASSUME NEW c \in Terminals, FindClient(c) \/ WriteClient(c) \/ RollBackClient(c)
      PROVE  service' \in Services /\ saved' \in Nat /\ setbacks' \in Nat
  BY <1>0, <1>3, <1>7 DEF FindClient, WriteClient, RollBackClient
<1>8. CASE TurnComes \/ TurnEnds \/ DaemonRestarts
  BY <1>0, <1>1, <1>2, <1>3, <1>8 DEF TurnComes, TurnEnds, DaemonRestarts
<1> QED BY <1>0, <1>5, <1>6, <1>7, <1>8, ServiceCases

\* The types of the tunnel, the client and what was admitted.
LEMMA FilesNext ==
  ASSUME ServiceTypeOK, ServiceNext
  PROVE  /\ tunnelJob' \in TunnelJobs /\ client' \in Installations
         /\ admitted' \subseteq {"drain", "client", "runtime"}
<1>0. /\ tunnelJob \in TunnelJobs /\ client \in Installations
      /\ admitted \subseteq {"drain", "client", "runtime"}
  BY DEF ServiceTypeOK
<1>1. \A b \in BOOLEAN : /\ [tunnelJob EXCEPT !.installed = b] \in TunnelJobs
                         /\ [tunnelJob EXCEPT !.loaded = b] \in TunnelJobs
                         /\ [tunnelJob EXCEPT !.temporary = b] \in TunnelJobs
                         /\ [tunnelJob EXCEPT !.installed = TRUE, !.loaded = b] \in TunnelJobs
  BY <1>0 DEF TunnelJobs
<1>2. /\ \A k \in Clients : /\ [client EXCEPT !.binary = k] \in Installations
                            /\ [client EXCEPT !["binary"] = k] \in Installations
                            /\ [client EXCEPT !["manifest"] = k] \in Installations
                            /\ [binary |-> k, manifest |-> k] \in Installations
      /\ {"none", "new"} \subseteq Clients
  BY <1>0 DEF Installations, Clients
<1>3. ASSUME NEW s, Accepting(s) PROVE admitted' \subseteq {"drain", "client", "runtime"}
  BY <1>0, <1>3 DEF Accepting
<1>4. CASE TurnComes \/ TurnEnds \/ DaemonRestarts
  BY <1>0, <1>3, <1>4 DEF TurnComes, TurnEnds, DaemonRestarts
<1>5. ASSUME NEW c \in Terminals, Given(c) \/ SetUp(c) \/ Uninstalled(c)
      PROVE  UNCHANGED <<tunnelJob, client, admitted>>
  BY <1>5 DEF Given, SetUp, Uninstalled, Begins
<1>6. ASSUME NEW c \in Terminals, Follows(c)
      PROVE  /\ tunnelJob' \in TunnelJobs /\ client' \in Installations
             /\ admitted' \subseteq {"drain", "client", "runtime"}
  <2>1. CASE NegotiatesDrain(c) \/ Resume(c) \/ Bootout(c)
    BY <2>1, <1>0, <1>3 DEF NegotiatesDrain, Resume, Bootout
  <2>2. CASE Bootstrap(c) \/ StartService(c) \/ InstallService(c)
    BY <2>2, <1>0, <1>3 DEF Bootstrap, StartService, InstallService, Loads
  <2>3. CASE Unlist(c) \/ CancelsTurns(c) \/ SaveConfig(c) \/ Proxy(c)
    BY <2>3, <1>0, <1>1 DEF Unlist, CancelsTurns, SaveConfig, Proxy
  <2>4. CASE PlanTunnel(c) \/ StopTunnelService(c) \/ StartTunnelService(c) \/ Connect(c)
    BY <2>4, <1>0, <1>1 DEF PlanTunnel, StopTunnelService, StartTunnelService, Connect
  <2>5. CASE StopTunnel(c) \/ Interrupted(c)
    BY <2>5, <1>0, <1>1 DEF StopTunnel, Interrupted
  <2> QED BY <1>6, <2>1, <2>2, <2>3, <2>4, <2>5 DEF Follows
<1>7. ASSUME NEW c \in Terminals, FindClient(c) \/ WriteClient(c) \/ RollBackClient(c)
      PROVE  /\ tunnelJob' \in TunnelJobs /\ client' \in Installations
             /\ admitted' \subseteq {"drain", "client", "runtime"}
  <2>1. terminal[c].previous \in Clients
    BY DEF ServiceTypeOK, CommandsUnderWay
  <2>2. CASE FindClient(c)
    BY <1>0, <1>2, <2>2 DEF FindClient
  <2>3. CASE WriteClient(c)
    <3>1. PICK which \in {"binary", "manifest"} :
            client' = [client EXCEPT ![which] = "new"] \/ client' = client
      BY <2>3 DEF WriteClient
    <3>2. client' \in Installations
      BY <1>0, <3>1 DEF Installations, Clients
    <3> QED BY <1>0, <2>3, <3>2 DEF WriteClient
  <2>4. CASE RollBackClient(c)
    BY <1>0, <1>2, <2>1, <2>4 DEF RollBackClient
  <2> QED BY <1>7, <2>2, <2>3, <2>4
<1> QED BY <1>0, <1>4, <1>5, <1>6, <1>7, ServiceCases

\* The three parts of what a command leaves.
DrainOwed == service.draining => "drain" \in admitted \/ Owing("drain")
ClientOwed == client.binary # client.manifest => "client" \in admitted \/ Owing("client")
RuntimeOwed == tunnelJob.temporary => "runtime" \in admitted \/ Owing("runtime")

\* LeavesNothingHalf is what is owed of each kind.
LEMMA OwedParts == LeavesNothingHalf <=> DrainOwed /\ ClientOwed /\ RuntimeOwed
BY DEF LeavesNothingHalf, DrainOwed, ClientOwed, RuntimeOwed

\* Who owes what.
LEMMA OwingIs ==
  /\ Owing("drain") <=> \E c \in Terminals : terminal[c].lease \/ At(c, "release")
  /\ Owing("client") <=> \E c \in Terminals : At(c, "manifest") \/ At(c, "rollback")
  /\ Owing("runtime") <=> \E c \in Terminals : At(c, "disconnect")
BY DEF Owing

\* A command that owed nothing of a kind goes on: who owed it still does.
LEMMA StillOwing ==
  ASSUME NEW c \in Terminals, OthersWait(c)
  PROVE  /\ Owing("drain") /\ ~terminal[c].lease /\ ~At(c, "release") => Owing("drain")'
         /\ Owing("client") /\ ~At(c, "manifest") /\ ~At(c, "rollback") => Owing("client")'
         /\ Owing("runtime") /\ ~At(c, "disconnect") => Owing("runtime")'
<1>1. \A d \in Terminals \ {c} : terminal'[d] = terminal[d]
  BY DEF OthersWait
<1>2. \A d \in Terminals \ {c}, step \in Steps : At(d, step)' <=> At(d, step)
  BY <1>1 DEF At
<1>3. {"release", "manifest", "rollback", "disconnect"} \subseteq Steps
  BY DEF Steps, PlanSteps
<1>4. Owing("drain") /\ ~terminal[c].lease /\ ~At(c, "release") => Owing("drain")'
  BY <1>1, <1>2, <1>3 DEF Owing
<1>5. Owing("client") /\ ~At(c, "manifest") /\ ~At(c, "rollback") => Owing("client")'
  BY <1>2, <1>3 DEF Owing
<1>6. Owing("runtime") /\ ~At(c, "disconnect") => Owing("runtime")'
  BY <1>2, <1>3 DEF Owing
<1> QED BY <1>4, <1>5, <1>6

\* What a command that goes on owes when a step of it comes next.
LEMMA NextStep ==
  ASSUME Commanding, NEW c \in Terminals, NEW todo, Goes(c, todo), todo # <<>>
  PROVE  terminal'[c].todo = todo
BY DEF Goes, Commanding, ServiceTypeOK, CommandsUnderWay

\* A command that goes on with a resume owes it.
LEMMA OwesRelease ==
  ASSUME Commanding, NEW c \in Terminals, Goes(c, <<"release">>)
  PROVE  Owing("drain")'
<1>1. terminal'[c].todo = <<"release">>
  BY NextStep
<1> QED BY <1>1 DEF Owing, At

\* A step that does not hold the drain leaves it to who does.
LEMMA DrainStays ==
  ASSUME Commanding, DrainOwed, NEW c \in Terminals, NEW step \in Steps \ HoldsDrain, At(c, step),
         OthersWait(c), service'.draining => service.draining,
         "drain" \in admitted => "drain" \in admitted'
  PROVE  DrainOwed'
<1>1. ~terminal[c].lease /\ ~At(c, "release")
  <2>1. step \in PlanSteps \/ step \in {"binary", "manifest", "rollback"}
    BY DEF Steps
  <2>2. ~terminal[c].lease
    BY <2>1, PlanStep, FileStep
  <2> QED BY <2>2 DEF At, HoldsDrain
<1> QED BY <1>1, StillOwing DEF DrainOwed

\* A command that fails with the drain gives it back.
LEMMA GivenBack ==
  ASSUME Commanding, DrainOwed, NEW c \in Terminals, GivesBack(c), ~At(c, "release"),
         service'.draining => service.draining, "drain" \in admitted => "drain" \in admitted'
  PROVE  DrainOwed'
<1>1. CASE terminal[c].lease
  <2>1. Goes(c, <<"release">>)
    BY <1>1 DEF GivesBack
  <2> QED BY <2>1, OwesRelease DEF DrainOwed
<1>2. CASE ~terminal[c].lease
  BY <1>2, GivesBackPlanned, ContinuesAlone, StillOwing DEF DrainOwed
<1> QED BY <1>1, <1>2

\* A drain is owed, over or admitted (negotiateDrain, releaseDrainAfterFailure).
LEMMA DrainNext ==
  ASSUME Commanding, DrainOwed, ServiceNext
  PROVE  DrainOwed'
<1>0. /\ {"drain", "start", "install", "unlist", "tunnelunlist", "cancel", "save", "proxy",
          "client", "tunnel", "tunneldown", "tunnelup", "connect", "disconnect",
          "binary", "manifest", "rollback"} \subseteq Steps \ HoldsDrain
      /\ service \in Services
  BY DEF Steps, PlanSteps, HoldsDrain, Commanding, ServiceTypeOK
<1>1. ASSUME NEW s \in Services, Accepting(s) PROVE DrainOwed'
  BY <1>1 DEF Accepting, Services, DrainOwed
<1>2. /\ [service EXCEPT !.installed = TRUE, !.loaded = TRUE, !.busy = FALSE, !.token = saved]
             \in Services
      /\ [service EXCEPT !.loaded = FALSE, !.busy = FALSE] \in Services
      /\ [service EXCEPT !.busy = FALSE, !.token = saved] \in Services
      /\ \A b \in BOOLEAN : /\ [service EXCEPT !.busy = b].draining = service.draining
                            /\ [service EXCEPT !.installed = b].draining = service.draining
  BY <1>0 DEF Services, Commanding, ServiceTypeOK
<1>3. ASSUME NEW c \in Terminals, Loads(c), ~At(c, "release") PROVE DrainOwed'
  BY <1>1, <1>2, <1>3, GivenBack DEF Loads
<1>4. ASSUME NEW c \in Terminals, Given(c) \/ SetUp(c) \/ Uninstalled(c)
      PROVE  DrainOwed'
  BY <1>4, BeginsAlone, StillOwing DEF DrainOwed, AtPrompt, At
<1>5. ASSUME NEW c \in Terminals, Follows(c) \/ FindClient(c) \/ WriteClient(c) \/ RollBackClient(c)
      PROVE  DrainOwed'
  <2>0. OthersWait(c)
    BY <1>5, FollowsContinues, FindContinues, WriteContinues, ContinuesAlone DEF Steps
  <2>1. CASE NegotiatesDrain(c)
    <3>1. CASE service' = service
      BY <1>0, <2>0, <2>1, <3>1, DrainStays DEF NegotiatesDrain
    <3>2. CASE terminal' = [terminal EXCEPT ![c].todo = Tail(@), ![c].lease = TRUE]
      <4>1. terminal'[c].lease
        BY <3>2 DEF Commanding, ServiceTypeOK, CommandsUnderWay
      <4> QED BY <4>1 DEF DrainOwed, Owing
    <3>3. ASSUME NEW answered, Refuses(c, answered) PROVE DrainOwed'
      BY <3>3, OwesRelease DEF Refuses, Compensates, DrainOwed
    <3> QED BY <2>1, <3>1, <3>2, <3>3 DEF NegotiatesDrain
  <2>2. CASE Resume(c)
    BY <1>0, <1>1, <2>2 DEF Resume, DrainOwed
  <2>3. CASE Bootout(c)
    BY <1>1, <1>2, <2>3, GivenBack DEF Bootout, At
  <2>4. CASE Bootstrap(c)
    BY <1>3, <2>4, GivenBack DEF Bootstrap, At
  <2>5. CASE StartService(c)
    <3>1. CASE Loads(c)
      BY <1>3, <2>5, <3>1 DEF StartService, At
    <3> QED BY <1>0, <2>0, <2>5, <3>1, DrainStays DEF StartService
  <2>6. CASE InstallService(c)
    <3>1. CASE Loads(c)
      BY <1>3, <2>6, <3>1 DEF InstallService, At
    <3> QED BY <1>0, <1>2, <2>0, <2>6, <3>1, DrainStays DEF InstallService
  <2>7. CASE Unlist(c)
    BY <1>0, <1>2, <2>0, <2>7, DrainStays DEF Unlist
  <2>8. CASE CancelsTurns(c)
    BY <1>0, <1>2, <2>0, <2>8, DrainStays DEF CancelsTurns
  <2>9. CASE SaveConfig(c) \/ Proxy(c) \/ PlanTunnel(c)
    BY <1>0, <2>0, <2>9, DrainStays DEF SaveConfig, Proxy, PlanTunnel
  <2>10. CASE StopTunnelService(c) \/ StartTunnelService(c) \/ Connect(c) \/ StopTunnel(c)
    BY <1>0, <2>0, <2>10, DrainStays DEF StopTunnelService, StartTunnelService, Connect, StopTunnel
  <2>11. CASE Interrupted(c)
    BY <2>11 DEF Interrupted, DrainOwed
  <2>12. CASE FindClient(c)
    BY <1>0, <2>0, <2>12, DrainStays DEF FindClient
  <2>13. CASE WriteClient(c)
    BY <1>0, <2>0, <2>13, DrainStays DEF WriteClient
  <2>14. CASE RollBackClient(c)
    BY <1>0, <2>0, <2>14, DrainStays DEF RollBackClient
  <2> QED BY <1>5, <2>1, <2>2, <2>3, <2>4, <2>5, <2>6, <2>7, <2>8, <2>9, <2>10, <2>11, <2>12, <2>13,
             <2>14 DEF Follows
<1>6. CASE TurnComes \/ TurnEnds
  <2>1. Owing("drain")' <=> Owing("drain")
    BY <1>6 DEF TurnComes, TurnEnds, Owing, At
  <2> QED BY <1>2, <1>6, <2>1 DEF TurnComes, TurnEnds, DrainOwed
<1>7. CASE DaemonRestarts
  BY <1>1, <1>2, <1>7 DEF DaemonRestarts
<1> QED BY <1>4, <1>5, <1>6, <1>7, ServiceCases

\* The step a command goes on with.
LEMMA WritesNext ==
  ASSUME Commanding, NEW c \in Terminals, NEW step, Writes(c, step)
  PROVE  At(c, step)'
<1>1. PICK t \in CommandsUnderWay :
        terminal' = [terminal EXCEPT ![c] = t] /\ WritesFiles(t) /\ t.todo[1] = step
  BY DEF Writes
<1>2. terminal'[c] = t
  BY <1>1 DEF Commanding, ServiceTypeOK
<1>3. t.todo # <<>> /\ Head(t.todo) = step
  BY <1>1 DEF WritesFiles, CommandsUnderWay
<1> QED BY <1>2, <1>3 DEF At

\* A command that follows its plan is at none of the client's files.
LEMMA ContinuesNext ==
  ASSUME Commanding, NEW c \in Terminals, Continues(c)
  PROVE  /\ \A step \in {"binary", "manifest", "rollback"} : ~At(c, step)'
         /\ terminal[c].locked \/ ~terminal'[c].locked
<1>1. PICK t \in CommandsUnderWay :
        /\ terminal' = [terminal EXCEPT ![c] = t] /\ FollowsPlan(t)
        /\ t.locked => terminal[c].locked
  BY DEF Continues
<1>2. terminal'[c] = t
  BY <1>1 DEF Commanding, ServiceTypeOK
<1>3. t.todo # <<>> => Head(t.todo) \in PlanSteps
  BY <1>1 DEF FollowsPlan, Planned
<1> QED BY <1>1, <1>2, <1>3 DEF At, PlanSteps

\* Only the command with the lock touches the client, and the manifest comes last.
LEMMA ManifestNext ==
  ASSUME Commanding, OneHoldsTheLock, ClientBeforeManifest, ServiceNext
  PROVE  ClientBeforeManifest'
<1>0. {"binary", "manifest", "rollback"} \subseteq Steps
  BY DEF Steps
<1>1. ASSUME NEW c \in Terminals, OthersWait(c), ~At(c, "manifest")', client' = client
      PROVE  ClientBeforeManifest'
  BY <1>1 DEF ClientBeforeManifest, OthersWait, At
<1>2. ASSUME NEW c \in Terminals, OthersWait(c), ~At(c, "manifest")', terminal[c].locked
      PROVE  ClientBeforeManifest'
  <2>1. \A d \in Terminals \ {c} : ~At(d, "manifest")
    BY <1>2, FileStep DEF OneHoldsTheLock
  <2> QED BY <1>2, <2>1 DEF ClientBeforeManifest, OthersWait, At
<1>3. CASE TurnComes \/ TurnEnds \/ DaemonRestarts
  BY <1>3 DEF TurnComes, TurnEnds, DaemonRestarts, ClientBeforeManifest, At
<1>4. ASSUME NEW c \in Terminals, Given(c) \/ SetUp(c) \/ Uninstalled(c)
      PROVE  ClientBeforeManifest'
  <2>1. PICK t \in CommandsUnderWay : terminal' = [terminal EXCEPT ![c] = t] /\ FollowsPlan(t)
    BY <1>4, BeginsContinues
  <2>2. terminal'[c] = t /\ (t.todo # <<>> => Head(t.todo) \in PlanSteps)
    BY <2>1 DEF Commanding, ServiceTypeOK, FollowsPlan, Planned
  <2>3. ~At(c, "manifest")'
    BY <2>2 DEF At, PlanSteps
  <2> QED BY <1>1, <1>4, <2>3, BeginsAlone
<1>5. ASSUME NEW c \in Terminals, Follows(c)
      PROVE  ClientBeforeManifest'
  BY <1>1, <1>5, FollowsContinues, FollowsLeavesClient, ContinuesNext, ContinuesAlone
<1>6. ASSUME NEW c \in Terminals, FindClient(c)
      PROVE  ClientBeforeManifest'
  <2>1. (Continues(c) \/ Writes(c, "binary")) /\ terminal[c].locked
    BY <1>6, FindContinues
  <2>2. OthersWait(c)
    BY <1>0, <2>1, ContinuesAlone
  <2>3. ~At(c, "manifest")'
    BY <2>1, ContinuesNext, WritesNext DEF At
  <2> QED BY <1>2, <2>1, <2>2, <2>3
<1>7. ASSUME NEW c \in Terminals, WriteClient(c) \/ RollBackClient(c)
      PROVE  ClientBeforeManifest'
  <2>1. terminal[c].locked /\ OthersWait(c)
    BY <1>0, <1>7, WriteContinues, ContinuesAlone
  <2>2. CASE Continues(c)
    BY <1>2, <2>1, <2>2, ContinuesNext
  <2>3. CASE Writes(c, "rollback")
    <3>1. ~At(c, "manifest")'
      BY <2>3, WritesNext DEF At
    <3> QED BY <1>2, <2>1, <3>1
  <2>4. CASE client' = [client EXCEPT !["binary"] = "new"]
    <3>1. client'.binary = "new"
      BY <2>4 DEF Commanding, ServiceTypeOK, Installations
    <3> QED BY <3>1 DEF ClientBeforeManifest
  <2> QED BY <1>7, <2>2, <2>3, <2>4, WriteContinues
<1> QED BY <1>3, <1>4, <1>5, <1>6, <1>7, ServiceCases

\* Half a client is owed, put back or admitted (installTunnelClient).
LEMMA ClientNext ==
  ASSUME Commanding, ClientBeforeManifest, ClientOwed, ServiceNext
  PROVE  ClientOwed'
<1>0. /\ {"binary", "manifest", "rollback"} \subseteq Steps
      /\ client \in Installations
  BY DEF Steps, Commanding, ServiceTypeOK
<1>1. ASSUME NEW c \in Terminals, OthersWait(c), ~At(c, "manifest"), ~At(c, "rollback"),
             client' = client, "client" \in admitted => "client" \in admitted'
      PROVE  ClientOwed'
  BY <1>1, StillOwing DEF ClientOwed
<1>2. CASE TurnComes \/ TurnEnds \/ DaemonRestarts
  <2>1. Owing("client")' <=> Owing("client")
    BY <1>2 DEF TurnComes, TurnEnds, DaemonRestarts, Owing, At
  <2> QED BY <1>2, <2>1 DEF TurnComes, TurnEnds, DaemonRestarts, Accepting, ClientOwed
<1>3. ASSUME NEW c \in Terminals, Given(c) \/ SetUp(c) \/ Uninstalled(c)
      PROVE  ClientOwed'
  BY <1>1, <1>3, BeginsAlone DEF AtPrompt, At
<1>4. ASSUME NEW c \in Terminals, Follows(c)
      PROVE  ClientOwed'
  <2>1. client' = client /\ OthersWait(c)
    BY <1>4, FollowsLeavesClient, FollowsContinues, ContinuesAlone
  <2>2. CASE Interrupted(c)
    BY <2>2 DEF Interrupted, ClientOwed
  <2>3. CASE ~Interrupted(c)
    <3>1. /\ ~At(c, "manifest") /\ ~At(c, "rollback")
      BY <1>4, <2>3 DEF Follows, At, NegotiatesDrain, Resume, Bootout, Bootstrap, StartService,
        InstallService, Unlist, CancelsTurns, SaveConfig, Proxy, PlanTunnel, StopTunnelService,
        StartTunnelService, Connect, StopTunnel
    <3>2. "client" \in admitted => "client" \in admitted'
      BY <1>4, <2>3 DEF Follows, NegotiatesDrain, Resume, Bootout, Bootstrap, StartService,
        InstallService, Unlist, CancelsTurns, SaveConfig, Proxy, PlanTunnel, StopTunnelService,
        StartTunnelService, Connect, StopTunnel, Accepting, Loads
    <3> QED BY <1>1, <2>1, <3>1, <3>2
  <2> QED BY <2>2, <2>3
<1>5. ASSUME NEW c \in Terminals, FindClient(c)
      PROVE  ClientOwed'
  <2>1. OthersWait(c) /\ ~At(c, "manifest") /\ ~At(c, "rollback")
    BY <1>0, <1>5, FindContinues, ContinuesAlone DEF FindClient, At
  <2>2. CASE client' = client /\ admitted' = admitted
    BY <1>1, <2>1, <2>2
  <2>3. CASE client' = [binary |-> "none", manifest |-> "none"]
    BY <2>3 DEF ClientOwed
  <2> QED BY <1>5, <2>2, <2>3 DEF FindClient
<1>6. ASSUME NEW c \in Terminals, WriteClient(c) \/ RollBackClient(c)
      PROVE  ClientOwed'
  <2>1. CASE RollBackClient(c)
    BY <2>1 DEF RollBackClient, ClientOwed
  <2>2. CASE Writes(c, "rollback") \/ Writes(c, "manifest")
    BY <2>2, WritesNext DEF ClientOwed, Owing
  <2>3. CASE At(c, "manifest") /\ client' = [client EXCEPT !["manifest"] = "new"]
    <3>1. client'.binary = client'.manifest
      BY <1>0, <2>3 DEF ClientBeforeManifest, Installations
    <3> QED BY <3>1 DEF ClientOwed
  <2> QED BY <1>6, <2>1, <2>2, <2>3, WriteContinues
<1> QED BY <1>2, <1>3, <1>4, <1>5, <1>6, ServiceCases

\* A runtime that validates a profile is to be stopped (bootstrapTunnelProfile).
LEMMA RuntimeNext ==
  ASSUME Commanding, RuntimeOwed, ServiceNext
  PROVE  RuntimeOwed'
<1>0. /\ {"binary", "manifest", "rollback"} \subseteq Steps
      /\ tunnelJob \in TunnelJobs
  BY DEF Steps, Commanding, ServiceTypeOK
<1>1. ASSUME NEW c \in Terminals, OthersWait(c), ~At(c, "disconnect"),
             tunnelJob'.temporary = tunnelJob.temporary,
             "runtime" \in admitted => "runtime" \in admitted'
      PROVE  RuntimeOwed'
  BY <1>1, StillOwing DEF RuntimeOwed
<1>2. CASE TurnComes \/ TurnEnds \/ DaemonRestarts
  <2>1. Owing("runtime")' <=> Owing("runtime")
    BY <1>2 DEF TurnComes, TurnEnds, DaemonRestarts, Owing, At
  <2> QED BY <1>2, <2>1 DEF TurnComes, TurnEnds, DaemonRestarts, Accepting, RuntimeOwed
<1>3. ASSUME NEW c \in Terminals, Given(c) \/ SetUp(c) \/ Uninstalled(c)
      PROVE  RuntimeOwed'
  BY <1>1, <1>3, BeginsAlone DEF AtPrompt, At
<1>4. ASSUME NEW c \in Terminals, Follows(c)
      PROVE  RuntimeOwed'
  <2>1. Continues(c) /\ OthersWait(c)
    BY <1>4, FollowsContinues, ContinuesAlone
  <2>2. CASE Interrupted(c)
    BY <2>2 DEF Interrupted, RuntimeOwed
  <2>3. CASE StopTunnel(c)
    BY <1>0, <2>3 DEF StopTunnel, RuntimeOwed, TunnelJobs
  <2>4. CASE Connect(c)
    <3>1. Advances(c) \/ Goes(c, <<"disconnect">>)
      BY <2>4 DEF Connect
    <3>2. Len(Rest(c)) > 0 /\ Rest(c)[1] = "disconnect" /\ Rest(c) \in Seq(PlanSteps)
      BY <2>4, PlanStep DEF Connect, PlanSteps, Planned
    <3>3. Rest(c) # <<>> /\ Head(Rest(c)) = "disconnect"
      BY <3>2
    <3>4. CASE Advances(c)
      <4>1. terminal'[c].todo = Rest(c)
        BY <3>3, <3>4, NextStep DEF Advances
      <4> QED BY <3>3, <4>1 DEF At, RuntimeOwed, Owing
    <3>5. CASE Goes(c, <<"disconnect">>)
      <4>1. terminal'[c].todo = <<"disconnect">>
        BY <3>5, NextStep
      <4> QED BY <4>1 DEF At, RuntimeOwed, Owing
    <3> QED BY <3>1, <3>4, <3>5
  <2>5. CASE ~(Interrupted(c) \/ StopTunnel(c) \/ Connect(c))
    <3>1. ~At(c, "disconnect")
      BY <1>4, <2>5 DEF Follows, At, NegotiatesDrain, Resume, Bootout, Bootstrap, StartService,
        InstallService, Unlist, CancelsTurns, SaveConfig, Proxy, PlanTunnel, StopTunnelService,
        StartTunnelService
    <3>2. "runtime" \in admitted => "runtime" \in admitted'
      BY <1>4, <2>5 DEF Follows, NegotiatesDrain, Resume, Bootout, Bootstrap, StartService,
        InstallService, Unlist, CancelsTurns, SaveConfig, Proxy, PlanTunnel, StopTunnelService,
        StartTunnelService, Accepting, Loads
    <3>3. /\ \A b \in BOOLEAN :
               /\ [tunnelJob EXCEPT !.installed = b].temporary = tunnelJob.temporary
               /\ [tunnelJob EXCEPT !.loaded = b].temporary = tunnelJob.temporary
          /\ [tunnelJob EXCEPT !.installed = TRUE, !.loaded = TRUE].temporary = tunnelJob.temporary
      BY <1>0 DEF TunnelJobs
    <3>4. tunnelJob'.temporary = tunnelJob.temporary
      <4>1. CASE Unlist(c)
        BY <4>1, <3>3 DEF Unlist
      <4>2. CASE StopTunnelService(c) \/ StartTunnelService(c)
        BY <4>2, <3>3 DEF StopTunnelService, StartTunnelService
      <4>3. CASE ~(Unlist(c) \/ StopTunnelService(c) \/ StartTunnelService(c))
        BY <4>3, <1>4, <2>5 DEF Follows, NegotiatesDrain, Resume, Bootout, Bootstrap, StartService,
          InstallService, CancelsTurns, SaveConfig, Proxy, PlanTunnel
      <4> QED BY <4>1, <4>2, <4>3
    <3> QED BY <1>1, <2>1, <3>1, <3>2, <3>4
  <2> QED BY <2>2, <2>3, <2>4, <2>5
<1>5. ASSUME NEW c \in Terminals, FindClient(c) \/ WriteClient(c) \/ RollBackClient(c)
      PROVE  RuntimeOwed'
  <2>1. OthersWait(c)
    BY <1>0, <1>5, FindContinues, WriteContinues, ContinuesAlone
  <2>2. ~At(c, "disconnect") /\ tunnelJob' = tunnelJob
    BY <1>5 DEF FindClient, WriteClient, RollBackClient, At
  <2>3. "runtime" \in admitted => "runtime" \in admitted'
    BY <1>5 DEF FindClient, WriteClient, RollBackClient
  <2> QED BY <1>1, <2>1, <2>2, <2>3
<1> QED BY <1>2, <1>3, <1>4, <1>5, ServiceCases

\* The installation begins with every terminal at its prompt.
LEMMA ServiceInitially == ServiceInit => ServiceIInv
<1> SUFFICES ASSUME ServiceInit PROVE ServiceIInv
  OBVIOUS
<1>1. ServiceTypeOK
  BY PromptOK DEF ServiceInit, ServiceTypeOK, Services, TunnelJobs, Installations, Clients
<1>2. CommandsKnowWhatIsLeft /\ OneHoldsTheLock
  BY PromptOK DEF ServiceInit, CommandsKnowWhatIsLeft, OneHoldsTheLock
<1>3. ClientBeforeManifest
  BY PromptOK DEF ServiceInit, ClientBeforeManifest, At
<1>4. ~service.draining /\ client.binary = client.manifest /\ ~tunnelJob.temporary
  BY DEF ServiceInit
<1> QED BY <1>1, <1>2, <1>3, <1>4 DEF ServiceIInv, LeavesNothingHalf

\* Every step keeps the inductive invariant.
LEMMA ServiceStep == ServiceIInv /\ [ServiceNext]_serviceVars => ServiceIInv'
<1> SUFFICES ASSUME ServiceIInv, [ServiceNext]_serviceVars PROVE ServiceIInv'
  OBVIOUS
<1>1. CASE ServiceNext
  <2>1. Commanding /\ OneHoldsTheLock /\ ClientBeforeManifest /\ ServiceTypeOK
    BY DEF ServiceIInv, Commanding
  <2>2. DrainOwed /\ ClientOwed /\ RuntimeOwed
    BY OwedParts DEF ServiceIInv
  <2>3. ServiceTypeOK'
    BY <1>1, <2>1, TerminalsNext, ServicesNext, FilesNext DEF ServiceTypeOK
  <2>4. (DrainOwed /\ ClientOwed /\ RuntimeOwed)'
    BY <1>1, <2>1, <2>2, DrainNext, ClientNext, RuntimeNext
  <2>5. LeavesNothingHalf'
    BY <2>4 DEF LeavesNothingHalf, DrainOwed, ClientOwed, RuntimeOwed
  <2> QED BY <1>1, <2>1, <2>3, <2>5, TerminalsNext, ManifestNext DEF ServiceIInv
<1>2. CASE UNCHANGED serviceVars
  BY <1>2 DEF serviceVars, ServiceIInv, ServiceTypeOK, CommandsKnowWhatIsLeft, OneHoldsTheLock,
    ClientBeforeManifest, LeavesNothingHalf, Owing, At
<1> QED BY <1>1, <1>2

\* Whatever calls fail or lose their answers and however commands of several terminals come
\* between each other, each command has a plan that ends its drain, one has the lock, and
\* the client's manifest is written after its binary (service.ts, tunnel.ts, setup.ts).
THEOREM ServiceConsistent == ServiceSpec => []ServiceIInv
BY ServiceInitially, ServiceStep, PTL DEF ServiceSpec

\* A daemon that drains, half a tunnel client or a validating runtime is some command's to
\* put right, or was admitted by one that ended (negotiateDrain, installTunnelClient,
\* bootstrapTunnelProfile), for any number of terminals and faults.
THEOREM CommandsLeaveNothingHalf == ServiceSpec => []LeavesNothingHalf
<1>1. ServiceIInv => LeavesNothingHalf
  BY DEF ServiceIInv
<1> QED BY <1>1, ServiceConsistent, PTL
=============================================================================
