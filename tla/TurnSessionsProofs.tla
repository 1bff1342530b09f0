------------------------- MODULE TurnSessionsProofs -------------------------
(***************************************************************************)
(* What the registry of browser turns guarantees for every number of keys, *)
(* threads, requests and sessions: a thread owns one live surface; and     *)
(* what the pipes of the browser helper guarantee for every number of runs *)
(* and traces: a pending run is answered by its own turn.                  *)
(***************************************************************************)
EXTENDS TurnSessions, HelperPipe, TLAPS

(* The helpers of the registry, typed.                                     *)

LEMMA CancelTypes ==
  ASSUME TypeOK, NEW S, NEW w \in BOOLEAN, Cancel(S, w)
  PROVE  /\ aborted' \in [Sessions -> BOOLEAN]
         /\ outcome' \in [Sessions -> {"none", "final", "error"}]
<1>1. aborted' \in [Sessions -> BOOLEAN]
  BY ZenonT(30) DEF TypeOK, Cancel
<1>2. outcome' \in [Sessions -> {"none", "final", "error"}]
  BY ZenonT(30) DEF TypeOK, Cancel
<1> QED BY <1>1, <1>2

LEMMA ForgetTypes ==
  ASSUME TypeOK, NEW S, Forget(S), S \subseteq Sessions
  PROVE  /\ entries' \in [Keys -> Sessions \cup {None}]
         /\ conversationHeads' \in [Conversations -> Sessions \cup {None}]
         /\ forgotten' \in SUBSET Sessions
BY DEF TypeOK, Forget

LEMMA RetirementTypes ==
  ASSUME TypeOK, NEW S, NEW w \in BOOLEAN, BeginRetirement(S, w), S \subseteq Sessions
  PROVE  /\ aborted' \in [Sessions -> BOOLEAN]
         /\ outcome' \in [Sessions -> {"none", "final", "error"}]
         /\ retirements' \in [Keys -> Sessions \cup {None}]
         /\ ownerRetirements' \in [Owners -> SUBSET Sessions]
         /\ conversationRetirements' \in [Conversations -> SUBSET Sessions]
<1> DEFINE fresh == {s \in S : \E k \in Keys : entries[k] = s /\ retirements[k] = None}
           pending == {s \in fresh : ~settled[s]}
<1>1. Cancel(fresh, w) BY DEF BeginRetirement
<1>2. retirements' = [k \in Keys |-> IF entries[k] \in pending THEN entries[k] ELSE retirements[k]]
  BY DEF BeginRetirement
<1>3. pending \subseteq Sessions OBVIOUS
<1>4. retirements' \in [Keys -> Sessions \cup {None}]
  <2> HIDE DEF pending
  <2> QED BY <1>2, <1>3 DEF TypeOK
<1>5. /\ ownerRetirements' \in [Owners -> SUBSET Sessions]
      /\ conversationRetirements' \in [Conversations -> SUBSET Sessions]
  BY DEF TypeOK, BeginRetirement
<1>6. aborted' \in [Sessions -> BOOLEAN] /\ outcome' \in [Sessions -> {"none", "final", "error"}]
  <2> HIDE DEF fresh
  <2> QED BY <1>1, CancelTypes
<1> QED BY <1>4, <1>5, <1>6

\* Retiring sessions and leaving the rest of the registry alone keeps the types.
LEMMA RetireTypes ==
  ASSUME TypeOK, NEW S, NEW w \in BOOLEAN, Retire(S, w), S \subseteq Sessions,
         UNCHANGED retireUnchanged,
         pc' \in [Requests -> {"idle", "replacing", "looking", "waiting", "serving"}],
         asks' \in [Requests -> Keys \cup {None}],
         waitsFor' \in [Requests -> SUBSET Sessions],
         serves' \in [Requests -> Sessions \cup {None}]
  PROVE  TypeOK'
<1>1. Forget(S) /\ BeginRetirement(S, w)
  BY DEF Retire
<1>2. /\ entries' \in [Keys -> Sessions \cup {None}]
      /\ conversationHeads' \in [Conversations -> Sessions \cup {None}]
      /\ forgotten' \in SUBSET Sessions
  BY <1>1, ForgetTypes
<1>3. /\ aborted' \in [Sessions -> BOOLEAN]
      /\ outcome' \in [Sessions -> {"none", "final", "error"}]
      /\ retirements' \in [Keys -> Sessions \cup {None}]
      /\ ownerRetirements' \in [Owners -> SUBSET Sessions]
      /\ conversationRetirements' \in [Conversations -> SUBSET Sessions]
  BY <1>1, RetirementTypes
<1> QED BY <1>2, <1>3 DEF TypeOK, retireUnchanged

\* What the request variables may become.
RequestTypes ==
  /\ pc \in [Requests -> {"idle", "replacing", "looking", "waiting", "serving"}]
  /\ asks \in [Requests -> Keys \cup {None}]
  /\ waitsFor \in [Requests -> SUBSET Sessions]
  /\ serves \in [Requests -> Sessions \cup {None}]
  /\ RequestsAsk

\* A handler that returns forgets its request.
LEMMA FinishTypes ==
  ASSUME TypeOK, RequestsAsk, NEW r \in Requests, Finish(r)
  PROVE  RequestTypes'
<1>1. pc' \in [Requests -> {"idle", "replacing", "looking", "waiting", "serving"}]
  BY DEF TypeOK, Finish, Goto
<1>2. asks' \in [Requests -> Keys \cup {None}] /\ serves' \in [Requests -> Sessions \cup {None}]
  BY DEF TypeOK, Finish
<1>3. waitsFor' \in [Requests -> SUBSET Sessions]
  BY DEF TypeOK, Finish
<1>4. RequestsAsk'
  BY DEF TypeOK, RequestsAsk, Finish, Goto
<1> QED BY <1>1, <1>2, <1>3, <1>4 DEF RequestTypes

\* A request that moves on keeps its key.
LEMMA GotoTypes ==
  ASSUME TypeOK, RequestsAsk, NEW r \in Requests, pc[r] # "idle",
         NEW l \in {"replacing", "looking", "waiting", "serving"}, Goto(r, l), UNCHANGED asks
  PROVE  /\ pc' \in [Requests -> {"idle", "replacing", "looking", "waiting", "serving"}]
         /\ asks' \in [Requests -> Keys \cup {None}]
         /\ RequestsAsk'
<1>1. pc' \in [Requests -> {"idle", "replacing", "looking", "waiting", "serving"}]
  BY DEF TypeOK, Goto
<1>2. RequestsAsk'
  BY DEF TypeOK, RequestsAsk, Goto
<1> QED BY <1>1, <1>2 DEF TypeOK

\* Every step of a request keeps the types.
LEMMA RequestTypeStep ==
  ASSUME TypeOK, RequestsAsk, NEW r \in Requests, RequestStep(r)
  PROVE  TypeOK' /\ RequestsAsk'
<1>1. ASSUME NEW k \in Keys, NEW interrupted \in SUBSET Turns, Arrive(r, k, interrupted)
      PROVE  TypeOK' /\ RequestsAsk'
  <2> DEFINE S == {s \in ActiveEntries : entries[k] # s /\ OwnedBy(s, OwnerOf[k])
                                           /\ TurnOf[sessionKey[s]] \in interrupted}
  <2>1. Retire(S, FALSE) /\ UNCHANGED retireUnchanged
    BY <1>1 DEF Arrive
  <2>2. S \subseteq Sessions
    BY DEF ActiveEntries
  <2>3. asks' \in [Requests -> Keys \cup {None}] /\ RequestsAsk'
    BY <1>1 DEF TypeOK, RequestsAsk, Arrive, Goto
  <2>4. pc' \in [Requests -> {"idle", "replacing", "looking", "waiting", "serving"}]
    BY <1>1 DEF TypeOK, Arrive, Goto
  <2>5. /\ waitsFor' \in [Requests -> SUBSET Sessions]
        /\ serves' \in [Requests -> Sessions \cup {None}]
    BY <1>1 DEF TypeOK, Arrive
  <2> HIDE DEF S
  <2> QED BY <2>1, <2>2, <2>3, <2>4, <2>5, RetireTypes
<1>2. ASSUME Replace(r) PROVE TypeOK' /\ RequestsAsk'
  <2> DEFINE source == Replaces[asks[r]]
             S == IF retirements[source] = None THEN {entries[source]} \cap Sessions ELSE {}
  <2>1. Retire(S, FALSE) /\ UNCHANGED retireUnchanged
    BY <1>2 DEF Replace
  <2>2. S \subseteq Sessions
    OBVIOUS
  <2>3. /\ pc' \in [Requests -> {"idle", "replacing", "looking", "waiting", "serving"}]
        /\ asks' \in [Requests -> Keys \cup {None}]
        /\ RequestsAsk'
    BY <1>2, GotoTypes DEF Replace
  <2>4. /\ waitsFor' \in [Requests -> SUBSET Sessions]
        /\ serves' \in [Requests -> Sessions \cup {None}]
    BY <1>2, <2>2 DEF TypeOK, Replace
  <2> HIDE DEF S
  <2> QED BY <2>1, <2>2, <2>3, <2>4, RetireTypes
<1>3. ASSUME Join(r) PROVE TypeOK' /\ RequestsAsk'
  <2>1. UNCHANGED <<registryVars, sessionVars, historyVars>>
    BY <1>3 DEF Join
  <2>2. CASE supersededError[Existing(r)] /\ Finish(r)
    BY <2>1, <2>2, FinishTypes DEF TypeOK, RequestTypes, registryVars, sessionVars, historyVars
  <2>3. CASE ~supersededError[Existing(r)]
    <3>1. /\ pc' \in [Requests -> {"idle", "replacing", "looking", "waiting", "serving"}]
          /\ asks' \in [Requests -> Keys \cup {None}]
          /\ RequestsAsk'
      BY <1>3, <2>3, GotoTypes DEF Join
    <3>2. Existing(r) \in Sessions
      BY <1>3 DEF Join, Existing, TypeOK, RequestsAsk
    <3>3. waitsFor' = waitsFor /\ serves' \in [Requests -> Sessions \cup {None}]
      BY <1>3, <2>3, <3>2 DEF Join, TypeOK
    <3> QED BY <2>1, <3>1, <3>3 DEF TypeOK, registryVars, sessionVars, historyVars
  <2> QED BY <1>3, <2>2, <2>3 DEF Join
<1>4. ASSUME AwaitRetirement(r) PROVE TypeOK' /\ RequestsAsk'
  <2>1. Pending(r) \subseteq Sessions
    BY <1>4, Shapes DEF AwaitRetirement, Pending, TypeOK, RequestsAsk
  <2>2. /\ pc' \in [Requests -> {"idle", "replacing", "looking", "waiting", "serving"}]
        /\ asks' \in [Requests -> Keys \cup {None}]
        /\ RequestsAsk'
    BY <1>4, GotoTypes DEF AwaitRetirement
  <2>3. waitsFor' \in [Requests -> SUBSET Sessions]
    BY <1>4, <2>1 DEF AwaitRetirement, TypeOK
  <2> QED BY <1>4, <2>2, <2>3 DEF AwaitRetirement, TypeOK, registryVars, sessionVars, historyVars
<1>5. ASSUME NEW s \in Sessions, Supersede(r, s) PROVE TypeOK' /\ RequestsAsk'
  <2>1. BeginRetirement({s}, TRUE) /\ UNCHANGED <<entries, created, sessionKey, settled, attached,
                                                 toolsOut, asks, serves, historyVars>>
    BY <1>5 DEF Supersede
  <2>2. /\ aborted' \in [Sessions -> BOOLEAN]
        /\ outcome' \in [Sessions -> {"none", "final", "error"}]
        /\ retirements' \in [Keys -> Sessions \cup {None}]
        /\ ownerRetirements' \in [Owners -> SUBSET Sessions]
        /\ conversationRetirements' \in [Conversations -> SUBSET Sessions]
    BY <2>1, RetirementTypes
  <2>3. /\ pc' \in [Requests -> {"idle", "replacing", "looking", "waiting", "serving"}]
        /\ asks' \in [Requests -> Keys \cup {None}]
        /\ RequestsAsk'
    BY <1>5, GotoTypes DEF Supersede, LooksAt
  <2>4. /\ supersededError' \in [Sessions -> BOOLEAN]
        /\ waitsFor' \in [Requests -> SUBSET Sessions]
        /\ conversationHeads' \in [Conversations -> Sessions \cup {None}]
    BY <1>5 DEF Supersede, TypeOK
  <2> QED BY <2>1, <2>2, <2>3, <2>4 DEF TypeOK, historyVars
<1>6. ASSUME NEW s \in Sessions, RefuseStale(r, s) PROVE TypeOK' /\ RequestsAsk'
  BY <1>6, FinishTypes DEF RefuseStale, TypeOK, RequestTypes, registryVars, sessionVars, historyVars
<1>7. ASSUME NEW s \in Sessions, AwaitOwner(r, s) PROVE TypeOK' /\ RequestsAsk'
  <2>1. /\ pc' \in [Requests -> {"idle", "replacing", "looking", "waiting", "serving"}]
        /\ asks' \in [Requests -> Keys \cup {None}]
        /\ RequestsAsk'
    BY <1>7, GotoTypes DEF AwaitOwner, LooksAt
  <2>2. waitsFor' \in [Requests -> SUBSET Sessions]
    BY <1>7 DEF AwaitOwner, TypeOK
  <2> QED BY <1>7, <2>1, <2>2 DEF AwaitOwner, TypeOK, registryVars, sessionVars, historyVars
<1>8. ASSUME NEW stale \in SUBSET Sessions, GetOrCreate(r, stale) PROVE TypeOK' /\ RequestsAsk'
  <2>1. /\ forgotten' \in SUBSET Sessions
        /\ pruned' \in SUBSET Sessions
        /\ aborted' \in [Sessions -> BOOLEAN]
    <3>1. aborted' \in [Sessions -> BOOLEAN]
      BY <1>8, ZenonT(30) DEF GetOrCreate, TypeOK
    <3> QED BY <1>8, <3>1 DEF GetOrCreate, TypeOK
  <2>2. UNCHANGED <<retirements, ownerRetirements, conversationRetirements, outcome, settled,
                    supersededError, toolsOut, closed>>
    BY <1>8 DEF GetOrCreate
  <2>3. asks[r] \in Keys
    BY <1>8 DEF GetOrCreate, LooksAt, RequestsAsk
  <2>4. CASE Full
    <3>1. /\ entries' \in [Keys -> Sessions \cup {None}]
          /\ conversationHeads' \in [Conversations -> Sessions \cup {None}]
          /\ UNCHANGED <<created, sessionKey, attached>>
      BY <1>8, <2>4 DEF GetOrCreate, TypeOK
    <3>2. RequestTypes'
      BY <1>8, <2>4, FinishTypes DEF GetOrCreate
    <3> QED BY <2>1, <2>2, <3>1, <3>2 DEF TypeOK, RequestTypes
  <2>5. CASE ~Full
    <3>1. created' \in 0..MaxSessions /\ created + 1 \in Sessions
      BY <1>8, <2>5, Shapes DEF GetOrCreate, TypeOK, Sessions
    <3>2. /\ entries' \in [Keys -> Sessions \cup {None}]
          /\ conversationHeads' \in [Conversations -> Sessions \cup {None}]
      BY <1>8, <2>5, <3>1 DEF GetOrCreate, TypeOK
    <3>3. /\ sessionKey' \in [Sessions -> Keys \cup {None}]
          /\ attached' \in [Sessions -> Conversations \cup {None}]
      <4>1. ConversationOf[asks[r]] \in Conversations \cup {None}
        BY <2>3, Shapes
      <4>2. /\ sessionKey' = [sessionKey EXCEPT ![created + 1] = asks[r]]
            /\ attached' = [attached EXCEPT ![created + 1] = ConversationOf[asks[r]]]
        BY <1>8, <2>5 DEF GetOrCreate
      <4> QED BY <2>3, <3>1, <4>1, <4>2 DEF TypeOK
    <3>4. serves' \in [Requests -> Sessions \cup {None}] /\ waitsFor' = waitsFor
      BY <1>8, <2>5, <3>1 DEF GetOrCreate, TypeOK
    <3>5. /\ pc' \in [Requests -> {"idle", "replacing", "looking", "waiting", "serving"}]
          /\ asks' \in [Requests -> Keys \cup {None}]
          /\ RequestsAsk'
      BY <1>8, <2>5, GotoTypes DEF GetOrCreate, LooksAt
    <3> QED BY <2>1, <2>2, <3>1, <3>2, <3>3, <3>4, <3>5 DEF TypeOK
  <2> QED BY <2>4, <2>5
<1>9. ASSUME Resume(r) PROVE TypeOK' /\ RequestsAsk'
  <2>1. /\ pc' \in [Requests -> {"idle", "replacing", "looking", "waiting", "serving"}]
        /\ asks' \in [Requests -> Keys \cup {None}]
        /\ RequestsAsk'
    BY <1>9, GotoTypes DEF Resume
  <2>2. waitsFor' \in [Requests -> SUBSET Sessions]
    BY <1>9 DEF Resume, TypeOK
  <2> QED BY <1>9, <2>1, <2>2 DEF Resume, TypeOK, registryVars, sessionVars, historyVars
<1>10. ASSUME NEW s \in Sessions, DeliverResults(r, s) PROVE TypeOK' /\ RequestsAsk'
  <2>1. toolsOut' \in [Sessions -> BOOLEAN]
    BY <1>10 DEF DeliverResults, TypeOK
  <2> QED BY <1>10, <2>1 DEF DeliverResults, TypeOK, RequestsAsk, serveUnchanged, registryVars,
                             requestVars, historyVars
<1>11. ASSUME NEW s \in Sessions, EmitToolBatch(r, s) \/ Answer(r, s) \/ FailReplayable(r, s)
       PROVE  TypeOK' /\ RequestsAsk'
  <2>1. RequestTypes'
    BY <1>11, FinishTypes DEF EmitToolBatch, Answer, FailReplayable
  <2>2. toolsOut' \in [Sessions -> BOOLEAN] /\ aborted' \in [Sessions -> BOOLEAN]
    BY <1>11 DEF EmitToolBatch, Answer, FailReplayable, TypeOK
  <2>3. UNCHANGED serveUnchanged
    BY <1>11 DEF EmitToolBatch, Answer, FailReplayable
  <2> QED BY <2>1, <2>2, <2>3 DEF TypeOK, RequestTypes, serveUnchanged, registryVars, historyVars
<1>12. ASSUME NEW s \in Sessions, FailAndRetire(r, s) PROVE TypeOK' /\ RequestsAsk'
  <2> DEFINE S == IF Retires(r, s) THEN {entries[asks[r]]} ELSE {}
  <2>1. Retire(S, FALSE) /\ UNCHANGED retireUnchanged /\ Finish(r)
    BY <1>12 DEF FailAndRetire
  <2>2. S \subseteq Sessions
    BY DEF Retires
  <2>3. RequestTypes'
    BY <2>1, FinishTypes
  <2> HIDE DEF S
  <2> QED BY <2>1, <2>2, <2>3, RetireTypes DEF RequestTypes
<1>13. ASSUME Disconnect(r) PROVE TypeOK' /\ RequestsAsk'
  BY <1>13, FinishTypes DEF Disconnect, TypeOK, RequestTypes, registryVars, sessionVars, historyVars
<1> QED
  BY <1>1, <1>2, <1>3, <1>4, <1>5, <1>6, <1>7, <1>8, <1>9, <1>10, <1>11, <1>12, <1>13
     DEF RequestStep

\* So does every step of the browser, of the daemon and of a compaction.
LEMMA OtherTypeStep ==
  ASSUME TypeOK, RequestsAsk, BrowserStep \/ AdminStep \/ CompactionStep
  PROVE  TypeOK' /\ RequestsAsk'
<1>1. ASSUME NEW s \in Sessions, NEW result \in {"final", "error"}, RunEnds(s, result)
      PROVE  TypeOK' /\ RequestsAsk'
  <2>1. /\ settled' \in [Sessions -> BOOLEAN]
        /\ toolsOut' \in [Sessions -> BOOLEAN]
        /\ outcome' \in [Sessions -> {"none", "final", "error"}]
    BY <1>1 DEF RunEnds, TypeOK
  <2>2. /\ retirements' \in [Keys -> Sessions \cup {None}]
        /\ ownerRetirements' \in [Owners -> SUBSET Sessions]
        /\ conversationRetirements' \in [Conversations -> SUBSET Sessions]
    BY <1>1 DEF RunEnds, TypeOK
  <2> QED BY <1>1, <2>1, <2>2 DEF RunEnds, TypeOK, RequestsAsk, requestVars, historyVars
<1>2. ASSUME NEW s \in Sessions, CancelTrace(s) PROVE TypeOK' /\ RequestsAsk'
  <2>1. /\ aborted' \in [Sessions -> BOOLEAN]
        /\ outcome' \in [Sessions -> {"none", "final", "error"}]
    BY <1>2, CancelTypes DEF CancelTrace
  <2> QED BY <1>2, <2>1 DEF CancelTrace, TypeOK, RequestsAsk, registryVars, requestVars, historyVars
<1>3. ASSUME NEW t \in Turns, CancelNativeTurn(t) PROVE TypeOK' /\ RequestsAsk'
  <2> DEFINE S == {s \in Sessions : Registered(s) /\ TurnOf[sessionKey[s]] = t}
  <2>1. Retire(S, TRUE) /\ UNCHANGED retireUnchanged /\ UNCHANGED requestVars
    BY <1>3 DEF CancelNativeTurn
  <2>2. S \subseteq Sessions OBVIOUS
  <2> HIDE DEF S
  <2> QED BY <2>1, <2>2, RetireTypes DEF requestVars, TypeOK, RequestsAsk
<1>4. ASSUME Clear PROVE TypeOK' /\ RequestsAsk'
  <2> DEFINE S == {s \in Sessions : Registered(s)}
  <2>1. BeginRetirement(S, FALSE) /\ UNCHANGED retireUnchanged /\ UNCHANGED requestVars
    BY <1>4 DEF Clear
  <2>2. /\ aborted' \in [Sessions -> BOOLEAN]
        /\ outcome' \in [Sessions -> {"none", "final", "error"}]
        /\ retirements' \in [Keys -> Sessions \cup {None}]
        /\ ownerRetirements' \in [Owners -> SUBSET Sessions]
        /\ conversationRetirements' \in [Conversations -> SUBSET Sessions]
    BY <2>1, RetirementTypes
  <2>3. /\ entries' \in [Keys -> Sessions \cup {None}]
        /\ conversationHeads' \in [Conversations -> Sessions \cup {None}]
        /\ forgotten' \in SUBSET Sessions
    BY <1>4 DEF Clear, TypeOK
  <2> QED BY <2>1, <2>2, <2>3 DEF TypeOK, RequestsAsk, retireUnchanged, requestVars
<1>5. ASSUME NEW stale \in SUBSET Sessions, ActiveCount(stale) PROVE TypeOK' /\ RequestsAsk'
  <2>1. aborted' \in [Sessions -> BOOLEAN]
    BY <1>5, ZenonT(30) DEF ActiveCount, TypeOK
  <2>2. /\ entries' \in [Keys -> Sessions \cup {None}]
        /\ conversationHeads' \in [Conversations -> Sessions \cup {None}]
        /\ forgotten' \in SUBSET Sessions
    BY <1>5, ForgetTypes DEF ActiveCount
  <2> QED BY <1>5, <2>1, <2>2 DEF ActiveCount, TypeOK, RequestsAsk, requestVars
<1>6. ASSUME NEW c \in Conversations, NEW k \in Keys, NEW kept \in Sessions \cup {None},
             CloseConversation(c, kept, k)
      PROVE  TypeOK' /\ RequestsAsk'
  <2>1. /\ entries' \in [Keys -> Sessions \cup {None}]
        /\ conversationHeads' \in [Conversations -> Sessions \cup {None}]
    BY <1>6 DEF CloseConversation, TypeOK
  <2>2. /\ attached' \in [Sessions -> Conversations \cup {None}]
        /\ conversationRetirements' \in [Conversations -> SUBSET Sessions]
        /\ closed' \in SUBSET Sessions
        /\ forgotten' \in SUBSET Sessions
    BY <1>6 DEF CloseConversation, TypeOK
  <2>3. aborted' \in [Sessions -> BOOLEAN]
    BY <1>6, ZenonT(30) DEF CloseConversation, TypeOK
  <2> QED BY <1>6, <2>1, <2>2, <2>3 DEF CloseConversation, TypeOK, RequestsAsk, requestVars
<1> QED
  BY <1>1, <1>2, <1>3, <1>4, <1>5, <1>6 DEF BrowserStep, AdminStep, CompactionStep

\* The initial state is well typed.
LEMMA TypeInit == SessionsInit => TypeOK /\ RequestsAsk
<1> SUFFICES ASSUME SessionsInit PROVE TypeOK /\ RequestsAsk
  OBVIOUS
<1>1. created \in 0..MaxSessions
  BY Shapes DEF SessionsInit
<1>2. RequestsAsk
  BY DEF SessionsInit, RequestsAsk
<1> QED BY <1>1, <1>2, ZenonT(30) DEF SessionsInit, TypeOK

\* Every step keeps the types.
LEMMA TypeNext ==
  ASSUME TypeOK, RequestsAsk, [SessionsNext]_sessionsVars PROVE TypeOK' /\ RequestsAsk'
<1>1. CASE UNCHANGED sessionsVars
  BY <1>1 DEF TypeOK, RequestsAsk, sessionsVars, registryVars, sessionVars, requestVars, historyVars
<1>2. CASE SessionsNext
  BY <1>2, RequestTypeStep, OtherTypeStep DEF SessionsNext
<1> QED BY <1>1, <1>2

\* The registry of turn-execution.ts keeps its types: in particular a request
\* only ever waits for sessions and only serves one.
THEOREM SessionsTyped == SessionsSpec => []TypeOK
<1>1. SessionsInit => TypeOK /\ RequestsAsk
  BY TypeInit
<1>2. TypeOK /\ RequestsAsk /\ [SessionsNext]_sessionsVars => (TypeOK /\ RequestsAsk)'
  BY TypeNext
<1> QED BY <1>1, <1>2, PTL DEF SessionsSpec

-----------------------------------------------------------------------------
(* One surface per thread.                                                 *)

\* What the invariant says beyond the types.
Tracked ==
  /\ EntriesMatch
  /\ FinalIsSettled
  /\ RetirementsTracked
  /\ SessionsKeyed
  /\ SurfacesTracked
  /\ OneSurfacePerThread

trackedVars == <<entries, retirements, ownerRetirements, created, sessionKey, outcome, settled,
                 pruned, closed>>

\* A surface can only be released, so without a new session there is no second.
LEMMA NoNewSurface ==
  ASSUME TypeOK, OneSurfacePerThread, created' = created, sessionKey' = sessionKey,
         \A s \in Sessions : settled[s] => settled'[s],
         pruned \subseteq pruned', closed \subseteq closed'
  PROVE  OneSurfacePerThread'
BY DEF OneSurfacePerThread, Live

\* Retirement: whatever leaves the registry is waited for by its owner.
LEMMA RetireTracks ==
  ASSUME TypeOK, Tracked, NEW S, NEW w \in BOOLEAN, S \subseteq Sessions, BeginRetirement(S, w),
         entries' \in [Keys -> Sessions \cup {None}],
         \A k \in Keys : entries'[k] = entries[k] \/ (entries[k] \in S /\ entries'[k] = None),
         UNCHANGED <<created, sessionKey, settled, pruned, closed>>
  PROVE  Tracked'
<1> DEFINE fresh == {s \in S : \E k \in Keys : entries[k] = s /\ retirements[k] = None}
           pending == {s \in fresh : ~settled[s]}
<1>1. /\ Cancel(fresh, w)
      /\ retirements' = [k \in Keys |-> IF entries[k] \in pending THEN entries[k] ELSE retirements[k]]
      /\ ownerRetirements' = [o \in Owners |->
                                ownerRetirements[o] \cup {s \in pending : RetiresOwner(s, o)}]
  BY DEF BeginRetirement
<1>2. \A s \in pending : s \in Sessions /\ s \in S /\ ~settled[s]
                          /\ \E k \in Keys : entries[k] = s /\ retirements[k] = None
  OBVIOUS
<1>3. \A s \in S : ~settled[s] /\ (\E k \in Keys : entries[k] = s /\ retirements[k] = None)
                   => s \in pending
  OBVIOUS
<1> HIDE DEF pending, fresh
<1>4. \A k \in Keys : entries[k] \in pending =>
        entries[k] \in ownerRetirements'[OwnerOf[k]] /\ OwnerOf[k] \in Owners
  <2> SUFFICES ASSUME NEW k \in Keys, entries[k] \in pending
               PROVE  entries[k] \in ownerRetirements'[OwnerOf[k]] /\ OwnerOf[k] \in Owners
    OBVIOUS
  <2>1. OwnerOf[k] \in Owners
    BY Shapes
  <2>2. entries[k] \in Sessions /\ ~settled[entries[k]] /\ entries[k] # None
    BY <1>2, Shapes DEF Sessions
  <2>3. OwnedBy(entries[k], OwnerOf[k])
    BY <2>2 DEF Tracked, EntriesMatch, OwnedBy
  <2> QED BY <1>1, <2>1, <2>3 DEF RetiresOwner
<1>5. \A o \in Owners : ownerRetirements[o] \subseteq ownerRetirements'[o]
  BY <1>1
<1>6. EntriesMatch'
  BY DEF Tracked, EntriesMatch
<1>7. FinalIsSettled'
  BY <1>1 DEF Tracked, FinalIsSettled, Cancel, TypeOK
<1>8. RetirementsTracked'
  <2> SUFFICES ASSUME NEW k \in Keys, retirements'[k] # None
               PROVE  /\ retirements'[k] \in ownerRetirements'[OwnerOf[k]]
                      /\ entries'[k] # None => entries'[k] = retirements'[k] \/ settled'[entries'[k]]
    BY DEF RetirementsTracked
  <2>1. CASE entries[k] \in pending
    BY <1>1, <1>4, <2>1
  <2>2. CASE entries[k] \notin pending
    <3>1. retirements'[k] = retirements[k]
      BY <1>1, <2>2
    <3>2. OwnerOf[k] \in Owners
      BY Shapes
    <3> QED BY <1>5, <3>1, <3>2 DEF Tracked, RetirementsTracked
  <2> QED BY <2>1, <2>2
<1>9. SessionsKeyed'
  BY DEF Tracked, SessionsKeyed
<1>10. SurfacesTracked'
  <2> SUFFICES ASSUME NEW s \in Sessions, Live(s), s \notin pruned \cup closed, ~Registered(s)'
               PROVE  s \in ownerRetirements'[OwnerOf[sessionKey[s]]]
    BY DEF SurfacesTracked, Live
  <2>1. sessionKey[s] \in Keys /\ OwnerOf[sessionKey[s]] \in Owners
    <3>1. s \in 1..created
      BY DEF Live, Sessions, TypeOK
    <3> QED BY <3>1, Shapes DEF Tracked, SessionsKeyed
  <2>2. CASE s \in ownerRetirements[OwnerOf[sessionKey[s]]]
    BY <1>5, <2>1, <2>2
  <2>3. CASE Registered(s)
    <3>1. PICK k \in Keys : entries[k] = s
      BY <2>3 DEF Registered
    <3>2. s \in S
      BY <3>1 DEF Registered
    <3>3. sessionKey[s] = k /\ s # None
      BY <3>1, Shapes DEF Tracked, EntriesMatch, Live, Sessions
    <3>4. CASE retirements[k] = None
      BY <1>3, <1>4, <3>1, <3>2, <3>3, <3>4 DEF Live
    <3>5. CASE retirements[k] # None
      <4>1. retirements[k] = s
        BY <3>1, <3>3, <3>5 DEF Tracked, RetirementsTracked, Live
      <4>2. s \in ownerRetirements[OwnerOf[k]]
        BY <3>5, <4>1 DEF Tracked, RetirementsTracked
      <4> QED BY <1>5, <2>1, <3>3, <4>2
    <3> QED BY <3>4, <3>5
  <2> QED BY <2>2, <2>3 DEF Tracked, SurfacesTracked
<1>11. OneSurfacePerThread'
  BY NoNewSurface DEF Tracked
<1> QED BY <1>6, <1>7, <1>8, <1>9, <1>10, <1>11 DEF Tracked

\* Sessions that leave without a retirement are the ones the histories name.
LEMMA ForgetTracks ==
  ASSUME TypeOK, Tracked, TypeOK',
         \A k \in Keys : entries'[k] # None =>
           \/ entries'[k] = entries[k]
           \/ /\ settled[entries'[k]] /\ OwnerOf[sessionKey[entries'[k]]] = OwnerOf[k]
              /\ Registered(entries'[k])
         ,
         \A s \in Sessions : Registered(s) /\ ~Registered(s)' /\ ~settled[s]
                              => s \in pruned' \cup closed',
         pruned \subseteq pruned', closed \subseteq closed',
         UNCHANGED <<retirements, ownerRetirements, created, sessionKey, outcome, settled>>
  PROVE  Tracked'
<1>1. EntriesMatch'
  <2> SUFFICES ASSUME NEW k \in Keys, entries'[k] # None
               PROVE  /\ entries'[k] <= created
                      /\ sessionKey[entries'[k]] \in Keys
                      /\ OwnerOf[sessionKey[entries'[k]]] = OwnerOf[k]
                      /\ ~settled[entries'[k]] => sessionKey[entries'[k]] = k
    BY DEF EntriesMatch
  <2>1. CASE entries'[k] = entries[k]
    BY <2>1 DEF Tracked, EntriesMatch
  <2>2. CASE entries'[k] # entries[k]
    <3>1. PICK j \in Keys : entries[j] = entries'[k]
      BY <2>2 DEF Registered
    <3> QED BY <2>2, <3>1 DEF Tracked, EntriesMatch
  <2> QED BY <2>1, <2>2
<1>2. RetirementsTracked'
  BY DEF Tracked, RetirementsTracked
<1>3. SurfacesTracked'
  BY DEF Tracked, SurfacesTracked, Live
<1>4. OneSurfacePerThread'
  BY NoNewSurface DEF Tracked
<1> QED BY <1>1, <1>2, <1>3, <1>4 DEF Tracked, FinalIsSettled, SessionsKeyed

\* The key step: a session is created only when no surface of its owner lives.
LEMMA CreateTracks ==
  ASSUME TypeOK, RequestsAsk, Tracked, TypeOK', NEW r \in Requests, NEW stale \in SUBSET Sessions,
         GetOrCreate(r, stale), ~Full
  PROVE  Tracked'
<1> DEFINE n == created + 1
           k == asks[r]
<1>1. /\ LooksAt(r) /\ ActiveOwners(r) = {} /\ stale \subseteq Prunable
      /\ created' = n /\ n \in Sessions /\ k \in Keys
      /\ sessionKey' = [sessionKey EXCEPT ![n] = k]
      /\ entries' = [x \in Keys |->
                       IF x = k THEN n ELSE IF entries[x] \in stale THEN None ELSE entries[x]]
      /\ pruned' = pruned \cup {x \in stale : ~settled[x]}
      /\ UNCHANGED <<retirements, ownerRetirements, outcome, settled, closed>>
  <2>1. created + 1 \in Sessions
    BY Shapes DEF GetOrCreate, TypeOK, Sessions
  <2> QED BY <2>1 DEF GetOrCreate, LooksAt, RequestsAsk
<1>2. entries[k] = None /\ retirements[k] = None /\ ownerRetirements[OwnerOf[k]] = {}
  BY <1>1 DEF LooksAt, Existing, Pending
<1>3. \A s \in Sessions : s <= created => s # n /\ s \in 1..created
  BY DEF TypeOK, Sessions
<1>4. \A s \in Sessions : s <= created' => s <= created \/ s = n
  BY <1>1 DEF TypeOK, Sessions
<1>5. \A s \in Sessions : s # None
  BY Shapes DEF Sessions
<1>6. \A s \in Sessions : s <= created => sessionKey'[s] = sessionKey[s] /\ sessionKey[s] \in Keys
  BY <1>1, <1>3 DEF Tracked, SessionsKeyed, TypeOK
<1>7. sessionKey'[n] = k
  BY <1>1 DEF TypeOK
<1>8. created <= n /\ n <= created'
  BY <1>1 DEF TypeOK
<1> HIDE DEF n
<1>9. \A s \in Sessions : Live(s) /\ s \notin pruned \cup closed
                          => OwnerOf[sessionKey[s]] # OwnerOf[k]
  <2> SUFFICES ASSUME NEW s \in Sessions, Live(s), s \notin pruned \cup closed,
                      OwnerOf[sessionKey[s]] = OwnerOf[k]
               PROVE  FALSE
    OBVIOUS
  <2>1. Registered(s)
    BY <1>2 DEF Tracked, SurfacesTracked
  <2>2. s \in ActiveOwners(r)
    BY <1>2, <1>5, <2>1 DEF ActiveOwners, OwnedBy, Live
  <2> QED BY <1>1, <2>2
<1>10. EntriesMatch'
  <2> SUFFICES ASSUME NEW x \in Keys, entries'[x] # None
               PROVE  /\ entries'[x] <= created'
                      /\ sessionKey'[entries'[x]] \in Keys
                      /\ OwnerOf[sessionKey'[entries'[x]]] = OwnerOf[x]
                      /\ ~settled[entries'[x]] => sessionKey'[entries'[x]] = x
    BY <1>1 DEF EntriesMatch
  <2>1. CASE x = k
    BY <1>1, <1>7, <1>8, <2>1
  <2>2. CASE x # k
    <3>1. entries'[x] = entries[x] /\ entries[x] \in Sessions
      BY <1>1, <2>2 DEF TypeOK
    <3>2. /\ entries[x] <= created
          /\ OwnerOf[sessionKey[entries[x]]] = OwnerOf[x]
          /\ ~settled[entries[x]] => sessionKey[entries[x]] = x
      BY <3>1 DEF Tracked, EntriesMatch
    <3>3. entries[x] <= created'
      BY <1>1, <3>1, <3>2 DEF TypeOK, Sessions, n
    <3> QED BY <1>6, <3>1, <3>2, <3>3
  <2> QED BY <2>1, <2>2
<1>11. FinalIsSettled'
  BY <1>1 DEF Tracked, FinalIsSettled
<1>12. RetirementsTracked'
  BY <1>1, <1>2 DEF Tracked, RetirementsTracked
<1>13. SessionsKeyed'
  <2> SUFFICES ASSUME NEW s \in 1..created' PROVE sessionKey'[s] \in Keys
    BY DEF SessionsKeyed
  <2>1. s \in Sessions /\ s <= created'
    <3>1. created' \in 0..MaxSessions
      BY DEF TypeOK
    <3> QED BY <3>1, Shapes DEF Sessions
  <2>2. s <= created \/ s = n
    BY <1>4, <2>1
  <2> QED BY <1>1, <1>6, <1>7, <2>1, <2>2
<1>14. SurfacesTracked'
  <2> SUFFICES ASSUME NEW s \in Sessions, Live(s)', s \notin pruned' \cup closed'
               PROVE  Registered(s)' \/ s \in ownerRetirements[OwnerOf[sessionKey'[s]]]
    BY <1>1 DEF SurfacesTracked
  <2>1. CASE s = n
    BY <1>1, <2>1 DEF Registered
  <2>2. CASE s # n
    <3>1. Live(s) /\ s <= created
      BY <1>1, <1>4, <2>2 DEF Live
    <3>2. Registered(s) \/ s \in ownerRetirements[OwnerOf[sessionKey[s]]]
      BY <1>1, <3>1 DEF Tracked, SurfacesTracked
    <3>3. ASSUME Registered(s) PROVE Registered(s)'
      <4>1. PICK x \in Keys : entries[x] = s
        BY <3>3 DEF Registered
      <4>2. x # k /\ s \notin stale
        BY <1>1, <1>2, <1>5, <3>1, <4>1 DEF Live
      <4>3. entries'[x] = s
        BY <1>1, <4>1, <4>2
      <4> QED BY <4>3 DEF Registered
    <3> QED BY <1>6, <3>1, <3>2, <3>3
  <2> QED BY <2>1, <2>2
<1>15. OneSurfacePerThread'
  <2> SUFFICES ASSUME NEW s \in Sessions, NEW t \in Sessions, Live(s)', Live(t)',
                      {s, t} \cap (pruned' \cup closed') = {},
                      OwnerOf[sessionKey'[s]] = OwnerOf[sessionKey'[t]], s # t
               PROVE  FALSE
    BY DEF OneSurfacePerThread
  <2>1. \A u \in {s, t} : u = n \/ (Live(u) /\ u <= created /\ u \notin pruned \cup closed)
    BY <1>1, <1>4 DEF Live
  <2>2. CASE s # n /\ t # n
    BY <1>6, <2>1, <2>2 DEF Tracked, OneSurfacePerThread
  <2>3. CASE s = n
    BY <1>6, <1>7, <1>9, <2>1, <2>3
  <2>4. CASE t = n
    BY <1>6, <1>7, <1>9, <2>1, <2>4
  <2> QED BY <2>2, <2>3, <2>4
<1> QED BY <1>10, <1>11, <1>12, <1>13, <1>14, <1>15 DEF Tracked

\* Every step of a request keeps track of the surfaces.
LEMMA RequestTracks ==
  ASSUME TypeOK, RequestsAsk, Tracked, TypeOK', NEW r \in Requests, RequestStep(r)
  PROVE  Tracked'
<1>1. ASSUME NEW S, NEW w \in BOOLEAN, S \subseteq Sessions, Retire(S, w), UNCHANGED retireUnchanged
      PROVE  Tracked'
  <2>1. \A k \in Keys : entries'[k] = entries[k] \/ (entries[k] \in S /\ entries'[k] = None)
    BY <1>1 DEF Retire, Forget
  <2>2. UNCHANGED <<created, sessionKey, settled, pruned, closed>>
    BY <1>1 DEF retireUnchanged
  <2>3. entries' \in [Keys -> Sessions \cup {None}]
    BY DEF TypeOK
  <2> QED BY <1>1, <2>1, <2>2, <2>3, RetireTracks DEF Retire
<1>2. ASSUME NEW k \in Keys, NEW interrupted \in SUBSET Turns, Arrive(r, k, interrupted)
      PROVE  Tracked'
  <2> DEFINE S == {s \in ActiveEntries : entries[k] # s /\ OwnedBy(s, OwnerOf[k])
                                           /\ TurnOf[sessionKey[s]] \in interrupted}
  <2>1. S \subseteq Sessions /\ Retire(S, FALSE) /\ UNCHANGED retireUnchanged
    BY <1>2 DEF Arrive, ActiveEntries
  <2> HIDE DEF S
  <2> QED BY <1>1, <2>1
<1>3. ASSUME Replace(r) PROVE Tracked'
  <2> DEFINE S == IF retirements[Replaces[asks[r]]] = None
                  THEN {entries[Replaces[asks[r]]]} \cap Sessions ELSE {}
  <2>1. S \subseteq Sessions /\ Retire(S, FALSE) /\ UNCHANGED retireUnchanged
    BY <1>3 DEF Replace
  <2> HIDE DEF S
  <2> QED BY <1>1, <2>1
<1>4. ASSUME NEW s \in Sessions, FailAndRetire(r, s) PROVE Tracked'
  <2> DEFINE S == IF Retires(r, s) THEN {entries[asks[r]]} ELSE {}
  <2>1. S \subseteq Sessions /\ Retire(S, FALSE) /\ UNCHANGED retireUnchanged
    BY <1>4 DEF FailAndRetire, Retires
  <2> HIDE DEF S
  <2> QED BY <1>1, <2>1
<1>5. ASSUME NEW s \in Sessions, Supersede(r, s) PROVE Tracked'
  <2>1. BeginRetirement({s}, TRUE) /\ UNCHANGED <<entries, created, sessionKey, settled, pruned, closed>>
    BY <1>5 DEF Supersede, historyVars
  <2>2. entries' \in [Keys -> Sessions \cup {None}]
    BY DEF TypeOK
  <2> QED BY <2>1, <2>2, RetireTracks
<1>6. ASSUME NEW stale \in SUBSET Sessions, GetOrCreate(r, stale) PROVE Tracked'
  <2>1. CASE ~Full
    BY <1>6, <2>1, CreateTracks
  <2>2. CASE Full
    <3>1. /\ entries' = [x \in Keys |-> IF entries[x] \in stale THEN None ELSE entries[x]]
          /\ pruned' = pruned \cup {x \in stale : ~settled[x]}
          /\ UNCHANGED <<retirements, ownerRetirements, created, sessionKey, outcome, settled, closed>>
      BY <1>6, <2>2 DEF GetOrCreate
    <3>2. \A s \in Sessions : Registered(s) /\ ~Registered(s)' => s \in stale
      BY <3>1 DEF Registered
    <3> QED BY <3>1, <3>2, ForgetTracks
  <2> QED BY <2>1, <2>2
<1>7. CASE UNCHANGED trackedVars
  BY <1>7 DEF trackedVars, Tracked, EntriesMatch, FinalIsSettled, RetirementsTracked, SessionsKeyed,
              SurfacesTracked, OneSurfacePerThread, Live, Registered
<1>8. ASSUME \/ Join(r) \/ AwaitRetirement(r) \/ Resume(r) \/ Disconnect(r)
             \/ \E s \in Sessions :
                  \/ RefuseStale(r, s) \/ AwaitOwner(r, s) \/ DeliverResults(r, s)
                  \/ EmitToolBatch(r, s) \/ Answer(r, s) \/ FailReplayable(r, s)
      PROVE  UNCHANGED trackedVars
  BY <1>8 DEF Join, AwaitRetirement, Resume, Disconnect, RefuseStale, AwaitOwner, DeliverResults,
              EmitToolBatch, Answer, FailReplayable, serveUnchanged, registryVars, sessionVars,
              historyVars, trackedVars
<1> QED
  BY <1>2, <1>3, <1>4, <1>5, <1>6, <1>7, <1>8 DEF RequestStep

\* So does every step of the browser, the daemon and a compaction.
LEMMA OtherTracks ==
  ASSUME TypeOK, RequestsAsk, Tracked, TypeOK', BrowserStep \/ AdminStep \/ CompactionStep
  PROVE  Tracked'
<1>1. ASSUME NEW s \in Sessions, NEW result \in {"final", "error"}, RunEnds(s, result)
      PROVE  Tracked'
  <2>1. /\ settled' = [settled EXCEPT ![s] = TRUE]
        /\ outcome' = [outcome EXCEPT ![s] = IF IsActive(s) THEN result ELSE @]
        /\ retirements' = [k \in Keys |-> IF retirements[k] = s THEN None ELSE retirements[k]]
        /\ ownerRetirements' = [o \in Owners |-> ownerRetirements[o] \ {s}]
        /\ UNCHANGED <<entries, created, sessionKey, pruned, closed>>
    BY <1>1 DEF RunEnds, historyVars
  <2>2. \A t \in Sessions : settled'[t] <=> settled[t] \/ t = s
    BY <2>1 DEF TypeOK
  <2>3. EntriesMatch'
    <3>1. \A k \in Keys : entries[k] # None => entries[k] \in Sessions
      BY DEF TypeOK
    <3> QED BY <2>1, <2>2, <3>1 DEF Tracked, EntriesMatch
  <2>4. FinalIsSettled'
    BY <2>1, <2>2 DEF Tracked, FinalIsSettled, TypeOK
  <2>5. RetirementsTracked'
    <3> SUFFICES ASSUME NEW k \in Keys, retirements'[k] # None
                 PROVE  /\ retirements'[k] \in ownerRetirements'[OwnerOf[k]]
                        /\ entries'[k] # None => entries'[k] = retirements'[k] \/ settled'[entries'[k]]
      BY DEF RetirementsTracked
    <3>1. retirements'[k] = retirements[k] /\ retirements[k] # s /\ retirements[k] # None
      BY <2>1
    <3>2. OwnerOf[k] \in Owners
      BY Shapes
    <3>3. retirements'[k] \in ownerRetirements'[OwnerOf[k]]
      BY <2>1, <3>1, <3>2 DEF Tracked, RetirementsTracked
    <3>4. entries[k] # None => entries[k] \in Sessions
      BY DEF TypeOK
    <3> QED BY <2>1, <2>2, <3>1, <3>3, <3>4 DEF Tracked, RetirementsTracked
  <2>6. SessionsKeyed'
    BY <2>1 DEF Tracked, SessionsKeyed
  <2>7. SurfacesTracked'
    <3> SUFFICES ASSUME NEW t \in Sessions, Live(t)', t \notin pruned \cup closed
                 PROVE  Registered(t)' \/ t \in ownerRetirements'[OwnerOf[sessionKey[t]]]
      BY <2>1 DEF SurfacesTracked
    <3>1. Live(t) /\ t # s
      BY <2>1, <2>2 DEF Live
    <3>2. OwnerOf[sessionKey[t]] \in Owners
      <4>1. t \in 1..created
        BY <3>1 DEF Live, Sessions, TypeOK
      <4> QED BY <4>1, Shapes DEF Tracked, SessionsKeyed
    <3>3. Registered(t)' <=> Registered(t)
      BY <2>1 DEF Registered
    <3> QED BY <2>1, <3>1, <3>2, <3>3 DEF Tracked, SurfacesTracked
  <2>8. OneSurfacePerThread'
    BY <2>1, <2>2, NoNewSurface DEF Tracked
  <2> QED BY <2>3, <2>4, <2>5, <2>6, <2>7, <2>8 DEF Tracked
<1>2. ASSUME NEW s \in Sessions, CancelTrace(s) PROVE Tracked'
  <2>1. /\ UNCHANGED <<entries, retirements, ownerRetirements, created, sessionKey, settled, pruned,
                        closed>>
        /\ \A t \in Sessions : outcome'[t] = outcome[t] \/ outcome'[t] = "error"
    BY <1>2 DEF CancelTrace, Cancel, registryVars, historyVars
  <2>2. FinalIsSettled'
    BY <2>1 DEF Tracked, FinalIsSettled
  <2>3. /\ EntriesMatch' /\ RetirementsTracked' /\ SessionsKeyed' /\ SurfacesTracked'
        /\ OneSurfacePerThread'
    BY <2>1 DEF Tracked, EntriesMatch, RetirementsTracked, SessionsKeyed, SurfacesTracked,
                OneSurfacePerThread, Live, Registered
  <2> QED BY <2>2, <2>3 DEF Tracked
<1>3. ASSUME NEW t \in Turns, CancelNativeTurn(t) PROVE Tracked'
  <2> DEFINE S == {s \in Sessions : Registered(s) /\ TurnOf[sessionKey[s]] = t}
  <2>1. Retire(S, TRUE) /\ UNCHANGED retireUnchanged
    BY <1>3 DEF CancelNativeTurn
  <2>2. S \subseteq Sessions
    OBVIOUS
  <2> HIDE DEF S
  <2>3. \A k \in Keys : entries'[k] = entries[k] \/ (entries[k] \in S /\ entries'[k] = None)
    BY <2>1 DEF Retire, Forget
  <2>4. /\ entries' \in [Keys -> Sessions \cup {None}]
        /\ UNCHANGED <<created, sessionKey, settled, pruned, closed>>
    BY <2>1 DEF retireUnchanged, TypeOK
  <2> QED BY <2>1, <2>2, <2>3, <2>4, RetireTracks DEF Retire
<1>4. ASSUME Clear PROVE Tracked'
  <2> DEFINE S == {s \in Sessions : Registered(s)}
  <2>1. BeginRetirement(S, FALSE) /\ UNCHANGED retireUnchanged
    BY <1>4 DEF Clear
  <2>2. \A k \in Keys : entries'[k] = entries[k] \/ (entries[k] \in S /\ entries'[k] = None)
    BY <1>4 DEF Clear, Registered, TypeOK
  <2>3. S \subseteq Sessions
    OBVIOUS
  <2> HIDE DEF S
  <2>4. /\ entries' \in [Keys -> Sessions \cup {None}]
        /\ UNCHANGED <<created, sessionKey, settled, pruned, closed>>
    BY <2>1 DEF retireUnchanged, TypeOK
  <2> QED BY <2>1, <2>2, <2>3, <2>4, RetireTracks
<1>5. ASSUME NEW stale \in SUBSET Sessions, ActiveCount(stale) PROVE Tracked'
  <2>1. /\ entries' = [x \in Keys |-> IF entries[x] \in stale THEN None ELSE entries[x]]
        /\ pruned' = pruned \cup {x \in stale : ~settled[x]}
        /\ UNCHANGED <<retirements, ownerRetirements, created, sessionKey, outcome, settled, closed>>
    BY <1>5 DEF ActiveCount, Forget
  <2>2. \A s \in Sessions : Registered(s) /\ ~Registered(s)' => s \in stale
    BY <2>1 DEF Registered
  <2> QED BY <2>1, <2>2, ForgetTracks
<1>6. ASSUME NEW c \in Conversations, NEW k \in Keys, NEW kept \in Sessions \cup {None},
             CloseConversation(c, kept, k)
      PROVE  Tracked'
  <2> DEFINE S == {s \in Sessions : Registered(s) /\ attached[s] = c}
  <2>1. /\ entries' = [x \in Keys |->
              IF kept # None /\ x = k THEN kept ELSE IF entries[x] \in S THEN None ELSE entries[x]]
        /\ closed' = closed \cup {s \in S \ {kept} : ~settled[s]}
        /\ UNCHANGED <<retirements, ownerRetirements, created, sessionKey, outcome, settled, pruned>>
    BY <1>6 DEF CloseConversation
  <2>2. kept # None => /\ kept \in Sessions /\ settled[kept] /\ Registered(kept)
                       /\ OwnerOf[sessionKey[kept]] = OwnerOf[k]
                       /\ entries[k] \in {kept, None}
    BY <1>6 DEF CloseConversation, Tracked, FinalIsSettled, OwnedBy
  <2>3. \A s \in Sessions : Registered(s) /\ ~Registered(s)' /\ ~settled[s] => s \in S \ {kept}
    <3> SUFFICES ASSUME NEW s \in Sessions, Registered(s), ~Registered(s)', ~settled[s]
                 PROVE  s \in S \ {kept}
      OBVIOUS
    <3>1. PICK x \in Keys : entries[x] = s
      BY DEF Registered
    <3>2. entries'[x] # s
      BY DEF Registered
    <3>3. s # None /\ s # kept
      BY <2>2, Shapes DEF Sessions
    <3> HIDE DEF S
    <3> QED BY <2>1, <2>2, <3>1, <3>2, <3>3
  <2>4. \A x \in Keys : entries'[x] # None =>
          \/ entries'[x] = entries[x]
          \/ /\ settled[entries'[x]] /\ OwnerOf[sessionKey[entries'[x]]] = OwnerOf[x]
             /\ Registered(entries'[x])
    <3> HIDE DEF S
    <3> QED BY <2>1, <2>2
  <2>5. \A s \in Sessions : Registered(s) /\ ~Registered(s)' /\ ~settled[s]
                             => s \in pruned' \cup closed'
    <3> HIDE DEF S
    <3> QED BY <2>1, <2>3
  <2> QED BY <2>1, <2>4, <2>5, ForgetTracks
<1> QED
  BY <1>1, <1>2, <1>3, <1>4, <1>5, <1>6 DEF BrowserStep, AdminStep, CompactionStep

LEMMA TrackedInit == SessionsInit => Tracked
BY Shapes DEF SessionsInit, Tracked, EntriesMatch, FinalIsSettled, RetirementsTracked, SessionsKeyed,
       SurfacesTracked, OneSurfacePerThread, Live, Sessions

LEMMA TrackedNext ==
  ASSUME IInv, [SessionsNext]_sessionsVars PROVE IInv'
<1>1. TypeOK /\ RequestsAsk /\ Tracked
  BY DEF IInv, Tracked
<1>2. TypeOK' /\ RequestsAsk'
  BY <1>1, TypeNext
<1>3. CASE UNCHANGED sessionsVars
  <2>1. UNCHANGED trackedVars
    BY <1>3 DEF sessionsVars, registryVars, sessionVars, historyVars, trackedVars
  <2>2. Tracked'
    BY <1>1, <2>1 DEF trackedVars, Tracked, EntriesMatch, FinalIsSettled, RetirementsTracked,
                      SessionsKeyed, SurfacesTracked, OneSurfacePerThread, Live, Registered
  <2> QED BY <1>2, <2>2 DEF IInv, Tracked
<1>4. CASE SessionsNext
  <2>1. Tracked'
    BY <1>1, <1>2, <1>4, RequestTracks, OtherTracks DEF SessionsNext
  <2> QED BY <1>2, <2>1 DEF IInv, Tracked
<1> QED BY <1>3, <1>4

\* The registry of turn-execution.ts accounts for every live surface: by an entry
\* or by the owner's pending retirement.
THEOREM SurfacesAccounted == SessionsSpec => []IInv
<1>1. SessionsInit => IInv
  BY TypeInit, TrackedInit DEF IInv, Tracked
<1>2. IInv /\ [SessionsNext]_sessionsVars => IInv'
  BY TrackedNext
<1> QED BY <1>1, <1>2, PTL DEF SessionsSpec

\* A native thread never owns two live browser surfaces, as long as prune or a
\* closed conversation did not take one out of the registry.
THEOREM ThreadOwnsOneSurface == SessionsSpec => []OneSurfacePerThread
<1>1. IInv => OneSurfacePerThread
  BY DEF IInv
<1> QED BY <1>1, SurfacesAccounted, PTL

-----------------------------------------------------------------------------
(* The pipes of the browser helper                                            *)

HelperFrame ==
  [kind : {"run", "abort", "progress"}, trace : Traces, run : Calls, n : 0 .. MaxMirrored]
    \cup [kind : {"prompt", "send", "begin", "commit"}, trace : Traces, run : Calls,
          n : 0 .. MaxFences, granted : BOOLEAN]
DaemonFrame ==
  [kind : {"prompt", "send", "begin", "commit"}, trace : Traces, run : Calls,
   n : 0 .. MaxFences]
    \cup [kind : {"batch", "result", "error"}, trace : Traces, run : Calls, n : 0 .. MaxMirrored]

\* Its run frame was sent, if there was a helper to take it.
Started(r) == run[r].phase \notin {"new", "waiting"}

\* A frame for the helper is of a run that has started, and tells of it what is so.
ToldSo(f) ==
  /\ f.trace = TraceOf[f.run] /\ Started(f.run)
  /\ f.kind = "send" => run[f.run].activated
  /\ f.kind = "commit" => (f.granted => run[f.run].committed)
  /\ f.kind = "progress" => f.n <= run[f.run].sent

FramesIInv ==
  /\ toHelper \in Seq(HelperFrame) /\ toDaemon \in Seq(DaemonFrame)
  /\ \A i \in DOMAIN toHelper : ToldSo(toHelper[i])
  /\ \A i \in DOMAIN toDaemon :
       toDaemon[i].trace = TraceOf[toDaemon[i].run] /\ Started(toDaemon[i].run)

IsRunOf(f, r) == f.kind = "run" /\ f.run = r

OnePending ==
  \A r, q \in Calls : Awaits(r) /\ Awaits(q) /\ TraceOf[r] = TraceOf[q] => r = q

\* A run has one run frame, and the frames of other runs of its trace are before it.
OrderIInv ==
  /\ \A r \in Calls : \A i, j \in DOMAIN toHelper :
       IsRunOf(toHelper[i], r) /\ IsRunOf(toHelper[j], r) => i = j
  /\ \A r \in Calls : \A i \in DOMAIN toHelper :
       Awaits(r) /\ toHelper[i].trace = TraceOf[r] /\ toHelper[i].run # r
         => \E j \in DOMAIN toHelper : i < j /\ IsRunOf(toHelper[j], r)

\* What a turn in the helper that serves a pending run knows.
ServesWell(s) ==
  Awaits(s.served) =>
    /\ s.mirror <= run[s.served].sent
    /\ s.stage = "answered" => run[s.served].committed
    /\ s.stage \in {"sent", "beginning", "begun", "committing", "answered"}
         => run[s.served].activated

\* A turn in the helper serves a run whose frame has been read.
ServingIInv ==
  /\ (client = "none") => ~alive /\ toHelper = <<>>
  /\ (client # "none") => alive
  /\ ~alive => \A t \in Traces : helperTurn[t] = NoTurn
  /\ \A t \in Traces : helperTurn[t].stage # "none" =>
       /\ helperTurn[t].served \in Calls /\ TraceOf[helperTurn[t].served] = t
       /\ Started(helperTurn[t].served)
       /\ \A i \in DOMAIN toHelper : ~IsRunOf(toHelper[i], helperTurn[t].served)
       /\ ServesWell(helperTurn[t])

\* What the frames for the daemon report of a pending run is so.
ReportsIInv ==
  \A i \in DOMAIN toDaemon :
    Awaits(toDaemon[i].run) =>
      /\ toDaemon[i].kind = "result" => run[toDaemon[i].run].committed
      /\ toDaemon[i].kind = "batch" => toDaemon[i].n <= run[toDaemon[i].run].sent

\* The inductive invariant of the pipes.
PipeIInv ==
  /\ PipeTypeOK /\ FramesIInv /\ OnePending /\ OrderIInv /\ ServingIInv /\ ReportsIInv

\* A run does not go back, and its facts stay; it is pending only after it waited.
Later(x, y) ==
  /\ y \in RunState
  /\ x.phase \notin {"new", "waiting"} => y.phase \notin {"new", "waiting"}
  /\ y.phase = "pending" => x.phase \in {"waiting", "pending"}
  /\ x.activated => y.activated
  /\ x.committed => y.committed
  /\ x.sent <= y.sent
RunStep == run' \in [Calls -> RunState] /\ \A r \in Calls : Later(run[r], run'[r])
RestTyped ==
  /\ jobs' \subseteq Job /\ notices' \subseteq Traces
  /\ client' \in {"none", "starting", "ready"} /\ children' \in 0 .. MaxChildren
  /\ alive' \in BOOLEAN /\ fences' \in 0 .. MaxFences

StartedNext(r) == run'[r].phase \notin {"new", "waiting"}
ToldNext(f) ==
  /\ f.trace = TraceOf[f.run] /\ StartedNext(f.run)
  /\ f.kind = "send" => run'[f.run].activated
  /\ f.kind = "commit" => (f.granted => run'[f.run].committed)
  /\ f.kind = "progress" => f.n <= run'[f.run].sent

\* A frame that the daemon appends is of a run that waits for the helper, or the run
\* frame of one that starts to.
Fresher(f) ==
  /\ f \in HelperFrame /\ ToldNext(f)
  /\ f.kind = "run" => run[f.run].phase = "waiting" /\ run'[f.run].phase = "pending"
  /\ f.kind # "run" => Awaits(f.run)
ToHelperStep ==
  \/ toHelper' = toHelper
  \/ toHelper' = <<>> /\ \A t \in Traces : helperTurn'[t] = NoTurn
  \/ toHelper # <<>> /\ toHelper' = Tail(toHelper)
  \/ (\E f \in HelperFrame : Fresher(f) /\ toHelper' = Append(toHelper, f))
     /\ helperTurn' = helperTurn

LEMMA HeadOfDaemon ==
  ASSUME FramesIInv, toDaemon # <<>>
  PROVE  /\ Head(toDaemon) \in DaemonFrame /\ Head(toDaemon).n \in Nat
         /\ Head(toDaemon) = toDaemon[1] /\ 1 \in DOMAIN toDaemon
<1>1. Head(toDaemon) = toDaemon[1] /\ 1 \in DOMAIN toDaemon /\ toDaemon[1] \in DaemonFrame
  BY DEF FramesIInv
<1>2. Head(toDaemon).n \in Nat
  BY <1>1, PipeShapes DEF DaemonFrame
<1> QED
  BY <1>1, <1>2

\* What a step does to a run.
LEMMA LaterRuns ==
  ASSUME NEW x \in RunState
  PROVE  /\ Later(x, x) /\ Later(x, [x EXCEPT !.phase = "rejected"])
         /\ Later(x, [x EXCEPT !.phase = "resolved"])
         /\ x.phase = "new" => Later(x, [x EXCEPT !.phase = "waiting"])
         /\ x.phase = "waiting" => Later(x, [x EXCEPT !.phase = "pending"])
         /\ Later(x, [x EXCEPT !.aborted = TRUE])
         /\ Later(x, [x EXCEPT !.aborted = TRUE, !.phase = "rejected"])
         /\ Later(x, [x EXCEPT !.failed = TRUE])
         /\ Later(x, [x EXCEPT !.failed = TRUE, !.phase = "rejected"])
         /\ x.batches < MaxMirrored => Later(x, [x EXCEPT !.batches = x.batches + 1])
         /\ x.sent < x.batches => Later(x, [x EXCEPT !.sent = x.batches])
         /\ \A n \in 0 .. x.batches : Later(x, [x EXCEPT !.observed = n])
<1>1. x.phase \in {"new", "waiting", "pending", "resolved", "rejected"}
      /\ x.sent \in Nat /\ x.batches \in Nat /\ MaxMirrored \in Nat
  BY PipeShapes DEF RunState
<1>2. Later(x, x) /\ Later(x, [x EXCEPT !.phase = "rejected"])
  BY <1>1 DEF Later, RunState
<1>3. Later(x, [x EXCEPT !.phase = "resolved"])
  BY <1>1 DEF Later, RunState
<1>4. x.phase = "new" => Later(x, [x EXCEPT !.phase = "waiting"])
  BY <1>1 DEF Later, RunState
<1>5. x.phase = "waiting" => Later(x, [x EXCEPT !.phase = "pending"])
  BY <1>1 DEF Later, RunState
<1>6. Later(x, [x EXCEPT !.aborted = TRUE])
  <2> DEFINE y == [x EXCEPT !.aborted = TRUE]
  <2>1. y \in RunState
    BY <1>1 DEF RunState
  <2>2. /\ y.phase = x.phase /\ y.sent = x.sent
        /\ y.activated = x.activated /\ y.committed = x.committed
    BY DEF RunState
  <2> HIDE DEF y
  <2>3. (x.activated => y.activated) /\ (x.committed => y.committed)
    BY <2>2, Zenon
  <2>4. /\ x.phase \notin {"new", "waiting"} => y.phase \notin {"new", "waiting"}
        /\ y.phase = "pending" => x.phase \in {"waiting", "pending"}
        /\ x.sent <= y.sent
    BY <1>1, <2>2
  <2> QED
    BY <2>1, <2>3, <2>4, Zenon DEF Later, y
<1>7. Later(x, [x EXCEPT !.aborted = TRUE, !.phase = "rejected"])
  <2> DEFINE y == [x EXCEPT !.aborted = TRUE, !.phase = "rejected"]
  <2>1. y \in RunState
    BY <1>1 DEF RunState
  <2>2. /\ y.phase = "rejected" /\ y.sent = x.sent
        /\ y.activated = x.activated /\ y.committed = x.committed
    BY DEF RunState
  <2> HIDE DEF y
  <2>3. (x.activated => y.activated) /\ (x.committed => y.committed)
    BY <2>2, Zenon
  <2>4. /\ x.phase \notin {"new", "waiting"} => y.phase \notin {"new", "waiting"}
        /\ y.phase = "pending" => x.phase \in {"waiting", "pending"}
        /\ x.sent <= y.sent
    BY <1>1, <2>2
  <2> QED
    BY <2>1, <2>3, <2>4, Zenon DEF Later, y
<1>8. Later(x, [x EXCEPT !.failed = TRUE])
  <2> DEFINE y == [x EXCEPT !.failed = TRUE]
  <2>1. y \in RunState
    BY <1>1 DEF RunState
  <2>2. /\ y.phase = x.phase /\ y.sent = x.sent
        /\ y.activated = x.activated /\ y.committed = x.committed
    BY DEF RunState
  <2> HIDE DEF y
  <2>3. (x.activated => y.activated) /\ (x.committed => y.committed)
    BY <2>2, Zenon
  <2>4. /\ x.phase \notin {"new", "waiting"} => y.phase \notin {"new", "waiting"}
        /\ y.phase = "pending" => x.phase \in {"waiting", "pending"}
        /\ x.sent <= y.sent
    BY <1>1, <2>2
  <2> QED
    BY <2>1, <2>3, <2>4, Zenon DEF Later, y
<1>9. Later(x, [x EXCEPT !.failed = TRUE, !.phase = "rejected"])
  <2> DEFINE y == [x EXCEPT !.failed = TRUE, !.phase = "rejected"]
  <2>1. y \in RunState
    BY <1>1 DEF RunState
  <2>2. /\ y.phase = "rejected" /\ y.sent = x.sent
        /\ y.activated = x.activated /\ y.committed = x.committed
    BY DEF RunState
  <2> HIDE DEF y
  <2>3. (x.activated => y.activated) /\ (x.committed => y.committed)
    BY <2>2, Zenon
  <2>4. /\ x.phase \notin {"new", "waiting"} => y.phase \notin {"new", "waiting"}
        /\ y.phase = "pending" => x.phase \in {"waiting", "pending"}
        /\ x.sent <= y.sent
    BY <1>1, <2>2
  <2> QED
    BY <2>1, <2>3, <2>4, Zenon DEF Later, y
<1>10. x.batches < MaxMirrored => Later(x, [x EXCEPT !.batches = x.batches + 1])
  BY <1>1 DEF Later, RunState
<1>11. x.sent < x.batches => Later(x, [x EXCEPT !.sent = x.batches])
  BY <1>1 DEF Later, RunState
<1>12. \A n \in 0 .. x.batches : Later(x, [x EXCEPT !.observed = n])
  BY <1>1 DEF Later, RunState
<1> QED
  BY <1>2, <1>3, <1>4, <1>5, <1>6, <1>7, <1>8, <1>9, <1>10, <1>11, <1>12

\* Only one run changes.
LEMMA OneRun ==
  ASSUME run \in [Calls -> RunState], NEW r \in Calls, NEW y, Later(run[r], y),
         run' = [run EXCEPT ![r] = y]
  PROVE  RunStep
<1>1. \A q \in Calls \ {r} : Later(run[q], run'[q])
  BY LaterRuns
<1> QED
  BY <1>1 DEF RunStep, Later

LEMMA RejectedRuns ==
  ASSUME run \in [Calls -> RunState], NEW R, run' = RejectAll(R)
  PROVE  RunStep
<1>1. \A q \in Calls : run'[q] \in {run[q], [run[q] EXCEPT !.phase = "rejected"]}
  BY DEF RejectAll
<1>2. \A q \in Calls : Later(run[q], run'[q])
  BY <1>1, LaterRuns
<1> QED
  BY <1>2 DEF RunStep, Later, RejectAll

LEMMA SameRuns ==
  ASSUME run \in [Calls -> RunState], run' = run
  PROVE  RunStep
BY LaterRuns DEF RunStep

LEMMA FailingRuns ==
  ASSUME run \in [Calls -> RunState], NEW r \in Calls, FailsLocally(r)
  PROVE  RunStep
<1> DEFINE y == [run[r] EXCEPT !.failed = TRUE,
                   !.phase = IF client = "none" THEN "rejected" ELSE run[r].phase]
<1>1. Later(run[r], y)
  <2>1. CASE client = "none"
    <3>1. y = [run[r] EXCEPT !.failed = TRUE, !.phase = "rejected"]
      BY <2>1
    <3> QED
      BY <3>1, LaterRuns
  <2>2. CASE client # "none"
    <3>1. y = [run[r] EXCEPT !.failed = TRUE]
      BY <2>2 DEF RunState
    <3> QED
      BY <3>1, LaterRuns
  <2> QED
    BY <2>1, <2>2
<1>2. CASE run' = run
  BY <1>2, SameRuns
<1>3. CASE run' = [run EXCEPT ![r].failed = TRUE,
                              ![r].phase = IF client = "none" THEN "rejected" ELSE @]
  <2>1. run' = [run EXCEPT ![r] = y]
    BY <1>3
  <2> HIDE DEF y
  <2> QED
    BY <1>1, <2>1, OneRun
<1> QED
  BY <1>2, <1>3 DEF FailsLocally

\* The runs.
LEMMA RunMoves ==
  ASSUME PipeTypeOK, FramesIInv, PipeNext
  PROVE  RunStep
<1>0. run \in [Calls -> RunState] /\ jobs \subseteq Job
  BY DEF PipeTypeOK
<1>1. ASSUME NEW r \in Calls, Ask(r)
      PROVE  RunStep
  <2>1. Later(run[r], [run[r] EXCEPT !.phase = "waiting"])
    BY <1>1, <1>0, LaterRuns DEF Ask
  <2> DEFINE y == [run[r] EXCEPT !.phase = "waiting"]
  <2>2. run' = [run EXCEPT ![r] = y]
    BY <1>1, <1>0 DEF Ask
  <2> HIDE DEF y
  <2> QED
    BY <1>0, <2>1, <2>2, OneRun DEF y
<1>2. ASSUME NEW r \in Calls, Dispatch(r)
      PROVE  RunStep
  <2>1. CASE run' = RejectAll({r})
    BY <1>0, <2>1, RejectedRuns
  <2>2. CASE run' = [run EXCEPT ![r].phase = "pending"]
    <3> DEFINE y == [run[r] EXCEPT !.phase = "pending"]
    <3>1. Later(run[r], y)
      BY <1>2, <1>0, LaterRuns DEF Dispatch
    <3>2. run' = [run EXCEPT ![r] = y]
      BY <2>2, <1>0
    <3> HIDE DEF y
    <3> QED
      BY <1>0, <3>1, <3>2, OneRun
  <2> QED
    BY <1>2, <2>1, <2>2 DEF Dispatch
<1>3. ASSUME NEW r \in Calls, Abort(r)
      PROVE  RunStep
  <2> DEFINE y == [run[r] EXCEPT !.aborted = TRUE,
                     !.phase = IF Awaits(r) /\ client = "none" THEN "rejected" ELSE run[r].phase]
  <2>1. Later(run[r], y)
    <3>1. CASE Awaits(r) /\ client = "none"
      <4>1. y = [run[r] EXCEPT !.aborted = TRUE, !.phase = "rejected"]
        BY <3>1
      <4> QED
        BY <1>0, <4>1, LaterRuns
    <3>2. CASE ~(Awaits(r) /\ client = "none")
      <4>1. y = [run[r] EXCEPT !.aborted = TRUE]
        BY <1>0, <3>2 DEF RunState
      <4> QED
        BY <1>0, <4>1, LaterRuns
    <3> QED
      BY <3>1, <3>2
  <2>2. run' = [run EXCEPT ![r] = y]
    BY <1>3, <1>0 DEF Abort
  <2> HIDE DEF y
  <2> QED
    BY <1>0, <2>1, <2>2, OneRun
<1>4. ASSUME NEW r \in Calls, RecordBatch(r)
      PROVE  RunStep
  <2>1. Later(run[r], [run[r] EXCEPT !.batches = run[r].batches + 1])
    BY <1>4, <1>0, LaterRuns DEF RecordBatch
  <2> DEFINE y == [run[r] EXCEPT !.batches = run[r].batches + 1]
  <2>2. run' = [run EXCEPT ![r] = y]
    BY <1>4, <1>0 DEF RecordBatch
  <2> HIDE DEF y
  <2> QED
    BY <1>0, <2>1, <2>2, OneRun DEF y
<1>5. ASSUME NEW r \in Calls, Forward(r)
      PROVE  RunStep
  <2>1. Later(run[r], [run[r] EXCEPT !.sent = run[r].batches])
    BY <1>5, <1>0, LaterRuns DEF Forward
  <2> DEFINE y == [run[r] EXCEPT !.sent = run[r].batches]
  <2>2. run' = [run EXCEPT ![r] = y]
    BY <1>5, <1>0 DEF Forward
  <2> HIDE DEF y
  <2> QED
    BY <1>0, <2>1, <2>2, OneRun DEF y
<1>6. ASSUME Ready
      PROVE  RunStep
  BY <1>6, <1>0, SameRuns DEF Ready
<1>7. ASSUME Exit
      PROVE  RunStep
  BY <1>7, <1>0, RejectedRuns DEF Exit
<1>8. ASSUME CloseClient
      PROVE  RunStep
  BY <1>8, <1>0, RejectedRuns DEF CloseClient
<1>9. ASSUME NEW f, toDaemon # <<>>, f = Head(toDaemon), StartJob(f)
      PROVE  RunStep
  BY <1>9, <1>0, SameRuns DEF StartJob
<1>10. ASSUME NEW f, toDaemon # <<>>, f = Head(toDaemon), ReceiveObservation(f)
       PROVE  RunStep
  <2>1. CASE run' = run
    BY <1>0, <2>1, SameRuns
  <2>2. CASE \E r \in AwaitedAs(f.trace) : FailsLocally(r)
    BY <1>0, <2>2, FailingRuns DEF AwaitedAs
  <2>3. CASE \E r \in AwaitedAs(f.trace) :
               /\ f.n <= run[r].batches
               /\ run' = [run EXCEPT ![r].observed = IF f.n > @ THEN f.n ELSE @]
    <3>1. PICK r \in AwaitedAs(f.trace) :
               /\ f.n <= run[r].batches
               /\ run' = [run EXCEPT ![r].observed = IF f.n > @ THEN f.n ELSE @]
      BY <2>3
    <3>2. r \in Calls /\ run[r] \in RunState /\ f.n \in Nat
      BY <1>0, <1>10, <3>1, HeadOfDaemon DEF AwaitedAs, Receives
    <3> DEFINE y == [run[r] EXCEPT !.observed = IF f.n > run[r].observed THEN f.n
                                                ELSE run[r].observed]
    <3>3. Later(run[r], y)
      <4>1. CASE f.n > run[r].observed
        <5>1. f.n \in 0 .. run[r].batches
          BY <3>1, <3>2 DEF RunState
        <5> QED
          BY <3>2, <4>1, <5>1, LaterRuns
      <4>2. CASE ~(f.n > run[r].observed)
        <5>1. y = run[r]
          BY <3>2, <4>2 DEF RunState
        <5> QED
          BY <3>2, <5>1, LaterRuns
      <4> QED
        BY <4>1, <4>2
    <3>4. run' = [run EXCEPT ![r] = y]
      BY <1>0, <3>1, <3>2
    <3> HIDE DEF y
    <3> QED
      BY <1>0, <3>2, <3>3, <3>4, OneRun
  <2> QED
    <3>1. \/ run' = run
          \/ \E r \in AwaitedAs(f.trace) :
               IF f.n > run[r].batches THEN FailsLocally(r)
               ELSE run' = [run EXCEPT ![r].observed = IF f.n > @ THEN f.n ELSE @]
      BY <1>10 DEF ReceiveObservation
    <3>2. \A r \in AwaitedAs(f.trace) : f.n > run[r].batches \/ f.n <= run[r].batches
      <4>1. f.n \in Nat
        BY <1>10, HeadOfDaemon DEF ReceiveObservation, Receives
      <4>2. \A r \in Calls : run[r].batches \in Nat
        BY <1>0, PipeShapes DEF RunState
      <4> QED
        BY <4>1, <4>2 DEF AwaitedAs
    <3> QED
      BY <2>1, <2>2, <2>3, <3>1, <3>2
<1>11. ASSUME NEW f, toDaemon # <<>>, f = Head(toDaemon), ReceiveOutcome(f)
       PROVE  RunStep
  <2>1. \A q \in Calls : run'[q] \in {run[q], [run[q] EXCEPT !.phase = "rejected"],
                                       [run[q] EXCEPT !.phase = "resolved"]}
    BY <1>11, <1>0 DEF ReceiveOutcome
  <2>2. \A q \in Calls : Later(run[q], run'[q])
    BY <1>0, <2>1, LaterRuns
  <2>3. run' = [q \in Calls |-> run'[q]]
    BY <1>11 DEF ReceiveOutcome
  <2> QED
    BY <2>2, <2>3 DEF RunStep, Later
<1>12. ASSUME NEW f, toHelper # <<>>, f = Head(toHelper), ReadRun(f)
       PROVE  RunStep
  BY <1>12, <1>0, SameRuns DEF ReadRun, Reading
<1>13. ASSUME NEW f, toHelper # <<>>, f = Head(toHelper), ReadAbort(f)
       PROVE  RunStep
  BY <1>13, <1>0, SameRuns DEF ReadAbort, Reading
<1>14. ASSUME NEW f, toHelper # <<>>, f = Head(toHelper), ReadFence(f)
       PROVE  RunStep
  BY <1>14, <1>0, SameRuns DEF ReadFence, Reading
<1>15. ASSUME NEW f, toHelper # <<>>, f = Head(toHelper), ReadPrompt(f)
       PROVE  RunStep
  BY <1>15, <1>0, SameRuns DEF ReadPrompt, Reading
<1>16. ASSUME NEW f, toHelper # <<>>, f = Head(toHelper), ReadActivation(f)
       PROVE  RunStep
  BY <1>16, <1>0, SameRuns DEF ReadActivation, Reading
<1>17. ASSUME NEW f, toHelper # <<>>, f = Head(toHelper), ReadProgress(f)
       PROVE  RunStep
  BY <1>17, <1>0, SameRuns DEF ReadProgress, Reading
<1>18. ASSUME NEW j \in jobs, JobFails(j)
       PROVE  RunStep
  <2>1. j.run \in Calls
    BY <1>0 DEF Job
  <2> QED
    BY <1>18, <1>0, <2>1, FailingRuns DEF JobFails
<1>19. ASSUME NEW j \in jobs, NEW granted \in BOOLEAN, JobDone(j, granted)
       PROVE  RunStep
  <2>0. j.run \in Calls
    BY <1>0 DEF Job
  <2> DEFINE r == j.run
             x == run[r]
             y == [x EXCEPT !.activated = x.activated \/ j.kind = "send",
                            !.committed = x.committed \/ (j.kind = "commit" /\ granted),
                            !.phase = IF Told(j) /\ client = "none" THEN "rejected" ELSE x.phase]
  <2>1. y \in RunState
    <3>1. (x.activated \/ j.kind = "send") \in BOOLEAN
          /\ (x.committed \/ (j.kind = "commit" /\ granted)) \in BOOLEAN
      BY Zenon
    <3>2. (IF Told(j) /\ client = "none" THEN "rejected" ELSE x.phase)
            \in {"new", "waiting", "pending", "resolved", "rejected"}
      BY <1>0, <2>0 DEF RunState
    <3>3. x \in RunState
      BY <1>0, <2>0
    <3> HIDE DEF x
    <3> QED
      BY <3>1, <3>2, <3>3 DEF RunState
  <2>2. Later(x, y)
    <3>1. x \in RunState
      BY <1>0, <2>0
    <3>2. y.sent = x.sent /\ x.sent \in Nat /\ y.phase \in {x.phase, "rejected"}
          /\ (x.activated => y.activated) /\ (x.committed => y.committed)
      BY <3>1 DEF RunState
    <3> HIDE DEF x, y
    <3> QED
      BY <2>1, <3>1, <3>2 DEF Later, RunState
  <2>3. run' = [run EXCEPT ![r] = y]
    BY <1>19, <1>0, <2>0 DEF JobDone
  <2> HIDE DEF y
  <2> QED
    BY <1>0, <2>0, <2>2, <2>3, OneRun
<1>20. ASSUME NEW t \in notices, Noticed(t)
       PROVE  RunStep
  BY <1>20, <1>0, RejectedRuns DEF Noticed
<1>21. ASSUME NEW t \in Traces, Advance(t)
       PROVE  RunStep
  BY <1>21, <1>0, SameRuns DEF Advance
<1>22. ASSUME NEW t \in Traces, Capture(t)
       PROVE  RunStep
  BY <1>22, <1>0, SameRuns DEF Capture, Reading
<1>23. ASSUME NEW t \in Traces, EndTurn(t)
       PROVE  RunStep
  BY <1>23, <1>0, SameRuns DEF EndTurn, Reading
<1> QED
  BY <1>1, <1>2, <1>3, <1>4, <1>5, <1>6, <1>7, <1>8, <1>9, <1>10, <1>11, <1>12, <1>13, <1>14,
     <1>15, <1>16, <1>17, <1>18, <1>19, <1>20, <1>21, <1>22, <1>23, Zenon DEF PipeNext,
     DaemonReads, HelperReads

\* The daemon's other state.
LEMMA RestMoves ==
  ASSUME PipeTypeOK, FramesIInv, PipeNext
  PROVE  RestTyped
<1>0. /\ jobs \subseteq Job /\ notices \subseteq Traces
      /\ client \in {"none", "starting", "ready"} /\ children \in 0 .. MaxChildren
      /\ alive \in BOOLEAN /\ fences \in 0 .. MaxFences
  BY DEF PipeTypeOK
<1>1. ASSUME NEW r \in Calls, Ask(r)
      PROVE  RestTyped
  <2>1. /\ 0 \in 0 .. MaxFences /\ "starting" \in {"none", "starting", "ready"}
        /\ children < MaxChildren => children + 1 \in 0 .. MaxChildren
    BY <1>0, PipeShapes
  <2> QED
    BY <1>1, <1>0, <2>1 DEF Ask, RestTyped, helperVars
<1>2. ASSUME NEW r \in Calls, Dispatch(r)
      PROVE  RestTyped
  BY <1>2, <1>0, PipeShapes DEF Dispatch, RejectAll, Sends, helperVars, Awaits, AwaitedAs,
      RestTyped
<1>3. ASSUME NEW r \in Calls, Abort(r)
      PROVE  RestTyped
  BY <1>3, <1>0, PipeShapes DEF Abort, Sends, Awaits, helperVars, RestTyped
<1>4. ASSUME NEW r \in Calls, RecordBatch(r)
      PROVE  RestTyped
  BY <1>4, <1>0, PipeShapes DEF RecordBatch, helperVars, Awaits, RestTyped
<1>5. ASSUME NEW r \in Calls, Forward(r)
      PROVE  RestTyped
  BY <1>5, <1>0, PipeShapes DEF Forward, Sends, Awaits, helperVars, RestTyped
<1>6. ASSUME Ready
      PROVE  RestTyped
  BY <1>6, <1>0, PipeShapes DEF Ready, RestTyped
<1>7. ASSUME Exit
      PROVE  RestTyped
  <2>1. Reported \subseteq Traces
    BY DEF Reported
  <2>2. 0 \in 0 .. MaxFences
    BY PipeShapes
  <2> QED
    BY <1>7, <1>0, <2>1, <2>2 DEF Exit, RestTyped
<1>8. ASSUME CloseClient
      PROVE  RestTyped
  <2>1. 0 \in 0 .. MaxFences
    BY PipeShapes
  <2> QED
    BY <1>8, <1>0, <2>1 DEF CloseClient, RestTyped
<1>9. ASSUME NEW f, toDaemon # <<>>, f = Head(toDaemon), StartJob(f)
      PROVE  RestTyped
  <2>1. /\ f \in DaemonFrame /\ f.kind \in {"prompt", "send", "begin", "commit"}
        /\ f.n \in 0 .. MaxFences
    BY <1>9, HeadOfDaemon DEF StartJob, Receives, DaemonFrame
  <2>2. {[kind |-> f.kind, run |-> r, n |-> f.n] : r \in AwaitedAs(f.trace)} \subseteq Job
    BY <2>1 DEF Job, AwaitedAs
  <2> QED
    BY <1>9, <1>0, <2>2, Zenon DEF StartJob, Receives, RestTyped, helperVars
<1>10. ASSUME NEW f, toDaemon # <<>>, f = Head(toDaemon), ReceiveObservation(f)
       PROVE  RestTyped
  BY <1>10, <1>0, PipeShapes DEF ReceiveObservation, Receives, helperVars, FailsLocally, Sends,
      Awaits, RestTyped
<1>11. ASSUME NEW f, toDaemon # <<>>, f = Head(toDaemon), ReceiveOutcome(f)
       PROVE  RestTyped
  BY <1>11, <1>0, PipeShapes DEF ReceiveOutcome, Receives, helperVars, RestTyped
<1>12. ASSUME NEW f, toHelper # <<>>, f = Head(toHelper), ReadRun(f)
       PROVE  RestTyped
  BY <1>12, <1>0, PipeShapes DEF ReadRun, Reads, Reading, Refuses, Tells, RestTyped
<1>13. ASSUME NEW f, toHelper # <<>>, f = Head(toHelper), ReadAbort(f)
       PROVE  RestTyped
  BY <1>13, <1>0, PipeShapes DEF ReadAbort, Reads, Reading, RestTyped
<1>14. ASSUME NEW f, toHelper # <<>>, f = Head(toHelper), ReadFence(f)
       PROVE  RestTyped
  BY <1>14, <1>0, PipeShapes DEF ReadFence, Reads, Reading, RestTyped
<1>15. ASSUME NEW f, toHelper # <<>>, f = Head(toHelper), ReadPrompt(f)
       PROVE  RestTyped
  BY <1>15, <1>0, PipeShapes DEF ReadPrompt, Reads, Reading, Refuses, Tells, RestTyped
<1>16. ASSUME NEW f, toHelper # <<>>, f = Head(toHelper), ReadActivation(f)
       PROVE  RestTyped
  BY <1>16, <1>0, PipeShapes DEF ReadActivation, Reads, Reading, Refuses, Tells, RestTyped
<1>17. ASSUME NEW f, toHelper # <<>>, f = Head(toHelper), ReadProgress(f)
       PROVE  RestTyped
  BY <1>17, <1>0, PipeShapes DEF ReadProgress, Reads, Reading, RestTyped
<1>18. ASSUME NEW j \in jobs, JobFails(j)
       PROVE  RestTyped
  BY <1>18, <1>0, PipeShapes DEF JobFails, FailsLocally, Sends, Awaits, helperVars, RestTyped
<1>19. ASSUME NEW j \in jobs, NEW granted \in BOOLEAN, JobDone(j, granted)
       PROVE  RestTyped
  BY <1>19, <1>0, PipeShapes DEF JobDone, Told, Sends, Awaits, helperVars, RestTyped
<1>20. ASSUME NEW t \in notices, Noticed(t)
       PROVE  RestTyped
  BY <1>20, <1>0, PipeShapes DEF Noticed, RejectAll, helperVars, RestTyped
<1>21. ASSUME NEW t \in Traces, Advance(t)
       PROVE  RestTyped
  BY <1>21, <1>0, PipeShapes DEF Advance, Tells, RestTyped
<1>22. ASSUME NEW t \in Traces, Capture(t)
       PROVE  RestTyped
  BY <1>22, <1>0, PipeShapes DEF Capture, Tells, Reading, RestTyped
<1>23. ASSUME NEW t \in Traces, EndTurn(t)
       PROVE  RestTyped
  BY <1>23, <1>0, PipeShapes DEF EndTurn, Tells, Reading, RestTyped
<1> QED
  BY <1>1, <1>2, <1>3, <1>4, <1>5, <1>6, <1>7, <1>8, <1>9, <1>10, <1>11, <1>12, <1>13, <1>14,
     <1>15, <1>16, <1>17, <1>18, <1>19, <1>20, <1>21, <1>22, <1>23, Zenon DEF PipeNext,
     DaemonReads, HelperReads

TurnTyped == helperTurn' \in [Traces -> TurnState]

LEMMA HeadOfHelper ==
  ASSUME FramesIInv, toHelper # <<>>
  PROVE  /\ Head(toHelper) \in HelperFrame /\ Head(toHelper).trace \in Traces
         /\ Head(toHelper) = toHelper[1] /\ 1 \in DOMAIN toHelper
         /\ Head(toHelper).run \in Calls
         /\ Head(toHelper).kind \in {"run", "abort", "progress"} =>
              Head(toHelper).n \in 0 .. MaxMirrored
<1>1. Head(toHelper) = toHelper[1] /\ 1 \in DOMAIN toHelper /\ toHelper[1] \in HelperFrame
  BY DEF FramesIInv
<1> QED
  BY <1>1 DEF HelperFrame

\* What a step does to a turn in the helper.
LEMMA TurnChanges ==
  ASSUME NEW s \in TurnState
  PROVE  /\ NoTurn \in TurnState
         /\ \A r \in Calls : [NoTurn EXCEPT !.stage = "opening", !.served = r] \in TurnState
         /\ [s EXCEPT !.aborted = TRUE, !.fence = 0] \in TurnState
         /\ \A stage \in Stages : /\ [s EXCEPT !.stage = stage] \in TurnState
                                  /\ \A n \in 0 .. MaxFences :
                                       [s EXCEPT !.stage = stage, !.fence = n] \in TurnState
         /\ \A n \in 0 .. MaxMirrored : [s EXCEPT !.mirror = n] \in TurnState
         /\ [s EXCEPT !.captured = s.mirror] \in TurnState
<1>1. 0 \in 0 .. MaxFences /\ 0 \in 0 .. MaxMirrored
  BY PipeShapes
<1>2. NoTurn \in TurnState
  BY <1>1 DEF NoTurn, TurnState
<1>3. \A r \in Calls : [NoTurn EXCEPT !.stage = "opening", !.served = r] \in TurnState
  BY <1>2 DEF TurnState, Stages
<1>4. [s EXCEPT !.aborted = TRUE, !.fence = 0] \in TurnState
  BY <1>1 DEF TurnState
<1>5. \A stage \in Stages : /\ [s EXCEPT !.stage = stage] \in TurnState
                            /\ \A n \in 0 .. MaxFences :
                                 [s EXCEPT !.stage = stage, !.fence = n] \in TurnState
  BY DEF TurnState
<1>6. \A n \in 0 .. MaxMirrored : [s EXCEPT !.mirror = n] \in TurnState
  BY DEF TurnState
<1>7. [s EXCEPT !.captured = s.mirror] \in TurnState
  BY DEF TurnState
<1> QED
  BY <1>2, <1>3, <1>4, <1>5, <1>6, <1>7

\* Only one turn changes.
LEMMA OneTurn ==
  ASSUME helperTurn \in [Traces -> TurnState], NEW t \in Traces, NEW s \in TurnState,
         helperTurn' = [helperTurn EXCEPT ![t] = s]
  PROVE  TurnTyped
BY DEF TurnTyped

\* The turns in the helper.
LEMMA TurnsTyped ==
  ASSUME PipeTypeOK, FramesIInv, PipeNext
  PROVE  TurnTyped
<1>0. helperTurn \in [Traces -> TurnState] /\ NoTurn \in TurnState
  BY PipeShapes DEF PipeTypeOK, NoTurn, TurnState, Stages
<1>1. ASSUME NEW r \in Calls, Ask(r)
      PROVE  TurnTyped
  <2>1. [t \in Traces |-> NoTurn] \in [Traces -> TurnState]
    BY <1>0
  <2> QED
    BY <1>1, <1>0, <2>1, Zenon DEF Ask, helperVars, TurnTyped
<1>2. ASSUME NEW r \in Calls, Dispatch(r)
      PROVE  TurnTyped
  BY <1>2, <1>0, Zenon DEF Dispatch, helperVars, TurnTyped
<1>3. ASSUME NEW r \in Calls, Abort(r)
      PROVE  TurnTyped
  BY <1>3, <1>0, Zenon DEF Abort, helperVars, TurnTyped
<1>4. ASSUME NEW r \in Calls, RecordBatch(r)
      PROVE  TurnTyped
  BY <1>4, <1>0, Zenon DEF RecordBatch, helperVars, TurnTyped
<1>5. ASSUME NEW r \in Calls, Forward(r)
      PROVE  TurnTyped
  BY <1>5, <1>0, Zenon DEF Forward, helperVars, TurnTyped
<1>6. ASSUME Ready
      PROVE  TurnTyped
  BY <1>6, <1>0, Zenon DEF Ready, helperVars, TurnTyped
<1>7. ASSUME Exit
      PROVE  TurnTyped
  <2>1. [t \in Traces |-> NoTurn] \in [Traces -> TurnState]
    BY <1>0
  <2> QED
    BY <1>7, <1>0, <2>1, Zenon DEF Exit, helperVars, TurnTyped
<1>8. ASSUME CloseClient
      PROVE  TurnTyped
  <2>1. [t \in Traces |-> NoTurn] \in [Traces -> TurnState]
    BY <1>0
  <2> QED
    BY <1>8, <1>0, <2>1, Zenon DEF CloseClient, helperVars, TurnTyped
<1>9. ASSUME NEW f, toDaemon # <<>>, f = Head(toDaemon), StartJob(f)
      PROVE  TurnTyped
  BY <1>9, <1>0, Zenon DEF StartJob, helperVars, TurnTyped
<1>10. ASSUME NEW f, toDaemon # <<>>, f = Head(toDaemon), ReceiveObservation(f)
       PROVE  TurnTyped
  BY <1>10, <1>0, Zenon DEF ReceiveObservation, helperVars, TurnTyped
<1>11. ASSUME NEW f, toDaemon # <<>>, f = Head(toDaemon), ReceiveOutcome(f)
       PROVE  TurnTyped
  BY <1>11, <1>0, Zenon DEF ReceiveOutcome, helperVars, TurnTyped
<1>12. ASSUME NEW f, toHelper # <<>>, f = Head(toHelper), ReadRun(f)
       PROVE  TurnTyped
  <2> DEFINE s == Fresh(f.trace, f.run)
  <2>1. s \in TurnState
    BY <1>12, <1>0, HeadOfHelper, TurnChanges DEF ReadRun, Reads, Fresh
  <2>2. helperTurn' = helperTurn \/ helperTurn' = [helperTurn EXCEPT ![f.trace] = s]
    BY <1>12, <1>0 DEF ReadRun, Reads
  <2>3. f.trace \in Traces
    BY <1>12, HeadOfHelper DEF ReadRun, Reads
  <2> HIDE DEF s
  <2> QED
    BY <1>0, <2>1, <2>2, <2>3, OneTurn DEF TurnTyped
<1>13. ASSUME NEW f, toHelper # <<>>, f = Head(toHelper), ReadAbort(f)
       PROVE  TurnTyped
  <2> DEFINE s == [helperTurn[f.trace] EXCEPT !.aborted = TRUE, !.fence = 0]
  <2>1. s \in TurnState
    BY <1>13, <1>0, HeadOfHelper, TurnChanges DEF ReadAbort, Reads
  <2>2. helperTurn' = helperTurn \/ helperTurn' = [helperTurn EXCEPT ![f.trace] = s]
    BY <1>13, <1>0 DEF ReadAbort, Reads
  <2>3. f.trace \in Traces
    BY <1>13, HeadOfHelper DEF ReadAbort, Reads
  <2> HIDE DEF s
  <2> QED
    BY <1>0, <2>1, <2>2, <2>3, OneTurn DEF TurnTyped
<1>14. ASSUME NEW f, toHelper # <<>>, f = Head(toHelper), ReadFence(f)
       PROVE  TurnTyped
  <2> DEFINE s == [helperTurn[f.trace] EXCEPT !.fence = 0,
                     !.stage = IF ~f.granted THEN "sent"
                               ELSE IF f.kind = "begin" THEN "begun" ELSE "answered"]
  <2>1. s \in TurnState
    <3>1. (IF ~f.granted THEN "sent" ELSE IF f.kind = "begin" THEN "begun" ELSE "answered")
            \in Stages
      BY DEF Stages
    <3>2. helperTurn[f.trace] \in TurnState /\ 0 \in 0 .. MaxFences
      BY <1>0, <1>14, HeadOfHelper, PipeShapes
    <3> QED
      BY <3>1, <3>2 DEF TurnState
  <2>2. helperTurn' = helperTurn \/ helperTurn' = [helperTurn EXCEPT ![f.trace] = s]
    BY <1>14, <1>0 DEF ReadFence, Reads
  <2>3. f.trace \in Traces
    BY <1>14, HeadOfHelper DEF ReadFence, Reads
  <2> HIDE DEF s
  <2> QED
    BY <1>0, <2>1, <2>2, <2>3, OneTurn DEF TurnTyped
<1>15. ASSUME NEW f, toHelper # <<>>, f = Head(toHelper), ReadPrompt(f)
       PROVE  TurnTyped
  <2> DEFINE s == [helperTurn[f.trace] EXCEPT !.stage = "prepared"]
  <2>1. s \in TurnState
    BY <1>15, <1>0, HeadOfHelper, TurnChanges DEF ReadPrompt, Reads, Stages
  <2>2. helperTurn' = helperTurn \/ helperTurn' = [helperTurn EXCEPT ![f.trace] = s]
    BY <1>15, <1>0 DEF ReadPrompt, Reads
  <2>3. f.trace \in Traces
    BY <1>15, HeadOfHelper DEF ReadPrompt, Reads
  <2> HIDE DEF s
  <2> QED
    BY <1>0, <2>1, <2>2, <2>3, OneTurn DEF TurnTyped
<1>16. ASSUME NEW f, toHelper # <<>>, f = Head(toHelper), ReadActivation(f)
       PROVE  TurnTyped
  <2> DEFINE s == [helperTurn[f.trace] EXCEPT !.stage = "sent"]
  <2>1. s \in TurnState
    BY <1>16, <1>0, HeadOfHelper, TurnChanges DEF ReadActivation, Reads, Stages
  <2>2. helperTurn' = helperTurn \/ helperTurn' = [helperTurn EXCEPT ![f.trace] = s]
    BY <1>16, <1>0 DEF ReadActivation, Reads
  <2>3. f.trace \in Traces
    BY <1>16, HeadOfHelper DEF ReadActivation, Reads
  <2> HIDE DEF s
  <2> QED
    BY <1>0, <2>1, <2>2, <2>3, OneTurn DEF TurnTyped
<1>17. ASSUME NEW f, toHelper # <<>>, f = Head(toHelper), ReadProgress(f)
       PROVE  TurnTyped
  <2> DEFINE s == [helperTurn[f.trace] EXCEPT !.mirror = f.n]
  <2>1. s \in TurnState
    BY <1>17, <1>0, HeadOfHelper, TurnChanges DEF ReadProgress, Reads
  <2>2. helperTurn' = helperTurn \/ helperTurn' = [helperTurn EXCEPT ![f.trace] = s]
    BY <1>17, <1>0 DEF ReadProgress, Reads
  <2>3. f.trace \in Traces
    BY <1>17, HeadOfHelper DEF ReadProgress, Reads
  <2> HIDE DEF s
  <2> QED
    BY <1>0, <2>1, <2>2, <2>3, OneTurn DEF TurnTyped
<1>18. ASSUME NEW j \in jobs, JobFails(j)
       PROVE  TurnTyped
  BY <1>18, <1>0, Zenon DEF JobFails, helperVars, TurnTyped
<1>19. ASSUME NEW j \in jobs, NEW granted \in BOOLEAN, JobDone(j, granted)
       PROVE  TurnTyped
  BY <1>19, <1>0, Zenon DEF JobDone, helperVars, TurnTyped
<1>20. ASSUME NEW t \in notices, Noticed(t)
       PROVE  TurnTyped
  BY <1>20, <1>0, Zenon DEF Noticed, helperVars, TurnTyped
<1>21. ASSUME NEW t \in Traces, Advance(t)
       PROVE  TurnTyped
  <2> DEFINE fenced == helperTurn[t].stage \in {"sent", "begun"}
             n == IF fenced THEN fences' ELSE 0
             s == [helperTurn[t] EXCEPT !.stage = Ahead[helperTurn[t].stage], !.fence = n]
  <2>1. n \in 0 .. MaxFences
    BY <1>21, PipeShapes DEF Advance, PipeTypeOK
  <2>2. helperTurn' = [helperTurn EXCEPT ![t] = s]
    BY <1>21, <1>0 DEF Advance
  <2>3. Ahead[helperTurn[t].stage] \in Stages
    BY <1>21 DEF Advance, Ahead, Stages
  <2> HIDE DEF n
  <2>4. s \in TurnState
    BY <1>0, <1>21, <2>1, <2>3, TurnChanges
  <2> HIDE DEF s
  <2> QED
    BY <1>0, <1>21, <2>2, <2>4, OneTurn
<1>22. ASSUME NEW t \in Traces, Capture(t)
       PROVE  TurnTyped
  <2> DEFINE s == [helperTurn[t] EXCEPT !.captured = helperTurn[t].mirror]
  <2>1. s \in TurnState
    BY <1>0, <1>22, TurnChanges
  <2>2. helperTurn' = [helperTurn EXCEPT ![t] = s]
    BY <1>22, <1>0 DEF Capture
  <2> HIDE DEF s
  <2> QED
    BY <1>0, <1>22, <2>1, <2>2, OneTurn
<1>23. ASSUME NEW t \in Traces, EndTurn(t)
       PROVE  TurnTyped
  BY <1>23, <1>0, OneTurn DEF EndTurn
<1> QED
  BY <1>1, <1>2, <1>3, <1>4, <1>5, <1>6, <1>7, <1>8, <1>9, <1>10, <1>11, <1>12, <1>13, <1>14,
     <1>15, <1>16, <1>17, <1>18, <1>19, <1>20, <1>21, <1>22, <1>23, Zenon DEF PipeNext,
     DaemonReads, HelperReads

LEMMA FailingSends ==
  ASSUME run \in [Calls -> RunState], RunStep, NEW r \in Calls, FailsLocally(r),
         helperTurn' = helperTurn
  PROVE  ToHelperStep
<1>1. CASE toHelper' = toHelper
  BY <1>1 DEF ToHelperStep
<1>2. CASE Awaits(r) /\ Sends(Frame("abort", r, 0))
  <2>1. Frame("abort", r, 0) \in HelperFrame
    BY PipeShapes DEF HelperFrame, Frame, Traces
  <2>2. run'[r].phase \notin {"new", "waiting"}
    BY <1>2 DEF RunStep, Later, Awaits
  <2>3. Fresher(Frame("abort", r, 0))
    BY <1>2, <2>1, <2>2 DEF Fresher, ToldNext, StartedNext, Frame
  <2> QED
    BY <1>2, <2>1, <2>3, Zenon DEF Sends, ToHelperStep
<1> QED
  BY <1>1, <1>2, Zenon DEF FailsLocally

\* What the helper is sent.
LEMMA ToHelperMoves ==
  ASSUME PipeTypeOK, FramesIInv, PipeNext
  PROVE  ToHelperStep
<1>0. run \in [Calls -> RunState] /\ jobs \subseteq Job /\ RunStep
  BY RunMoves DEF PipeTypeOK
<1>1. ASSUME NEW r \in Calls, Ask(r)
      PROVE  ToHelperStep
  <2>1. CASE client # "none"
    BY <1>1, <2>1, Zenon DEF Ask, ToHelperStep
  <2>2. CASE client = "none"
    BY <1>1, <2>2 DEF Ask, ToHelperStep
  <2> QED
    BY <2>1, <2>2
<1>2. ASSUME NEW r \in Calls, Dispatch(r)
      PROVE  ToHelperStep
  <2>1. CASE toHelper' = toHelper
    BY <2>1 DEF ToHelperStep
  <2>2. CASE run' = [run EXCEPT ![r].phase = "pending"] /\ Sends(Frame("run", r, 0))
    <3>1. Frame("run", r, 0) \in HelperFrame
      BY PipeShapes DEF HelperFrame, Frame, Traces
    <3>2. Fresher(Frame("run", r, 0))
      BY <1>2, <1>0, <2>2, <3>1 DEF Fresher, ToldNext, StartedNext, Frame, Dispatch
    <3>3. helperTurn' = helperTurn
      BY <1>2 DEF Dispatch, helperVars
    <3> QED
      BY <2>2, <3>1, <3>2, <3>3, Zenon DEF Sends, ToHelperStep
  <2> QED
    BY <1>2, <2>1, <2>2, Zenon DEF Dispatch
<1>3. ASSUME NEW r \in Calls, Abort(r)
      PROVE  ToHelperStep
  <2>1. CASE toHelper' = toHelper
    BY <2>1 DEF ToHelperStep
  <2>2. CASE Awaits(r) /\ Sends(Frame("abort", r, 0))
    <3>1. Frame("abort", r, 0) \in HelperFrame
      BY PipeShapes DEF HelperFrame, Frame, Traces
    <3>2. run'[r].phase \notin {"new", "waiting"}
      BY <1>0, <2>2 DEF RunStep, Later, Awaits
    <3>3. Fresher(Frame("abort", r, 0))
      BY <2>2, <3>1, <3>2 DEF Fresher, ToldNext, StartedNext, Frame
    <3>4. helperTurn' = helperTurn
      BY <1>3 DEF Abort, helperVars
    <3> QED
      BY <2>2, <3>1, <3>3, <3>4, Zenon DEF Sends, ToHelperStep
  <2> QED
    BY <1>3, <2>1, <2>2, Zenon DEF Abort
<1>4. ASSUME NEW r \in Calls, RecordBatch(r)
      PROVE  ToHelperStep
  BY <1>4, Zenon DEF RecordBatch, ToHelperStep, helperVars
<1>5. ASSUME NEW r \in Calls, Forward(r)
      PROVE  ToHelperStep
  <2>1. Awaits(r) /\ Sends(Frame("progress", r, run[r].batches)) /\ helperTurn' = helperTurn
    BY <1>5 DEF Forward, helperVars
  <2>2. Frame("progress", r, run[r].batches) \in HelperFrame
    BY <1>0, PipeShapes DEF HelperFrame, Frame, Traces, RunState
  <2>3. run'[r].phase \notin {"new", "waiting"}
    BY <1>0, <2>1 DEF RunStep, Later, Awaits
  <2>4. run'[r].sent = run[r].batches /\ run[r].batches \in Nat
    BY <1>0, <1>5, PipeShapes DEF Forward, RunState
  <2>5. Fresher(Frame("progress", r, run[r].batches))
    BY <2>1, <2>2, <2>3, <2>4 DEF Fresher, ToldNext, StartedNext, Frame
  <2> QED
    BY <2>1, <2>2, <2>5, Zenon DEF Sends, ToHelperStep
<1>6. ASSUME Ready
      PROVE  ToHelperStep
  BY <1>6, Zenon DEF Ready, ToHelperStep, helperVars
<1>7. ASSUME Exit
      PROVE  ToHelperStep
  BY <1>7 DEF Exit, ToHelperStep
<1>8. ASSUME CloseClient
      PROVE  ToHelperStep
  BY <1>8 DEF CloseClient, ToHelperStep
<1>9. ASSUME NEW f, toDaemon # <<>>, f = Head(toDaemon), StartJob(f)
      PROVE  ToHelperStep
  BY <1>9, Zenon DEF StartJob, ToHelperStep, helperVars
<1>10. ASSUME NEW f, toDaemon # <<>>, f = Head(toDaemon), ReceiveObservation(f)
       PROVE  ToHelperStep
  <2>1. CASE toHelper' = toHelper
    BY <2>1 DEF ToHelperStep
  <2>2. CASE \E r \in AwaitedAs(f.trace) : FailsLocally(r)
    BY <1>0, <1>10, <2>2, FailingSends DEF AwaitedAs, ReceiveObservation, helperVars
  <2> QED
    BY <1>10, <2>1, <2>2, Zenon DEF ReceiveObservation
<1>11. ASSUME NEW f, toDaemon # <<>>, f = Head(toDaemon), ReceiveOutcome(f)
       PROVE  ToHelperStep
  BY <1>11, Zenon DEF ReceiveOutcome, ToHelperStep, helperVars
<1>12. ASSUME NEW f, toHelper # <<>>, f = Head(toHelper), ReadRun(f)
       PROVE  ToHelperStep
  BY <1>12, Zenon DEF ReadRun, Reads, ToHelperStep
<1>13. ASSUME NEW f, toHelper # <<>>, f = Head(toHelper), ReadAbort(f)
       PROVE  ToHelperStep
  BY <1>13, Zenon DEF ReadAbort, Reads, ToHelperStep
<1>14. ASSUME NEW f, toHelper # <<>>, f = Head(toHelper), ReadFence(f)
       PROVE  ToHelperStep
  BY <1>14, Zenon DEF ReadFence, Reads, ToHelperStep
<1>15. ASSUME NEW f, toHelper # <<>>, f = Head(toHelper), ReadPrompt(f)
       PROVE  ToHelperStep
  BY <1>15, Zenon DEF ReadPrompt, Reads, ToHelperStep
<1>16. ASSUME NEW f, toHelper # <<>>, f = Head(toHelper), ReadActivation(f)
       PROVE  ToHelperStep
  BY <1>16, Zenon DEF ReadActivation, Reads, ToHelperStep
<1>17. ASSUME NEW f, toHelper # <<>>, f = Head(toHelper), ReadProgress(f)
       PROVE  ToHelperStep
  BY <1>17, Zenon DEF ReadProgress, Reads, ToHelperStep
<1>18. ASSUME NEW j \in jobs, JobFails(j)
       PROVE  ToHelperStep
  <2>1. j.run \in Calls
    BY <1>0 DEF Job
  <2> QED
    BY <1>0, <1>18, <2>1, FailingSends DEF JobFails, helperVars
<1>19. ASSUME NEW j \in jobs, NEW granted \in BOOLEAN, JobDone(j, granted)
       PROVE  ToHelperStep
  <2>1. CASE toHelper' = toHelper
    BY <2>1 DEF ToHelperStep
  <2> DEFINE F == [kind |-> j.kind, trace |-> TraceOf[j.run], run |-> j.run, n |-> j.n,
                   granted |-> granted]
  <2>2. CASE Told(j) /\ Sends(F)
    <3>0. j.run \in Calls /\ j.n \in 0 .. MaxFences
          /\ j.kind \in {"prompt", "send", "begin", "commit"}
      BY <1>0 DEF Job
    <3>1. F \in HelperFrame
      BY <3>0 DEF HelperFrame, Traces
    <3>2. Awaits(j.run)
      BY <2>2 DEF Told
    <3>3. run'[j.run].phase \notin {"new", "waiting"}
      BY <1>0, <3>0, <3>2 DEF RunStep, Later, Awaits
    <3>4. /\ j.kind = "send" => run'[j.run].activated
          /\ j.kind = "commit" => (granted => run'[j.run].committed)
      BY <1>0, <1>19, <3>0 DEF JobDone
    <3>5. Fresher(F)
      BY <3>0, <3>1, <3>2, <3>3, <3>4 DEF Fresher, ToldNext, StartedNext
    <3>6. helperTurn' = helperTurn
      BY <1>19 DEF JobDone, helperVars
    <3> HIDE DEF F
    <3> QED
      BY <2>2, <3>1, <3>5, <3>6, Zenon DEF Sends, ToHelperStep
  <2> QED
    BY <1>19, <2>1, <2>2, Zenon DEF JobDone
<1>20. ASSUME NEW t \in notices, Noticed(t)
       PROVE  ToHelperStep
  BY <1>20, Zenon DEF Noticed, ToHelperStep, helperVars
<1>21. ASSUME NEW t \in Traces, Advance(t)
       PROVE  ToHelperStep
  BY <1>21, Zenon DEF Advance, ToHelperStep
<1>22. ASSUME NEW t \in Traces, Capture(t)
       PROVE  ToHelperStep
  BY <1>22, Zenon DEF Capture, ToHelperStep
<1>23. ASSUME NEW t \in Traces, EndTurn(t)
       PROVE  ToHelperStep
  BY <1>23, Zenon DEF EndTurn, ToHelperStep
<1> QED
  BY <1>1, <1>2, <1>3, <1>4, <1>5, <1>6, <1>7, <1>8, <1>9, <1>10, <1>11, <1>12, <1>13, <1>14,
     <1>15, <1>16, <1>17, <1>18, <1>19, <1>20, <1>21, <1>22, <1>23, Zenon DEF PipeNext,
     DaemonReads, HelperReads

\* A frame that the helper appends is of the run that it serves, or of the one refused.
Reported1(f) ==
  /\ f.trace = TraceOf[f.run] /\ Started(f.run)
  /\ Awaits(f.run) => /\ f.kind = "result" => run[f.run].committed
                      /\ f.kind = "batch" => f.n <= run[f.run].sent
ToDaemonStep ==
  \/ toDaemon' = toDaemon
  \/ toDaemon' = <<>>
  \/ toDaemon # <<>> /\ toDaemon' = Tail(toDaemon)
  \/ (\E f \in DaemonFrame : Reported1(f) /\ toDaemon' = Append(toDaemon, f)) /\ run' = run

LEMMA RefusedFrames ==
  ASSUME FramesIInv, toHelper # <<>>, NEW f, f = Head(toHelper), Refuses(f), run' = run
  PROVE  ToDaemonStep
<1> DEFINE F == [kind |-> "error", trace |-> f.trace, run |-> f.run, n |-> 0]
<1>1. f \in HelperFrame /\ ToldSo(f)
  BY HeadOfHelper DEF FramesIInv
<1>2. F \in DaemonFrame
  BY <1>1, PipeShapes DEF HelperFrame, DaemonFrame
<1>3. Reported1(F)
  BY <1>1 DEF Reported1, ToldSo
<1>4. toDaemon' = Append(toDaemon, F)
  BY DEF Refuses, Tells, ErrorFor
<1> HIDE DEF F
<1> QED
  BY <1>2, <1>3, <1>4 DEF ToDaemonStep

\* What the daemon is sent.
LEMMA ToDaemonMoves ==
  ASSUME PipeTypeOK, FramesIInv, ServingIInv, PipeNext
  PROVE  ToDaemonStep
<1>1. ASSUME NEW r \in Calls, Ask(r)
      PROVE  ToDaemonStep
  BY <1>1, Zenon DEF Ask, ToDaemonStep
<1>2. ASSUME NEW r \in Calls, Dispatch(r)
      PROVE  ToDaemonStep
  BY <1>2, Zenon DEF Dispatch, ToDaemonStep
<1>3. ASSUME NEW r \in Calls, Abort(r)
      PROVE  ToDaemonStep
  BY <1>3, Zenon DEF Abort, ToDaemonStep
<1>4. ASSUME NEW r \in Calls, RecordBatch(r)
      PROVE  ToDaemonStep
  BY <1>4, Zenon DEF RecordBatch, ToDaemonStep
<1>5. ASSUME NEW r \in Calls, Forward(r)
      PROVE  ToDaemonStep
  BY <1>5, Zenon DEF Forward, ToDaemonStep
<1>6. ASSUME Ready
      PROVE  ToDaemonStep
  BY <1>6, Zenon DEF Ready, ToDaemonStep
<1>7. ASSUME Exit
      PROVE  ToDaemonStep
  BY <1>7, Zenon DEF Exit, ToDaemonStep
<1>8. ASSUME CloseClient
      PROVE  ToDaemonStep
  BY <1>8, Zenon DEF CloseClient, ToDaemonStep
<1>9. ASSUME NEW f, toDaemon # <<>>, f = Head(toDaemon), StartJob(f)
      PROVE  ToDaemonStep
  BY <1>9, Zenon DEF StartJob, Receives, ToDaemonStep
<1>10. ASSUME NEW f, toDaemon # <<>>, f = Head(toDaemon), ReceiveObservation(f)
       PROVE  ToDaemonStep
  BY <1>10, Zenon DEF ReceiveObservation, Receives, ToDaemonStep
<1>11. ASSUME NEW f, toDaemon # <<>>, f = Head(toDaemon), ReceiveOutcome(f)
       PROVE  ToDaemonStep
  BY <1>11, Zenon DEF ReceiveOutcome, Receives, ToDaemonStep
<1>12. ASSUME NEW f, toHelper # <<>>, f = Head(toHelper), ReadRun(f)
       PROVE  ToDaemonStep
  <2>1. run' = run
    BY <1>12 DEF ReadRun, Reading
  <2>2. toDaemon' = toDaemon \/ Refuses(f)
    BY <1>12, Zenon DEF ReadRun
  <2> QED
    BY <1>12, <2>1, <2>2, RefusedFrames DEF ToDaemonStep
<1>13. ASSUME NEW f, toHelper # <<>>, f = Head(toHelper), ReadAbort(f)
       PROVE  ToDaemonStep
  BY <1>13, Zenon DEF ReadAbort, Reading, ToDaemonStep
<1>14. ASSUME NEW f, toHelper # <<>>, f = Head(toHelper), ReadFence(f)
       PROVE  ToDaemonStep
  BY <1>14, Zenon DEF ReadFence, Reading, ToDaemonStep
<1>15. ASSUME NEW f, toHelper # <<>>, f = Head(toHelper), ReadPrompt(f)
       PROVE  ToDaemonStep
  <2>1. run' = run
    BY <1>15 DEF ReadPrompt, Reading
  <2>2. toDaemon' = toDaemon \/ Refuses(f)
    BY <1>15, Zenon DEF ReadPrompt
  <2> QED
    BY <1>15, <2>1, <2>2, RefusedFrames DEF ToDaemonStep
<1>16. ASSUME NEW f, toHelper # <<>>, f = Head(toHelper), ReadActivation(f)
       PROVE  ToDaemonStep
  <2>1. run' = run
    BY <1>16 DEF ReadActivation, Reading
  <2>2. toDaemon' = toDaemon \/ Refuses(f)
    BY <1>16, Zenon DEF ReadActivation
  <2> QED
    BY <1>16, <2>1, <2>2, RefusedFrames DEF ToDaemonStep
<1>17. ASSUME NEW f, toHelper # <<>>, f = Head(toHelper), ReadProgress(f)
       PROVE  ToDaemonStep
  BY <1>17, Zenon DEF ReadProgress, Reading, ToDaemonStep
<1>18. ASSUME NEW j \in jobs, JobFails(j)
       PROVE  ToDaemonStep
  BY <1>18, Zenon DEF JobFails, ToDaemonStep
<1>19. ASSUME NEW j \in jobs, NEW granted \in BOOLEAN, JobDone(j, granted)
       PROVE  ToDaemonStep
  BY <1>19, Zenon DEF JobDone, ToDaemonStep
<1>20. ASSUME NEW t \in notices, Noticed(t)
       PROVE  ToDaemonStep
  BY <1>20, Zenon DEF Noticed, ToDaemonStep
<1>21. ASSUME NEW t \in Traces, Advance(t)
       PROVE  ToDaemonStep
  <2>1. /\ helperTurn[t] \in TurnState /\ helperTurn[t].served \in Calls
        /\ TraceOf[helperTurn[t].served] = t /\ Started(helperTurn[t].served)
        /\ ServesWell(helperTurn[t])
    BY <1>21 DEF ServingIInv, PipeTypeOK, Advance, Ahead
  <2> DEFINE fenced == helperTurn[t].stage \in {"sent", "begun"}
             F == [kind |-> Asks[helperTurn[t].stage], trace |-> t, run |-> helperTurn[t].served,
                   n |-> IF fenced THEN fences' ELSE 0]
  <2>2. F \in DaemonFrame
    <3>1. Asks[helperTurn[t].stage] \in {"prompt", "send", "begin", "commit"}
      BY <1>21 DEF Advance, Ahead, Asks
    <3>2. (IF fenced THEN fences' ELSE 0) \in 0 .. MaxFences
      BY <1>21, PipeShapes DEF Advance, PipeTypeOK
    <3> QED
      BY <1>21, <2>1, <3>1, <3>2 DEF DaemonFrame
  <2>3. Reported1(F)
    <3>1. Asks[helperTurn[t].stage] \notin {"result", "batch"}
      BY <1>21 DEF Advance, Ahead, Asks
    <3> QED
      BY <2>1, <3>1 DEF Reported1
  <2>4. toDaemon' = Append(toDaemon, F) /\ run' = run
    BY <1>21 DEF Advance, Tells
  <2> HIDE DEF F
  <2> QED
    BY <2>2, <2>3, <2>4 DEF ToDaemonStep
<1>22. ASSUME NEW t \in Traces, Capture(t)
       PROVE  ToDaemonStep
  <2>1. /\ helperTurn[t] \in TurnState /\ helperTurn[t].served \in Calls
        /\ TraceOf[helperTurn[t].served] = t /\ Started(helperTurn[t].served)
        /\ ServesWell(helperTurn[t])
    BY <1>22 DEF ServingIInv, PipeTypeOK, Capture
  <2> DEFINE F == [kind |-> "batch", trace |-> t, run |-> helperTurn[t].served,
                   n |-> helperTurn[t].mirror]
  <2>2. F \in DaemonFrame
    BY <1>22, <2>1 DEF DaemonFrame, TurnState
  <2>3. Reported1(F)
    BY <2>1 DEF Reported1, ServesWell
  <2>4. toDaemon' = Append(toDaemon, F) /\ run' = run
    BY <1>22 DEF Capture, Tells, Reading
  <2> HIDE DEF F
  <2> QED
    BY <2>2, <2>3, <2>4 DEF ToDaemonStep
<1>23. ASSUME NEW t \in Traces, EndTurn(t)
       PROVE  ToDaemonStep
  <2>1. /\ helperTurn[t] \in TurnState /\ helperTurn[t].served \in Calls
        /\ TraceOf[helperTurn[t].served] = t /\ Started(helperTurn[t].served)
        /\ ServesWell(helperTurn[t])
    BY <1>23 DEF ServingIInv, PipeTypeOK, EndTurn
  <2>2. PICK kind \in {"result", "error"} :
          /\ kind = "result" => helperTurn[t].stage = "answered"
          /\ Tells([kind |-> kind, trace |-> t, run |-> helperTurn[t].served, n |-> 0])
    BY <1>23 DEF EndTurn
  <2> DEFINE F == [kind |-> kind, trace |-> t, run |-> helperTurn[t].served, n |-> 0]
  <2>3. F \in DaemonFrame
    BY <1>23, <2>1, PipeShapes DEF DaemonFrame
  <2>4. Reported1(F)
    BY <2>1, <2>2 DEF Reported1, ServesWell
  <2>5. toDaemon' = Append(toDaemon, F) /\ run' = run
    BY <1>23, <2>2 DEF EndTurn, Tells, Reading
  <2> HIDE DEF F
  <2> QED
    BY <2>3, <2>4, <2>5 DEF ToDaemonStep
<1> QED
  BY <1>1, <1>2, <1>3, <1>4, <1>5, <1>6, <1>7, <1>8, <1>9, <1>10, <1>11, <1>12, <1>13, <1>14,
     <1>15, <1>16, <1>17, <1>18, <1>19, <1>20, <1>21, <1>22, <1>23, Zenon DEF PipeNext,
     DaemonReads, HelperReads

\* Frames stay true of their runs.
LEMMA FramesKept ==
  ASSUME PipeIInv, PipeNext
  PROVE  FramesIInv'
<1>0. RunStep /\ ToHelperStep /\ ToDaemonStep /\ FramesIInv
  BY RunMoves, ToHelperMoves, ToDaemonMoves DEF PipeIInv
<1>1. \A f \in HelperFrame : ToldSo(f) => ToldNext(f)
  <2> SUFFICES ASSUME NEW f \in HelperFrame, ToldSo(f) PROVE ToldNext(f)
    OBVIOUS
  <2>1. f.run \in Calls /\ run \in [Calls -> RunState]
    BY DEF HelperFrame, PipeIInv, PipeTypeOK
  <2>2. Later(run[f.run], run'[f.run]) /\ run'[f.run] \in RunState /\ run[f.run] \in RunState
    BY <1>0, <2>1 DEF RunStep
  <2>3. f.kind = "progress" => f.n \in Nat /\ f.n <= run[f.run].sent
    BY PipeShapes DEF ToldSo, HelperFrame
  <2>4. run[f.run].sent \in Nat /\ run'[f.run].sent \in Nat
    BY <2>2, PipeShapes DEF RunState
  <2> QED
    BY <2>2, <2>3, <2>4 DEF ToldSo, ToldNext, StartedNext, Started, Later
<1>2. \A f \in DaemonFrame : Started(f.run) => StartedNext(f.run)
  BY <1>0 DEF RunStep, Later, Started, StartedNext, DaemonFrame
<1>3. toHelper' \in Seq(HelperFrame) /\ \A i \in DOMAIN toHelper' : ToldNext(toHelper'[i])
  <2>1. CASE toHelper' = toHelper
    BY <1>0, <1>1, <2>1 DEF FramesIInv
  <2>2. CASE toHelper' = <<>>
    BY <2>2
  <2>3. CASE toHelper # <<>> /\ toHelper' = Tail(toHelper)
    <3>1. toHelper' \in Seq(HelperFrame)
          /\ \A i \in DOMAIN toHelper' : i + 1 \in DOMAIN toHelper /\ toHelper'[i] = toHelper[i + 1]
      BY <1>0, <2>3 DEF FramesIInv
    <3>2. \A i \in DOMAIN toHelper' : toHelper'[i] \in HelperFrame /\ ToldSo(toHelper'[i])
      BY <1>0, <3>1 DEF FramesIInv
    <3> QED
      BY <1>1, <3>1, <3>2
  <2>4. CASE \E f \in HelperFrame : Fresher(f) /\ toHelper' = Append(toHelper, f)
    <3>1. PICK f \in HelperFrame : Fresher(f) /\ toHelper' = Append(toHelper, f)
      BY <2>4
    <3>2. ToldNext(f)
      BY <3>1 DEF Fresher
    <3>3. toHelper' \in Seq(HelperFrame)
          /\ \A i \in DOMAIN toHelper' : toHelper'[i] = f \/ (i \in DOMAIN toHelper
                                                             /\ toHelper'[i] = toHelper[i])
      BY <1>0, <3>1 DEF FramesIInv
    <3>4. \A i \in DOMAIN toHelper : toHelper[i] \in HelperFrame /\ ToldSo(toHelper[i])
      BY <1>0 DEF FramesIInv
    <3> QED
      BY <1>1, <3>2, <3>3, <3>4
  <2> QED
    BY <1>0, <2>1, <2>2, <2>3, <2>4 DEF ToHelperStep
<1>4. toDaemon' \in Seq(DaemonFrame)
      /\ \A i \in DOMAIN toDaemon' : /\ toDaemon'[i].trace = TraceOf[toDaemon'[i].run]
                                     /\ StartedNext(toDaemon'[i].run)
  <2> DEFINE Fine(f) == f \in DaemonFrame /\ f.trace = TraceOf[f.run] /\ Started(f.run)
  <2>0. toDaemon \in Seq(DaemonFrame) /\ \A i \in DOMAIN toDaemon : Fine(toDaemon[i])
    BY <1>0 DEF FramesIInv
  <2>1. toDaemon' \in Seq(DaemonFrame) /\ \A i \in DOMAIN toDaemon' : Fine(toDaemon'[i])
    <3>1. CASE toDaemon' = toDaemon
      BY <2>0, <3>1
    <3>2. CASE toDaemon' = <<>>
      BY <3>2
    <3>3. CASE toDaemon # <<>> /\ toDaemon' = Tail(toDaemon)
      <4>1. toDaemon' \in Seq(DaemonFrame)
            /\ \A i \in DOMAIN toDaemon' : /\ i + 1 \in DOMAIN toDaemon
                                           /\ toDaemon'[i] = toDaemon[i + 1]
        BY <2>0, <3>3
      <4> HIDE DEF Fine
      <4> QED
        BY <2>0, <4>1
    <3>4. CASE \E f \in DaemonFrame : Reported1(f) /\ toDaemon' = Append(toDaemon, f)
      <4>1. PICK f \in DaemonFrame : Reported1(f) /\ toDaemon' = Append(toDaemon, f)
        BY <3>4
      <4>2. Fine(f)
        BY <4>1 DEF Reported1
      <4>3. toDaemon' \in Seq(DaemonFrame)
            /\ \A i \in DOMAIN toDaemon' : toDaemon'[i] = f \/ (i \in DOMAIN toDaemon
                                                               /\ toDaemon'[i] = toDaemon[i])
        BY <2>0, <4>1
      <4> HIDE DEF Fine
      <4> QED
        BY <2>0, <4>2, <4>3
    <3> QED
      BY <1>0, <3>1, <3>2, <3>3, <3>4, Zenon DEF ToDaemonStep
  <2> QED
    BY <1>2, <2>1
<1> QED
  BY <1>3, <1>4 DEF FramesIInv, ToldSo, ToldNext, Started, StartedNext

\* Only Dispatch makes a run pending.
StartsOnly ==
  \A q \in Calls : run'[q].phase = "pending" /\ run[q].phase # "pending" => Dispatch(q)

LEMMA FailingStarts ==
  ASSUME run \in [Calls -> RunState], NEW r \in Calls, FailsLocally(r)
  PROVE  StartsOnly
<1>1. CASE run' = run
  BY <1>1 DEF StartsOnly
<1>2. CASE run' = [run EXCEPT ![r].failed = TRUE,
                              ![r].phase = IF client = "none" THEN "rejected" ELSE @]
  <2>1. /\ \A q \in Calls \ {r} : run'[q] = run[q]
        /\ run'[r].phase \in {"rejected", run[r].phase}
    BY <1>2 DEF RunState
  <2> QED
    BY <2>1 DEF StartsOnly
<1> QED
  BY <1>1, <1>2 DEF FailsLocally

LEMMA Dispatched ==
  ASSUME run \in [Calls -> RunState], NEW r \in Calls, Dispatch(r), run'[r].phase = "pending"
  PROVE  /\ run' = [run EXCEPT ![r].phase = "pending"] /\ AwaitedAs(TraceOf[r]) = {}
         /\ client = "ready" /\ Sends(Frame("run", r, 0))
<1>1. run' # RejectAll({r})
  <2> SUFFICES ASSUME run' = RejectAll({r}) PROVE FALSE
    OBVIOUS
  <2>1. run'[r].phase = "rejected"
    BY DEF RejectAll, RunState
  <2> QED
    BY <2>1
<1> QED
  BY <1>1, Zenon DEF Dispatch

\* The runs that become pending.
LEMMA Starters ==
  ASSUME PipeTypeOK, PipeNext
  PROVE  StartsOnly
<1>0. run \in [Calls -> RunState] /\ jobs \subseteq Job
  BY DEF PipeTypeOK
<1>1. ASSUME NEW r \in Calls, Ask(r)
      PROVE  StartsOnly
  BY <1>1, <1>0 DEF Ask, StartsOnly
<1>2. ASSUME NEW r \in Calls, Dispatch(r)
      PROVE  StartsOnly
  <2>1. CASE run' = RejectAll({r})
    BY <1>0, <2>1 DEF RejectAll, StartsOnly
  <2>2. CASE run' = [run EXCEPT ![r].phase = "pending"]
    BY <1>2, <1>0, <2>2 DEF StartsOnly
  <2> QED
    BY <1>2, <2>1, <2>2, Zenon DEF Dispatch
<1>3. ASSUME NEW r \in Calls, Abort(r)
      PROVE  StartsOnly
  BY <1>3, <1>0 DEF Abort, StartsOnly
<1>4. ASSUME NEW r \in Calls, RecordBatch(r)
      PROVE  StartsOnly
  BY <1>4, <1>0 DEF RecordBatch, StartsOnly
<1>5. ASSUME NEW r \in Calls, Forward(r)
      PROVE  StartsOnly
  BY <1>5, <1>0 DEF Forward, StartsOnly
<1>6. ASSUME Ready
      PROVE  StartsOnly
  BY <1>6, Zenon DEF Ready, StartsOnly
<1>7. ASSUME Exit
      PROVE  StartsOnly
  BY <1>7, <1>0 DEF Exit, StartsOnly, RejectAll
<1>8. ASSUME CloseClient
      PROVE  StartsOnly
  BY <1>8, <1>0 DEF CloseClient, StartsOnly, RejectAll
<1>9. ASSUME NEW f, toDaemon # <<>>, f = Head(toDaemon), StartJob(f)
      PROVE  StartsOnly
  BY <1>9, Zenon DEF StartJob, StartsOnly
<1>10. ASSUME NEW f, toDaemon # <<>>, f = Head(toDaemon), ReceiveObservation(f)
       PROVE  StartsOnly
  <2>1. CASE run' = run
    BY <2>1 DEF StartsOnly
  <2>2. CASE \E r \in AwaitedAs(f.trace) : FailsLocally(r)
    BY <1>0, <2>2, FailingStarts DEF AwaitedAs
  <2>3. CASE \E r \in AwaitedAs(f.trace) :
               run' = [run EXCEPT ![r].observed = IF f.n > @ THEN f.n ELSE @]
    BY <1>0, <2>3 DEF AwaitedAs, StartsOnly
  <2> QED
    BY <1>10, <2>1, <2>2, <2>3, Zenon DEF ReceiveObservation
<1>11. ASSUME NEW f, toDaemon # <<>>, f = Head(toDaemon), ReceiveOutcome(f)
       PROVE  StartsOnly
  BY <1>11, <1>0 DEF ReceiveOutcome, StartsOnly
<1>12. ASSUME NEW f, toHelper # <<>>, f = Head(toHelper), ReadRun(f)
       PROVE  StartsOnly
  BY <1>12, Zenon DEF ReadRun, StartsOnly, Reading
<1>13. ASSUME NEW f, toHelper # <<>>, f = Head(toHelper), ReadAbort(f)
       PROVE  StartsOnly
  BY <1>13, Zenon DEF ReadAbort, StartsOnly, Reading
<1>14. ASSUME NEW f, toHelper # <<>>, f = Head(toHelper), ReadFence(f)
       PROVE  StartsOnly
  BY <1>14, Zenon DEF ReadFence, StartsOnly, Reading
<1>15. ASSUME NEW f, toHelper # <<>>, f = Head(toHelper), ReadPrompt(f)
       PROVE  StartsOnly
  BY <1>15, Zenon DEF ReadPrompt, StartsOnly, Reading
<1>16. ASSUME NEW f, toHelper # <<>>, f = Head(toHelper), ReadActivation(f)
       PROVE  StartsOnly
  BY <1>16, Zenon DEF ReadActivation, StartsOnly, Reading
<1>17. ASSUME NEW f, toHelper # <<>>, f = Head(toHelper), ReadProgress(f)
       PROVE  StartsOnly
  BY <1>17, Zenon DEF ReadProgress, StartsOnly, Reading
<1>18. ASSUME NEW j \in jobs, JobFails(j)
       PROVE  StartsOnly
  BY <1>18, <1>0, FailingStarts DEF JobFails, Job
<1>19. ASSUME NEW j \in jobs, NEW granted \in BOOLEAN, JobDone(j, granted)
       PROVE  StartsOnly
  <2>1. j.run \in Calls
    BY <1>0 DEF Job
  <2>2. /\ \A q \in Calls \ {j.run} : run'[q] = run[q]
        /\ run'[j.run].phase \in {"rejected", run[j.run].phase}
    BY <1>0, <1>19, <2>1 DEF JobDone, RunState
  <2> QED
    BY <2>1, <2>2 DEF StartsOnly
<1>20. ASSUME NEW t \in notices, Noticed(t)
       PROVE  StartsOnly
  BY <1>20, <1>0 DEF Noticed, StartsOnly, RejectAll
<1>21. ASSUME NEW t \in Traces, Advance(t)
       PROVE  StartsOnly
  BY <1>21, Zenon DEF Advance, StartsOnly
<1>22. ASSUME NEW t \in Traces, Capture(t)
       PROVE  StartsOnly
  BY <1>22, Zenon DEF Capture, StartsOnly, Reading
<1>23. ASSUME NEW t \in Traces, EndTurn(t)
       PROVE  StartsOnly
  BY <1>23, Zenon DEF EndTurn, StartsOnly, Reading
<1> QED
  BY <1>1, <1>2, <1>3, <1>4, <1>5, <1>6, <1>7, <1>8, <1>9, <1>10, <1>11, <1>12, <1>13, <1>14,
     <1>15, <1>16, <1>17, <1>18, <1>19, <1>20, <1>21, <1>22, <1>23, Zenon DEF PipeNext,
     DaemonReads, HelperReads

LEMMA OnePendingKept ==
  ASSUME PipeIInv, PipeNext
  PROVE  OnePending'
<1>0. StartsOnly /\ OnePending /\ run \in [Calls -> RunState]
  BY Starters DEF PipeIInv, PipeTypeOK
<1>1. \A r \in Calls : Dispatch(r) /\ run'[r].phase = "pending" =>
        /\ \A q \in Calls : run[q].phase = "pending" => TraceOf[q] # TraceOf[r]
        /\ \A q \in Calls \ {r} : run'[q].phase = run[q].phase
  <2> SUFFICES ASSUME NEW r \in Calls, Dispatch(r), run'[r].phase = "pending"
               PROVE  /\ \A q \in Calls : run[q].phase = "pending" => TraceOf[q] # TraceOf[r]
                      /\ \A q \in Calls \ {r} : run'[q].phase = run[q].phase
    OBVIOUS
  <2>1. run' = [run EXCEPT ![r].phase = "pending"] /\ AwaitedAs(TraceOf[r]) = {}
    BY <1>0, Dispatched
  <2> QED
    BY <1>0, <2>1 DEF AwaitedAs, Awaits
<1>2. ASSUME NEW r \in Calls, NEW q \in Calls, r # q, TraceOf[r] = TraceOf[q],
             run'[r].phase = "pending", run'[q].phase = "pending"
      PROVE  FALSE
  <2>1. CASE run[r].phase # "pending"
    <3>1. run[q].phase = "pending"
      BY <1>0, <1>1, <1>2, <2>1 DEF StartsOnly
    <3> QED
      BY <1>0, <1>1, <1>2, <2>1, <3>1 DEF StartsOnly
  <2>2. CASE run[q].phase # "pending"
    <3>1. run[r].phase = "pending"
      BY <1>0, <1>1, <1>2, <2>2 DEF StartsOnly
    <3> QED
      BY <1>0, <1>1, <1>2, <2>2, <3>1 DEF StartsOnly
  <2> QED
    BY <1>0, <1>2, <2>1, <2>2 DEF OnePending, Awaits
<1> QED
  BY <1>2 DEF OnePending, Awaits

\* The run frame of a run that becomes pending is the last one.
LEMMA OrderKept ==
  ASSUME PipeIInv, PipeNext
  PROVE  OrderIInv'
<1>0. /\ StartsOnly /\ RunStep /\ ToHelperStep /\ OnePending /\ OrderIInv /\ FramesIInv
      /\ ServingIInv /\ run \in [Calls -> RunState] /\ toHelper \in Seq(HelperFrame)
  BY Starters, RunMoves, ToHelperMoves DEF PipeIInv, PipeTypeOK, FramesIInv
<1>1. \A r \in Calls : run'[r].phase = "pending" =>
        \/ run[r].phase = "pending"
        \/ toHelper' = Append(toHelper, Frame("run", r, 0))
  <2> SUFFICES ASSUME NEW r \in Calls, run'[r].phase = "pending", run[r].phase # "pending"
               PROVE  toHelper' = Append(toHelper, Frame("run", r, 0))
    OBVIOUS
  <2>1. Dispatch(r)
    BY <1>0 DEF StartsOnly
  <2>2. client = "ready" /\ Sends(Frame("run", r, 0))
    BY <1>0, <2>1, Dispatched
  <2> QED
    BY <1>0, <2>2 DEF ServingIInv, Sends
<1> DEFINE Once(s) == \A r \in Calls : \A i, j \in DOMAIN s :
                        IsRunOf(s[i], r) /\ IsRunOf(s[j], r) => i = j
           After(s, r) == \A i \in DOMAIN s : s[i].trace = TraceOf[r] /\ s[i].run # r =>
                            \E j \in DOMAIN s : i < j /\ IsRunOf(s[j], r)
<1>2. Once(toHelper) /\ \A r \in Calls : run[r].phase = "pending" => After(toHelper, r)
  BY <1>0 DEF OrderIInv, Awaits
<1>3. Once(toHelper') /\ \A r \in Calls : run'[r].phase = "pending" => After(toHelper', r)
  <2>1. CASE toHelper' = toHelper
    <3>1. \A r \in Calls : toHelper' # Append(toHelper, Frame("run", r, 0))
      <4>1. \A x : Append(toHelper, x) # toHelper
        <5> SUFFICES ASSUME NEW x PROVE Append(toHelper, x) # toHelper
          OBVIOUS
        <5>1. Len(Append(toHelper, x)) = Len(toHelper) + 1 /\ Len(toHelper) \in Nat
          BY <1>0
        <5> QED
          BY <5>1
      <4> QED
        BY <2>1, <4>1
    <3>2. \A r \in Calls : run'[r].phase = "pending" => run[r].phase = "pending"
      BY <1>1, <3>1
    <3> HIDE DEF Once, After
    <3> QED
      BY <1>2, <2>1, <3>2
  <2>2. CASE toHelper' = <<>>
    BY <2>2
  <2>3. CASE toHelper # <<>> /\ toHelper' = Tail(toHelper)
    <3>1. /\ Len(toHelper) \in Nat /\ Len(toHelper') = Len(toHelper) - 1
          /\ DOMAIN toHelper' = 1 .. Len(toHelper') /\ DOMAIN toHelper = 1 .. Len(toHelper)
          /\ \A i \in DOMAIN toHelper' : i + 1 \in DOMAIN toHelper
                                         /\ toHelper'[i] = toHelper[i + 1]
      BY <1>0, <2>3
    <3>2. \A r \in Calls : run'[r].phase = "pending" => run[r].phase = "pending"
      <4>1. \A x : toHelper' # Append(toHelper, x)
        <5> SUFFICES ASSUME NEW x PROVE toHelper' # Append(toHelper, x)
          OBVIOUS
        <5>1. Len(Append(toHelper, x)) = Len(toHelper) + 1
          BY <1>0
        <5> QED
          BY <3>1, <5>1
      <4> QED
        BY <1>1, <4>1
    <3>3. Once(toHelper')
      <4> SUFFICES ASSUME NEW r \in Calls, NEW i \in DOMAIN toHelper', NEW j \in DOMAIN toHelper',
                          IsRunOf(toHelper'[i], r), IsRunOf(toHelper'[j], r)
                   PROVE  i = j
        OBVIOUS
      <4>1. i + 1 = j + 1
        BY <1>2, <3>1
      <4> QED
        BY <3>1, <4>1
    <3>4. ASSUME NEW r \in Calls, run'[r].phase = "pending"
          PROVE  After(toHelper', r)
      <4> SUFFICES ASSUME NEW i \in DOMAIN toHelper', toHelper'[i].trace = TraceOf[r],
                          toHelper'[i].run # r
                   PROVE  \E j \in DOMAIN toHelper' : i < j /\ IsRunOf(toHelper'[j], r)
        OBVIOUS
      <4>1. PICK j \in DOMAIN toHelper : i + 1 < j /\ IsRunOf(toHelper[j], r)
        BY <1>2, <3>1, <3>2, <3>4
      <4>2. j - 1 \in DOMAIN toHelper' /\ i < j - 1 /\ (j - 1) + 1 = j
        BY <3>1, <4>1
      <4>3. toHelper'[j - 1] = toHelper[j]
        BY <3>1, <4>2
      <4> QED
        BY <4>1, <4>2, <4>3
    <3> QED
      BY <3>3, <3>4
  <2>4. CASE \E f \in HelperFrame : Fresher(f) /\ toHelper' = Append(toHelper, f)
    <3>1. PICK f \in HelperFrame : Fresher(f) /\ toHelper' = Append(toHelper, f)
      BY <2>4
    <3>2. /\ Len(toHelper) \in Nat /\ Len(toHelper') = Len(toHelper) + 1
          /\ DOMAIN toHelper' = 1 .. Len(toHelper') /\ DOMAIN toHelper = 1 .. Len(toHelper)
          /\ \A i \in DOMAIN toHelper : i \in DOMAIN toHelper' /\ toHelper'[i] = toHelper[i]
          /\ toHelper'[Len(toHelper')] = f
      BY <1>0, <3>1
    <3>3. Once(toHelper')
      <4>1. \A i \in DOMAIN toHelper : \A r \in Calls :
              ~(IsRunOf(toHelper[i], r) /\ IsRunOf(f, r))
        BY <1>0, <3>1 DEF FramesIInv, ToldSo, Started, Fresher, IsRunOf
      <4> SUFFICES ASSUME NEW r \in Calls, NEW i \in DOMAIN toHelper', NEW j \in DOMAIN toHelper',
                          IsRunOf(toHelper'[i], r), IsRunOf(toHelper'[j], r)
                   PROVE  i = j
        OBVIOUS
      <4>2. (i \in DOMAIN toHelper \/ i = Len(toHelper'))
            /\ (j \in DOMAIN toHelper \/ j = Len(toHelper'))
        BY <3>2
      <4> QED
        BY <1>2, <3>2, <4>1, <4>2
    <3>4. ASSUME NEW r \in Calls, run'[r].phase = "pending"
          PROVE  After(toHelper', r)
      <4> SUFFICES ASSUME NEW i \in DOMAIN toHelper', toHelper'[i].trace = TraceOf[r],
                          toHelper'[i].run # r
                   PROVE  \E j \in DOMAIN toHelper' : i < j /\ IsRunOf(toHelper'[j], r)
        OBVIOUS
      <4>1. CASE run[r].phase = "pending"
        <5>1. i # Len(toHelper')
          <6> SUFFICES ASSUME i = Len(toHelper') PROVE FALSE
            OBVIOUS
          <6>1. f.trace = TraceOf[r] /\ f.run # r /\ f.run \in Calls /\ f.trace = TraceOf[f.run]
            BY <3>1, <3>2 DEF Fresher, ToldNext, HelperFrame
          <6>2. CASE f.kind # "run"
            BY <1>0, <3>1, <4>1, <6>1, <6>2 DEF Fresher, OnePending, Awaits
          <6>3. CASE f.kind = "run"
            <7>1. run'[f.run].phase = "pending"
              BY <3>1, <6>3 DEF Fresher
            <7> QED
              BY <3>4, <6>1, <7>1, OnePendingKept DEF OnePending, Awaits
          <6> QED
            BY <6>2, <6>3
        <5>2. PICK j \in DOMAIN toHelper : i < j /\ IsRunOf(toHelper[j], r)
          BY <1>2, <3>2, <4>1, <5>1
        <5> QED
          BY <3>2, <5>2
      <4>2. CASE run[r].phase # "pending"
        <5>1. toHelper' = Append(toHelper, Frame("run", r, 0))
          BY <1>1, <3>4, <4>2
        <5>2. f = Frame("run", r, 0)
          BY <1>0, <3>2, <5>1
        <5>3. i # Len(toHelper')
          BY <3>2, <5>2 DEF Frame
        <5>4. Len(toHelper') \in DOMAIN toHelper' /\ i < Len(toHelper')
              /\ IsRunOf(toHelper'[Len(toHelper')], r)
          BY <3>2, <5>2, <5>3 DEF Frame, IsRunOf
        <5> QED
          BY <5>4
      <4> QED
        BY <4>1, <4>2
    <3> QED
      BY <3>3, <3>4
  <2> QED
    BY <1>0, <2>1, <2>2, <2>3, <2>4 DEF ToHelperStep
<1> QED
  BY <1>3 DEF OrderIInv, Awaits

\* A turn that serves a pending run reads that run's frames.
LEMMA OwnFrame ==
  ASSUME PipeIInv, toHelper # <<>>, Head(toHelper).kind # "run",
         NEW t \in Traces, t = Head(toHelper).trace, helperTurn[t].stage # "none",
         Awaits(helperTurn[t].served)
  PROVE  Head(toHelper).run = helperTurn[t].served
<1> DEFINE r == helperTurn[t].served
<1>1. /\ Head(toHelper) = toHelper[1] /\ 1 \in DOMAIN toHelper
      /\ r \in Calls /\ TraceOf[r] = t /\ \A i \in DOMAIN toHelper : ~IsRunOf(toHelper[i], r)
  BY HeadOfHelper DEF PipeIInv, ServingIInv
<1> QED
  BY <1>1 DEF PipeIInv, OrderIInv

\* What a turn knows of its run stays so.
ServesNext(s) ==
  run'[s.served].phase = "pending" =>
    /\ s.mirror <= run'[s.served].sent
    /\ s.stage = "answered" => run'[s.served].committed
    /\ s.stage \in {"sent", "beginning", "begun", "committing", "answered"}
         => run'[s.served].activated

LEMMA ServesStill ==
  ASSUME PipeIInv, RunStep, NEW s \in TurnState, s.served \in Calls, Started(s.served),
         ServesWell(s)
  PROVE  ServesNext(s) /\ StartedNext(s.served)
<1>1. /\ run[s.served] \in RunState /\ run'[s.served] \in RunState
      /\ Later(run[s.served], run'[s.served])
  BY DEF PipeIInv, PipeTypeOK, RunStep
<1>2. run[s.served].sent \in Nat /\ run'[s.served].sent \in Nat /\ s.mirror \in Nat
  BY <1>1, PipeShapes DEF RunState, TurnState
<1>3. run'[s.served].phase = "pending" => run[s.served].phase = "pending"
  BY <1>1 DEF Later, Started
<1> QED
  BY <1>1, <1>2, <1>3 DEF ServesNext, ServesWell, Awaits, StartedNext, Started, Later

\* A turn, and the frames for the helper, after a step.
HelperPast(r) == \A i \in DOMAIN toHelper' : ~IsRunOf(toHelper'[i], r)
TurnNext(t) ==
  helperTurn'[t].stage # "none" =>
    /\ helperTurn'[t].served \in Calls /\ TraceOf[helperTurn'[t].served] = t
    /\ StartedNext(helperTurn'[t].served) /\ HelperPast(helperTurn'[t].served)
    /\ ServesNext(helperTurn'[t])

\* The frames of a run that was read are not sent again.
LEMMA PastStays ==
  ASSUME PipeIInv, ToHelperStep, NEW r \in Calls, Started(r),
         \A i \in DOMAIN toHelper : ~IsRunOf(toHelper[i], r)
  PROVE  HelperPast(r)
<1>0. toHelper \in Seq(HelperFrame)
  BY DEF PipeIInv, FramesIInv
<1>1. CASE toHelper' = toHelper
  BY <1>1 DEF HelperPast
<1>2. CASE toHelper' = <<>>
  BY <1>2 DEF HelperPast
<1>3. CASE toHelper # <<>> /\ toHelper' = Tail(toHelper)
  <2>1. \A i \in DOMAIN toHelper' : i + 1 \in DOMAIN toHelper /\ toHelper'[i] = toHelper[i + 1]
    BY <1>0, <1>3
  <2> QED
    BY <2>1 DEF HelperPast
<1>4. CASE \E f \in HelperFrame : Fresher(f) /\ toHelper' = Append(toHelper, f)
  <2>1. PICK f \in HelperFrame : Fresher(f) /\ toHelper' = Append(toHelper, f)
    BY <1>4
  <2>2. ~IsRunOf(f, r)
    BY <2>1 DEF Fresher, IsRunOf, Started
  <2>3. \A i \in DOMAIN toHelper' : toHelper'[i] = f \/ (i \in DOMAIN toHelper
                                                         /\ toHelper'[i] = toHelper[i])
    BY <1>0, <2>1
  <2> QED
    BY <2>2, <2>3 DEF HelperPast
<1> QED
  BY <1>1, <1>2, <1>3, <1>4 DEF ToHelperStep

LEMMA SameTurn ==
  ASSUME PipeIInv, RunStep, ToHelperStep, NEW t \in Traces, helperTurn'[t] = helperTurn[t]
  PROVE  TurnNext(t)
<1> SUFFICES ASSUME helperTurn[t].stage # "none" PROVE TurnNext(t)
  BY DEF TurnNext
<1> DEFINE s == helperTurn[t]
<1>1. /\ s \in TurnState /\ s.served \in Calls /\ TraceOf[s.served] = t /\ Started(s.served)
      /\ ServesWell(s) /\ \A i \in DOMAIN toHelper : ~IsRunOf(toHelper[i], s.served)
  BY DEF PipeIInv, PipeTypeOK, ServingIInv
<1>2. ServesNext(s) /\ StartedNext(s.served)
  BY <1>1, ServesStill
<1>3. HelperPast(s.served)
  BY <1>1, PastStays
<1> QED
  BY <1>1, <1>2, <1>3 DEF TurnNext

\* A turn goes on: it serves the same run, and what it newly knows is so.
LEMMA TurnOn ==
  ASSUME PipeIInv, ToHelperStep, run' = run, NEW t \in Traces, helperTurn[t].stage # "none",
         helperTurn'[t] \in TurnState, helperTurn'[t].served = helperTurn[t].served,
         Awaits(helperTurn[t].served) => ServesWell(helperTurn'[t])
  PROVE  TurnNext(t)
<1> DEFINE s == helperTurn[t]
<1>1. /\ s.served \in Calls /\ TraceOf[s.served] = t /\ Started(s.served)
      /\ \A i \in DOMAIN toHelper : ~IsRunOf(toHelper[i], s.served)
  BY DEF PipeIInv, ServingIInv
<1>2. HelperPast(s.served)
  BY <1>1, PastStays
<1>3. StartedNext(s.served)
  BY <1>1 DEF Started, StartedNext
<1>4. ServesNext(helperTurn'[t])
  BY DEF ServesNext, ServesWell, Awaits
<1> QED
  BY <1>1, <1>2, <1>3, <1>4 DEF TurnNext

TurnsNext == \A t \in Traces : TurnNext(t)

\* Each turn in the helper.
LEMMA TurnsGoOn ==
  ASSUME PipeIInv, PipeNext
  PROVE  TurnsNext
<1>0. /\ RunStep /\ ToHelperStep /\ TurnTyped /\ PipeTypeOK /\ FramesIInv
      /\ helperTurn \in [Traces -> TurnState]
  BY RunMoves, ToHelperMoves, TurnsTyped DEF PipeIInv, PipeTypeOK
<1>1. ASSUME NEW r \in Calls, Ask(r)
      PROVE  TurnsNext
  <2>1. \A t \in Traces : helperTurn'[t] = NoTurn \/ helperTurn'[t] = helperTurn[t]
    BY <1>1 DEF Ask, helperVars
  <2>2. \A t \in Traces : helperTurn'[t] = NoTurn => TurnNext(t)
    BY DEF TurnNext, NoTurn
  <2> QED
    BY <1>0, <2>1, <2>2, SameTurn DEF TurnsNext
<1>2. ASSUME NEW r \in Calls, Dispatch(r)
      PROVE  TurnsNext
  <2>1. helperTurn' = helperTurn
    BY <1>2, Zenon DEF Dispatch, helperVars
  <2> QED
    BY <1>0, <2>1, SameTurn DEF TurnsNext
<1>3. ASSUME NEW r \in Calls, Abort(r)
      PROVE  TurnsNext
  <2>1. helperTurn' = helperTurn
    BY <1>3, Zenon DEF Abort, helperVars
  <2> QED
    BY <1>0, <2>1, SameTurn DEF TurnsNext
<1>4. ASSUME NEW r \in Calls, RecordBatch(r)
      PROVE  TurnsNext
  <2>1. helperTurn' = helperTurn
    BY <1>4, Zenon DEF RecordBatch, helperVars
  <2> QED
    BY <1>0, <2>1, SameTurn DEF TurnsNext
<1>5. ASSUME NEW r \in Calls, Forward(r)
      PROVE  TurnsNext
  <2>1. helperTurn' = helperTurn
    BY <1>5, Zenon DEF Forward, helperVars
  <2> QED
    BY <1>0, <2>1, SameTurn DEF TurnsNext
<1>6. ASSUME Ready
      PROVE  TurnsNext
  <2>1. helperTurn' = helperTurn
    BY <1>6, Zenon DEF Ready, helperVars
  <2> QED
    BY <1>0, <2>1, SameTurn DEF TurnsNext
<1>7. ASSUME Exit
      PROVE  TurnsNext
  <2>1. \A t \in Traces : helperTurn'[t] = NoTurn \/ helperTurn'[t] = helperTurn[t]
    BY <1>7 DEF Exit, helperVars
  <2>2. \A t \in Traces : helperTurn'[t] = NoTurn => TurnNext(t)
    BY DEF TurnNext, NoTurn
  <2> QED
    BY <1>0, <2>1, <2>2, SameTurn DEF TurnsNext
<1>8. ASSUME CloseClient
      PROVE  TurnsNext
  <2>1. \A t \in Traces : helperTurn'[t] = NoTurn \/ helperTurn'[t] = helperTurn[t]
    BY <1>8 DEF CloseClient, helperVars
  <2>2. \A t \in Traces : helperTurn'[t] = NoTurn => TurnNext(t)
    BY DEF TurnNext, NoTurn
  <2> QED
    BY <1>0, <2>1, <2>2, SameTurn DEF TurnsNext
<1>9. ASSUME NEW f, toDaemon # <<>>, f = Head(toDaemon), StartJob(f)
      PROVE  TurnsNext
  <2>1. helperTurn' = helperTurn
    BY <1>9, Zenon DEF StartJob, helperVars
  <2> QED
    BY <1>0, <2>1, SameTurn DEF TurnsNext
<1>10. ASSUME NEW f, toDaemon # <<>>, f = Head(toDaemon), ReceiveObservation(f)
       PROVE  TurnsNext
  <2>1. helperTurn' = helperTurn
    BY <1>10, Zenon DEF ReceiveObservation, helperVars
  <2> QED
    BY <1>0, <2>1, SameTurn DEF TurnsNext
<1>11. ASSUME NEW f, toDaemon # <<>>, f = Head(toDaemon), ReceiveOutcome(f)
       PROVE  TurnsNext
  <2>1. helperTurn' = helperTurn
    BY <1>11, Zenon DEF ReceiveOutcome, helperVars
  <2> QED
    BY <1>0, <2>1, SameTurn DEF TurnsNext
<1>12. ASSUME NEW f, toHelper # <<>>, f = Head(toHelper), ReadRun(f)
       PROVE  TurnsNext
  <2>1. f \in HelperFrame /\ f.trace \in Traces /\ f = Head(toHelper) /\ ToldSo(f)
    BY <1>12, HeadOfHelper DEF PipeIInv, FramesIInv
  <2>2. run' = run
    BY <1>12, Zenon DEF ReadRun, Reading
  <2>3. \A t \in Traces \ {f.trace} : helperTurn'[t] = helperTurn[t]
    BY <1>12, <1>0, <2>1 DEF ReadRun, Fresh
  <2>4. TurnNext(f.trace)
    <3>1. CASE helperTurn' = helperTurn
      BY <1>0, <2>1, <3>1, SameTurn
    <3>2. CASE helperTurn' # helperTurn
      <4>1. helperTurn'[f.trace] = Fresh(f.trace, f.run) /\ f.kind = "run"
        BY <1>12, <1>0, <2>1, <3>2 DEF ReadRun
      <4>2. helperTurn'[f.trace].served = f.run /\ helperTurn'[f.trace].stage = "opening"
            /\ helperTurn'[f.trace].mirror = 0
        BY <4>1 DEF Fresh, NoTurn
      <4>3. f.run \in Calls /\ TraceOf[f.run] = f.trace /\ StartedNext(f.run)
        BY <2>1, <2>2 DEF HelperFrame, ToldSo, Started, StartedNext
      <4>4. ServesNext(helperTurn'[f.trace])
        <5>1. run'[f.run] \in RunState
          BY <1>0, <4>3 DEF RunStep
        <5>2. run'[f.run].sent \in 0 .. MaxMirrored
          BY <5>1 DEF RunState
        <5>3. 0 <= run'[f.run].sent
          BY <5>2, PipeShapes
        <5> QED
          BY <4>2, <5>3 DEF ServesNext
      <4>5. HelperPast(f.run)
        <5>1. toHelper' = Tail(toHelper) /\ toHelper \in Seq(HelperFrame)
          BY <1>12 DEF ReadRun, Reads, PipeIInv, FramesIInv
        <5>2. /\ Len(toHelper) \in Nat /\ DOMAIN toHelper = 1 .. Len(toHelper)
              /\ DOMAIN toHelper' = 1 .. Len(toHelper) - 1
              /\ \A i \in DOMAIN toHelper' : i + 1 \in DOMAIN toHelper
                                             /\ toHelper'[i] = toHelper[i + 1]
          BY <1>12, <5>1
        <5>3. IsRunOf(toHelper[1], f.run) /\ 1 \in DOMAIN toHelper
          BY <1>12, <2>1, <4>1, HeadOfHelper DEF IsRunOf, PipeIInv
        <5>4. \A i \in DOMAIN toHelper : IsRunOf(toHelper[i], f.run) => i = 1
          BY <4>3, <5>3 DEF PipeIInv, OrderIInv
        <5>5. \A i \in DOMAIN toHelper' : i + 1 # 1
          BY <5>2
        <5> QED
          BY <5>2, <5>4, <5>5 DEF HelperPast
      <4> QED
        BY <4>2, <4>3, <4>4, <4>5 DEF TurnNext
    <3> QED
      BY <3>1, <3>2
  <2> QED
    BY <1>0, <2>3, <2>4, SameTurn DEF TurnsNext
<1>13. ASSUME NEW f, toHelper # <<>>, f = Head(toHelper), ReadAbort(f)
       PROVE  TurnsNext
  <2>1. f \in HelperFrame /\ f.trace \in Traces /\ f = Head(toHelper) /\ ToldSo(f)
    BY <1>13, HeadOfHelper DEF PipeIInv, FramesIInv
  <2>2. run' = run
    BY <1>13, Zenon DEF ReadAbort, Reading
  <2>3. \A t \in Traces \ {f.trace} : helperTurn'[t] = helperTurn[t]
    BY <1>13, <1>0, <2>1 DEF ReadAbort, Fresh
  <2>4. TurnNext(f.trace)
    <3>1. CASE helperTurn' = helperTurn
      BY <1>0, <2>1, <3>1, SameTurn
    <3>2. CASE helperTurn' # helperTurn
      <4> DEFINE s == helperTurn[f.trace]
                 n == [s EXCEPT !.aborted = TRUE, !.fence = 0]
      <4>1. /\ s.stage # "none" /\ s \in TurnState
            /\ helperTurn' = [helperTurn EXCEPT ![f.trace] = n]
        BY <1>13, <1>0, <2>1, <3>2 DEF ReadAbort
      <4>2. helperTurn'[f.trace] = n /\ n.served = s.served
        BY <1>0, <2>1, <4>1 DEF TurnState
      <4>3. ServesWell(s)
        BY <2>1, <4>1 DEF PipeIInv, ServingIInv
      <4>4. Awaits(s.served) => ServesWell(n)
        BY <4>1, <4>2, <4>3 DEF ServesWell, TurnState
      <4>5. helperTurn'[f.trace] \in TurnState
        BY <1>0, <2>1 DEF TurnTyped
      <4> HIDE DEF n
      <4> QED
        BY <1>0, <2>1, <2>2, <4>1, <4>2, <4>4, <4>5, TurnOn
    <3> QED
      BY <3>1, <3>2
  <2> QED
    BY <1>0, <2>3, <2>4, SameTurn DEF TurnsNext
<1>14. ASSUME NEW f, toHelper # <<>>, f = Head(toHelper), ReadFence(f)
       PROVE  TurnsNext
  <2>1. f \in HelperFrame /\ f.trace \in Traces /\ f = Head(toHelper) /\ ToldSo(f)
    BY <1>14, HeadOfHelper DEF PipeIInv, FramesIInv
  <2>2. run' = run
    BY <1>14, Zenon DEF ReadFence, Reading
  <2>3. \A t \in Traces \ {f.trace} : helperTurn'[t] = helperTurn[t]
    BY <1>14, <1>0, <2>1 DEF ReadFence, Fresh
  <2>4. TurnNext(f.trace)
    <3>1. CASE helperTurn' = helperTurn
      BY <1>0, <2>1, <3>1, SameTurn
    <3>2. CASE helperTurn' # helperTurn
      <4> DEFINE s == helperTurn[f.trace]
                 n == [s EXCEPT !.stage = IF ~f.granted THEN "sent"
                                         ELSE IF f.kind = "begin" THEN "begun" ELSE "answered",
                               !.fence = 0]
      <4>1. /\ s.stage # "none" /\ s \in TurnState
            /\ helperTurn' = [helperTurn EXCEPT ![f.trace] = n]
        <5>1. f.kind \in {"begin", "commit"} /\ Resumes(f, s)
              /\ helperTurn' = [helperTurn EXCEPT ![f.trace] = n]
          BY <1>14, <1>0, <2>1, <3>2, Zenon DEF ReadFence
        <5>2. s.stage # "none"
          BY <5>1 DEF Resumes
        <5> QED
          BY <1>0, <2>1, <5>1, <5>2
      <4>2. helperTurn'[f.trace] = n /\ n.served = s.served
        BY <1>0, <2>1, <4>1 DEF TurnState
      <4>3. ServesWell(s)
        BY <2>1, <4>1 DEF PipeIInv, ServingIInv
      <4>4. Awaits(s.served) => ServesWell(n)
        <5> SUFFICES ASSUME Awaits(s.served) PROVE ServesWell(n)
          OBVIOUS
        <5>1. f.run = s.served
          BY <1>14, <2>1, <4>1, OwnFrame DEF ReadFence
        <5>2. n.mirror = s.mirror /\ n.stage \in {"sent", "begun", "answered"}
              /\ (n.stage = "answered" => f.kind = "commit" /\ f.granted)
          BY <1>14, <4>1 DEF ReadFence, TurnState
        <5>3. s.stage \in {"beginning", "committing"}
          BY <1>14, <2>1, <3>2 DEF ReadFence, Resumes
        <5>4. run[s.served].activated /\ s.mirror <= run[s.served].sent
          BY <4>3, <5>3 DEF ServesWell
        <5>5. n.stage = "answered" => run[s.served].committed
          BY <2>1, <5>1, <5>2 DEF ToldSo
        <5> HIDE DEF n
        <5> QED
          BY <4>2, <5>2, <5>4, <5>5 DEF ServesWell
      <4>5. helperTurn'[f.trace] \in TurnState
        BY <1>0, <2>1 DEF TurnTyped
      <4> HIDE DEF n
      <4> QED
        BY <1>0, <2>1, <2>2, <4>1, <4>2, <4>4, <4>5, TurnOn
    <3> QED
      BY <3>1, <3>2
  <2> QED
    BY <1>0, <2>3, <2>4, SameTurn DEF TurnsNext
<1>15. ASSUME NEW f, toHelper # <<>>, f = Head(toHelper), ReadPrompt(f)
       PROVE  TurnsNext
  <2>1. f \in HelperFrame /\ f.trace \in Traces /\ f = Head(toHelper) /\ ToldSo(f)
    BY <1>15, HeadOfHelper DEF PipeIInv, FramesIInv
  <2>2. run' = run
    BY <1>15, Zenon DEF ReadPrompt, Reading
  <2>3. \A t \in Traces \ {f.trace} : helperTurn'[t] = helperTurn[t]
    BY <1>15, <1>0, <2>1 DEF ReadPrompt, Fresh
  <2>4. TurnNext(f.trace)
    <3>1. CASE helperTurn' = helperTurn
      BY <1>0, <2>1, <3>1, SameTurn
    <3>2. CASE helperTurn' # helperTurn
      <4> DEFINE s == helperTurn[f.trace]
                 n == [s EXCEPT !.stage = "prepared"]
      <4>1. /\ s.stage # "none" /\ s \in TurnState
            /\ helperTurn' = [helperTurn EXCEPT ![f.trace] = n]
        BY <1>15, <1>0, <2>1, <3>2 DEF ReadPrompt
      <4>2. helperTurn'[f.trace] = n /\ n.served = s.served
        BY <1>0, <2>1, <4>1 DEF TurnState
      <4>3. ServesWell(s)
        BY <2>1, <4>1 DEF PipeIInv, ServingIInv
      <4>4. Awaits(s.served) => ServesWell(n)
        BY <4>1, <4>2, <4>3 DEF ServesWell, TurnState
      <4>5. helperTurn'[f.trace] \in TurnState
        BY <1>0, <2>1 DEF TurnTyped
      <4> HIDE DEF n
      <4> QED
        BY <1>0, <2>1, <2>2, <4>1, <4>2, <4>4, <4>5, TurnOn
    <3> QED
      BY <3>1, <3>2
  <2> QED
    BY <1>0, <2>3, <2>4, SameTurn DEF TurnsNext
<1>16. ASSUME NEW f, toHelper # <<>>, f = Head(toHelper), ReadActivation(f)
       PROVE  TurnsNext
  <2>1. f \in HelperFrame /\ f.trace \in Traces /\ f = Head(toHelper) /\ ToldSo(f)
    BY <1>16, HeadOfHelper DEF PipeIInv, FramesIInv
  <2>2. run' = run
    BY <1>16, Zenon DEF ReadActivation, Reading
  <2>3. \A t \in Traces \ {f.trace} : helperTurn'[t] = helperTurn[t]
    BY <1>16, <1>0, <2>1 DEF ReadActivation, Fresh
  <2>4. TurnNext(f.trace)
    <3>1. CASE helperTurn' = helperTurn
      BY <1>0, <2>1, <3>1, SameTurn
    <3>2. CASE helperTurn' # helperTurn
      <4> DEFINE s == helperTurn[f.trace]
                 n == [s EXCEPT !.stage = "sent"]
      <4>1. /\ s.stage # "none" /\ s \in TurnState
            /\ helperTurn' = [helperTurn EXCEPT ![f.trace] = n]
        BY <1>16, <1>0, <2>1, <3>2 DEF ReadActivation
      <4>2. helperTurn'[f.trace] = n /\ n.served = s.served
        BY <1>0, <2>1, <4>1 DEF TurnState
      <4>3. ServesWell(s)
        BY <2>1, <4>1 DEF PipeIInv, ServingIInv
      <4>4. Awaits(s.served) => ServesWell(n)
        <5> SUFFICES ASSUME Awaits(s.served) PROVE ServesWell(n)
          OBVIOUS
        <5>1. f.run = s.served /\ f.kind = "send"
          BY <1>16, <2>1, <4>1, OwnFrame DEF ReadActivation
        <5>2. n.mirror = s.mirror /\ n.stage = "sent"
          BY <4>1 DEF TurnState
        <5>3. run[s.served].activated
          BY <2>1, <5>1 DEF ToldSo
        <5>4. s.mirror <= run[s.served].sent
          BY <4>3 DEF ServesWell
        <5> HIDE DEF n
        <5> QED
          BY <4>2, <5>2, <5>3, <5>4 DEF ServesWell
      <4>5. helperTurn'[f.trace] \in TurnState
        BY <1>0, <2>1 DEF TurnTyped
      <4> HIDE DEF n
      <4> QED
        BY <1>0, <2>1, <2>2, <4>1, <4>2, <4>4, <4>5, TurnOn
    <3> QED
      BY <3>1, <3>2
  <2> QED
    BY <1>0, <2>3, <2>4, SameTurn DEF TurnsNext
<1>17. ASSUME NEW f, toHelper # <<>>, f = Head(toHelper), ReadProgress(f)
       PROVE  TurnsNext
  <2>1. f \in HelperFrame /\ f.trace \in Traces /\ f = Head(toHelper) /\ ToldSo(f)
    BY <1>17, HeadOfHelper DEF PipeIInv, FramesIInv
  <2>2. run' = run
    BY <1>17, Zenon DEF ReadProgress, Reading
  <2>3. \A t \in Traces \ {f.trace} : helperTurn'[t] = helperTurn[t]
    BY <1>17, <1>0, <2>1 DEF ReadProgress, Fresh
  <2>4. TurnNext(f.trace)
    <3>1. CASE helperTurn' = helperTurn
      BY <1>0, <2>1, <3>1, SameTurn
    <3>2. CASE helperTurn' # helperTurn
      <4> DEFINE s == helperTurn[f.trace]
                 n == [s EXCEPT !.mirror = f.n]
      <4>1. /\ s.stage # "none" /\ s \in TurnState
            /\ helperTurn' = [helperTurn EXCEPT ![f.trace] = n]
        BY <1>17, <1>0, <2>1, <3>2 DEF ReadProgress
      <4>2. helperTurn'[f.trace] = n /\ n.served = s.served
        BY <1>0, <2>1, <4>1 DEF TurnState
      <4>3. ServesWell(s)
        BY <2>1, <4>1 DEF PipeIInv, ServingIInv
      <4>4. Awaits(s.served) => ServesWell(n)
        <5> SUFFICES ASSUME Awaits(s.served) PROVE ServesWell(n)
          OBVIOUS
        <5>1. f.run = s.served /\ f.kind = "progress"
          BY <1>17, <2>1, <4>1, OwnFrame DEF ReadProgress
        <5>2. n.mirror = f.n /\ n.stage = s.stage
          BY <4>1 DEF TurnState
        <5>3. f.n <= run[s.served].sent
          BY <2>1, <5>1 DEF ToldSo
        <5> HIDE DEF n
        <5> QED
          BY <4>2, <4>3, <5>2, <5>3 DEF ServesWell
      <4>5. helperTurn'[f.trace] \in TurnState
        BY <1>0, <2>1 DEF TurnTyped
      <4> HIDE DEF n
      <4> QED
        BY <1>0, <2>1, <2>2, <4>1, <4>2, <4>4, <4>5, TurnOn
    <3> QED
      BY <3>1, <3>2
  <2> QED
    BY <1>0, <2>3, <2>4, SameTurn DEF TurnsNext
<1>18. ASSUME NEW j \in jobs, JobFails(j)
       PROVE  TurnsNext
  <2>1. helperTurn' = helperTurn
    BY <1>18, Zenon DEF JobFails, helperVars
  <2> QED
    BY <1>0, <2>1, SameTurn DEF TurnsNext
<1>19. ASSUME NEW j \in jobs, NEW granted \in BOOLEAN, JobDone(j, granted)
       PROVE  TurnsNext
  <2>1. helperTurn' = helperTurn
    BY <1>19, Zenon DEF JobDone, helperVars
  <2> QED
    BY <1>0, <2>1, SameTurn DEF TurnsNext
<1>20. ASSUME NEW t \in notices, Noticed(t)
       PROVE  TurnsNext
  <2>1. helperTurn' = helperTurn
    BY <1>20, Zenon DEF Noticed, helperVars
  <2> QED
    BY <1>0, <2>1, SameTurn DEF TurnsNext
<1>21. ASSUME NEW t \in Traces, Advance(t)
       PROVE  TurnsNext
  <2>2. run' = run
    BY <1>21, Zenon DEF Advance
  <2>3. \A u \in Traces \ {t} : helperTurn'[u] = helperTurn[u]
    BY <1>21, <1>0 DEF Advance
  <2>4. TurnNext(t)
    <3> DEFINE s == helperTurn[t]
               m == IF s.stage \in {"sent", "begun"} THEN fences' ELSE 0
               n == [s EXCEPT !.stage = Ahead[s.stage], !.fence = m]
    <3>1. s.stage \in DOMAIN Ahead /\ helperTurn' = [helperTurn EXCEPT ![t] = n]
      BY <1>21, <1>0 DEF Advance
    <3>2. s.stage # "none" /\ s \in TurnState /\ helperTurn'[t] = n
      BY <1>21, <1>0, <3>1 DEF Ahead
    <3> HIDE DEF m
    <3>3. n.served = s.served /\ n.mirror = s.mirror /\ n.stage = Ahead[s.stage]
      BY <3>2 DEF TurnState
    <3>4. Ahead[s.stage] # "answered"
          /\ (Ahead[s.stage] \in {"sent", "beginning", "begun", "committing"} =>
                s.stage \in {"sent", "begun"})
      BY <3>1 DEF Ahead
    <3>5. ServesWell(s)
      BY <3>2, <1>21 DEF PipeIInv, ServingIInv
    <3> HIDE DEF n
    <3>6. ServesWell(n)
      BY <3>3, <3>4, <3>5 DEF ServesWell
    <3>7. helperTurn'[t] \in TurnState
      BY <1>0, <1>21 DEF TurnTyped
    <3> QED
      BY <1>0, <1>21, <2>2, <3>2, <3>3, <3>6, <3>7, TurnOn
  <2> QED
    BY <1>0, <2>3, <2>4, SameTurn DEF TurnsNext
<1>22. ASSUME NEW t \in Traces, Capture(t)
       PROVE  TurnsNext
  <2>2. run' = run
    BY <1>22, Zenon DEF Capture, Reading
  <2>3. \A u \in Traces \ {t} : helperTurn'[u] = helperTurn[u]
    BY <1>22, <1>0 DEF Capture
  <2>4. TurnNext(t)
    <3> DEFINE s == helperTurn[t]
               n == [s EXCEPT !.captured = s.mirror]
    <3>1. helperTurn' = [helperTurn EXCEPT ![t] = n]
      BY <1>22, <1>0 DEF Capture
    <3>2. s.stage # "none" /\ s \in TurnState /\ helperTurn'[t] = n
      BY <1>22, <1>0, <3>1 DEF Capture
    <3>3. n.served = s.served /\ n.mirror = s.mirror /\ n.stage = s.stage
      BY <3>2 DEF TurnState
    <3>5. ServesWell(s)
      BY <3>2, <1>22 DEF PipeIInv, ServingIInv
    <3> HIDE DEF n
    <3>6. ServesWell(n)
      BY <3>3, <3>5 DEF ServesWell
    <3>7. helperTurn'[t] \in TurnState
      BY <1>0, <1>22 DEF TurnTyped
    <3> QED
      BY <1>0, <1>22, <2>2, <3>2, <3>3, <3>6, <3>7, TurnOn
  <2> QED
    BY <1>0, <2>3, <2>4, SameTurn DEF TurnsNext
<1>23. ASSUME NEW t \in Traces, EndTurn(t)
       PROVE  TurnsNext
  <2>2. run' = run
    BY <1>23, Zenon DEF EndTurn, Reading
  <2>3. \A u \in Traces \ {t} : helperTurn'[u] = helperTurn[u]
    BY <1>23, <1>0 DEF EndTurn
  <2>4. TurnNext(t)
    <3>1. helperTurn'[t] = NoTurn
      BY <1>23, <1>0 DEF EndTurn
    <3> QED
      BY <3>1 DEF TurnNext, NoTurn
  <2> QED
    BY <1>0, <2>3, <2>4, SameTurn DEF TurnsNext
<1> QED
  BY <1>1, <1>2, <1>3, <1>4, <1>5, <1>6, <1>7, <1>8, <1>9, <1>10, <1>11, <1>12, <1>13, <1>14,
     <1>15, <1>16, <1>17, <1>18, <1>19, <1>20, <1>21, <1>22, <1>23, Zenon DEF PipeNext,
     DaemonReads, HelperReads

AliveNext ==
  /\ client' = "none" => ~alive' /\ toHelper' = <<>>
  /\ client' # "none" => alive'
  /\ ~alive' => \A t \in Traces : helperTurn'[t] = NoTurn

LEMMA AliveStays ==
  ASSUME /\ client = "none" => ~alive /\ toHelper = <<>>
         /\ client # "none" => alive
         /\ ~alive => \A t \in Traces : helperTurn[t] = NoTurn,
         UNCHANGED helperVars, client = "none" => toHelper' = toHelper
  PROVE  AliveNext
BY Zenon DEF AliveNext, helperVars

\* A dead helper is sent nothing and serves nothing.
LEMMA AliveMoves ==
  ASSUME PipeIInv, PipeNext
  PROVE  AliveNext
<1>0. /\ client = "none" => ~alive /\ toHelper = <<>>
      /\ client # "none" => alive
      /\ ~alive => \A t \in Traces : helperTurn[t] = NoTurn
      /\ ToHelperStep
  BY ToHelperMoves DEF PipeIInv, ServingIInv
<1>1. ASSUME NEW r \in Calls, Ask(r)
      PROVE  AliveNext
  <2>1. CASE client # "none"
    BY <1>1, <1>0, <2>1, Zenon DEF Ask, AliveNext, helperVars
  <2>2. CASE client = "none"
    BY <1>1, <2>2 DEF Ask, AliveNext
  <2> QED
    BY <2>1, <2>2
<1>2. ASSUME NEW r \in Calls, Dispatch(r)
      PROVE  AliveNext
  <2>1. UNCHANGED helperVars
    BY <1>2, Zenon DEF Dispatch
  <2>2. client = "none" => toHelper' = toHelper
    BY <1>2, <1>0, Zenon DEF Dispatch, Sends
  <2> QED
    BY <1>0, <2>1, <2>2, AliveStays
<1>3. ASSUME NEW r \in Calls, Abort(r)
      PROVE  AliveNext
  <2>1. UNCHANGED helperVars
    BY <1>3, Zenon DEF Abort
  <2>2. client = "none" => toHelper' = toHelper
    BY <1>3, <1>0, Zenon DEF Abort, Sends
  <2> QED
    BY <1>0, <2>1, <2>2, AliveStays
<1>4. ASSUME NEW r \in Calls, RecordBatch(r)
      PROVE  AliveNext
  <2>1. UNCHANGED helperVars
    BY <1>4, Zenon DEF RecordBatch
  <2>2. client = "none" => toHelper' = toHelper
    BY <1>4, <1>0, Zenon DEF RecordBatch
  <2> QED
    BY <1>0, <2>1, <2>2, AliveStays
<1>5. ASSUME NEW r \in Calls, Forward(r)
      PROVE  AliveNext
  <2>1. UNCHANGED helperVars
    BY <1>5, Zenon DEF Forward
  <2>2. client = "none" => toHelper' = toHelper
    BY <1>5, <1>0, Zenon DEF Forward, Sends
  <2> QED
    BY <1>0, <2>1, <2>2, AliveStays
<1>6. ASSUME Ready
      PROVE  AliveNext
  BY <1>6 DEF Ready, AliveNext
<1>7. ASSUME Exit
      PROVE  AliveNext
  BY <1>7 DEF Exit, AliveNext
<1>8. ASSUME CloseClient
      PROVE  AliveNext
  BY <1>8 DEF CloseClient, AliveNext
<1>9. ASSUME NEW f, toDaemon # <<>>, f = Head(toDaemon), StartJob(f)
      PROVE  AliveNext
  <2>1. UNCHANGED helperVars
    BY <1>9, Zenon DEF StartJob
  <2>2. client = "none" => toHelper' = toHelper
    BY <1>9, <1>0, Zenon DEF StartJob
  <2> QED
    BY <1>0, <2>1, <2>2, AliveStays
<1>10. ASSUME NEW f, toDaemon # <<>>, f = Head(toDaemon), ReceiveObservation(f)
       PROVE  AliveNext
  <2>1. UNCHANGED helperVars
    BY <1>10, Zenon DEF ReceiveObservation
  <2>2. client = "none" => toHelper' = toHelper
    BY <1>10, <1>0, Zenon DEF ReceiveObservation, FailsLocally, Sends
  <2> QED
    BY <1>0, <2>1, <2>2, AliveStays
<1>11. ASSUME NEW f, toDaemon # <<>>, f = Head(toDaemon), ReceiveOutcome(f)
       PROVE  AliveNext
  <2>1. UNCHANGED helperVars
    BY <1>11, Zenon DEF ReceiveOutcome
  <2>2. client = "none" => toHelper' = toHelper
    BY <1>11, <1>0, Zenon DEF ReceiveOutcome
  <2> QED
    BY <1>0, <2>1, <2>2, AliveStays
<1>12. ASSUME NEW f, toHelper # <<>>, f = Head(toHelper), ReadRun(f)
       PROVE  AliveNext
  <2>1. alive /\ alive' = alive /\ client' = client
    BY <1>12, Zenon DEF ReadRun, Reads, Reading
  <2>2. client # "none"
    BY <1>0, <2>1
  <2> QED
    BY <2>1, <2>2 DEF AliveNext
<1>13. ASSUME NEW f, toHelper # <<>>, f = Head(toHelper), ReadAbort(f)
       PROVE  AliveNext
  <2>1. alive /\ alive' = alive /\ client' = client
    BY <1>13, Zenon DEF ReadAbort, Reads, Reading
  <2>2. client # "none"
    BY <1>0, <2>1
  <2> QED
    BY <2>1, <2>2 DEF AliveNext
<1>14. ASSUME NEW f, toHelper # <<>>, f = Head(toHelper), ReadFence(f)
       PROVE  AliveNext
  <2>1. alive /\ alive' = alive /\ client' = client
    BY <1>14, Zenon DEF ReadFence, Reads, Reading
  <2>2. client # "none"
    BY <1>0, <2>1
  <2> QED
    BY <2>1, <2>2 DEF AliveNext
<1>15. ASSUME NEW f, toHelper # <<>>, f = Head(toHelper), ReadPrompt(f)
       PROVE  AliveNext
  <2>1. alive /\ alive' = alive /\ client' = client
    BY <1>15, Zenon DEF ReadPrompt, Reads, Reading
  <2>2. client # "none"
    BY <1>0, <2>1
  <2> QED
    BY <2>1, <2>2 DEF AliveNext
<1>16. ASSUME NEW f, toHelper # <<>>, f = Head(toHelper), ReadActivation(f)
       PROVE  AliveNext
  <2>1. alive /\ alive' = alive /\ client' = client
    BY <1>16, Zenon DEF ReadActivation, Reads, Reading
  <2>2. client # "none"
    BY <1>0, <2>1
  <2> QED
    BY <2>1, <2>2 DEF AliveNext
<1>17. ASSUME NEW f, toHelper # <<>>, f = Head(toHelper), ReadProgress(f)
       PROVE  AliveNext
  <2>1. alive /\ alive' = alive /\ client' = client
    BY <1>17, Zenon DEF ReadProgress, Reads, Reading
  <2>2. client # "none"
    BY <1>0, <2>1
  <2> QED
    BY <2>1, <2>2 DEF AliveNext
<1>18. ASSUME NEW j \in jobs, JobFails(j)
       PROVE  AliveNext
  <2>1. UNCHANGED helperVars
    BY <1>18, Zenon DEF JobFails
  <2>2. client = "none" => toHelper' = toHelper
    BY <1>18, <1>0, Zenon DEF JobFails, FailsLocally, Sends
  <2> QED
    BY <1>0, <2>1, <2>2, AliveStays
<1>19. ASSUME NEW j \in jobs, NEW granted \in BOOLEAN, JobDone(j, granted)
       PROVE  AliveNext
  <2>1. UNCHANGED helperVars
    BY <1>19, Zenon DEF JobDone
  <2>2. client = "none" => toHelper' = toHelper
    BY <1>19, <1>0, Zenon DEF JobDone, Sends
  <2> QED
    BY <1>0, <2>1, <2>2, AliveStays
<1>20. ASSUME NEW t \in notices, Noticed(t)
       PROVE  AliveNext
  <2>1. UNCHANGED helperVars
    BY <1>20, Zenon DEF Noticed
  <2>2. client = "none" => toHelper' = toHelper
    BY <1>20, <1>0, Zenon DEF Noticed
  <2> QED
    BY <1>0, <2>1, <2>2, AliveStays
<1>21. ASSUME NEW t \in Traces, Advance(t)
       PROVE  AliveNext
  <2>1. alive /\ alive' = alive /\ client' = client
    BY <1>21, Zenon DEF Advance
  <2>2. client # "none"
    BY <1>0, <2>1
  <2> QED
    BY <2>1, <2>2 DEF AliveNext
<1>22. ASSUME NEW t \in Traces, Capture(t)
       PROVE  AliveNext
  <2>1. alive /\ alive' = alive /\ client' = client
    BY <1>22, Zenon DEF Capture, Reading
  <2>2. client # "none"
    BY <1>0, <2>1
  <2> QED
    BY <2>1, <2>2 DEF AliveNext
<1>23. ASSUME NEW t \in Traces, EndTurn(t)
       PROVE  AliveNext
  <2>1. alive /\ alive' = alive /\ client' = client
    BY <1>23, Zenon DEF EndTurn, Reading
  <2>2. client # "none"
    BY <1>0, <2>1
  <2> QED
    BY <2>1, <2>2 DEF AliveNext
<1> QED
  BY <1>1, <1>2, <1>3, <1>4, <1>5, <1>6, <1>7, <1>8, <1>9, <1>10, <1>11, <1>12, <1>13, <1>14,
     <1>15, <1>16, <1>17, <1>18, <1>19, <1>20, <1>21, <1>22, <1>23, Zenon DEF PipeNext,
     DaemonReads, HelperReads

LEMMA ServingKept ==
  ASSUME PipeIInv, PipeNext
  PROVE  ServingIInv'
<1>1. AliveNext /\ TurnsNext
  BY AliveMoves, TurnsGoOn
<1> QED
  BY <1>1 DEF AliveNext, TurnsNext, TurnNext, ServingIInv, ServesNext, ServesWell, Awaits,
    StartedNext, Started, HelperPast

LEMMA ReportsKept ==
  ASSUME PipeIInv, PipeNext
  PROVE  ReportsIInv'
<1>0. RunStep /\ ToDaemonStep /\ toDaemon \in Seq(DaemonFrame) /\ run \in [Calls -> RunState]
  BY RunMoves, ToDaemonMoves DEF PipeIInv, PipeTypeOK, FramesIInv
<1> DEFINE Fine(f) == /\ f \in DaemonFrame /\ Started(f.run)
                      /\ Awaits(f.run) => /\ f.kind = "result" => run[f.run].committed
                                          /\ f.kind = "batch" => f.n <= run[f.run].sent
           Good(f) == run'[f.run].phase = "pending" =>
                        /\ f.kind = "result" => run'[f.run].committed
                        /\ f.kind = "batch" => f.n <= run'[f.run].sent
<1>1. \A i \in DOMAIN toDaemon : Fine(toDaemon[i])
  BY <1>0 DEF PipeIInv, FramesIInv, ReportsIInv
<1>2. ASSUME NEW f, Fine(f)
      PROVE  Good(f)
  <2>1. /\ run[f.run] \in RunState /\ run'[f.run] \in RunState
        /\ Later(run[f.run], run'[f.run])
    BY <1>0, <1>2 DEF RunStep, DaemonFrame
  <2>2. run[f.run].sent \in Nat /\ run'[f.run].sent \in Nat /\ f.n \in Nat
    BY <1>2, <2>1, PipeShapes DEF RunState, DaemonFrame
  <2>3. run'[f.run].phase = "pending" => run[f.run].phase = "pending"
    BY <1>2, <2>1 DEF Later, Started
  <2> QED
    BY <1>2, <2>1, <2>2, <2>3 DEF Later, Awaits
<1>3. \A i \in DOMAIN toDaemon' : Good(toDaemon'[i])
  <2>1. CASE toDaemon' = toDaemon
    BY <1>1, <1>2, <2>1
  <2>2. CASE toDaemon' = <<>>
    BY <2>2
  <2>3. CASE toDaemon # <<>> /\ toDaemon' = Tail(toDaemon)
    <3>1. \A i \in DOMAIN toDaemon' : i + 1 \in DOMAIN toDaemon
                                      /\ toDaemon'[i] = toDaemon[i + 1]
      BY <1>0, <2>3
    <3> HIDE DEF Fine, Good
    <3> QED
      BY <1>1, <1>2, <3>1
  <2>4. CASE \E f \in DaemonFrame : Reported1(f) /\ toDaemon' = Append(toDaemon, f)
    <3>1. PICK f \in DaemonFrame : Reported1(f) /\ toDaemon' = Append(toDaemon, f)
      BY <2>4
    <3>2. Fine(f)
      BY <3>1 DEF Reported1
    <3>3. \A i \in DOMAIN toDaemon' : toDaemon'[i] = f \/ (i \in DOMAIN toDaemon
                                                           /\ toDaemon'[i] = toDaemon[i])
      BY <1>0, <3>1
    <3> HIDE DEF Fine, Good
    <3> QED
      BY <1>1, <1>2, <3>2, <3>3
  <2> QED
    BY <1>0, <2>1, <2>2, <2>3, <2>4, Zenon DEF ToDaemonStep
<1> QED
  BY <1>3 DEF ReportsIInv, Awaits

\* The inductive invariant of the pipes: what a frame tells is so, a run frame follows the
\* other frames of its trace, and a turn serves a run whose frame it has read.
THEOREM PipesConsistent == PipeSpec => []PipeIInv
<1>1. PipeInit => PipeIInv
  <2> SUFFICES ASSUME PipeInit PROVE PipeIInv
    OBVIOUS
  <2>1. 0 \in 0 .. MaxMirrored /\ 0 \in 0 .. MaxFences /\ 0 \in 0 .. MaxChildren
    BY PipeShapes
  <2>2. NoTurn \in TurnState
    BY <2>1 DEF NoTurn, TurnState
  <2>3. run \in [Calls -> RunState]
    BY <2>1 DEF PipeInit, RunState
  <2>4. PipeTypeOK
    BY <2>1, <2>2, <2>3 DEF PipeInit, PipeTypeOK
  <2>5. \A r \in Calls : ~Awaits(r)
    BY DEF PipeInit, Awaits
  <2>6. FramesIInv /\ OnePending /\ OrderIInv /\ ReportsIInv
    BY <2>5 DEF PipeInit, FramesIInv, OnePending, OrderIInv, ReportsIInv
  <2>7. ServingIInv
    BY DEF PipeInit, ServingIInv, NoTurn
  <2> QED
    BY <2>4, <2>6, <2>7 DEF PipeIInv
<1>2. PipeIInv /\ [PipeNext]_pipeVars => PipeIInv'
  <2> SUFFICES ASSUME PipeIInv, [PipeNext]_pipeVars PROVE PipeIInv'
    OBVIOUS
  <2>1. CASE PipeNext
    <3>1. PipeTypeOK'
      BY <2>1, RunMoves, RestMoves, TurnsTyped DEF PipeIInv, PipeTypeOK, RunStep, RestTyped,
        TurnTyped
    <3> QED
      BY <2>1, <3>1, FramesKept, OnePendingKept, OrderKept, ServingKept, ReportsKept
      DEF PipeIInv
  <2>2. CASE UNCHANGED pipeVars
    BY <2>2 DEF pipeVars, PipeIInv, PipeTypeOK, FramesIInv, ToldSo, Started, OnePending, Awaits,
      OrderIInv, ServingIInv, ServesWell, ReportsIInv
  <2> QED
    BY <2>1, <2>2
<1> QED
  BY <1>1, <1>2, PTL DEF PipeSpec

\* OwnAnswers (launcher-helper-client.ts, browser-helper-main.ts): as long as a run is
\* pending, what its turn in the helper was told, and reports, is its own.
THEOREM AnswersAreOwn == PipeSpec => []OwnAnswers
<1>1. PipeIInv => OwnAnswers
  <2> SUFFICES ASSUME PipeIInv PROVE OwnAnswers
    OBVIOUS
  <2>1. \A t \in Traces : helperTurn[t].stage # "none" => ServesWell(helperTurn[t])
    BY DEF PipeIInv, ServingIInv
  <2> QED
    BY <2>1 DEF PipeIInv, ReportsIInv, ServesWell, OwnAnswers
<1> QED
  BY <1>1, PipesConsistent, PTL
=============================================================================
