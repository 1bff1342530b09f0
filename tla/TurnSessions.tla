---------------------------- MODULE TurnSessions ----------------------------
(***************************************************************************)
(* The registry of live browser turns, ChatGptTurnSessions of              *)
(* src/src/adapters/chatgpt-web/turn-execution.ts, and the requests of     *)
(* Codex that go through it (index.ts).  A request asks for the session of *)
(* its execution key; the registry serializes the sessions of one owner    *)
(* (a native Codex thread) behind the physical settlement of the browser   *)
(* surface, except that a newer instruction supersedes an older one.       *)
(*                                                                         *)
(* Every synchronous stretch of the code between two awaits is one step.   *)
(* Sessions are numbered in the order of their creation.                   *)
(***************************************************************************)
EXTENDS Naturals, FiniteSets

CONSTANTS
  Keys,          \* execution keys of requests
  Owners, Turns, Instructions, Conversations,
  OwnerOf, TurnOf, InstructionOf, ConversationOf,  \* of a key
  Replaces,      \* the source key a compaction request retires first
  Predecessors,  \* the instructions before an instruction in its history
  Manual,        \* keys of Zero Risk turns
  Requests,
  MaxSessions,   \* sessions ever created
  MaxActive,     \* MAX_CHATGPT_BROWSER_TABS
  None

ASSUME Shapes ==
  /\ None \notin Keys \cup Instructions \cup Conversations \cup Nat
  /\ OwnerOf \in [Keys -> Owners]
  /\ TurnOf \in [Keys -> Turns]
  /\ InstructionOf \in [Keys -> Instructions \cup {None}]
  /\ ConversationOf \in [Keys -> Conversations \cup {None}]
  /\ Replaces \in [Keys -> Keys \cup {None}]
  /\ Predecessors \in [Instructions -> SUBSET Instructions]
  /\ Manual \subseteq Keys
  /\ MaxSessions \in Nat
  /\ MaxActive \in Nat

Sessions == 1..MaxSessions

VARIABLES
  entries,       \* the session of an execution key, or None
  conversationHeads,
  retirements,   \* of a key: the session whose settlement is waited for, or None
  ownerRetirements,         \* of an owner: the unsettled sessions of its chain
  conversationRetirements,  \* of a conversation, likewise
  created,       \* sessions created so far
  sessionKey,    \* the key a session was created for
  outcome,       \* settledBrowserOutcome
  settled,       \* settledPhysical: the browser surface is released
  aborted,       \* the browser turn's abort signal
  supersededError,
  attached,      \* attachedConversationKey
  toolsOut,      \* the browser waits for results only Codex can bring
  pc,            \* of a request: where its handler is
  asks,          \* the execution key of a request
  waitsFor,      \* sessions whose settlement it awaits
  serves,        \* the session it observes
  pruned,        \* history: unsettled sessions removed by prune
  closed,        \* history: unsettled sessions removed with their conversation
  forgotten      \* history: superseded sessions whose entry was removed

registryVars == <<entries, conversationHeads, retirements, ownerRetirements,
                  conversationRetirements>>
sessionVars == <<created, sessionKey, outcome, settled, aborted, supersededError,
                 attached, toolsOut>>
requestVars == <<pc, asks, waitsFor, serves>>
historyVars == <<pruned, closed, forgotten>>
sessionsVars == <<registryVars, sessionVars, requestVars, historyVars>>

TypeOK ==
  /\ entries \in [Keys -> Sessions \cup {None}]
  /\ conversationHeads \in [Conversations -> Sessions \cup {None}]
  /\ retirements \in [Keys -> Sessions \cup {None}]
  /\ ownerRetirements \in [Owners -> SUBSET Sessions]
  /\ conversationRetirements \in [Conversations -> SUBSET Sessions]
  /\ created \in 0..MaxSessions
  /\ sessionKey \in [Sessions -> Keys \cup {None}]
  /\ outcome \in [Sessions -> {"none", "final", "error"}]
  /\ settled \in [Sessions -> BOOLEAN]
  /\ aborted \in [Sessions -> BOOLEAN]
  /\ supersededError \in [Sessions -> BOOLEAN]
  /\ attached \in [Sessions -> Conversations \cup {None}]
  /\ toolsOut \in [Sessions -> BOOLEAN]
  /\ pc \in [Requests -> {"idle", "replacing", "looking", "waiting", "serving"}]
  /\ asks \in [Requests -> Keys \cup {None}]
  /\ waitsFor \in [Requests -> SUBSET Sessions]
  /\ serves \in [Requests -> Sessions \cup {None}]
  /\ pruned \in SUBSET Sessions
  /\ closed \in SUBSET Sessions
  /\ forgotten \in SUBSET Sessions

SessionsInit ==
  /\ entries = [k \in Keys |-> None]
  /\ conversationHeads = [c \in Conversations |-> None]
  /\ retirements = [k \in Keys |-> None]
  /\ ownerRetirements = [o \in Owners |-> {}]
  /\ conversationRetirements = [c \in Conversations |-> {}]
  /\ created = 0
  /\ sessionKey = [s \in Sessions |-> None]
  /\ outcome = [s \in Sessions |-> "none"]
  /\ settled = [s \in Sessions |-> FALSE]
  /\ aborted = [s \in Sessions |-> FALSE]
  /\ supersededError = [s \in Sessions |-> FALSE]
  /\ attached = [s \in Sessions |-> None]
  /\ toolsOut = [s \in Sessions |-> FALSE]
  /\ pc = [r \in Requests |-> "idle"]
  /\ asks = [r \in Requests |-> None]
  /\ waitsFor = [r \in Requests |-> {}]
  /\ serves = [r \in Requests |-> None]
  /\ pruned = {}
  /\ closed = {}
  /\ forgotten = {}

-----------------------------------------------------------------------------
(* Sessions.                                                               *)

Live(s) == s <= created /\ ~settled[s]

IsActive(s) == outcome[s] = "none"

Registered(s) == \E k \in Keys : entries[k] = s

OwnedBy(s, o) == OwnerOf[sessionKey[s]] = o

ActiveEntries == {s \in Sessions : Registered(s) /\ IsActive(s)}

\* cancel of cancellableBrowserTurn, for every session of S: the browser turn is
\* aborted, and with a reason its client-visible outcome is an error at once.
Cancel(S, withReason) ==
  /\ aborted' = [s \in Sessions |-> aborted[s] \/ s \in S]
  /\ outcome' = [s \in Sessions |->
                   IF s \in S /\ withReason /\ IsActive(s) THEN "error" ELSE outcome[s]]

\* The registry without the sessions of S: entries and conversation heads.
Forget(S) ==
  /\ entries' = [k \in Keys |-> IF entries[k] \in S THEN None ELSE entries[k]]
  /\ conversationHeads' = [c \in Conversations |->
                             IF conversationHeads[c] \in S THEN None ELSE conversationHeads[c]]
  /\ forgotten' = forgotten \cup {s \in S : supersededError[s]}

RetiresOwner(s, o) == OwnedBy(s, o)

RetiresConversation(s, c) == attached[s] = c

\* beginRetirement of the sessions of S, each under its key: until a session has
\* settled, its key, its owner and its conversation have a retirement pending.
\* A key that is being retired already is left alone, and so is its session.
BeginRetirement(S, withReason) ==
  LET fresh == {s \in S : \E k \in Keys : entries[k] = s /\ retirements[k] = None}
      pending == {s \in fresh : ~settled[s]} IN
  /\ Cancel(fresh, withReason)
  /\ retirements' = [k \in Keys |-> IF entries[k] \in pending THEN entries[k] ELSE retirements[k]]
  /\ ownerRetirements' = [o \in Owners |->
                            ownerRetirements[o] \cup {s \in pending : RetiresOwner(s, o)}]
  /\ conversationRetirements' = [c \in Conversations |->
       conversationRetirements[c] \cup {s \in pending : RetiresConversation(s, c)}]

retireUnchanged == <<created, sessionKey, settled, supersededError, attached, toolsOut, pruned, closed>>

\* retire: the sessions leave the registry and their retirement begins.
Retire(S, withReason) == Forget(S) /\ BeginRetirement(S, withReason)

\* What prune removes: sessions with an outcome, not used for the TTL.
Prunable == {s \in Sessions : Registered(s) /\ ~IsActive(s)}

-----------------------------------------------------------------------------
(* Requests.                                                               *)

Goto(r, l) == pc' = [pc EXCEPT ![r] = l]

\* The handler returns; Codex may send its next request.
Finish(r) ==
  /\ Goto(r, "idle")
  /\ asks' = [asks EXCEPT ![r] = None]
  /\ waitsFor' = [waitsFor EXCEPT ![r] = {}]
  /\ serves' = [serves EXCEPT ![r] = None]

\* A request of Codex arrives.  A Zero Risk request first retires the active
\* sessions of turns its history marks as interrupted.
Arrive(r, k, interrupted) ==
  /\ pc[r] = "idle"
  /\ interrupted \subseteq Turns \ {TurnOf[k]}
  /\ k \notin Manual => interrupted = {}
  /\ asks' = [asks EXCEPT ![r] = k]
  /\ Goto(r, IF Replaces[k] # None THEN "replacing" ELSE "looking")
  /\ Retire({s \in ActiveEntries : entries[k] # s /\ OwnedBy(s, OwnerOf[k])
                                     /\ TurnOf[sessionKey[s]] \in interrupted}, FALSE)
  /\ UNCHANGED <<retireUnchanged, waitsFor, serves>>

\* retireAndWait: a compaction without a structured handoff ends the turn it
\* replaces and waits for its surface.
Replace(r) ==
  LET source == Replaces[asks[r]]
      S == IF retirements[source] = None THEN {entries[source]} \cap Sessions ELSE {} IN
  /\ pc[r] = "replacing"
  /\ Retire(S, FALSE)
  /\ waitsFor' = [waitsFor EXCEPT ![r] = S \cup ({retirements[source]} \cap Sessions)]
  /\ Goto(r, "waiting")
  /\ UNCHANGED <<retireUnchanged, asks, serves>>

\* What the loop of getOrCreateAfterOwnerRetirement finds, in its order.
Existing(r) == entries[asks[r]]

Pending(r) ==
  IF retirements[asks[r]] # None THEN {retirements[asks[r]]}
  ELSE ownerRetirements[OwnerOf[asks[r]]]

\* Mutant of ActiveOwners: a session with an outcome counts as released.
ActiveOwnersByOutcome(r) ==
  {s \in ActiveEntries : entries[asks[r]] # s /\ OwnedBy(s, OwnerOf[asks[r]])}

\* Sessions of the owner under other keys that still hold a surface.
ActiveOwners(r) ==
  {s \in Sessions : /\ Registered(s) /\ entries[asks[r]] # s
                    /\ OwnedBy(s, OwnerOf[asks[r]]) /\ ~settled[s]}

LooksAt(r) ==
  pc[r] = "looking" /\ Existing(r) = None /\ Pending(r) = {}

\* The session of the key exists: join it, unless it was superseded.
Join(r) ==
  /\ pc[r] = "looking" /\ Existing(r) # None
  /\ \/ supersededError[Existing(r)] /\ Finish(r)
     \/ /\ ~supersededError[Existing(r)]
        /\ serves' = [serves EXCEPT ![r] = Existing(r)]
        /\ Goto(r, "serving") /\ UNCHANGED <<asks, waitsFor>>
  /\ UNCHANGED <<registryVars, sessionVars, historyVars>>

\* A retirement of the key or the owner is pending.
AwaitRetirement(r) ==
  /\ pc[r] = "looking" /\ Existing(r) = None /\ Pending(r) # {}
  /\ waitsFor' = [waitsFor EXCEPT ![r] = Pending(r)]
  /\ Goto(r, "waiting")
  /\ UNCHANGED <<registryVars, sessionVars, asks, serves, historyVars>>

\* Mutant of Steers: a newer instruction waits for the older one to end.
NeverSteers(r, s) == FALSE

\* The request carries another instruction than the active session.
Steers(r, s) ==
  /\ IsActive(s)
  /\ InstructionOf[asks[r]] # None /\ InstructionOf[sessionKey[s]] # None
  /\ InstructionOf[asks[r]] # InstructionOf[sessionKey[s]]

\* The history of the request proves that its instruction came later.
Newer(r, s) == InstructionOf[sessionKey[s]] \in Predecessors[InstructionOf[asks[r]]]

\* A proven newer instruction supersedes the session: it is retired with an
\* error but its entry stays, so that a delayed replay cannot restart it.
Supersede(r, s) ==
  /\ LooksAt(r) /\ s \in ActiveOwners(r) /\ Steers(r, s) /\ Newer(r, s)
  /\ supersededError' = [supersededError EXCEPT ![s] = TRUE]
  /\ conversationHeads' = [c \in Conversations |->
                             IF conversationHeads[c] = s THEN None ELSE conversationHeads[c]]
  /\ BeginRetirement({s}, TRUE)
  /\ waitsFor' = [waitsFor EXCEPT ![r] = {s}]
  /\ Goto(r, "waiting")
  /\ UNCHANGED <<entries, created, sessionKey, settled, attached, toolsOut, asks, serves,
                 historyVars>>

\* An older instruction is refused.
RefuseStale(r, s) ==
  /\ LooksAt(r) /\ s \in ActiveOwners(r) /\ Steers(r, s) /\ ~Newer(r, s)
  /\ Finish(r)
  /\ UNCHANGED <<registryVars, sessionVars, historyVars>>

\* Otherwise the request waits for the surface of the owner's other session.
AwaitOwner(r, s) ==
  /\ LooksAt(r) /\ s \in ActiveOwners(r) /\ ~Steers(r, s)
  /\ waitsFor' = [waitsFor EXCEPT ![r] = {s}]
  /\ Goto(r, "waiting")
  /\ UNCHANGED <<registryVars, sessionVars, asks, serves, historyVars>>

\* Mutant of Full: one browser turn too many.
FullLate == Cardinality(ActiveEntries) > MaxActive

Full == Cardinality(ActiveEntries) >= MaxActive

\* getOrCreate prunes and starts a browser turn, or refuses at the limit.
GetOrCreate(r, stale) ==
  LET k == asks[r]
      s == created + 1
      c == ConversationOf[k] IN
  /\ LooksAt(r) /\ ActiveOwners(r) = {}
  /\ stale \subseteq Prunable
  /\ forgotten' = forgotten \cup {x \in stale : supersededError[x]}
  /\ pruned' = pruned \cup {x \in stale : ~settled[x]}
  /\ aborted' = [x \in Sessions |-> aborted[x] \/ x \in stale]
  /\ IF Full
     THEN /\ Finish(r)
          /\ entries' = [x \in Keys |-> IF entries[x] \in stale THEN None ELSE entries[x]]
          /\ conversationHeads' = [x \in Conversations |->
               IF conversationHeads[x] \in stale THEN None ELSE conversationHeads[x]]
          /\ UNCHANGED <<created, sessionKey, attached>>
     ELSE /\ created < MaxSessions
          /\ created' = s
          /\ sessionKey' = [sessionKey EXCEPT ![s] = k]
          /\ attached' = [attached EXCEPT ![s] = c]
          /\ entries' = [x \in Keys |->
               IF x = k THEN s ELSE IF entries[x] \in stale THEN None ELSE entries[x]]
          /\ conversationHeads' = [x \in Conversations |->
               IF x = c THEN s
               ELSE IF conversationHeads[x] \in stale THEN None ELSE conversationHeads[x]]
          /\ serves' = [serves EXCEPT ![r] = s]
          /\ Goto(r, "serving") /\ UNCHANGED <<asks, waitsFor>>
  /\ UNCHANGED <<retirements, ownerRetirements, conversationRetirements, outcome, settled,
                 supersededError, toolsOut, closed>>

\* The settlement it awaited has come: a replaced source once, the loop again.
Resume(r) ==
  /\ pc[r] = "waiting" /\ \A s \in waitsFor[r] : settled[s]
  /\ waitsFor' = [waitsFor EXCEPT ![r] = {}]
  /\ Goto(r, "looking")
  /\ UNCHANGED <<registryVars, sessionVars, asks, serves, historyVars>>

-----------------------------------------------------------------------------
(* What a request does with its session, as far as the registry can tell.  *)

Serves(r, s) == pc[r] = "serving" /\ serves[r] = s

serveUnchanged == <<registryVars, created, sessionKey, outcome, settled, supersededError,
                    attached, historyVars>>

\* The results of the outstanding batch reach the browser.
DeliverResults(r, s) ==
  /\ Serves(r, s) /\ toolsOut[s] /\ IsActive(s)
  /\ toolsOut' = [toolsOut EXCEPT ![s] = FALSE]
  /\ UNCHANGED <<serveUnchanged, aborted, requestVars>>

\* The response ends with a tool batch: the session lives on.
EmitToolBatch(r, s) ==
  /\ Serves(r, s) /\ IsActive(s) /\ ~toolsOut[s]
  /\ toolsOut' = [toolsOut EXCEPT ![s] = TRUE]
  /\ Finish(r)
  /\ UNCHANGED <<serveUnchanged, aborted>>

\* The response ends with the final answer or a replay of what was emitted.
Answer(r, s) ==
  /\ Serves(r, s) /\ (outcome[s] = "final" \/ toolsOut[s])
  /\ Finish(r)
  /\ UNCHANGED <<serveUnchanged, aborted, toolsOut>>

\* A deterministic failure stays replayable: the turn is aborted, its entry kept.
FailReplayable(r, s) ==
  /\ Serves(r, s)
  /\ aborted' = [aborted EXCEPT ![s] = TRUE]
  /\ Finish(r)
  /\ UNCHANGED <<serveUnchanged, toolsOut>>

\* retire acts only on the session the request observed.
Retires(r, s) == entries[asks[r]] = s

\* Every other failure retires the session; so does the disconnect of a Zero
\* Risk request.  A superseded session fails with a deterministic error.
FailAndRetire(r, s) ==
  /\ Serves(r, s) /\ (supersededError[s] => asks[r] \in Manual)
  /\ Retire(IF Retires(r, s) THEN {entries[asks[r]]} ELSE {}, FALSE)
  /\ Finish(r)
  /\ UNCHANGED retireUnchanged

\* The HTTP request goes away: an automatic turn keeps its session.
Disconnect(r) ==
  /\ pc[r] \in {"replacing", "looking", "waiting", "serving"}
  /\ pc[r] = "serving" => asks[r] \notin Manual
  /\ Finish(r)
  /\ UNCHANGED <<registryVars, sessionVars, historyVars>>

-----------------------------------------------------------------------------
(* The browser and the administrative calls.                               *)

\* The browser turn ends and its surface is released: the promises that waited
\* for it are taken out of the maps.
RunEnds(s, result) ==
  /\ Live(s)
  /\ settled' = [settled EXCEPT ![s] = TRUE]
  /\ outcome' = [outcome EXCEPT ![s] = IF IsActive(s) THEN result ELSE @]
  /\ toolsOut' = [toolsOut EXCEPT ![s] = FALSE]
  /\ retirements' = [k \in Keys |-> IF retirements[k] = s THEN None ELSE retirements[k]]
  /\ ownerRetirements' = [o \in Owners |-> ownerRetirements[o] \ {s}]
  /\ conversationRetirements' = [c \in Conversations |-> conversationRetirements[c] \ {s}]
  /\ UNCHANGED <<entries, conversationHeads, created, sessionKey, aborted, supersededError,
                 attached, requestVars, historyVars>>

\* beginCancelTrace: the user closed the tab of a turn.
CancelTrace(s) ==
  /\ Registered(s) /\ IsActive(s)
  /\ Cancel({s}, TRUE)
  /\ UNCHANGED <<registryVars, created, sessionKey, settled, supersededError, attached,
                 toolsOut, requestVars, historyVars>>

\* cancelNativeTurn: the user interrupted the turn in Codex.
CancelNativeTurn(t) ==
  LET S == {s \in Sessions : Registered(s) /\ TurnOf[sessionKey[s]] = t} IN
  /\ S # {}
  /\ Retire(S, TRUE)
  /\ UNCHANGED <<retireUnchanged, requestVars>>

\* clear: every turn is cancelled.
Clear ==
  LET S == {s \in Sessions : Registered(s)} IN
  /\ S # {}
  /\ BeginRetirement(S, FALSE)
  /\ entries' = [k \in Keys |-> None]
  /\ conversationHeads' = [c \in Conversations |-> None]
  /\ forgotten' = forgotten \cup {s \in S : supersededError[s]}
  /\ UNCHANGED <<retireUnchanged, requestVars>>

\* activeCount prunes.
ActiveCount(stale) ==
  /\ stale # {} /\ stale \subseteq Prunable
  /\ Forget(stale)
  /\ aborted' = [s \in Sessions |-> aborted[s] \/ s \in stale]
  /\ pruned' = pruned \cup {s \in stale : ~settled[s]}
  /\ UNCHANGED <<retirements, ownerRetirements, conversationRetirements, created, sessionKey,
                 outcome, settled, supersededError, attached, toolsOut, requestVars, closed>>

\* closeConversationAndWait: a compaction ends the retained conversation c.  All
\* of its sessions leave the registry, except that a final response which won
\* the race is kept, under the key k of the compacted turn.
CloseConversation(c, kept, k) ==
  LET S == {s \in Sessions : Registered(s) /\ attached[s] = c} IN
  /\ conversationRetirements[c] = {} /\ S # {}
  /\ kept # None => /\ kept \in S /\ outcome[kept] = "final" /\ OwnedBy(kept, OwnerOf[k])
                    /\ entries[k] \in {kept, None}
  /\ entries' = [x \in Keys |->
       IF kept # None /\ x = k THEN kept ELSE IF entries[x] \in S THEN None ELSE entries[x]]
  /\ conversationHeads' = [conversationHeads EXCEPT ![c] = None]
  /\ aborted' = [s \in Sessions |-> aborted[s] \/ (s \in S /\ IsActive(s))]
  /\ attached' = [s \in Sessions |-> IF s \in S THEN None ELSE attached[s]]
  /\ conversationRetirements' = [conversationRetirements EXCEPT ![c] = {s \in S : ~settled[s]}]
  /\ closed' = closed \cup {s \in S \ {kept} : ~settled[s]}
  /\ forgotten' = forgotten \cup {s \in S \ {kept} : supersededError[s]}
  /\ UNCHANGED <<retirements, ownerRetirements, created, sessionKey, outcome, settled,
                 supersededError, toolsOut, requestVars, pruned>>

-----------------------------------------------------------------------------

RequestStep(r) ==
  \/ \E k \in Keys, interrupted \in SUBSET Turns : Arrive(r, k, interrupted)
  \/ Replace(r) \/ Join(r) \/ AwaitRetirement(r) \/ Resume(r) \/ Disconnect(r)
  \/ \E stale \in SUBSET Sessions : GetOrCreate(r, stale)
  \/ \E s \in Sessions :
       \/ Supersede(r, s) \/ RefuseStale(r, s) \/ AwaitOwner(r, s)
       \/ DeliverResults(r, s) \/ EmitToolBatch(r, s) \/ Answer(r, s)
       \/ FailReplayable(r, s) \/ FailAndRetire(r, s)

BrowserStep == \E s \in Sessions, result \in {"final", "error"} : RunEnds(s, result)

AdminStep ==
  \/ \E s \in Sessions : CancelTrace(s)
  \/ \E t \in Turns : CancelNativeTurn(t)
  \/ Clear
  \/ \E stale \in SUBSET Sessions : ActiveCount(stale)

CompactionStep ==
  \E c \in Conversations, k \in Keys, kept \in Sessions \cup {None} :
    CloseConversation(c, kept, k)

SessionsNext ==
  (\E r \in Requests : RequestStep(r)) \/ BrowserStep \/ AdminStep \/ CompactionStep

SessionsSpec == SessionsInit /\ [][SessionsNext]_sessionsVars

\* A browser turn that was aborted, or that does not wait for Codex, comes to an
\* end: the helper obeys its abort signal and the worker's deadlines bound it.
\* A handler whose await is over goes on; Codex and the user need not act.
SessionsFairness ==
  /\ \A s \in Sessions :
       WF_sessionsVars((aborted[s] \/ ~toolsOut[s])
                         /\ \E result \in {"final", "error"} : RunEnds(s, result))
  /\ \A r \in Requests :
       /\ WF_sessionsVars(Resume(r))
       /\ WF_sessionsVars(Join(r) \/ AwaitRetirement(r)
                            \/ (\E stale \in SUBSET Sessions : GetOrCreate(r, stale))
                            \/ \E s \in Sessions :
                                 Supersede(r, s) \/ RefuseStale(r, s) \/ AwaitOwner(r, s))

FairSessionsSpec == SessionsSpec /\ SessionsFairness

-----------------------------------------------------------------------------
(* Properties.                                                             *)

\* One native Codex thread owns at most one live browser surface, as long as no
\* unsettled session left the registry through prune or a closed conversation.
OneSurfacePerThread ==
  \A s, t \in Sessions :
    Live(s) /\ Live(t) /\ {s, t} \cap (pruned \cup closed) = {}
      /\ OwnerOf[sessionKey[s]] = OwnerOf[sessionKey[t]] => s = t

\* The same without the exceptions, as the source states it.
OneSurface ==
  \A s, t \in Sessions :
    Live(s) /\ Live(t) /\ OwnerOf[sessionKey[s]] = OwnerOf[sessionKey[t]] => s = t

\* A request never waits for ever on a turn of its thread that answers another
\* instruction, not even when that turn waits for tool results which only this
\* request can bring.
SteeringProceeds ==
  \A r \in Requests, s \in Sessions :
    pc[r] = "waiting" /\ s \in waitsFor[r]
      /\ None \notin {InstructionOf[asks[r]], InstructionOf[sessionKey[s]]}
      /\ InstructionOf[asks[r]] # InstructionOf[sessionKey[s]]
    ~> pc[r] # "waiting"

-----------------------------------------------------------------------------
(* The inductive invariant behind OneSurfacePerThread.                     *)

\* A request that is being handled has an execution key.
RequestsAsk == \A r \in Requests : pc[r] # "idle" => asks[r] \in Keys

\* Entries and sessions agree: a session is registered for its owner only, and
\* under its own key as long as it holds a surface.
EntriesMatch ==
  \A k \in Keys : entries[k] # None =>
    /\ entries[k] <= created
    /\ sessionKey[entries[k]] \in Keys
    /\ OwnerOf[sessionKey[entries[k]]] = OwnerOf[k]
    /\ ~settled[entries[k]] => sessionKey[entries[k]] = k

\* A final answer comes from a browser turn that released its surface.
FinalIsSettled == \A s \in Sessions : outcome[s] = "final" => settled[s]

\* A key being retired is being retired for its owner too, and no other session
\* that holds a surface is registered under it.
RetirementsTracked ==
  \A k \in Keys : retirements[k] # None =>
    /\ retirements[k] \in ownerRetirements[OwnerOf[k]]
    /\ entries[k] # None => entries[k] = retirements[k] \/ settled[entries[k]]

\* A live surface is accounted for: by its entry or by its owner's retirement.
SurfacesTracked ==
  \A s \in Sessions : Live(s) /\ s \notin pruned \cup closed =>
    Registered(s) \/ s \in ownerRetirements[OwnerOf[sessionKey[s]]]

\* Sessions have keys, in the order of their creation.
SessionsKeyed == \A s \in 1..created : sessionKey[s] \in Keys

IInv ==
  /\ TypeOK
  /\ RequestsAsk
  /\ EntriesMatch
  /\ FinalIsSettled
  /\ RetirementsTracked
  /\ SessionsKeyed
  /\ SurfacesTracked
  /\ OneSurfacePerThread

=============================================================================
