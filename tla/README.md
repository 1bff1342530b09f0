# Verification of opencodex-chatgpt-web

TLA+ models of this repository, model-checked with TLC on small instances and
proved with TLAPS for instances of any size.  Paths are relative to the
repository root; line numbers are those of the modelled commit.  `PROJECT.json`
maps every definition to the lines it models, lists the hazards of the code with
the properties that watch them, and names for each property a mutant of the
model that breaks it.

The program lets Codex use ChatGPT's web interface as a model.  A daemon serves
Codex's `POST /v1/responses`; a helper process drives ChatGPT in browser tabs
that the launcher (an Electron application) owns; ChatGPT calls Codex's local
tools back through an MCP server, whose requests reach the daemon over a socket.

```
 Codex ──HTTP──▶ daemon (server.ts, bridge.ts)
                   │ one round per request body (adapters/chatgpt-web/index.ts)
                   │     or a session of the turn registry (turn-execution.ts)
                   ▼
                 browser turn ──pipe──▶ browser helper ──CDP──▶ ChatGPT tab (launcher)
                   ▲   (browser-worker.ts, markdown.ts)              │
                   │ tool calls                                      ▼ MCP
                 turn broker (turn-broker.ts) ◀──socket── MCP server (mcp-server.ts)

 launcher (Electron): browser host · supervisor of daemon and tunnel · setup ·
                      sign-in · usage estimate · update
 terminal:            setup · service and tunnel commands · development chat
```

## Inventory

| Component | State | Operations | What is hard | Module |
|---|---|---|---|---|
| Turn broker, `turn-broker.ts`, with its client `mcp-server.ts` | channels with leases, tombstones, revision, queues, waiters, Zero Risk state | register, claim, invoke, release, activity_complete, nextToolBatch, completeTool, compaction request, completion fence, drain, revoke | frames of independent sockets in any order; retries and timeouts; a fence in two halves | `TurnBroker`, `TurnLease` |
| Provider rounds, `index.ts` 900–1012 | one round per request body: events, committed, controller, observers | create, join, disconnect, commit a call, complete, prune | a retry against the disconnect that ends the round | `ProviderIntents` |
| Daemon, `server.ts` | draining, shutting down, tracked requests with identities, interrupted turns | accept, bind, release, drain, resume, interrupt-turn, cancel-turns, shutdown | a stop that overtakes the request it is meant for | `Daemon` |
| Turn registry, `turn-execution.ts` | entries, conversation heads, three maps of pending retirements | getOrCreateAfterOwnerRetirement, retire, supersede, prune, cancel, closeConversation | state read before an await; waiting for a browser that waits for the waiter | `TurnSessions` |
| Tool rounds and retries, `index.ts`, `turn-execution.ts`, `turn-progress.ts`, `retry-policy.ts` | journals, tool batches, the text boundary, the retry budget | open, replay, arm tools, take results, answer, fail, retry | a connection that breaks between fetching and journaling | `ToolRounds` |
| Structured compactions, `compaction-handoff.ts`, `compaction-transaction.ts` | runs by key, the gate of an owner; one-shot summaries | start, queue, cancel, interrupt, settle the source, hand off, submit, retire | logical end against physical end; a submission racing a revocation | `CompactionRuns`, `CompactionHandoff` |
| Helper pipe, `launcher-helper-client.ts`, `browser-helper-main.ts`, `turn-progress.ts` | pending runs, frames in two pipes, mirrored progress | run, abort, fences, progress, results, exit, close | a retry has the trace id of the run before it | `HelperPipe` |
| Browser worker, `browser-worker.ts`, `model-selection.ts` | the composer and the page of a tab, completion candidates | make the composer ready, attach, send, observe, fence, release | an external page that submits, loses and rewrites on its own | `BrowserTurn`, `Composer` |
| Answer buffer, `markdown.ts` with `responseDomSnapshot` | blocks sent and waiting, the cached look | look, align, send, finish | sent text cannot be taken back | `AnswerStream` |
| Responses bridge, `bridge.ts`, `event-queue.ts` | the bounded queue, frames, heartbeats | push, pull, stall, cancel, close | an event against the client's cancellation | `ResponseStream` |
| Launcher browser host, `browser-host.cjs`, `turn-suspension.cjs` | tabs with owners and leases, owners whose tab was closed | begin, heartbeat, end, sweep, close, crash, evict, exclude turns | a tab handed on while its last turn's end is on its way | `BrowserHost` |
| Home surface and sign-in, `browser-host.cjs`, `chatgpt-auth-session.cjs` | the exclusive operation, probes, session reads, the popup | sign in, import a passkey, sign out, refresh, change mode | a read that was outdated while it was awaited | `HomeSurface` |
| Zero Risk turns, `index.ts`, `launcher-browser-host.ts`, `browser-host.cjs` | manual tabs, signals, retained pages | begin, signal, end, keep, resume, reap | lost requests and repeated ones; a user who navigates | `ManualTurns` |
| Runtime supervisor, `runtime-supervisor.cjs` | daemon and tunnel, the restart budget, the state file | start, stop, force, recover, adopt | exits while stopping; a launcher that died | `RuntimeSupervisor` |
| Launcher setup, `runtime.cjs`, `main.cjs`, `setup.ts` | files, checkpoint, running configuration | setup, preferences, uninstall, start, quit | one step of several failing | `LauncherSetup` |
| Update and runtime, `update.cjs`, `update-worker.cjs`, `runtime-install.cjs` | programs and runtimes on disk, a detached worker | check, prepare, swap, install | death between two renames | `LauncherUpdate` |
| Usage estimate, `limits-controller.cjs`, `limits-store.cjs`, `limits.ts` | receipts of a week per account | check the plan, count, prune | an account that changes between read and send | `Limits` |
| Lifecycle lock, `lifecycle-lock.ts` | the lock file, the processes that look at it | acquire, inspect, reclaim, release | death between two system calls, reused pids | `LifecycleLock` |
| Services and tunnel, `service.ts`, `tunnel-service.ts`, `tunnel.ts`, `cli.ts` | launchd jobs, drains, the control token, the tunnel client | start, stop, restart, setup, install, uninstall | a command interrupted while it holds a drain | `TerminalService` |
| Development chat, `dev-chat/` | a chat in a file and in each process | open, commands, send, compact | a save that fails; a compaction within a turn | `DevChat` |
| Codex integration journal | files with a recovery journal | install, remove | — | not modelled: `assertDirectCodexIntegration` refuses every install, switch and repair in this release |
| Prompt and environment, model catalogue, configuration, user interface, scripts | mostly none | translation, lookup, rendering | — | not modelled, see `PROJECT.json` |

**Which path is served.**  The daemon's only turn endpoint is
`opencodexProviderResponse`, which sets `_externalProviderTrusted` on every
request it parses.  The adapter then runs *every* served request as a provider
round, before it looks at compaction.  The turn registry, the structured
compactions and the tool rounds are the adapter's other path: exported, tested,
and reached by no HTTP route at this commit.  `Daemon` therefore composes
`ProviderIntents`; `TurnSessions`, `ToolRounds`, `CompactionRuns` and
`CompactionHandoff` model the other path on its own.  Conversations that are
*retained* for a thread's next turn exist on that path only (`index.ts:470` gives
a key to no provider round): of `ManualTurns` and the launcher's tabs, what is said
of a kept page and its key concerns it, the rest both.

## How the models are written

A stretch of code between two awaits is one action; each await ends one.  A
socket frame is sent by one action and handled by another.  A promise and the
handlers that await it settle in the same action where the code gives nobody the
chance to run between.  Windows of time are choices.  What ChatGPT's page, the
user, Codex or the operating system does is an action of its own, bounded and
otherwise free.  History variables are marked so in their declaration; no guard
reads them.  A definition introduced by "Mutant of" is no part of the model: it
is the shape of a plausible mistake, which the property it is paired with in
`PROJECT.json` must find.

Most runs check several modules that share no state.  There a behaviour is one
*part*, chosen at first, and the others rest in an initial state
(`MCTurnBroker`, `MCTurnThreads`, `MCBrowserTurn`, `MCDaemon`, `MCLauncher`,
`MCLive`): the states add up instead of multiplying, and nothing of the modules
is replaced.  Two conjuncts of `MCLauncher` thin out the environment: `Asked`
lets turns come and go only where the supervisor looks at that, and `Brief`
allows the third event of the home surface only where a discard can still fail.


### Modules

| Module | Role |
|---|---|
| `TurnBroker` | the broker and its MCP handlers, every frame a step |
| `TurnLease` | the abstract promise of the broker to the browser worker |
| `ProviderIntents` | the provider rounds |
| `Daemon` | extends `ProviderIntents` with HTTP accounting and administration |
| `TurnSessions` | the turn registry with the requests that go through it |
| `ToolRounds` | the rounds of one native turn: journals, tool batches, retries |
| `CompactionRuns` | the gate of structured compactions |
| `CompactionHandoff` | the body of one compaction |
| `HelperPipe` | the daemon, the helper process and the pipes between them |
| `BrowserTurn` | one turn of the browser worker |
| `Composer` | how the worker readies the composer for the messages of a turn |
| `AnswerStream` | the blocks of an answer between page and daemon |
| `ResponseStream` | the events of a response between adapter and client |
| `BrowserHost` | the launcher's tabs and the helpers that lease them |
| `HomeSurface` | the page that is no turn's tab, sign-in and session |
| `ManualTurns` | Zero Risk turns, in daemon, launcher and user |
| `RuntimeSupervisor` | daemon and tunnel under the launcher |
| `LauncherSetup` | setup transactions, start and quit of the launcher |
| `LauncherUpdate` | program and runtime on disk, and who replaces them |
| `Limits` | the usage estimate |
| `LifecycleLock` | the lock file and its users |
| `TerminalService` | the installation that is managed from a terminal |
| `DevChat` | the development chat |
| `*Proofs` | theorems and proofs about the modules they extend |
| `MC*` | small instances for TLC |

### TurnBroker and TurnLease

`status`, `activities`, `completedActivities`, `revision`, `committed`,
`invocations`, `queued`, `delivered`, `waiters`, `batchTimer` and the Zero Risk
fields are those of `TurnChannel`.  A request `r` is one MCP handler; its
activity id and call id are `r` itself, and it invokes at most one tool.
`claim[r]`, `invoke[r]`, `release[r]` and `settle[r]` are its frames, which the
broker handles in any order: a handler that timed out leaves its frame behind,
and cleanup may send two.  A claim held for the Zero Risk start resumes in a
step of its own, on the state it finds then; `BrokerClaimDropped` is the abort
of its wait when the socket closes.  A handler may crash at any point.

`TurnLease` forgets frames, queues and counters.  Requests take leases while the
turn is open, an ended lease never starts again, and a commit needs a candidate
that has seen every ended lease.  `LeaseSpec` says that the broker implements
it: `fenceSeen` records what had ended when the revision was returned, and the
comparison of two *revisions* implements the comparison of two *histories*.

Left out: nonces and contract hashes, `updateEnvironment`, the 64 remembered
retired handles, starting and probing the socket, argument validation.

### ProviderIntents and Daemon

A round is "sampling" until its outcome is known, "retiring" while the browser
turn it cancelled unwinds, then "completed".  `CommitCall` is the tool batch
that Codex is going to see, `Detach` is `forwardProviderRound` leaving, with the
abort of a round whose last observer it was.  Details that matter: a request
whose signal is already aborted still creates a round (`VisitNew`); a retry may
join a round that was aborted and has not settled, and fails with that abort
(`late`); a committed round is never pruned, failed or not, so the limit of 256
is none for them, and pruning otherwise takes any completed round (`stale` is
nondeterministic).

`Daemon` adds `HttpTurnCounter`: a request is tracked before its body is read
and bound to its turn afterwards; an interruption remembered in `interrupted`
reaches the requests bound later.  `Idle` is what `activity()` counts: tracked
requests, never rounds.  Left out: signals, `cancel-turn`, the limit of 1024
remembered interruptions, the other endpoints.

### TurnSessions and ToolRounds

`entries`, `conversationHeads`, `retirements`, `ownerRetirements` and
`conversationRetirements` are the maps of `ChatGptTurnSessions`; a pending
promise is the set of sessions whose physical settlement resolves it, and it
leaves its map in the step of that settlement.  A handler is "looking" in the
loop of `getOrCreateAfterOwnerRetirement`, "waiting" in one of its awaits,
"replacing" before `retireAndWait`, "serving" with its session.  Time to live
and the limit of 256 entries are a nondeterministic set of prunable sessions.

`ToolRounds` looks into one turn.  `sess[s]` is a session with its browser, the
broker's batches and its journal; `codex` is what the client has received and
which round it asks for; `obs[o]` is a request that replays a journal, waits
for a batch, or emits one.  The client may be gone after any of these steps and
asks again.  `retries` is `retry-policy.ts`.  Attaching to a journal is one
step; the browser's flush and its acknowledgement of a boundary are one step; a
session that no request and no client can come back to is forgotten (`Remains`);
the life of the capability matters only while the turn runs; a round past all
the calls of all browsers (`RoundKeys`) is not asked, as no answer can lead to it.

A structured answer (`buffered`) goes out in one piece, and the two ways to the end
of a turn keep different things of it for a replay: `BrowserOutcome` takes `final`
before that piece is journaled (`index.ts:1467`), `Settled` after (1366, 1370).  A
finished turn may be asked again under another round key (`AskAgain`), whatever its
output.

### CompactionRuns and CompactionHandoff

A compaction registers under its key and queues behind its thread's previous
one; `retainOwnershipUntil` keeps the gate closed until the browsers named to it
have settled: the source's and a fresh compaction's (`surface`), not the turn that a
retained handoff opens in the source's tab (`handoffTurn`), which a cancellation or
the deadline leaves to end by itself.
An interruption that comes first rejects the turn's compaction when it
registers.  Repeated operations are new runs, up to `MaxRuns`.  What happens
inside the source chat is one choice of outcome there.

`CompactionHandoff` is that inside.  `body` is where the function given to
`runStructuredCompactionOnce` is; `source`, `handoff` and `freshTurn` are the
three browser turns that can take part, `transaction` the one-shot capability
with its waiter, its timer and its revocation, `entry` the source's session in
the registry.  The deadlines of the handoff and of its capability begin after
that of the run and last as long, so that they never come first; the result of
the handoff's browser turn and its physical release coincide unless it was
cancelled.

### HelperPipe

`run[c]` is a call of `run(turn)` in the daemon, with its promise and its
progress; `toHelper` and `toDaemon` are the pipes; `helperTurn` is what the
helper keeps under a trace id.  A trace id repeats when a request is repeated,
and no frame says which run it means: the field "run" of a frame is read by
properties only.  A helper may exit or be killed with frames in both pipes; its
successor starts with empty ones.

### BrowserTurn and Composer

`BrowserTurn` is one turn as the worker drives it.  `page` is ChatGPT: it
submits the composer's text on its own, writes, calls tools and finishes.
`acked` counts the stages of a prompt that is sent in several messages.
`progress` is what the broker tells of tool batches, `tracker` the
`ChatGptCompletionTracker`, `quietSince` the broker's fence between its begin
and its commit, `snap` the look that is being judged on progress that may be
newer.  `missed` records that a boundary was acknowledged with a text that was
not the page's, because the probe had not answered.

`Composer` is the stages before Send: the surface, family and effort, access to
the connector, its mention, the prompt and its files.  An operation on the page
may fail before or after it had its effect; a page that renders anew may lose
the model that was selected; `receipt` and `proven` are what the worker knows of
the personalization it toggled.  Menus, dialogs and rate limits are only their
outcome.

### AnswerStream

`content` is what the page shows at each place of the answer, `out` the blocks
at the top that it has virtualized, `layout` the places that have source ranges,
`ledger` the blocks sent, `latest` those of the last aligned look that were not.
The HTML of a block is its tag, text and link; the source offset of place *p*
is 2(*p* − 1); how long a block has been stable is a choice.  Tool boundaries
and calls in flight are `BrowserTurn`'s.

### ResponseStream

`adapter` is the round that emits, `queue` is `AsyncEventQueue`, `bridge` what a
step of `bridgeToResponsesSSE` keeps, `gate` the stream's pull.  A resolved
promise runs before the next task of the event loop: while `Awake`, neither a
timer nor the client acts.  A step that waits takes the first event past the
buffer; the error of a round that overflowed it is told only if there is room by
then.  Only the events of this adapter occur; heartbeats that would meet a full
queue are left out.

### BrowserHost

A tab is a number, and numbers grow: `turnTabs` is a JavaScript Map, and `find`
takes the first entry in order of creation (`Found`).  `run[h][t]` is
`runExclusive` of trace `t` in helper process `h`: it opens a tab or reuses one,
works, and ends; "exited" is a turn whose helper has died and whose end the
daemon may still send.  A begin that creates a tab awaits its first document, so
`Create` and `Open` (or `FailToOpen`) are two steps; a begin that reuses a tab
is one, and its caller may have gone by then.  `late` is the passing of whatever
deadline the tab is under: the bootstrap, the heartbeat timeout, or the idle
time of a retained tab.  `closing` and `expiring` are the calls that await the
runtime's acknowledgement of a cancellation; what they find afterwards is the
tab as it is then.  `KeyOf` is `conversationKey` with its connector identity.
An end is "retained" if the turn completed, asks to keep its conversation and
has bound its connector; a completed turn whose page asked for a sign-in counts
as a failed one.

After `await cancelTurn`, `closeTab` compares only the identity of the tab
(`browser-host.cjs:1766`); its comment says that `endTurn` released the tab if
the turn ended meanwhile, which holds unless that end retained it.  Another turn
may then be working in the tab that is removed, so `KeepsItsTab` excepts the
close of that very tab, and the tab whose page could not be marked, which the
user may close at once.  A tab in status "error" is never swept: its trace may
have a second tab, while the heartbeats and the end of that trace find the first.

Left out: the views and titles, the descriptor file, the limit of 256 remembered
cancellations, reuse of a helper's pid.

### HomeSurface

`manualOperation` is the exclusive operation and how far it is; "inspection"
stands for the session inspection and the plan check.  `authenticationProbe` is
the probe of the page that several callers share, `authenticationRefresh` the
read of the session that cookie events start, and "outdated" on either is a
revision number that has been passed.  `navigation` is the load under way with
the loads that were aborted, `authView` the popup.  Whether a turn runs is the
environment's choice.  Left out: the status line, titles, zoom, a change of mode
to the same mode.

### ManualTurns

`manual[t]` is `runManual` in the daemon, `manualTabs` and the two signal maps
are the launcher's.  A request that the daemon gave up on took effect before
that, or never; an acknowledgement may be lost.  The user may leave a page, and
the launcher does not look.  A turn's answer is in `answered` from `text.push`
on; Codex has it when `finishLauncher` is done and the turn is over, so that a
daemon that dies in between is asked again.  A key is the thread and everything else.  Left out:
the clipboard, mode changes, the limit of the signal maps; one daemon runs at a
time, Codex asks again only under the next one, and a refusal for any other
reason is a nudge.

### RuntimeSupervisor and LauncherSetup

`sup` are the fields of `RuntimeSupervisor` that its tasks share, `task[k]` an
operation with its local variables, between two awaits.  `children` are daemon
processes with exit handlers; `alias` is the tunnel, which is only known by
asking; `saved` is the state file, `left` what a launcher that died has left.
Full mode, production profile; writing the state file does not fail; the
tunnel's pid is always reported; a forced stop and a drain with its shutdown are
one step; one recovery slot.

`LauncherSetup` runs `runSetup`, `runPreferences` and the uninstall with their
checkpoint, the CLI child that changes the files, the hook, the commit and the
ways back, beside the launcher's start and quit.  A stop or a start of the
supervisor is one step.  Tunnel id and key are one value; renaming the connector
is a preference; an uninstall that fails leaves the runtime stopped.  The
development profile is left out.

### LauncherUpdate and Limits

`programs`, `runtimes`, `launcher`, `update` and `worker` are what is on disk
and who is at work on it; every rename and removal is a step, after which
launcher or worker may be killed.  `Limits` follows each physical send from the
read of the account to the receipt in the file of its account; the file may
fail, reports may be lost, the launcher may restart with the account changed.

### LifecycleLock and TerminalService

One step per system call: exclusive create, write, read, `kill(pid, 0)`, unlink,
and the release's read and unlink.  `End` kills a process between any two of
them; a new command may have its identifier, so that a liveness probe of the
stale owner answers for somebody else.  `expected` and `config` are the
installation an uninstall was told to remove.

`TerminalService` gives each terminal the *plan* of its command, the sequence of
calls it still has to make, with what to do if one fails.  Any call may fail or
lose its answer, and a command may be interrupted between two.  An uninstall is
one that keeps the data; setups that a changed service refuses are left out.

### DevChat

`mem[p]` is the chat that process `p` holds, `saved` the file, `cli[p]` what it
does, `work[p]` the turn it sends.  The size of the context is a choice, a
history is a set, a round calls one tool.


## Runs

| Run | What is in it | What it checks |
|---|---|---|
| `TurnBroker_turns` | a broker turn of each kind, 2 MCP requests | `FenceSound`, `NothingLost`, `LeaseSpec` (the refinement) |
| | 2 processes at the lifecycle lock, 2 commands each, a death | `ExclusiveUntilStolen`, `RemovesWhatWasProved` |
| | 2 sends, 2 accounts, a day that passes, a fault or a lost report | `CountsAreHonest` |
| | 2 terminals with every command, a failure, interruption or death | `LeavesNothingHalf` |
| | 3 Zero Risk turns of a thread, 2 daemons, a lost request | `ResumeContinues` |
| | an answer of up to 2 blocks, edited twice | `AnswerIsWhole` |
| `Turns_live` | one Zero Risk turn of the broker, 2 observers; a turn and its steering; fair | `AbandonedHandlersEnd`, `QueuedReachesObserver`, `SteeringProceeds` |
| `TurnSessions_threads` | a turn, its steering, its compaction and another thread's Zero Risk turn; 2 sessions, a limit of 1 | `OneSurfacePerThread` |
| | 2 runs of one trace, 2 helper processes | `OwnAnswers` |
| | a native turn with 2 tools in each mode, plain or structured, 2 browsers, 2 lost connections | `AnswerReachesClient` |
| | a development chat in 2 processes, 2 turns of 2 rounds, a fault | `SavedIsWhole` |
| `BrowserTurn_turns` | a turn with tools, one in two messages, a compaction | `AnswerIsFinal`, `NoSecondSubmission`, `AbortedTurnEnds` |
| | 2 runs of one trace, aborted or orphaned; fair | `AbortedRunsSettle` |
| | a response with a queue of 3 events | `WholeAnswer` |
| | a compaction of every kind of source | `FinalSurvives` |
| | the messages of 7 tasks on 5 kinds of page | `SendsAsMeant`, `PutBackOrTold` |
| `Daemon_admin` | 2 requests of 2 turns, drain, resume, interrupt, cancel, shutdown; fair | `OneSurfacePerKey`, `SameCall`, `InterruptReachesAll`, `ShutdownStaysIdle`, `AbandonedReleased` |
| | 2 compactions of a thread, 3 runs; fair | `OneCompactionPerOwner`, `CancelledRunsSettle` |
| `Launcher_parts` | 2 traces, 2 helpers, a limit of one tab | `OneDriver`, `KeepsItsTab`, `CloseIsReported` |
| | the supervisor with 2 daemons and a fault | `NoOrphan` |
| | 2 setup operations and a fault | `RolledBack` |
| | 2 operations on the home surface | `SignOutStands`, `PartialImportDiscarded` |
| | 2 updates and 2 faults | `SomethingToStart`, `RunsItsOwnRuntime` |
| `LifecycleLock_reclaim` | 3 processes, a death | `MutualExclusion` is violated |
| `TurnSessions_surface` | one thread | `OneSurface` is violated |
| `ToolRounds_veto` | a native turn | `VetoIsReal` is violated |
| `ManualTurns_switch` | a thread that changes its model | `OwnsHistory` is violated |
| `LauncherSetup_rollback` | a setup whose hook fails | `RunsWhatIsSaved` is violated |
| `DevChat_midturn` | a chat that compacts within a turn | `CompactedTurnResumes` is violated |

Each property is stated, with the code it is about, in a comment in its module.
All runs disable the deadlock check: every counter is bounded, so each model
comes to rest when its bounds are used up.  Requests, observers, processes,
helpers and tool calls are interchangeable in the safety runs (`SYMMETRY`); the
runs with liveness properties use no symmetry.

### Bounds

- Broker: channels share nothing but the drain flag, so one turn of each kind
  covers them; two requests are what a fence, a lost wake-up or a second intent
  needs; a second observer, what a handed-over call needs.
- Rounds: `MaxRounds = 2` gives a body a round and the one that would sample
  again, or each of two turns its own.  `MaxRuns = 3` puts a compaction behind a
  queued one.
- Registry: `MaxSessions = 2` is what two surfaces of a thread need, and
  `MaxActive = 1` (5 in the liveness run) makes the second wait for the first.
- Tool rounds: two tools, `MaxRetries = 1`, `MaxLost = 2`, answers of two parts
  (`MaxText`); `Modest` gives a second browser, or a second lost connection, the
  shorter of the turns.
- Pipe: two runs of one trace, two helpers (`MaxChildren`), up to two fences and
  one mirrored batch.  Three runs were checked without other parts beside them.
- Browser turn: `MaxText = 2`, one tool batch, one rebind, one fault, two
  triggers of a look (`MaxTriggers`).  Composer: `TopEffort = 2` has a step up
  and a step down; a prompt in parts has three (`PartCounts`; two or six in the
  code); sites and tasks are listed in `MCBrowserTurn`.
- Answer: two places, four contents and three layouts give an equal pair, a
  changed link, a changed tag, and blocks with and without source ranges;
  `MaxEdits = 2` changes a block and changes it back.
- Response: `MaxBuffered = 3` and `MaxEvents = 3`, so that the queue fills up;
  `StallTicks = 2`.
- Launcher: with a limit of one tab every second begin evicts, reuses or fails,
  and the second of `MaxOpened = 2` tabs is the one that a late end, expiry or
  close of the first must not hit.  `MaxSpawns = 2` with one restart and one
  fault; `SetupFaults = 1` over two operations; `HomeEvents = 3`, two updates
  (`LastVersion = 3`) with two faults.
- Lock: two processes are the stale owner and its successor, a third reclaimer
  is what the violation needs.  Tokens are counted modulo 3.
- Terminal: `ServiceFaults = 1`; the run starts from an installation whose client
  is old and whose tunnel job is loaded, so that every command has work to do.
- Zero Risk: three turns, three pages, two helpers, one lost request, one nudge.
- Usage: two accounts, two sends, a retention of one day, a last day of 2.

The theorems below are free of all of these bounds.

### Fairness

Safety properties assume none.  The liveness properties assume what the code
schedules or bounds by a timeout:

- `TurnBroker` (`Fairness`): the daemon's event loop reads every frame and fires
  every timer, and a handler that has its answer goes on.  ChatGPT, the user and
  Codex need not act, and no timeout is forced.
- `TurnSessions` (`SessionsFairness`): a browser turn that was aborted, or does
  not wait for Codex's tool results, ends; a handler whose await is over goes on.
  A turn that waits for results may wait for ever, which is what makes
  `SteeringProceeds` say something.
- `Daemon` (`DaemonFairness`): an aborted handler is told at once, a cancelled
  browser turn settles (the helper obeys its abort signal and its cleanup is
  bounded).  Nothing makes ChatGPT answer.
- `CompactionRuns` (`RunsFairness`): a handoff fails at its deadline at the
  latest.
- `HelperPipe` (`PipeFairness`): both ends read their pipes, a starting helper
  becomes ready or is given up, a turn in the helper ends by its own timeouts,
  and the request to the launcher has one.
- `BrowserTurn` (`TurnFairness`): the worker's own steps go on, since every stage
  has a timeout; an abort is noticed and the page's verdict is read if that is
  possible again and again (strong fairness: the poll between two other steps);
  silence gets stale.

## Disagreements between code and text

Each of these is a run that finds the statement violated; `PROJECT.json` quotes
the line.

1. `LifecycleLock_reclaim`.  The comment at `src/lifecycle-lock.ts:177` says that
   a concurrent reclaimer loses the exclusive create.  Both may have proved the
   owner gone; the slower one's unlink then removes the lock that the faster one
   has created, and both proceed.  `ExclusiveUntilStolen` is what is left, and it
   is proved.
2. `TurnSessions_surface`.  `turn-execution.ts:242` says that a thread owns at
   most one live browser surface.  `closeConversationAndWait` drops entries whose
   browsers have not settled and records no owner retirement, so the thread's
   next request opens a second one.  `OneSurfacePerThread` names this exception
   and that of pruned sessions, and it is proved.
3. `ToolRounds_veto`.  `turn-progress.ts:287` says that only unresolved tool
   calls veto the completion.  A connection that breaks between the fetch of a
   batch and its emission makes the reconnect count the batch again, and the
   browser accepts no completion for the rest of the turn.
4. `ManualTurns_switch`.  The key of a retained conversation contains model and
   effort, and the resume prompt leaves out everything before the thread's last
   answer, whichever conversation gave it.  A thread that asks one model, another
   and the first again is resumed without the second answer.  The automatic mode
   takes the same key and the same prompt.
5. `DevChat_midturn`.  `docs/dev-chat.md:123` says that the compacted
   continuation resumes the unfinished work.  The checkpoint is remembered under
   the compaction's turn id, so the next round has no instruction of its turn and
   is refused.
6. `LauncherSetup_rollback`.  When the hook of a setup fails, the files are
   restored but the daemon that was started with the new ones is kept, because
   its mode and release match.

## Observations

What the models show beside their properties; no text of the repository says
otherwise, or the part is not modelled far enough for a run.

- *Answers of the helper that cross.*  An acknowledgement that arrives after its
  turn has ended is answered with an error frame, and the daemon gives it to
  whoever is pending under the trace.  If that is a repetition whose turn the
  helper has begun, the turn goes on without its run; a third and a fourth run of
  the trace are then refused, but while they are pending the old turn's requests
  are granted on their account.  It takes four runs of one trace.  `OwnAnswers`
  therefore speaks of runs that are still pending.  In the same way a late
  answer of the launcher about a helper that exited fails a repetition that its
  successor already serves.
- *Answers without source ranges.*  Of two equal consecutive blocks the second is
  silently dropped; an equal block later, or blocks hidden at the top, raise a
  false "changed a completed text block" and fail the turn, although the class
  comment (`markdown.ts`, about line 195) calls a missing prefix harmless.  Blocks
  that were virtualized before they were sent are silently missing.  `href` is not
  among the attributes whose change is noticed, so that a link's late destination
  is only seen by the fresh look that a completion fence forces.
- *Compactions.*  A second `/compact` of a history that holds only a compaction
  item fails after its browser work.  A compaction that is cancelled, or times out,
  during its retained handoff settles while the browser turn of that handoff runs on
  (`compaction-handoff.ts:355-368`: the wait for it is under the signal that was
  aborted), and the thread's next compaction may begin beside it.
  `OneCompactionPerOwner` excepts that turn by name.  The comment at
  `index.ts:1224` says that cancel-all must not acknowledge before the retained
  browser has physically retired, `compaction-handoff.ts:359` that the retained
  session's owner tracks it, and `compaction-handoff.ts:470` that it still blocks
  retries: the retirement waits for the turns of the registry, of which the
  handoff's is none.  A source
  that the user cancelled and that is not yet released can be asked for the
  handoff, which `compaction-handoff.ts:200` wants not to race its end.
- *Daemon.*  A shutdown is accepted while the browser turn of a client that has
  gone is still there (`server.ts:1104`), although `docs/architecture.md:289`
  counts browser sessions among what holds it back.  SIGTERM clears the registry
  without draining (`server.ts:1412`).
- *Sleep.*  A reused tab starts its turn without the power-save blocker
  (`browser-host.cjs:2446`); `turn-suspension.cjs:36` says it is up exactly while
  a turn runs.
- *Composer.*  The labelled personalization is not restored on a failure; neither
  the connector's pill nor Think is looked at again before Enter; stages that
  time out do not await the action they gave up on; a draft stays after failures
  outside the attachment.
- *Zero Risk.*  If every acknowledgement of a start is lost, the tab awaits
  "Sent" with a revoked token; if every acknowledgement of an end is lost, a tab
  stays running; an end that is processed late can give two ready tabs of one
  key; a page that the user leaves between the prompt and "Sent" keeps its key
  (`browser-host.cjs:942`), so that the next turn may resume in another
  conversation; `cancelLauncherManualTurn` has no caller.
- *Home surface.*  The recovery from a security check reloads the page although
  an operation has begun meanwhile; closing the popup during a sign-in can abort
  the probe's load; a failed change of mode lets a read publish that a dropped
  event had outdated.
- *Supervisor.*  The daemon of a launcher that died is skipped when its state is
  stale; the tunnel's monitor is not restarted; a forced quit erases the mark of
  ownership; quit looks for an operation once.  A startup that meets a change of
  preferences leaves `coreSetupComplete` false.
- *Update.*  A worker that waits longer than 120 s throws before its try: no
  relaunch, and its directory stays.  A worker killed between the two renames of
  macOS leaves no launcher in its place (the old one is beside it).  A quit that
  is refused cancels the installation.  A runtime that lost some of its files is
  not noticed.
- *Structured answers.*  A turn whose structured answer was complete before the
  request that reports it ran keeps that answer for a replay, and its replay under
  another round key is followed by the answer once more (`index.ts:1350`, 1366): the
  client reads the JSON twice.  Under the key of the round itself the replay is
  exact, and so is that of an answer that ended its round in the race.
  `AnswerReachesClient` excepts the case by name;
  `tests/responses-text-controls.test.ts` has "adapter emits one validated strict
  JSON final answer only after completion", of a first request.
- *Usage.*  `docs/architecture.md:218` says that every physical send is counted
  once.  A report that is lost, late, refused after a failed write, or falls into a
  change of mode leaves a send that no file has, and nothing tells it once the
  warning is cleared or the launcher restarted.  `CountsAreHonest` says what is
  counted is right, not that everything is counted.
- *Services.*  Service and tunnel commands take no lifecycle lock, so that one
  command's resume can undo another's drain.  `assertServiceIdle` releases its
  drain before the tunnel is stopped.  Ctrl-C between drain and resume leaves the
  daemon draining.  `setup --restart-service` saves the new control token before
  it restarts: if the restart is refused, the running daemon keeps the old one,
  and every later drain or setup is answered 401 until it is restarted by hand,
  although `setup.ts:588` says to rerun the command.  A tunnel client installed
  half way fails every later integrity check.


## Proofs

Every theorem holds for all values of the constants that satisfy the named
assumptions of the modules (`ManualAssumption`, `SupervisorAssumption`,
`SetupAssumption`, the `ASSUME`s on kinds and shapes, …); these say that bounds
are natural numbers, that sets the code enumerates are finite, and which keys a
turn may have.  TLC evaluates them on every run.  None limits a count of turns,
requests, processes, faults or retries.

Each safety theorem rests on an inductive invariant, which TLC checked before it
was proved.  The property alone is never inductive; what it takes is listed here.

| Property | Module of the proof | Inductive invariant, and why it is needed |
|---|---|---|
| `FenceSound`, `NothingLost`, `LeaseSpec` | `TurnBrokerProofs` | `Consistent`: a live claim holds an activity, a release comes before the settlement, tombstones belong to handlers that settle, a queued or delivered call is of its own turn, and equal revisions mean equal histories (`FenceOrder`).  The last is why comparing counters is enough for a fence. `ImplementsTurnLease` shows a step or a stutter of `TurnLease` for every action |
| `ResumeContinues` | `TurnBrokerProofs` | `ManualIInv`: a thread's turns run one after another; a tab is of a turn whose predecessors are over, and a turn has one tab; no page is kept under the key of a turn that has, or had, its own; a page kept under a key knows every answer of that key.  A page is resumed from "kept", so what it knew as a kept page is what the next turn builds on |
| `ExclusiveUntilStolen`, `RemovesWhatWasProved` | `DaemonProofs` | `LockConsistent`: whoever removes a lock has read a token whose process has gone |
| `LeavesNothingHalf` | `DaemonProofs` | `ServiceConsistent`: every command follows one of the plans, in which each drain is followed by its release or by the end of the job, and only one command at a time writes the client's files, manifest after binary |
| `OneSurfacePerThread` | `TurnSessionsProofs` | `SurfacesAccounted`: a browser that lives is that of an entry, of a pending retirement, or of one of the exceptions that the property names |
| `AnswerReachesClient` | `ToolRoundsProofs` | `RoundsIInv`: a browser serves its requests one at a time in the order they came; the request Codex waits for is the last of its queue and has been told the journal; a batch that is delivered or awaited is in the broker's hands; what Codex has kept of each browser is its text from the start to a position, and what that browser's journal has for the round Codex is in continues from there (`Onward`), or is what Codex had already received and asks for again (`Again`), a structured answer possibly with itself after it (`ReadTwice`); rounds yet to come have told nothing, or an error.  The property speaks of what Codex has kept; it survives a replay because of what the journals hold, and a change of wording because of the text kept with the batch (`prelude`, `final`) |
| `OwnAnswers` | `TurnSessionsProofs` | `PipesConsistent`: what a frame tells is so when it is written, a run's frame follows all other frames of its trace, a trace has one pending run, and a turn serves a run whose frame the helper has read |
| `OneCompactionPerOwner` | `CompactionProofs` | `RunsIInv`: the runs of an owner stand in the order of their gate, a run has at most one of its turns at work, and a run whose gate is open has none but that of a failed handoff (`AtRest`) |
| `FinalSurvives` | `CompactionProofs` | `HandoffConsistent`: where the body, the source, the handoff turn and the capability are, seen from each other |
| `SavedIsWhole` | `CompactionProofs` | `DevChatIInv`: every history that a process holds or has saved is whole; turns are numbered as they are made, and what a turn holds beside the file it read is its own until it compacts.  The file alone says nothing of the copy that the next save takes |
| `OneSurfacePerKey`, `SameCall` | `DaemonProofs` | `RoundsConsistent`: the round of a key is the one its browsers and its calls belong to |
| `InterruptReachesAll`, `ShutdownStaysIdle` | `DaemonProofs` | `DaemonConsistent`: a tracked request is counted until it has been told |
| `OneDriver`, `KeepsItsTab`, `CloseIsReported` | `BrowserHostProofs` | `HostConsistent`: the registry of tabs and the helpers' turns agree on who drives a tab, through every await of begin, end, close and expiry |
| `SignOutStands`, `PartialImportDiscarded` | `BrowserHostProofs` | `HomeIInv`: where an import is and what it has done to the session at every await; who reads, probes or waits under which generation of the authentication.  The attempt refuted an earlier form of `PartialImportDiscarded`: an import that fails in its transfer finds what an *earlier* one left, which takes seven events, more than the run has.  The property now speaks of imports that have touched the session |
| `SomethingToStart`, `RunsItsOwnRuntime` | `LauncherProofs` | `UpdateConsistent`: what is on disk at each place of the update worker and of the runtime's installation |
| `CountsAreHonest` | `LauncherProofs` | `LimitsConsistent`: the property itself, with the types of the history, the sends and the checks under way: it is inductive because a look at the store drops nothing before its week has passed (`WeekKeeps`) |
| `NoOrphan` | `LauncherProofs` | `SupervisorConsistent`: the property with the types of the tasks suspended at each await |
| `RolledBack` | `LauncherProofs` | `SetupConsistent`: which process writes the files and whether it is alone, what the checkpoint has of them, and that nothing is touched before the child has run |
| `AnswerIsWhole` | `BrowserTurnProofs` | `AnswerConsistent`: the ledger is what a prefix of the page was, the aligned look continues it |
| `NoSecondSubmission`, `AnswerIsFinal` | `BrowserTurnProofs` | `TurnConsistent`: the stages acknowledged, the page's text and the tracker's candidate at every stage of the worker |
| `SendsAsMeant`, `PutBackOrTold` | `BrowserTurnProofs` | `ComposerConsistent`: what each stage of the composer takes for granted of the page and of its own earlier selections |

Further theorems state what no run has as a property of its own: a lease that
was revoked never returns (`NoLeaseRevived`), a commit has seen all work
(`CommitSeesAllWork`), an interruption spares the other turns
(`InterruptionSpares`), exclusive operations and turns exclude each other
(`OperationsExcludeTurns`), the blocker of sleep is released
(`SleepIsReleased`), tabs stay within the limit (`TabsAreLimited`).

Most proofs have the same plan.  A few relations say in what ways a step can
change the state (for Zero Risk: a page *goes on*, is *opened* or is *kept*);
each action is shown to be one of them; each part of the invariant is shown to
survive each relation.  The proof of a part then does not depend on how many
actions there are.

What Codex has heard (`HeardIn`) is a recursive function over the rounds.  That it
exists, and that it depends on the responses kept and on nothing else, is proved by
the least round that would refute it (`Least`, `SumExists`, `HeardSame`): the
library's well-founded minimum takes no operator as a parameter, so that argument is
within the prover's reach where an induction theorem is not.

### What stays with TLC

- Liveness and everything that needs `ENABLED`: `AbandonedHandlersEnd`,
  `QueuedReachesObserver`, `SteeringProceeds`, `AbortedTurnEnds`,
  `AbortedRunsSettle`, `AbandonedReleased`, `CancelledRunsSettle`.  The prover has no rules for fairness.
- `WholeAnswer` (`ResponseStream`): the text is a fold over the events, and what a
  fold computes needs an induction over sequences.

### What is not modelled

The journal of the Codex integration, which this release refuses to run; the
translation of prompts and the environment; the model catalogue; configuration;
the user interface; the build and release scripts; requests that carry their own
authentication; the store of earlier responses; rolling checkpoints; the
extraction of commentary and traces.  `PROJECT.json` gives the reason for each.
One hazard has no property: a launcher that died and left daemon *and* tunnel
(`runtime-supervisor.cjs:1967`), for which no text of the repository says what
should hold.

## What is left

1. `WholeAnswer` through an invariant that relates the two texts without a fold.
2. The parts listed above as not modelled, the Codex integration journal first once
   a release runs it.
