------------------------------ MODULE ToolRounds ------------------------------
(***************************************************************************)
(* The rounds of one native Codex turn (src/src/adapters/chatgpt-web/      *)
(* index.ts, turn-execution.ts, turn-progress.ts, retry-policy.ts).  One   *)
(* browser answers over many Responses requests: each request replays or   *)
(* continues the journal of its round, takes the text and the tool calls   *)
(* of the model, and ends with a tool batch, the answer or an error.       *)
(* Clients disconnect and ask again; the browser fails; the budget of      *)
(* retries decides whether another one starts.                             *)
(***************************************************************************)
EXTENDS Integers, Sequences, FiniteSets

CONSTANTS
  Observers,     \* requests in flight at once
  Tools,         \* the tool calls the model may make
  Modes,         \* of the turn: "tools", "manual" (Zero Risk) or "readonly"
  MaxText,       \* pieces of text of an answer
  MaxSurfaces,   \* browsers started for the turn
  MaxRetries,    \* MAX_CHATGPT_WEB_TURN_RETRIES
  MaxLost,       \* connections Codex loses
  Nobody

ASSUME RoundsAssumption ==
  /\ {MaxText, MaxSurfaces, MaxRetries, MaxLost} \subseteq Nat /\ IsFiniteSet(Tools)
  /\ Nobody \notin Observers /\ Modes \subseteq {"tools", "manual", "readonly"}

VARIABLES
  mode, buffered,  \* of the turn; a structured answer is sent in one piece
  current,         \* the session registered for the turn, 0 if none
  sess,            \* the sessions started so far
  retries,         \* counted by the retry policy
  codex,          \* Codex: its round, and what it has received
  obs              \* the requests

roundsVars == <<mode, buffered, current, sess, retries, codex, obs>>

\* A round is known by its whole input: a client that asks anew may vary it.  The
\* bound is that of the calls of all browsers.
RoundKeys == (1..MaxSurfaces * Cardinality(Tools) + 1) \X {1, 2}

Unasked == [pc |-> "idle", on |-> 0, key |-> <<1, 1>>, results |-> {}, gone |-> FALSE,
            seen |-> <<>>, batch |-> {}, rev |-> 0]

\* A session: the browser's progress, the feeds, the broker's calls, the
\* progress counters, and the journal of the rounds.
Surface ==
  [phase |-> "starting", outcome |-> "running", cancelled |-> FALSE, retired |-> FALSE,
   written |-> 0, pushed |-> 0, drained |-> 0, told |-> FALSE,
   call |-> [c \in Tools |-> "none"], after |-> [c \in Tools |-> 0],
   active |-> 0, batches |-> 0, observed |-> 0,
   outstanding |-> {}, resolved |-> {}, prelude |-> <<>>, final |-> <<>>,
   journal |-> [k \in RoundKeys |-> <<>>], completed |-> {}, failed |-> {}, tail |-> <<>>]

RoundsInit ==
  /\ mode \in Modes /\ buffered \in BOOLEAN
  /\ current = 0 /\ sess = <<>> /\ retries = 0
  /\ codex = [round |-> 1, variant |-> 1, held |-> <<>>, live |-> Nobody,
               state |-> "asking", lost |-> 0]
  /\ obs = [o \in Observers |-> Unasked]

Sent(x) == x.phase \notin {"starting", "prepared"}
CallsIn(x, states) == {c \in Tools : x.call[c] \in states}

-----------------------------------------------------------------------------
(* The feeds and the journal.                                              *)

TextPiece(i) == [type |-> "text", n |-> i]
Between(i, j) == [k \in 1..(j - i) |-> TextPiece(i + k)]

\* What a drain of the text feed adds to the round.
FreshText(x) == IF buffered THEN <<>> ELSE Between(x.drained, x.pushed)

\* Mutant of Drain: a disconnected observer's drain is not journaled.
DrainUnheard(o, x) ==
  [x EXCEPT !.drained = x.pushed,
            !.journal[obs[o].key] = IF obs[o].gone THEN @ ELSE @ \o FreshText(x)]

\* The whole batch is journaled before the observer is touched.
Drain(o, x) == [x EXCEPT !.drained = x.pushed, !.journal[obs[o].key] = @ \o FreshText(x)]

Journal(o, x, events) == [x EXCEPT !.journal[obs[o].key] = @ \o events]

Complete(o, x) == [x EXCEPT !.completed = @ \cup {obs[o].key}]

LastOf(events) == events[Len(events)]

Of(o) == sess[obs[o].on]

\* What the round told earlier connections is replayed to a new one.
Replay(o) == IF obs[o].pc = "queued" THEN Of(o).journal[obs[o].key] ELSE <<>>

\* What the client of the request has seen once the journal of its round is x's.
SeenIn(o, x) ==
  IF obs[o].gone THEN <<>>
  ELSE Replay(o) \o obs[o].seen \o SubSeq(x.journal[obs[o].key],
                             Len(sess[obs[o].on].journal[obs[o].key]) + 1,
                             Len(x.journal[obs[o].key]))

\* The request goes on, its session now being x.
GoesOn(o, x, pc) ==
  /\ sess' = [sess EXCEPT ![obs[o].on] = x]
  /\ obs' = [obs EXCEPT ![o].pc = pc, ![o].seen = SeenIn(o, x)]
  /\ UNCHANGED <<mode, buffered, current, retries, codex>>

\* Codex takes a whole response: it runs the tools, retries, or stops.
Hears(on, events) ==
  LET ending == IF events = <<>> THEN [type |-> "thrown"] ELSE LastOf(events)
      kept == [codex EXCEPT !.live = Nobody,
                             !.held = Append(SubSeq(@, 1, codex.round - 1),
                                             [on |-> on, events |-> events])]
  IN  CASE ending.type = "tools" -> [kept EXCEPT !.round = @ + 1, !.variant = 1]
        [] ending.type = "done" -> [kept EXCEPT !.state = "finished"]
        [] ending.type = "error" /\ ~ending.retry -> [codex EXCEPT !.live = Nobody, !.state = "refused"]
        [] OTHER -> [codex EXCEPT !.live = Nobody]

\* The request ends and the next one of its session may run.
Ends(o, x, thrown) ==
  /\ sess' = [sess EXCEPT ![obs[o].on] = [x EXCEPT !.tail = Tail(@)]]
  /\ obs' = [obs EXCEPT ![o] = Unasked]
  /\ codex' = IF codex.live = o
               THEN Hears(obs[o].on, IF thrown THEN <<>> ELSE SeenIn(o, x)) ELSE codex
  /\ UNCHANGED <<mode, buffered>>

\* runtime.cancel: the browser is aborted and the capability revoked, which
\* retires the progress.
Cancelled(x) == [x EXCEPT !.cancelled = TRUE, !.retired = TRUE, !.active = 0]

Unregistered(s) == IF current = s THEN 0 ELSE current

-----------------------------------------------------------------------------
(* Failures of a round.                                                    *)

\* submittedTurnFailure: what went wrong after Send is never retried.
Submitted(x, error) == IF error = "generic" /\ Sent(x) THEN "rejected" ELSE error

\* Retryable failures are counted against the budget; deterministic ones stay
\* replayable; every other one retires the session.
Fails(o, x, error) ==
  LET turnError == Submitted(x, error)
      count == IF turnError = "retryable" THEN retries + 1 ELSE 0
      again == turnError = "retryable" /\ count <= MaxRetries
      kept == turnError # "generic" /\ ~again
      ended == Complete(o, Cancelled(x))
  IN  /\ retries' = count
      /\ current' = IF kept THEN current ELSE Unregistered(obs[o].on)
      /\ IF turnError = "generic"
         THEN Ends(o, [ended EXCEPT !.failed = @ \cup {obs[o].key}], TRUE)
         ELSE Ends(o, Journal(o, ended, <<[type |-> "error", retry |-> again]>>), FALSE)

\* A structured answer is journaled in one piece, once it is complete.
OnePiece(x) == IF buffered THEN Between(0, x.written) ELSE <<>>

\* The answer is complete: the round ends with the rest of it, the budget is cleared.
Finishes(o, x, rest) ==
  /\ retries' = 0
  /\ UNCHANGED current
  /\ Ends(o, Complete(o, Journal(o, x, Append(rest, [type |-> "done"]))), FALSE)

-----------------------------------------------------------------------------
(* Codex.                                                                  *)

\* What is left of a session that is neither registered nor in use.
Remains(x) ==
  IF x.tail # <<>> THEN x
  ELSE [Surface EXCEPT !.phase = x.phase, !.outcome = x.outcome, !.cancelled = TRUE,
                       !.written = x.written, !.after = x.after]

\* A request attaches to the turn's session, or starts one once the previous
\* browser has settled.  It carries the results of every earlier round.
AskRound(o) ==
  /\ codex.state = "asking" /\ codex.live = Nobody /\ obs[o].pc = "idle"
  /\ retries <= MaxRetries /\ <<codex.round, codex.variant>> \in RoundKeys
  /\ current = 0 => /\ Len(sess) < MaxSurfaces
                    /\ \A s \in DOMAIN sess : sess[s].outcome # "running"
  /\ LET known == IF current = 0
                  THEN Append([t \in DOMAIN sess |-> Remains(sess[t])], Surface) ELSE sess
         s == IF current = 0 THEN Len(known) ELSE current
     IN  /\ sess' = [known EXCEPT ![s].tail = Append(@, o)]
         /\ current' = s
         /\ obs' = [obs EXCEPT ![o] = [Unasked EXCEPT
              !.pc = "queued", !.on = s, !.key = <<codex.round, codex.variant>>,
              !.results = UNION {LastOf(codex.held[k].events).calls :
                                   k \in {j \in 1..(codex.round - 1) : codex.held[j].on = s}}]]
  /\ codex' = [codex EXCEPT !.live = o]
  /\ UNCHANGED <<mode, buffered, retries>>

\* The budget is exhausted: the request fails before anything starts.
AskInVain ==
  /\ codex.state = "asking" /\ codex.live = Nobody
  /\ retries > MaxRetries
  /\ codex' = [codex EXCEPT !.state = "refused"]
  /\ UNCHANGED <<mode, buffered, current, sess, retries, obs>>

\* The connection breaks; what was received of the round is dropped.
LoseConnection ==
  /\ codex.live # Nobody /\ codex.lost < MaxLost
  /\ codex' = [codex EXCEPT !.live = Nobody, !.lost = @ + 1]
  /\ obs' = [obs EXCEPT ![codex.live].gone = TRUE, ![codex.live].seen = <<>>]
  /\ UNCHANGED <<mode, buffered, current, sess, retries>>

\* Codex loses a round it had received whole and asks for it in other words.
AskAgain ==
  /\ codex.live = Nobody /\ codex.held # <<>> /\ codex.variant = 1
  /\ \A o \in Observers : obs[o].pc = "idle"
  /\ \/ codex.state = "finished"
     \/ codex.state = "asking" /\ current # 0 /\ sess[current].outstanding # {}
  /\ codex' = [codex EXCEPT !.state = "asking", !.round = Len(codex.held), !.variant = 2]
  /\ UNCHANGED <<mode, buffered, current, sess, retries, obs>>

\* The entry of the retry policy outlives its TTL.
BudgetExpires ==
  /\ retries > 0 /\ retries' = 0
  /\ UNCHANGED <<mode, buffered, current, sess, codex, obs>>

-----------------------------------------------------------------------------
(* A request in its session, one at a time: runExclusive.                   *)

Batch(calls) == [type |-> "tools", calls |-> calls]

\* What a settled browser leaves to tell: the rest of its text, or, to a round
\* that is new to a session told whole, the last round again.
Remainder(o, x) ==
  IF x.journal[obs[o].key] = <<>> /\ x.drained = x.pushed /\ x.final # <<>>
  THEN Journal(o, x, x.final) ELSE Drain(o, x)

\* The browser settled before this request ran.  What is kept to be told again has
\* the structured answer in it.
Settled(o) ==
  LET x == Of(o)
      y == Journal(o, Remainder(o, x), OnePiece(x))
  IN  IF x.outcome # "final" THEN Fails(o, x, x.outcome)
      ELSE Finishes(o, [y EXCEPT !.final = y.journal[obs[o].key]], <<>>)

\* The task of the request begins: the journal of its round is replayed, and a
\* completed round is over; a failed one fails again.
Enter(o) ==
  /\ obs[o].pc = "queued" /\ Of(o).tail[1] = o
  /\ IF obs[o].key \in Of(o).completed
     THEN /\ Ends(o, Of(o), obs[o].key \in Of(o).failed)
          /\ current' = IF obs[o].key \in Of(o).failed THEN Unregistered(obs[o].on) ELSE current
          /\ UNCHANGED retries
     ELSE IF Of(o).outcome # "running" THEN Settled(o)
     ELSE IF mode = "readonly" THEN GoesOn(o, Drain(o, Of(o)), "race")
     ELSE GoesOn(o, Of(o), "token")

\* An aborted wait ends the request; Zero Risk retires the turn with it.
AbortWait(o) ==
  /\ obs[o].gone /\ obs[o].pc \in {"token", "race"}
  /\ IF mode = "manual"
     THEN current' = Unregistered(obs[o].on) /\ Ends(o, Cancelled(Of(o)), TRUE)
     ELSE UNCHANGED current /\ Ends(o, Of(o), TRUE)
  /\ UNCHANGED retries

\* The token of the capability never came: the browser failed to prepare.
TokenRejected(o) ==
  /\ obs[o].pc = "token" /\ Of(o).phase = "starting" /\ Of(o).outcome # "running"
  /\ Fails(o, Of(o), Of(o).outcome)

\* currentToolResults.
Results(o) == obs[o].results \cap Of(o).outstanding

\* The token is there: refresh the environment, then look at the tool calls
\* Codex was given.  Without their results the batch is given again.
Bound(o) ==
  LET x == Of(o)
      told == IF x.journal[obs[o].key] = <<>> THEN x.prelude ELSE <<>>
  IN  /\ obs[o].pc = "token" /\ ~obs[o].gone /\ x.phase # "starting"
      /\ IF x.retired THEN Fails(o, x, "generic")
         ELSE IF x.outstanding = {} THEN GoesOn(o, Drain(o, x), "race")
         ELSE IF Results(o) = {}
         THEN /\ Ends(o, Complete(o, Journal(o, x, Append(told, Batch(x.outstanding)))), FALSE)
              /\ UNCHANGED <<current, retries>>
         ELSE IF Results(o) # x.outstanding THEN Fails(o, x, "generic")
         ELSE GoesOn(o, x, "deliver")

\* completeTool, recordToolResult, markResultDelivered.
Answered(x, c) ==
  [x EXCEPT !.call[c] = "answered", !.active = @ - 1, !.outstanding = @ \ {c},
            !.resolved = @ \cup {c},
            !.prelude = IF x.outstanding = {c} THEN <<>> ELSE @]

\* The results reach the broker one by one; then the race begins, with what is
\* in the feeds.
Deliver(o) ==
  /\ obs[o].pc = "deliver"
  /\ \E c \in Results(o) :
       IF Of(o).retired \/ Of(o).call[c] # "delivered" \/ Of(o).active = 0
       THEN Fails(o, Of(o), "generic")
       ELSE LET x == Answered(Of(o), c)
            IN  IF Results(o) = {c} THEN GoesOn(o, Drain(o, x), "race") ELSE GoesOn(o, x, "deliver")

TextArrives(o) ==
  /\ obs[o].pc = "race" /\ ~obs[o].gone /\ Of(o).pushed > Of(o).drained
  /\ GoesOn(o, Drain(o, Of(o)), "race")

\* nextToolBatch: delivered calls without an answer come again before new ones.
NextBatch(x) ==
  IF CallsIn(x, {"delivered"}) # {} THEN CallsIn(x, {"delivered"}) ELSE CallsIn(x, {"queued"})

\* A batch comes out of the broker and is counted as progress, which the
\* browser has to observe first.
FetchTools(o) ==
  /\ obs[o].pc = "race" /\ ~obs[o].gone /\ obs[o].batch = {} /\ mode # "readonly"
  /\ LET x == Of(o)
         batch == NextBatch(x)
     IN  /\ ~x.retired /\ batch # {}
         /\ sess' = [sess EXCEPT ![obs[o].on] = [x EXCEPT
              !.call = [c \in Tools |-> IF c \in batch THEN "delivered" ELSE @[c]],
              !.active = @ + Cardinality(batch), !.batches = @ + 1]]
         /\ obs' = [obs EXCEPT ![o].batch = batch, ![o].rev = x.batches + 1]
  /\ UNCHANGED <<mode, buffered, current, retries, codex>>

BoundaryObserved(o) == mode = "manual" \/ Of(o).observed >= obs[o].rev

\* setOutstanding rejects a batch over an unresolved one, and a known call.
Acceptable(o, x) == x.outstanding = {} /\ obs[o].batch \cap x.resolved = {}

\* The batch ends the round.
EmitTools(o) ==
  /\ obs[o].pc = "race" /\ ~obs[o].gone /\ obs[o].batch # {}
  /\ BoundaryObserved(o) /\ ~Of(o).retired
  /\ LET y == Drain(o, Of(o))
         z == [y EXCEPT !.outstanding = obs[o].batch, !.prelude = y.journal[obs[o].key]]
     IN  IF ~Acceptable(o, y) THEN Fails(o, y, "generic")
         ELSE /\ Ends(o, Complete(o, Journal(o, z, <<Batch(obs[o].batch)>>)), FALSE)
              /\ UNCHANGED <<current, retries>>

\* The capability is gone: the wait for tools, or for their boundary, fails.
ToolsFail(o) ==
  /\ obs[o].pc = "race" /\ ~obs[o].gone /\ mode # "readonly" /\ Of(o).retired
  /\ Fails(o, Of(o), "generic")

\* The empty batch of a completed Zero Risk turn: its answer is awaited.
EmptyBatch(o) ==
  /\ obs[o].pc = "race" /\ ~obs[o].gone /\ obs[o].batch = {} /\ Of(o).told
  /\ GoesOn(o, Drain(o, Of(o)), "finish")

\* The outcome ends the round, after a last drain; the capability is revoked.  What
\* is kept to be told again lacks the structured answer.
BrowserOutcome(o) ==
  /\ obs[o].pc \in {"race", "finish"} /\ (obs[o].gone => obs[o].pc = "finish")
  /\ Of(o).outcome # "running"
  /\ LET y == Drain(o, Of(o))
         z == [y EXCEPT !.final = y.journal[obs[o].key], !.retired = TRUE, !.active = 0]
     IN  IF Of(o).outcome # "final" THEN Fails(o, z, Of(o).outcome)
         ELSE Finishes(o, z, OnePiece(z))

-----------------------------------------------------------------------------
(* The browser of a session: the worker, or the user and the launcher.      *)

Runs(s) == sess[s].outcome = "running" /\ ~sess[s].cancelled

Becomes(s, x) ==
  /\ sess' = [sess EXCEPT ![s] = x]
  /\ UNCHANGED <<mode, buffered, current, retries, codex, obs>>

\* prepare registers the capability and publishes its token.
Prepare(s) ==
  /\ Runs(s) /\ sess[s].phase = "starting"
  /\ Becomes(s, [sess[s] EXCEPT !.phase = "prepared"])

\* The worker activates Send, and sees that the prompt was accepted.
Submit(s) ==
  /\ Runs(s) /\ mode # "manual"
  /\ \/ sess[s].phase = "prepared" /\ Becomes(s, [sess[s] EXCEPT !.phase = "activated"])
     \/ sess[s].phase = "activated" /\ Becomes(s, [sess[s] EXCEPT !.phase = "accepted"])

\* The user confirms in the launcher that the prompt was sent.
ConfirmSent(s) ==
  /\ Runs(s) /\ mode = "manual" /\ sess[s].phase = "prepared"
  /\ Becomes(s, [sess[s] EXCEPT !.phase = "accepted"])

\* The model writes text, which the worker pushes when it observes the page.
Write(s) ==
  /\ Runs(s) /\ Sent(sess[s]) /\ mode # "manual" /\ sess[s].written < MaxText
  /\ Becomes(s, [sess[s] EXCEPT !.written = @ + 1])

Push(s) ==
  /\ Runs(s) /\ sess[s].pushed < sess[s].written
  /\ Becomes(s, [sess[s] EXCEPT !.pushed = @ + 1])

\* The model calls a tool through the MCP bridge.
CallTool(s, c) ==
  /\ Runs(s) /\ Sent(sess[s]) /\ mode # "readonly" /\ ~sess[s].retired /\ ~sess[s].told
  /\ sess[s].call[c] = "none"
  /\ Becomes(s, [sess[s] EXCEPT !.call[c] = "queued", !.after[c] = sess[s].written])

\* The worker flushes the text up to the boundary, then acknowledges the batch.
Observe(s) ==
  /\ Runs(s) /\ mode = "tools" /\ sess[s].observed < sess[s].batches
  /\ Becomes(s, [sess[s] EXCEPT !.pushed = sess[s].written, !.observed = sess[s].batches])

\* Unresolved calls, of the broker or of the progress counter, veto completion.
MayComplete(x) == CallsIn(x, {"queued", "delivered"}) = {} /\ x.active = 0

\* The answer is complete; a Zero Risk answer is told whole, through the broker.
AnswerIsWritten(s) ==
  /\ Runs(s) /\ sess[s].phase = "accepted" /\ MayComplete(sess[s])
  /\ \/ /\ mode # "manual" /\ sess[s].written > 0
        /\ mode = "tools" => ~sess[s].retired
        /\ Becomes(s, [sess[s] EXCEPT !.pushed = sess[s].written, !.outcome = "final"])
     \/ /\ mode = "manual" /\ ~sess[s].told /\ ~sess[s].retired
        /\ Becomes(s, [sess[s] EXCEPT !.told = TRUE])

\* The accepted answer is pushed; the launcher is told; the browser settles.
ManualAnswer(s) ==
  /\ sess[s].outcome = "running" /\ sess[s].told
  /\ \/ /\ sess[s].written = 0
        /\ Becomes(s, [sess[s] EXCEPT !.written = MaxText, !.pushed = MaxText])
     \/ sess[s].written > 0 /\ Becomes(s, [sess[s] EXCEPT !.outcome = "final"])

\* The browser fails, of itself or of an abort.
Break(s, error) ==
  /\ sess[s].outcome = "running" /\ ~sess[s].told
  /\ sess[s].cancelled => error = "generic"
  /\ Becomes(s, [sess[s] EXCEPT !.outcome = error])

\* The broker retires the capability: the progress retires, the browser aborts.
RetireCapability(s) ==
  /\ Runs(s) /\ mode # "readonly" /\ sess[s].phase # "starting" /\ ~sess[s].told
  /\ Becomes(s, Cancelled(sess[s]))

RoundsNext ==
  \/ \E o \in Observers :
       \/ AskRound(o) \/ Enter(o) \/ AbortWait(o) \/ TokenRejected(o)
       \/ Bound(o) \/ Deliver(o) \/ TextArrives(o) \/ FetchTools(o)
       \/ EmitTools(o) \/ ToolsFail(o) \/ EmptyBatch(o) \/ BrowserOutcome(o)
  \/ AskInVain \/ LoseConnection \/ AskAgain \/ BudgetExpires
  \/ \E s \in DOMAIN sess :
       \/ Prepare(s) \/ Submit(s) \/ ConfirmSent(s) \/ Write(s) \/ Push(s) \/ \E c \in Tools : CallTool(s, c)
       \/ Observe(s) \/ AnswerIsWritten(s) \/ ManualAnswer(s) \/ RetireCapability(s)
       \/ \E error \in {"generic", "rejected", "retryable"} : Break(s, error)

RoundsSpec == RoundsInit /\ [][RoundsNext]_roundsVars

-----------------------------------------------------------------------------
(* Properties.                                                             *)

\* The text Codex holds of one session, round by round: of a response it has kept,
\* everything but the event that ends it.
HeardIn(held, s) ==
  LET told(k) == IF held[k].on = s
                 THEN SubSeq(held[k].events, 1, Len(held[k].events) - 1) ELSE <<>>
      upTo[k \in 0..Len(held)] == IF k = 0 THEN <<>> ELSE upTo[k - 1] \o told(k)
  IN  upTo

Heard(s, through) == HeardIn(codex.held, s)[through]

\* However often the connection breaks and whatever is replayed, Codex reads
\* the text of a browser once and in order, and all of it with the answer.  One
\* case is excepted: a structured answer that Codex lost and asked for in other
\* words (index.ts:1350 and 1366) may come twice, then whole both times.
AnswerReachesClient ==
  \A s \in DOMAIN sess :
    LET heard == Heard(s, Len(codex.held))
        answer == Between(0, sess[s].written)
        answered == codex.state = "finished" /\ codex.held[Len(codex.held)].on = s
    IN  \/ heard = Between(0, Len(heard)) /\ (answered => heard = answer)
        \/ buffered /\ codex.variant = 2 /\ answered /\ heard = answer \o answer

\* turn-progress.ts: "Only unresolved native tool calls veto browser-turn
\* completion."
VetoIsReal ==
  \A s \in DOMAIN sess :
    sess[s].outcome = "running" /\ sess[s].active > 0
      => CallsIn(sess[s], {"queued", "delivered"}) # {}
=============================================================================
