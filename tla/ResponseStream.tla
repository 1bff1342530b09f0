---------------------------- MODULE ResponseStream ----------------------------
(***************************************************************************)
(* One response of the provider: the events of the adapter's round, the    *)
(* queue between them and the bridge (event-queue.ts), the bridge that     *)
(* turns them into Responses frames (bridge.ts: bridgeToResponsesSSE) or   *)
(* into one JSON body (buildResponseJSON), and the request handler that    *)
(* joins the two (server.ts: opencodexProviderResponse).                   *)
(*                                                                         *)
(* The bridge's step runs inside the stream's pull.  An event that is      *)
(* there when the step asks for one is handled before any timer or any     *)
(* action of the client (a resolved promise runs before the next task of   *)
(* the event loop): Awake.                                                 *)
(*                                                                         *)
(* A token stands for the text or the arguments of one event; it is the    *)
(* event's position in the round.                                          *)
(***************************************************************************)
EXTENDS Naturals, Sequences, FiniteSets, SequencesExt

CONSTANTS
  Requests,        \* requests: records [mode, hide]
  MaxEvents,   \* bound: events of a round, heartbeats apart
  MaxBuffered, \* AsyncEventQueue's maxBuffered
  StallTicks   \* stallTimeoutMs in ticks of the clock

ASSUME StreamShapes ==
  /\ Requests \subseteq [mode : {"stream", "compaction", "json"}, hide : BOOLEAN]
  /\ MaxEvents \in Nat /\ MaxBuffered \in Nat \ {0} /\ StallTicks \in Nat \ {0}

VARIABLES
  ask,      \* the request
  sent,     \* history: what the adapter emitted, heartbeats apart
  adapter,  \* run: running, returned or broken (its finally is next), ended or rejected
  queue,    \* buffered
  shut,     \* the queue's closed
  cut,  \* the AbortController of the request
  bridge,   \* what the step keeps between events
  gate,     \* gated, stepping (a pull waits for an event) or closed
  fresh,    \* emittedFrames moved since the step began
  quiet,    \* ticks since the last adapter event
  gone,     \* clientCancelled
  kept      \* rememberCompactionContinuation, or the JSON body, if any

streamVars == <<ask, sent, adapter, queue, shut, cut, bridge, gate, fresh, quiet, gone, kept>>

Event(kind) == [kind |-> kind, phase |-> "", token |-> 0]
Text(phase, n) == [kind |-> "text", phase |-> phase, token |-> n]
Thinking(n) == [kind |-> "thinking", phase |-> "", token |-> n]
\* emitToolBatch for one request.
ToolCall(n) ==
  <<[kind |-> "toolStart", phase |-> "", token |-> n],
    [kind |-> "toolDelta", phase |-> "", token |-> n], Event("toolEnd")>>

NoItem == [index |-> 0, phase |-> "", tokens |-> <<>>, there |-> FALSE]
Bridge ==
  [open |-> [msg |-> NoItem, reasoning |-> NoItem, tool |-> NoItem],
   next |-> 0, items |-> <<>>, frames |-> <<>>, summary |-> <<>>, terminal |-> "none"]

Shown(b, f) == [b EXCEPT !.frames = Append(@, f)]
Added(n) == [frame |-> "added", index |-> n]
Delta(n) == [frame |-> "delta", index |-> n]
Done(n) == [frame |-> "done", index |-> n]
Terminal(status) == [frame |-> "terminal", status |-> status]
LastFrame == [frame |-> "end"]

-----------------------------------------------------------------------------
(* The output items.  The index of an item is that of the counter when it  *)
(* opens; the counter moves when an item closes.                           *)

\* closeCurrentMessage, closeCurrentReasoning, closeCurrentToolCall.
Close(b, kind) ==
  IF ~b.open[kind].there THEN b
  ELSE [Shown(b, Done(b.open[kind].index)) EXCEPT
          !.items = Append(@, [kind |-> kind, tokens |-> b.open[kind].tokens]),
          !.next = @ + 1, !.open[kind] = NoItem]

CloseAll(b) == Close(Close(Close(b, "msg"), "reasoning"), "tool")

Open(b, kind, phase) ==
  IF b.open[kind].there THEN b
  ELSE [Shown(b, Added(b.next)) EXCEPT
          !.open[kind] = [index |-> b.next, phase |-> phase, tokens |-> <<>>, there |-> TRUE]]

Extend(b, kind, n) ==
  [Shown(b, Delta(b.open[kind].index)) EXCEPT !.open[kind].tokens = Append(@, n)]

\* A message of another phase ends the one that is open.
OtherPhase(b, e) == b.open["msg"].there /\ b.open["msg"].phase # e.phase

OnText(b, e) ==
  LET b1 == Close(Close(b, "reasoning"), "tool")
      b2 == IF OtherPhase(b1, e) THEN Close(b1, "msg") ELSE b1
  IN  Extend(Open(b2, "msg", e.phase), "msg", e.token)

OnThinking(b, e) ==
  IF ask.hide THEN b
  ELSE Extend(Open(Close(Close(b, "msg"), "tool"), "reasoning", ""), "reasoning", e.token)

OnToolStart(b) == Open(CloseAll(b), "tool", "")

OnToolDelta(b, e) == IF b.open["tool"].there THEN Extend(b, "tool", e.token) ELSE b

Ended(b, status) == [Shown(b, Terminal(status)) EXCEPT !.terminal = status]

\* A compaction answers with one item that holds the whole text.
CompactionItem(b) ==
  IF ask.mode # "compaction" THEN b
  ELSE [Shown(b, Done(b.next)) EXCEPT
          !.items = Append(@, [kind |-> "compaction", tokens |-> b.summary]), !.next = @ + 1]

\* The switch of step; a compaction's text is collected and shows no frame.
Handled(b, e) ==
  IF ask.mode = "compaction" /\ e.kind \notin {"done", "error"}
  THEN IF e.kind = "text" THEN [b EXCEPT !.summary = Append(@, e.token)] ELSE b
  ELSE CASE e.kind = "done" -> Ended(CompactionItem(CloseAll(b)), "completed")
         [] e.kind = "error" -> Ended(CloseAll(b), "failed")
         [] e.kind = "boundary" -> CloseAll(b)
         [] e.kind = "text" -> OnText(b, e)
         [] e.kind = "thinking" -> OnThinking(b, e)
         [] e.kind = "toolStart" -> OnToolStart(b)
         [] e.kind = "toolDelta" -> OnToolDelta(b, e)
         [] e.kind = "toolEnd" -> Close(b, "tool")
         [] OTHER -> b

-----------------------------------------------------------------------------
(* buildResponseJSON: the same events, all at once. *)

Flushed(j, kind) ==
  IF j[kind] = <<>> THEN j
  ELSE [j EXCEPT !.items = IF kind = "reasoning" /\ ask.hide THEN @
                           ELSE Append(@, [kind |-> kind, tokens |-> j[kind]]),
                 ![kind] = <<>>]

FlushedAll(j) == Flushed(Flushed(Flushed(j, "msg"), "reasoning"), "tool")

Gathered(j, e) ==
  CASE e.kind = "boundary" -> FlushedAll(j)
    [] e.kind = "text" ->
         LET j1 == IF j.msg # <<>> /\ j.phase # e.phase THEN Flushed(j, "msg") ELSE j
             j2 == Flushed(Flushed(j1, "reasoning"), "tool")
         IN  IF ask.mode = "compaction" THEN [j2 EXCEPT !.summary = Append(@, e.token)]
             ELSE [j2 EXCEPT !.phase = e.phase, !.msg = Append(@, e.token)]
    [] e.kind = "thinking" ->
         [Flushed(Flushed(j, "msg"), "tool") EXCEPT !.reasoning = Append(@, e.token)]
    [] e.kind = "toolStart" -> FlushedAll(j)
    [] e.kind = "toolDelta" -> [j EXCEPT !.tool = Append(@, e.token)]
    [] e.kind = "toolEnd" -> Flushed(j, "tool")
    [] e.kind = "error" -> [j EXCEPT !.status = "failed"]
    [] OTHER -> j

Json(events) ==
  LET empty == [msg |-> <<>>, phase |-> "", reasoning |-> <<>>, tool |-> <<>>,
                items |-> <<>>, summary |-> <<>>, status |-> "completed"]
      j == FlushedAll(FoldLeft(Gathered, empty, events))
  IN  [status |-> j.status,
       items |-> IF ask.mode = "compaction" /\ j.status = "completed"
                 THEN Append(j.items, [kind |-> "compaction", tokens |-> j.summary])
                 ELSE j.items]

-----------------------------------------------------------------------------
(* The queue. *)

Stepping == gate = "stepping"

\* The step has an answer to its it.next().
Awake == Stepping /\ (queue # <<>> \/ shut)

\* A step has taken the head of the buffer, or its waiter takes the first event.
Capacity == MaxBuffered + (IF Stepping THEN 1 ELSE 0)

\* push, event by event: a closed queue drops them, a full one throws.
Taken(events) ==
  IF shut THEN queue
  ELSE SubSeq(queue \o events, 1, IF Len(queue \o events) <= Capacity
                                  THEN Len(queue \o events) ELSE Capacity)
\* Mutant of Overflows: a full queue drops events silently.
DropsSilently(events) == FALSE

Overflows(events) == ~shut /\ Len(queue \o events) > Capacity

\* What emit throws ends runTurn.
Emit(events, then) ==
  /\ sent' = sent \o events
  /\ queue' = Taken(events)
  /\ adapter' = IF Overflows(events) THEN "broken" ELSE then
  /\ UNCHANGED <<ask, shut, cut, bridge, gate, fresh, quiet, gone, kept>>

-----------------------------------------------------------------------------
StreamInit ==
  /\ ask \in Requests
  /\ sent = <<>> /\ queue = <<>> /\ shut = FALSE
  /\ adapter = "running" /\ cut = FALSE
  /\ bridge = Shown(Bridge, [frame |-> "created"])
  /\ gate = "gated" /\ fresh = FALSE /\ quiet = 0 /\ gone = FALSE
  /\ kept = <<>>

Running == adapter = "running" /\ Len(sent) < MaxEvents
Next1 == Len(sent) + 1
Plain == ask.mode # "compaction"

\* emitTraceEvents for one event of the trace.
EmitTrace ==
  /\ Running /\ Plain
  /\ \E e \in {Text("commentary", Next1), Thinking(Next1)}, continuation \in BOOLEAN :
       Emit(IF continuation THEN <<e>> ELSE <<Event("boundary"), e>>, "running")

\* emitTextDeltas: the final answer.
EmitText == Running /\ Emit(<<Text("final_answer", Next1)>>, "running")

\* emitReadOnlyContextWarning, before anything else.
EmitWarning ==
  /\ Running /\ Plain /\ sent = <<>>
  /\ Emit(<<Event("boundary"), Text("commentary", 1), Event("boundary")>>, "running")

\* emitToolBatch: one or two calls end the round.
EmitTools ==
  /\ Running /\ Plain
  /\ \E n \in {1, 2} :
       Emit((IF n = 1 THEN ToolCall(Next1) ELSE ToolCall(Next1) \o ToolCall(Next1 + 1))
            \o <<Event("done")>>, "returned")

\* emitBrowserCompletion.
EmitDone == adapter = "running" /\ Emit(<<Event("done")>>, "returned")

\* A turn that fails, or that the abort ends.
EmitError == adapter = "running" /\ Emit(<<Event("error")>>, "returned")

\* The adapter's heartbeat.  Its throw in a full queue is left out: by then the
\* client has read nothing for MaxBuffered heartbeats.
\* Two heartbeats in a row are one.
BeatWaits == queue # <<>> /\ Last(queue).kind = "heartbeat"
AdapterBeat ==
  /\ adapter = "running" /\ ~Awake
  /\ ~Overflows(<<Event("heartbeat")>>) /\ ~BeatWaits
  /\ queue' = Taken(<<Event("heartbeat")>>)
  /\ UNCHANGED <<ask, sent, adapter, shut, cut, bridge, gate, fresh, quiet, gone, kept>>

\* The catch and the finally of run: an error for what was thrown, which throws
\* once more if the queue is still full.
RunEnds ==
  /\ adapter \in {"returned", "broken"} /\ shut' = TRUE
  /\ \/ adapter = "returned" /\ adapter' = "ended" /\ UNCHANGED queue
     \/ /\ adapter = "broken" /\ queue' = Taken(<<Event("error")>>)
        /\ adapter' = IF Overflows(<<Event("error")>>) THEN "rejected" ELSE "ended"
  /\ UNCHANGED <<ask, sent, cut, bridge, gate, fresh, quiet, gone, kept>>

-----------------------------------------------------------------------------
(* The bridge and the client. *)

\* pull(): the stream has room, step begins.
Pull ==
  /\ ask.mode # "json" /\ gate = "gated"
  /\ gate' = "stepping" /\ fresh' = FALSE
  /\ UNCHANGED <<ask, sent, adapter, queue, shut, cut, bridge, quiet, gone, kept>>

\* rememberCompletedResponse: a compaction of one item.
Remembered(b) ==
  IF ask.mode = "compaction" /\ b.terminal = "completed" /\ Len(b.items) = 1
  THEN b.items[1].tokens ELSE kept

\* onCancel, returnIterator (queue.close), [DONE], close.
Over(b) == bridge' = Shown(b, LastFrame) /\ gate' = "closed" /\ cut' = TRUE /\ shut' = TRUE

\* One event.  The step returns once a frame was emitted.
Consume ==
  /\ Stepping /\ queue # <<>>
  /\ queue' = Tail(queue) /\ quiet' = 0
  /\ LET b == Handled(bridge, Head(queue)) IN
       /\ kept' = Remembered(b)
       /\ \/ b.terminal # "none" /\ Over(b)
          \/ /\ b.terminal = "none" /\ bridge' = b
             /\ gate' = IF fresh \/ b.frames # bridge.frames THEN "gated" ELSE "stepping"
             /\ UNCHANGED <<cut, shut>>
  /\ UNCHANGED <<ask, sent, adapter, fresh, gone>>

\* The round ended without a terminal event: adapter_eof.
Eof ==
  /\ Stepping /\ queue = <<>> /\ shut
  /\ bridge' = Shown(Ended(CloseAll(bridge), "incomplete"), LastFrame)
  /\ gate' = "closed"
  /\ UNCHANGED <<ask, sent, adapter, queue, shut, cut, fresh, quiet, gone, kept>>

\* Time passes; the process may have been suspended, so the adapter's timer need not fire.
Tick ==
  /\ ~Awake /\ gate # "closed" /\ quiet < StallTicks
  /\ quiet' = quiet + 1
  /\ UNCHANGED <<ask, sent, adapter, queue, shut, cut, bridge, gate, fresh, gone, kept>>

\* The bridge's timer while a step waits: a heartbeat frame.
BridgeBeat ==
  /\ Stepping /\ ~Awake /\ quiet < StallTicks /\ ~fresh
  /\ fresh' = TRUE
  /\ UNCHANGED <<ask, sent, adapter, queue, shut, cut, bridge, gate, quiet, gone, kept>>

\* The same, after too much silence: upstream_stall_timeout.
Stall ==
  /\ Stepping /\ ~Awake /\ quiet = StallTicks
  /\ Over(Ended(CloseAll(bridge), "incomplete"))
  /\ UNCHANGED <<ask, sent, adapter, queue, fresh, quiet, gone, kept>>

\* cancelStream: the client goes away, or an interrupt cancels the reader.
Cancel ==
  /\ ask.mode # "json" /\ gate # "closed" /\ ~Awake
  /\ gone' = TRUE /\ gate' = "closed" /\ cut' = TRUE /\ shut' = TRUE
  /\ UNCHANGED <<ask, sent, adapter, queue, bridge, fresh, quiet, kept>>

\* Without a stream the handler awaits the run and folds what it collected; a
\* rejected run rejects the request.
Collect ==
  /\ ask.mode = "json" /\ adapter \in {"ended", "rejected"} /\ gate # "closed"
  /\ kept' = IF adapter = "ended" THEN <<Json(queue)>> ELSE kept
  /\ queue' = <<>> /\ gate' = "closed"
  /\ UNCHANGED <<ask, sent, adapter, shut, cut, bridge, fresh, quiet, gone>>

StreamNext ==
  \/ EmitTrace \/ EmitText \/ EmitWarning \/ EmitTools \/ EmitDone \/ EmitError
  \/ AdapterBeat \/ RunEnds \/ Pull \/ Consume \/ Eof \/ Tick \/ BridgeBeat \/ Stall
  \/ Cancel \/ Collect

StreamSpec == StreamInit /\ [][StreamNext]_streamVars
-----------------------------------------------------------------------------
StreamTypeOK ==
  /\ ask \in Requests
  /\ adapter \in {"running", "returned", "broken", "ended", "rejected"}
  /\ gate \in {"gated", "stepping", "closed"}
  /\ shut \in BOOLEAN /\ cut \in BOOLEAN /\ fresh \in BOOLEAN /\ gone \in BOOLEAN
  /\ Len(queue) <= MaxBuffered + 1 /\ quiet \in 0..StallTicks

Frames == bridge.frames
At(kind) == {i \in DOMAIN Frames : Frames[i].frame = kind}

Tokens(items) == FoldLeft(LAMBDA all, item : all \o item.tokens, <<>>, items)

\* What the adapter meant Codex to see.
Visible ==
  LET seen(e) == e.kind \in {"text", "toolDelta"} \/ (e.kind = "thinking" /\ ~ask.hide)
      visible == SelectSeq(sent, seen)
  IN  [i \in DOMAIN visible |-> visible[i].token]

\* A response is told as Codex's parser commits it: an item's frames lie between
\* its opening and its end, items end in the order of their indices and none is
\* left open, and one terminal frame, the last but [DONE], ends the response
\* unless the client has gone.  And a completed response holds the whole round,
\* in order, whether it was streamed, compacted or built at once, and whatever the
\* queue, the timers and the client did; a stream has the items the JSON body
\* would have.
WholeAnswer ==
  /\ \A i \in At("done") : Frames[i].index = Cardinality({j \in At("done") : j < i})
  /\ \A i \in At("added") : \A j \in At("added") : Frames[i].index = Frames[j].index => i = j
  /\ \A i \in At("delta") :
       /\ \E j \in At("added") : j < i /\ Frames[j].index = Frames[i].index
       /\ \A j \in At("done") : Frames[j].index = Frames[i].index => i < j
  /\ \A t \in At("terminal") :
       /\ Cardinality(At("added") \cup At("delta") \cup At("done")) = t - 2
       /\ \A i \in At("added") : \E j \in At("done") : Frames[i].index = Frames[j].index
       /\ gate = "closed" /\ Len(Frames) = t + 1 /\ Last(Frames) = LastFrame
  /\ gate = "closed" /\ ask.mode # "json" /\ ~gone => Cardinality(At("terminal")) = 1
  /\ bridge.terminal = "completed" =>
       /\ Tokens(bridge.items) = Visible
       /\ ask.hide \/ bridge.items = Json(sent).items
  /\ ask.mode = "json" /\ kept # <<>> /\ kept[1].status = "completed" =>
       Tokens(kept[1].items) = Visible

=============================================================================
