-------------------------- MODULE CompactionHandoff --------------------------
(***************************************************************************)
(* The body of one structured compaction: index.ts, the function given to  *)
(* runStructuredCompactionOnce, with compaction-handoff.ts (settling the   *)
(* source, requesting the handoff), compaction-transaction.ts (the         *)
(* one-shot capability ChatGPT submits its summary with) and the retirement*)
(* of the conversation in turn-execution.ts.  CompactionRuns has the runs  *)
(* of several requests and abstracts this body.                            *)
(*                                                                         *)
(* Three browser turns can take part: that of the source, the turn that is *)
(* to be compacted; that of the handoff, a message in the conversation     *)
(* retained by the source; and a fresh one that is given the history.  The *)
(* deadline of the handoff and the life of its capability begin after the  *)
(* run's own deadline and last as long, so that they never come first.     *)
(***************************************************************************)
EXTENDS Naturals

CONSTANTS
  Compactions,   \* the requests
  Sources        \* what they compact

SourceShapes ==
  [state : {"none", "working", "final", "error"}, live : BOOLEAN, tools : BOOLEAN,
   out : 0..1, queued : 0..1]

HandoffTurns == [state : {"none", "running", "answered", "gone", "error"}, aborted : BOOLEAN]
FreshTurns == [state : {"none", "running", "final", "error"}, live : BOOLEAN]

ASSUME HandoffShapes ==
  /\ Compactions \subseteq [manual : BOOLEAN, everyTurnFresh : BOOLEAN, complete : BOOLEAN]
  /\ Sources \subseteq SourceShapes

VARIABLES
  compaction,    \* the request; "complete" if it has the results of all calls of the source
  source,        \* state: its logical outcome; live: its browser turn is not released;
                 \*   out, queued: calls handed to Codex, calls that still wait for an observer
  told,          \* the source was told to stop for the compaction
  requested, delivered,  \* the broker's compactionRequested, compactionDeliveryCount > 0
  handoff,       \* state and live of the handoff's browser turn, aborted: its signal
  transaction,   \* of the handoff's capability
  freshTurn,     \* the browser turn that is given the history
  ended,         \* the run's signals: "cancelled" by the operator, or "deadline"
  body,          \* where the function is
  preserve,          \* preserveFinalResponse
  hadOutstanding,\* the calls the source had outstanding when it was asked to settle
  summary,       \* where the summary comes from
  failure,       \* the error on its way out: "none", "gone" (compaction_source_unavailable),
                 \*   "refused" (the summary is not canonical) or "failed"
  entry          \* the source's session in the registry: with its conversation, or detached

handoffVars == <<compaction, source, told, requested, delivered, handoff, transaction, freshTurn,
                 ended, body, preserve, hadOutstanding, summary, failure, entry>>

\* The places where the function awaits.
Awaiting == {"previous", "epoch", "settle", "outcome", "physical", "begin", "race", "closing",
             "retire", "recover", "fresh", "freshPhysical"}

HandoffTypeOK ==
  /\ compaction \in Compactions
  /\ source \in SourceShapes
  /\ told \in BOOLEAN /\ requested \in BOOLEAN /\ delivered \in BOOLEAN
  /\ preserve \in BOOLEAN /\ hadOutstanding \in BOOLEAN
  /\ handoff \in HandoffTurns
  /\ transaction \in {"none", "pending", "consumed", "dead"}
  /\ freshTurn \in FreshTurns
  /\ ended \subseteq {"cancelled", "deadline"}
  /\ body \in Awaiting \cup {"start", "done"}
  /\ summary \in {"none", "control", "zeroRisk", "fresh"}
  /\ failure \in {"none", "gone", "refused", "failed"}
  /\ entry \in {"none", "registered", "preserved", "removed"}

HandoffInit ==
  /\ compaction \in Compactions
  /\ source \in Sources
  /\ entry = IF source.state = "none" THEN "none" ELSE "registered"
  /\ told = FALSE /\ requested = FALSE /\ delivered = FALSE
  /\ handoff = [state |-> "none", aborted |-> FALSE]
  /\ transaction = "none"
  /\ freshTurn = [state |-> "none", live |-> FALSE]
  /\ ended = {} /\ body = "start" /\ preserve = FALSE /\ hadOutstanding = FALSE
  /\ summary = "none" /\ failure = "none"

Aborted == ended # {}

Active == source.state = "working"

HandoffLive == handoff.state = "running"

-----------------------------------------------------------------------------
(* What happens meanwhile: ChatGPT in the source and in the handoff, and the   *)
(* signals of the run.                                                        *)

othersUnchanged == <<compaction, told, requested, delivered, handoff, transaction, freshTurn, ended,
                     body, preserve, hadOutstanding, summary, failure, entry>>

\* ChatGPT calls one more tool in the source: after requestCompaction the broker answers it
\* with the instruction to stop, without handing it to Codex.
SourceCalls ==
  /\ Active /\ source.tools /\ source.out = 0 /\ source.queued = 0
  /\ IF requested
     THEN /\ told' = TRUE /\ delivered' = TRUE /\ UNCHANGED source
     ELSE /\ source' = [source EXCEPT !.queued = 1] /\ UNCHANGED <<told, delivered>>
  /\ UNCHANGED <<compaction, requested, handoff, transaction, freshTurn, ended, body, preserve,
                 hadOutstanding, summary, failure, entry>>

\* The source has its outcome: with the end of its browser turn, or, cancelled by the user,
\* before launcher and helper have released it.
SourceEnds ==
  /\ Active
  /\ \/ /\ source.out = 0 /\ source.queued = 0
        /\ source' = [source EXCEPT !.state = "final", !.live = FALSE]
     \/ \E l \in BOOLEAN : source' = [source EXCEPT !.state = "error", !.live = l]
  /\ UNCHANGED othersUnchanged

SourceReleased ==
  /\ source.live /\ ~Active /\ source' = [source EXCEPT !.live = FALSE]
  /\ UNCHANGED othersUnchanged

\* CompactionTransactionStore.submit, over the connector: it is consumed by the waiter at
\* once, and the run proceeds to end the browser turn that has served its purpose.
ChatGptSubmits ==
  /\ HandoffLive /\ transaction = "pending" /\ body = "race"
  /\ transaction' = "consumed" /\ summary' = "control"
  /\ body' = "closing" /\ handoff' = [handoff EXCEPT !.aborted = TRUE]
  /\ UNCHANGED <<compaction, source, told, requested, delivered, freshTurn, ended, preserve,
                 hadOutstanding, failure, entry>>

\* The handoff's browser turn ends: with an answer, without the conversation it was to be
\* sent to, or failed.
HandoffEnds ==
  /\ HandoffLive
  /\ \E s \in {"answered", "gone", "error"} :
       /\ handoff.aborted => s = "error"
       /\ s = "gone" => transaction # "consumed"
       /\ handoff' = [handoff EXCEPT !.state = s]
  /\ UNCHANGED <<compaction, source, told, requested, delivered, transaction, freshTurn, ended,
                 body, preserve, hadOutstanding, summary, failure, entry>>

FreshEnds ==
  /\ freshTurn.live
  /\ IF freshTurn.state = "running"
     THEN \E s \in {"final", "error"} : freshTurn' = [state |-> s, live |-> FALSE]
     ELSE freshTurn' = [freshTurn EXCEPT !.live = FALSE]
  /\ UNCHANGED <<compaction, source, told, requested, delivered, handoff, transaction, ended, body,
                 preserve, hadOutstanding, summary, failure, entry>>

\* The operator cancels, or the deadline of the phase passes.  The abort reaches the
\* handoff's browser turn and the waiter of its transaction synchronously.
Signals ==
  /\ body \notin {"start", "done"}
  /\ \E e \in {"cancelled", "deadline"} \ ended : ended' = ended \cup {e}
  /\ handoff' = [handoff EXCEPT !.aborted = @ \/ HandoffLive]
  /\ transaction' = IF transaction = "pending" THEN "dead" ELSE transaction
  /\ UNCHANGED <<compaction, source, told, requested, delivered, freshTurn, body, preserve,
                 hadOutstanding, summary, failure, entry>>

-----------------------------------------------------------------------------
(* The function.                                                              *)

\* retireConversationPreservingFinalResponse, retireConversationAndWait: the conversation
\* is closed; a preserved answer stays for the request that comes back for it.
Closes ==
  /\ entry' = IF entry # "registered" THEN entry ELSE IF preserve THEN "preserved" ELSE "removed"
  /\ source' = [source EXCEPT !.state = IF Active THEN "error" ELSE @]

bodyUnchanged == <<compaction, told, delivered, requested, hadOutstanding, ended>>

turnsUnchanged == <<handoff, transaction, freshTurn>>

\* An error: with a source its conversation is closed first; the error of a fresh turn that
\* replaced a conversation is final.
Throws(e) ==
  /\ failure' = e /\ summary' = "none"
  /\ IF source.state = "none" \/ compaction.everyTurnFresh \/ failure = "gone"
     THEN body' = "done" /\ UNCHANGED <<source, entry>>
     ELSE body' = "recover" /\ Closes
  /\ UNCHANGED <<bodyUnchanged, preserve>>

\* The source as it is found: its outcome may have won.
Begins ==
  /\ body = "start"
  /\ IF compaction.everyTurnFresh
     THEN /\ body' = "previous"
          /\ IF source.state = "final" THEN UNCHANGED <<source, entry>> ELSE Closes
     ELSE body' = "epoch" /\ UNCHANGED <<source, entry>>
  /\ UNCHANGED <<bodyUnchanged, handoff, transaction, freshTurn, preserve, summary, failure>>

\* runFreshCompaction up to its first await; its deadline starts anew if it has not passed.
OpensFresh ==
  /\ freshTurn' = [state |-> "running", live |-> TRUE] /\ body' = "fresh"
  /\ UNCHANGED <<handoff, transaction>>

\* Who takes part in the compaction: what waits for a result is settled, what runs is
\* awaited, and a retained answer is asked for the handoff.
FindsSource ==
  /\ body = "epoch" /\ ~Aborted
  /\ preserve' = (source.state = "final")
  /\ CASE source.state = "none" \/ (compaction.manual /\ ~Active) -> OpensFresh
       [] Active -> /\ body' = IF source.tools THEN "settle" ELSE "outcome"
                    /\ UNCHANGED turnsUnchanged
       [] OTHER -> body' = "begin" /\ UNCHANGED turnsUnchanged
  /\ UNCHANGED <<bodyUnchanged, source, entry, summary, failure>>

\* settleActiveCompactionSource, settleActiveZeroRiskCompactionSource: calls that wait get
\* the instruction instead of being run, and Codex's results go to the calls it was given;
\* a Zero Risk source reads the instruction with the last of them.
SettlesSource ==
  /\ body = "settle" /\ ~Aborted /\ Active /\ (source.out = 0 \/ compaction.complete)
  /\ requested' = TRUE /\ delivered' = (source.queued > 0)
  /\ told' = (source.queued > 0 \/ (compaction.manual /\ source.out > 0))
  /\ hadOutstanding' = (source.out > 0)
  /\ source' = [source EXCEPT !.out = 0, !.queued = 0]
  /\ body' = "outcome"
  /\ UNCHANGED <<turnsUnchanged, compaction, ended, preserve, summary, failure, entry>>

CannotSettle ==
  /\ body = "settle" /\ (Aborted \/ ~Active \/ (source.out > 0 /\ ~compaction.complete))
  /\ Throws("failed") /\ UNCHANGED turnsUnchanged

\* browserOutcome; an error of the source ends the compaction.
SourceAnswered ==
  /\ body = "outcome" /\ source.state = "final" /\ ~Aborted /\ body' = "physical"
  /\ UNCHANGED <<bodyUnchanged, turnsUnchanged, source, preserve, summary, failure, entry>>

SourceFailed ==
  /\ body = "outcome" /\ source.state = "error" /\ ~Aborted
  /\ Throws("failed") /\ UNCHANGED turnsUnchanged

\* Mutant of Undisturbed: whoever was asked to settle counts as told.
Unasked == ~requested

\* Nobody told the source to stop, so that its answer is that of the task.
Undisturbed == ~delivered

Retires == body' = "retire" /\ Closes /\ UNCHANGED turnsUnchanged

\* physicalSettlement: a Zero Risk source that was told has answered with the summary; all
\* others are asked for it, or compacted afresh.
SourceSettled ==
  LET toldSafe == compaction.manual /\ requested /\ (hadOutstanding \/ ~Undisturbed) IN
  /\ body = "physical" /\ ~source.live /\ ~Aborted
  /\ \/ /\ toldSafe /\ summary' = "zeroRisk" /\ Retires /\ UNCHANGED <<preserve, failure>>
     \/ toldSafe /\ Throws("refused") /\ UNCHANGED turnsUnchanged
     \/ /\ ~toldSafe /\ preserve' = Undisturbed
        /\ IF compaction.manual THEN OpensFresh
           ELSE body' = "begin" /\ UNCHANGED turnsUnchanged
        /\ UNCHANGED <<source, entry, summary, failure>>
  /\ UNCHANGED bodyUnchanged

\* requestRetainedCompactionHandoff: the transaction begins, and with it the message that
\* asks for the summary, sent to the conversation the source has left.
AsksForHandoff ==
  /\ body = "begin" /\ ~Aborted
  /\ transaction' = "pending" /\ handoff' = [state |-> "running", aborted |-> FALSE]
  /\ body' = "race"
  /\ UNCHANGED <<bodyUnchanged, source, freshTurn, preserve, summary, failure, entry>>

\* The browser turn has ended first, and no summary is accepted any more.
EndsWithoutHandoff ==
  /\ body = "race" /\ ~HandoffLive /\ ~Aborted
  /\ transaction' = "dead"
  /\ Throws(IF handoff.state = "gone" THEN "gone" ELSE "failed")
  /\ UNCHANGED <<handoff, freshTurn>>

\* With the summary accepted it does not matter how the browser turn ends.
ClosedOff == ~HandoffLive

\* canonicalizeCompactionHandoff: the summary may contradict the latest instruction.
Canonical(next) ==
  \/ next /\ UNCHANGED <<preserve, failure>>
  \/ Throws("refused") /\ UNCHANGED turnsUnchanged

HandoffCloses ==
  /\ body = "closing" /\ ~HandoffLive /\ ~Aborted
  /\ IF ClosedOff THEN Canonical(Retires /\ UNCHANGED summary)
     ELSE Throws("failed") /\ UNCHANGED turnsUnchanged
  /\ UNCHANGED bodyUnchanged

\* The conversation is closed: the run resolves.
ConversationClosed ==
  /\ body = "retire" /\ ~source.live /\ ~Aborted /\ body' = "done"
  /\ UNCHANGED <<bodyUnchanged, turnsUnchanged, source, preserve, summary, failure, entry>>

\* After an error too, whatever the signals: then it rejects, unless the conversation was
\* gone, which a fresh turn makes up for.
Recovers ==
  /\ body = "recover" /\ ~source.live
  /\ IF failure = "gone" THEN OpensFresh
     ELSE body' = "done" /\ UNCHANGED turnsUnchanged
  /\ UNCHANGED <<bodyUnchanged, source, preserve, summary, failure, entry>>

PreviousReleased ==
  /\ body = "previous" /\ ~source.live /\ ~Aborted /\ OpensFresh
  /\ UNCHANGED <<bodyUnchanged, source, preserve, summary, failure, entry>>

FreshAnswers ==
  /\ body = "fresh" /\ freshTurn.state # "running" /\ ~Aborted
  /\ IF freshTurn.state = "final"
     THEN body' = "freshPhysical" /\ UNCHANGED <<source, preserve, summary, failure, entry>>
     ELSE Throws("failed")
  /\ UNCHANGED <<bodyUnchanged, handoff, transaction, freshTurn>>

\* With a Zero Risk source its conversation is closed afterwards.
FreshSettled ==
  /\ body = "freshPhysical" /\ ~freshTurn.live /\ ~Aborted
  /\ \/ /\ summary' = "fresh" /\ failure' = "none" /\ UNCHANGED preserve
        /\ IF source.state = "none" \/ compaction.everyTurnFresh \/ failure = "gone"
           THEN body' = "done" /\ UNCHANGED <<source, entry, handoff, transaction, freshTurn>>
           ELSE Retires
     \/ Throws("refused") /\ UNCHANGED turnsUnchanged
  /\ UNCHANGED bodyUnchanged

\* An await that looks at the signals rejects.  Before the source is known nothing is closed;
\* a fresh turn is cancelled and its release is left to the owner's gate; for the browser
\* turn of a handoff nobody waits then.
GivesUp ==
  /\ Aborted
  /\ body \in {"previous", "epoch", "outcome", "physical", "begin", "race", "closing", "retire",
               "fresh", "freshPhysical"}
  /\ IF body \in {"previous", "epoch"}
     THEN body' = "done" /\ failure' = "failed" /\ UNCHANGED <<source, entry, preserve, summary>>
     ELSE Throws("failed")
  /\ freshTurn' = [freshTurn EXCEPT !.state = IF @ = "running" THEN "error" ELSE @]
  /\ handoff' = [handoff EXCEPT !.aborted = @ \/ HandoffLive]
  /\ transaction' = IF transaction = "pending" THEN "dead" ELSE transaction
  /\ UNCHANGED bodyUnchanged

Proceeds ==
  \/ Begins \/ FindsSource \/ SettlesSource \/ CannotSettle
  \/ SourceAnswered \/ SourceFailed \/ SourceSettled
  \/ AsksForHandoff \/ EndsWithoutHandoff \/ HandoffCloses
  \/ ConversationClosed \/ Recovers \/ PreviousReleased \/ FreshAnswers \/ FreshSettled
  \/ GivesUp

HandoffNext ==
  \/ SourceCalls \/ SourceEnds \/ SourceReleased \/ ChatGptSubmits \/ HandoffEnds \/ FreshEnds
  \/ Signals \/ Proceeds

HandoffSpec == HandoffInit /\ [][HandoffNext]_handoffVars

-----------------------------------------------------------------------------
\* A run that resolves has not cost the task its answer: a source that ended by itself, told
\* by nobody to stop, can still be asked for it.
FinalSurvives ==
  body = "done" /\ failure = "none" /\ source.state = "final" /\ ~told
    => entry \in {"registered", "preserved"}

=============================================================================
