---------------------------- MODULE MCBrowserTurn ----------------------------
(* Small instances of BrowserTurn, three kinds of turns, and of HelperPipe,   *)
(* two runs of one trace, of ResponseStream, one response, of                 *)
(* CompactionHandoff, and of Composer, seven kinds of messages, for TLC.  A   *)
(* behaviour is one of these parts, chosen at first; the others rest in an    *)
(* initial state.                                                             *)
EXTENDS BrowserTurn, HelperPipe, ResponseStream, MCCompactionHandoff, Composer, TLC

CONSTANT trace

VARIABLE part

ToolTurn ==
  [tools |-> TRUE, compaction |-> FALSE, required |-> FALSE, resumable |-> TRUE, stages |-> 0]
StagedTurn == [ToolTurn EXCEPT !.resumable = FALSE, !.stages = 1]
CompactionTurn == [ToolTurn EXCEPT !.tools = FALSE, !.compaction = TRUE, !.required = TRUE]
ThreeKinds == {ToolTurn, StagedTurn, CompactionTurn}

\* The second run is a retry of the first.
TwoRuns == {1, 2}
OneTrace == 1 :> trace @@ 2 :> trace

\* A request of each kind; reasoning summaries are shown, or hidden from Codex.
FourAsks ==
  [mode : {"stream"}, hide : BOOLEAN] \cup [mode : {"compaction", "json"}, hide : {FALSE}]
PlainAsk == [mode |-> "stream", hide |-> FALSE]

\* The initial state in which the compaction rests.
PlainCompaction ==
  /\ compaction = [manual |-> FALSE, everyTurnFresh |-> TRUE, complete |-> TRUE]
  /\ source.state = "none"

\* One message that just fits and names the connector, and others that differ by their
\* family, by two stages that need another effort, by one that does not, by having no tools, by
\* a retained conversation, by being too long, and by being one of Luna's with Think.
OneMessage ==
  [luna |-> FALSE, effort |-> 2, family |-> "any", stages |-> 0, stage |-> 0, size |-> 1,
   total |-> 1, pro |-> TRUE, tools |-> TRUE, reused |-> FALSE, temporary |-> TRUE,
   compaction |-> FALSE]
SevenTasks ==
  {OneMessage,
   [OneMessage EXCEPT !.family = "6", !.temporary = FALSE, !.stages = 2, !.stage = 2,
                      !.total = 5],
   [OneMessage EXCEPT !.effort = 1, !.family = "6", !.stages = 1, !.stage = 2],
   [OneMessage EXCEPT !.tools = FALSE, !.compaction = TRUE, !.family = "5.6"],
   [OneMessage EXCEPT !.reused = TRUE, !.effort = 0],
   [OneMessage EXCEPT !.effort = 0, !.size = 2],
   [OneMessage EXCEPT !.luna = TRUE, !.effort = 1]}
SmallLow == [e \in 0 .. 2 |-> IF e = 0 THEN 1 ELSE 2]
TwoEach == [e \in 0 .. 2 |-> 2]
LostSelection == [effort |-> 1, family |-> "6"]

\* ChatGPT with labelled choices and one without; one whose Pro is newer and lists no connector
\* yet, one that hides Pro, and one of an account that has no picker.
PlainSite ==
  [labelled |-> TRUE, granting |-> 0, listed |-> TRUE, picker |-> TRUE, pro |-> TRUE,
   latest |-> "6"]
FiveSites ==
  {PlainSite, [PlainSite EXCEPT !.labelled = FALSE],
   [PlainSite EXCEPT !.latest = "newer", !.listed = FALSE, !.labelled = FALSE],
   [PlainSite EXCEPT !.pro = FALSE], [PlainSite EXCEPT !.picker = FALSE, !.labelled = FALSE]}

\* The initial state in which the composer rests.
PlainComposer ==
  /\ task = OneMessage /\ site = PlainSite
  /\ ui.draft = "empty" /\ ui.pill = "none" /\ ui.choice = 0

EitherInit ==
  /\ part \in {"turn", "pipe", "stream", "handoff", "composer"}
  /\ TurnInit /\ PipeInit /\ StreamInit /\ HandoffInit /\ ComposerInit
  /\ part = "turn" \/ asked = ToolTurn
  /\ part = "stream" \/ ask = PlainAsk
  /\ part = "handoff" \/ PlainCompaction
  /\ part = "composer" \/ PlainComposer

EitherNext ==
  /\ UNCHANGED part
  /\ \/ /\ part = "turn" /\ TurnNext
        /\ UNCHANGED <<pipeVars, streamVars, handoffVars, composerVars>>
     \/ /\ part = "pipe" /\ PipeNext
        /\ UNCHANGED <<turnVars, streamVars, handoffVars, composerVars>>
     \/ /\ part = "stream" /\ StreamNext
        /\ UNCHANGED <<turnVars, pipeVars, handoffVars, composerVars>>
     \/ /\ part = "handoff" /\ HandoffNext
        /\ UNCHANGED <<turnVars, pipeVars, streamVars, composerVars>>
     \/ /\ part = "composer" /\ ComposerNext
        /\ UNCHANGED <<turnVars, pipeVars, streamVars, handoffVars>>

eitherVars == <<part, turnVars, pipeVars, streamVars, handoffVars, composerVars>>
EitherSpec ==
  /\ EitherInit /\ [][EitherNext]_eitherVars
  /\ PipeFairness /\ (part = "turn" => TurnFairness)
=============================================================================
