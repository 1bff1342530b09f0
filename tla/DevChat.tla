------------------------------ MODULE DevChat ------------------------------
(***************************************************************************)
(* The development chat (src/dev-chat): a command line that keeps a named  *)
(* chat in a file and plays Codex to the provider.  Each process holds the *)
(* chat in memory, changes it and saves it; a message becomes a turn of    *)
(* rounds with simulated tools, with a compaction before the turn or       *)
(* between two rounds when the context is full.  Two processes may have    *)
(* one chat open, a save may fail, and a process may end at any moment.    *)
(***************************************************************************)
EXTENDS Naturals, FiniteSets

CONSTANTS Procs,      \* command line processes
          MaxTurns,   \* bound: turns started
          MaxRounds,  \* rounds of a turn (64 in the code)
          MaxFills,   \* bound: fillers appended
          MaxThreads, \* bound: thread identities made
          MaxCompactions, \* bound: compactions asked for
          MaxFaults   \* bound: saves that fail

ASSUME DevChatBounds ==
  {MaxTurns, MaxRounds, MaxFills, MaxThreads, MaxCompactions, MaxFaults} \subseteq Nat

VARIABLES full,       \* the profile has tools (mode full), not only the browser
          saved,      \* the chat's file
          mem,        \* process -> the chat it holds
          cli,        \* process -> what it is doing
          work,       \* process -> the turn that send is working on
          made        \* how many turns, fillers, threads and faults there were

dcVars == <<full, saved, mem, cli, work, made>>

(***************************************************************************)
(* A history is a set of items: the instruction of a turn, its reasoning,  *)
(* its answer, its calls with their receipts, fillers and the item that a  *)
(* compaction puts in the place of everything before it.                   *)
(***************************************************************************)
Item(kind, turn, round) == [kind |-> kind, turn |-> turn, round |-> round]
Kinds == {"instruction", "reasoning", "answer", "call", "receipt", "fill", "compaction"}
OfKind(input, kind) == {i \in input : i.kind = kind}

NoChat == [thread |-> 0, luna |-> FALSE, input |-> {}, turns |-> 0, compactions |-> 0, fills |-> 0]
NoWork == [turn |-> 0, input |-> {}, pending |-> 0, round |-> 0]
Models == BOOLEAN    \* whether the model is Luna, which is never compacted

DevChatInit ==
  /\ full \in BOOLEAN
  /\ saved = NoChat
  /\ mem = [p \in Procs |-> NoChat]
  /\ cli = [p \in Procs |-> "off"]
  /\ work = [p \in Procs |-> NoWork]
  /\ made = [turns |-> 0, fills |-> 0, threads |-> 0, compactions |-> 0,
             faults |-> 0]

(***************************************************************************)
(* The store: what a command has changed in memory is written as a whole;  *)
(* a save that fails leaves the file as it was and the memory changed.     *)
(***************************************************************************)
Saves(p, state, count) ==
  /\ mem' = [mem EXCEPT ![p] = state]
  /\ \/ saved' = state /\ made' = count
     \/ /\ count.faults < MaxFaults
        /\ made' = [count EXCEPT !.faults = @ + 1]
        /\ UNCHANGED saved

Unsaved == UNCHANGED <<saved, mem, made>>

(***************************************************************************)
(* Opening.  With tools a process needs the broker's socket for itself, so *)
(* that a second one is turned away; without, any number may open a chat.  *)
(***************************************************************************)
startDevChatTransport(p) == full => \A q \in Procs \ {p} : cli[q] = "off"

Opened(p, state, count) ==
  \/ /\ saved' = state /\ made' = count
     /\ mem' = [mem EXCEPT ![p] = state]
     /\ cli' = [cli EXCEPT ![p] = "prompt"]
  \/ /\ saved # state /\ count.faults < MaxFaults
     /\ made' = [count EXCEPT !.faults = @ + 1]
     /\ UNCHANGED <<saved, mem, cli>>

Open(p) ==
  /\ cli[p] = "off" /\ startDevChatTransport(p)
  /\ \/ /\ saved = NoChat /\ made.threads < MaxThreads
        /\ \E luna \in Models :
             Opened(p, [NoChat EXCEPT !.thread = made.threads + 1, !.luna = luna],
                    [made EXCEPT !.threads = @ + 1])
     \/ /\ saved # NoChat
        /\ \E luna \in Models : Opened(p, [saved EXCEPT !.luna = luna], made)
  /\ UNCHANGED <<full, work>>

\* The user leaves, or the process ends, whatever it was doing.
Quit(p) ==
  /\ cli[p] # "off"
  /\ cli' = [cli EXCEPT ![p] = "off"]
  /\ mem' = [mem EXCEPT ![p] = NoChat]
  /\ work' = [work EXCEPT ![p] = NoWork]
  /\ UNCHANGED <<full, saved, made>>

(***************************************************************************)
(* The commands that only change the chat.                                 *)
(***************************************************************************)
setModel(p) ==
  Saves(p, [mem[p] EXCEPT !.luna = ~@], made)

reset(p) ==
  /\ made.threads < MaxThreads
  /\ Saves(p, [NoChat EXCEPT !.thread = made.threads + 1, !.luna = mem[p].luna],
           [made EXCEPT !.threads = @ + 1])

fill(p) ==
  /\ made.fills < MaxFills
  /\ Saves(p, [mem[p] EXCEPT !.input = @ \cup {Item("fill", 0, made.fills + 1)},
                             !.fills = @ + 1],
           [made EXCEPT !.fills = @ + 1])

Command(p) ==
  /\ cli[p] = "prompt"
  /\ setModel(p) \/ reset(p) \/ fill(p)
  /\ UNCHANGED <<full, cli, work>>

(***************************************************************************)
(* The provider runs in the same process.  A request is answered as a      *)
(* whole: by an error with nothing before it, by one call, or by a final   *)
(* answer that may have reasoning before it.  A compaction's text is its   *)
(* item, never a message.  A request whose history has no instruction of   *)
(* its turn is refused; a compaction is refused after the fact when it has *)
(* nothing but its item and no message of the user was compacted.          *)
(***************************************************************************)
Reports == [thinking : BOOLEAN, calls : BOOLEAN]

buildResponseJSON(report, compaction, turn, round) ==
  {i \in {Item("reasoning", turn, round)} : report.thinking}
    \cup {IF compaction THEN Item("compaction", 0, 0)
          ELSE Item(IF report.calls THEN "call" ELSE "answer", turn, round)}

HasInstruction(input, turn) == \E i \in input : i.kind = "instruction" /\ i.turn = turn
HasUserMessage(input) == \E i \in input : i.kind \in {"instruction", "fill"}
rememberCompletedResponse(output, source) ==
  Cardinality(output) = 1 => HasUserMessage(source)

CompactionReports == {r \in Reports : ~r.calls}
RoundReports == {r \in Reports : (r.calls => full /\ ~r.thinking)}

\* A process asks for a compaction at stage: by hand, before a turn or in it.
CompactionStarts(p, stage) ==
  /\ made.compactions < MaxCompactions /\ ~mem[p].luna
  /\ cli' = [cli EXCEPT ![p] = stage]

Compaction(p) == cli[p] \in {"compact", "before", "between"}
CompactionFails(p) ==
  /\ Compaction(p)
  /\ cli' = [cli EXCEPT ![p] = "prompt"]
  /\ work' = [work EXCEPT ![p] = NoWork]
  /\ Unsaved /\ UNCHANGED full

Compacted(p, input) == [mem[p] EXCEPT !.input = input, !.compactions = @ + 1]

compact(p, input) ==
  /\ cli[p] = "compact"
  /\ Saves(p, Compacted(p, input), made)
  /\ cli' = [cli EXCEPT ![p] = "prompt"]
  /\ UNCHANGED <<full, work>>

\* Before the turn: the shorter history is saved at once, and the turn goes on
\* with it unless the save failed or the context is full all the same.
CompactBefore(p, input) ==
  /\ cli[p] = "before"
  /\ Saves(p, Compacted(p, input), made)
  /\ \/ /\ saved' = mem'[p]
        /\ cli' = [cli EXCEPT ![p] = "round"]
        /\ work' = [work EXCEPT ![p].input = input \cup {Item("instruction", work[p].turn, 0)}]
     \/ /\ cli' = [cli EXCEPT ![p] = "prompt"]
        /\ work' = [work EXCEPT ![p] = NoWork]
  /\ UNCHANGED full

\* Between two rounds only the turn's own copy is replaced.
CompactBetween(p, input) ==
  /\ cli[p] = "between"
  /\ cli' = [cli EXCEPT ![p] = "round"]
  /\ work' = [work EXCEPT ![p].input = input, ![p].pending = @ + 1]
  /\ Unsaved /\ UNCHANGED full

CompactionSource(p) == IF cli[p] = "between" THEN work[p].input ELSE mem[p].input

CompactionAnswers(p) ==
  /\ Compaction(p)
  /\ \E report \in CompactionReports :
       LET output == buildResponseJSON(report, TRUE, 0, 0) IN
         /\ rememberCompletedResponse(output, CompactionSource(p))
         /\ compact(p, output) \/ CompactBefore(p, output) \/ CompactBetween(p, output)

compactInput(p) ==
  /\ cli[p] = "prompt" /\ mem[p].input # {}
  /\ CompactionStarts(p, "compact")
  /\ made' = [made EXCEPT !.compactions = @ + 1]
  /\ UNCHANGED <<full, saved, mem, work>>

(***************************************************************************)
(* A turn.  It works on a copy of the history and its own items; the chat  *)
(* takes the copy when the turn has its final answer, and not before.      *)
(***************************************************************************)
send(p) ==
  /\ cli[p] = "prompt" /\ made.turns < MaxTurns
  /\ work' = [work EXCEPT ![p] =
       [turn |-> made.turns + 1, pending |-> 0, round |-> 0,
        input |-> mem[p].input \cup {Item("instruction", made.turns + 1, 0)}]]
  /\ \/ /\ cli' = [cli EXCEPT ![p] = "round"]
        /\ made' = [made EXCEPT !.turns = @ + 1]
     \/ /\ mem[p].input # {}
        /\ CompactionStarts(p, "before")
        /\ made' = [made EXCEPT !.turns = @ + 1, !.compactions = @ + 1]
  /\ UNCHANGED <<full, saved, mem>>

\* What the chat holds while a turn is under way: what it held before.
\* Mutant of Meanwhile: the turn works on the chat's own list.
MeanwhileShared(p, input) == input
Meanwhile(p, input) == mem[p].input

RoundFails(p) ==
  /\ cli[p] = "round"
  /\ cli' = [cli EXCEPT ![p] = "prompt"]
  /\ work' = [work EXCEPT ![p] = NoWork]
  /\ Unsaved /\ UNCHANGED full

FinishTurn(p, input) ==
  /\ OfKind(input, "call") = OfKind(work[p].input, "call")
  /\ Saves(p, [mem[p] EXCEPT !.input = input, !.turns = @ + 1,
                             !.compactions = @ + work[p].pending], made)
  /\ cli' = [cli EXCEPT ![p] = "prompt"]
  /\ work' = [work EXCEPT ![p] = NoWork]
  /\ UNCHANGED full

\* Every call gets a receipt; then the context may be full, or the turn may
\* have had its last round.
CallTools(p, input) ==
  LET round == work[p].round + 1
      next == input \cup {Item("receipt", work[p].turn, round)}
  IN /\ Item("call", work[p].turn, round) \in input
     /\ work' = [work EXCEPT ![p].input = next, ![p].round = round]
     /\ mem' = [mem EXCEPT ![p].input = Meanwhile(p, next)]
     /\ \/ cli' = [cli EXCEPT ![p] = "round"] /\ UNCHANGED made
        \/ /\ CompactionStarts(p, "between")
           /\ made' = [made EXCEPT !.compactions = @ + 1]
     /\ UNCHANGED <<full, saved>>

RoundAnswers(p) ==
  /\ cli[p] = "round" /\ work[p].round < MaxRounds
  /\ HasInstruction(work[p].input, work[p].turn)
  /\ \E report \in RoundReports :
       LET input == work[p].input
             \cup buildResponseJSON(report, FALSE, work[p].turn, work[p].round + 1)
       IN FinishTurn(p, input) \/ CallTools(p, input)

DevChatNext ==
  \E p \in Procs :
    \/ Open(p) \/ Quit(p) \/ Command(p)
    \/ compactInput(p) \/ CompactionFails(p) \/ CompactionAnswers(p)
    \/ send(p) \/ RoundFails(p) \/ RoundAnswers(p)

DevChatSpec == DevChatInit /\ [][DevChatNext]_dcVars

(***************************************************************************)
(* Properties.                                                             *)
(***************************************************************************)

\* What is in the file is whole, whatever failed before it was written: each
\* turn in it has its instruction and its answer, each call its receipt, a chat
\* that was compacted the item of a compaction, and as long as nothing was
\* compacted the counters say what the history holds.
SavedIsWhole ==
  LET input == saved.input
      turns == {i.turn : i \in input} \ {0}
  IN /\ \A t \in turns : \A kind \in {"instruction", "answer"} :
          \E i \in input : i.turn = t /\ i.kind = kind
     /\ \A c \in OfKind(input, "call") : [c EXCEPT !.kind = "receipt"] \in input
     /\ saved.compactions > 0 => OfKind(input, "compaction") # {}
     /\ saved.compactions = 0 =>
          /\ saved.turns = Cardinality(OfKind(input, "answer"))
          /\ saved.fills = Cardinality(OfKind(input, "fill"))

\* docs/dev-chat.md:123: after a compaction between two rounds the compacted
\* continuation resumes the unfinished work.  It can only if the request that
\* comes next has the instruction of its turn.
CompactedTurnResumes ==
  \A p \in Procs : cli[p] = "round" => HasInstruction(work[p].input, work[p].turn)
=============================================================================
