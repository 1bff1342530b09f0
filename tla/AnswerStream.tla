----------------------------- MODULE AnswerStream -----------------------------
(* The text of one answer on its way from ChatGPT's page to Codex: the blocks *)
(* that responseDomSnapshot reads (browser-worker.ts), and the                *)
(* ChatGptMarkdownBuffer that sends them on (markdown.ts).                    *)
(*                                                                            *)
(* What is sent cannot be taken back, while the page grows, rewrites a block, *)
(* fills in a link or takes blocks at the top out of the document and brings  *)
(* them back.  So a block is sent once it has stopped changing and another    *)
(* follows it, each later look is aligned with what was sent, and a look that *)
(* cannot be aligned fails the turn if it is the last one.                    *)
(*                                                                            *)
(* A block is at its place in the answer, which the code does not know: it    *)
(* sees its range in the source, if the page gives one, or its index in the   *)
(* look.  The HTML of a block is told apart by its tag, text and links.       *)
EXTENDS Naturals, Sequences

CONSTANTS
  LastBlock,     \* bound: blocks of the answer
  MaxEdits,      \* bound: changes of the page that only take away or rewrite
  Contents,      \* what a block shows: a tag, a text and the destination of its link
  Blank,         \* the text of a rule or an image
  NoLink,        \* of a block without links
  Unresolved,    \* of a link that has a label and no destination yet
  Layouts        \* for each answer, the places whose blocks have source ranges

ASSUME AnswerAssumption ==
  /\ LastBlock \in Nat /\ MaxEdits \in Nat
  /\ \A shown \in Contents : DOMAIN shown = {"tag", "text", "link"}
  /\ NoLink # Unresolved
  /\ Layouts \subseteq SUBSET (1..LastBlock)

VARIABLES
  layout,        \* the places whose blocks have source ranges
  fenced,        \* the turn has a completion fence
  content,       \* what the page shows at each place it has filled
  out,           \* blocks at the top that are not in the document now
  over,          \* generation has ended and the completion action is shown
  edits,
  moved,         \* a block has changed its tag or has been out of the document
  cached,        \* responseDomCache: the last look
  clean,         \* no mutation that the observer reports since that look
  ledger,        \* committed: blocks sent, with what they were
  latest,        \* blocks of the last aligned look that were not sent
  conflict,      \* consistencyError
  settling,      \* the completion tracker's candidate: the look that must not change
  ready,         \* this look completes the turn, as far as the page tells
  begun,         \* the completion fence has begun
  answer,        \* "open", "completed" or "failed"
  actual         \* what the page showed at the last look (of the properties only)

pageVars == <<layout, fenced, content, out, over, edits, moved>>
bufferVars == <<ledger, latest, conflict>>
answerVars == <<pageVars, cached, clean, bufferVars, settling, ready, begun, answer, actual>>

Filled == DOMAIN content

\* What a look makes of the block at a place: its key is the start of its source
\* range, or its index in the look, and its tag.  It can be sent when another
\* follows it and none of its links is still without a destination.
SourceStart(place) == 2 * (place - 1)
SourceEnd(place) == 2 * (place - 1) + 1

Segment(place) ==
  LET shown == content[place]
      ranged == place \in layout
  IN  [place |-> place, ranged |-> ranged, tag |-> shown.tag, text |-> shown.text,
       link |-> shown.link,
       number |-> IF ranged THEN SourceStart(place) ELSE place - out - 1,
       streamable |-> place < Len(content) /\ shown.link # Unresolved]

Snapshot == [i \in 1..(Len(content) - out) |-> Segment(out + i)]

AnswerInit ==
  /\ layout \in Layouts /\ fenced \in BOOLEAN
  /\ content = <<>> /\ out = 0 /\ over = FALSE /\ edits = 0 /\ moved = FALSE
  /\ cached = <<>> /\ clean = FALSE
  /\ ledger = <<>> /\ latest = <<>> /\ conflict = FALSE
  /\ settling = <<>> /\ ready = FALSE /\ begun = FALSE /\ answer = "open" /\ actual = <<>>

-----------------------------------------------------------------------------
(* The buffer                                                                 *)

First(numbers) == {n \in numbers : \A m \in numbers : n <= m}
Only(numbers) == {n \in numbers : numbers = {n}}

\* Two looks at one block by its range, if both have one, or by its key; and by
\* what it is, which an empty text is not enough to tell.
SameBlock(s, t) == s.number = t.number /\ s.tag = t.tag
Alike(s, list) ==
  IF s.ranged \/ s.text = Blank THEN {}
  ELSE {i \in DOMAIN list : list[i].tag = s.tag /\ list[i].text = s.text}

\* committedIndex, as a set with one member or none, and matchesLatestPending.
CommittedAs(s) ==
  LET exact == {i \in DOMAIN ledger : SameBlock(s, ledger[i])}
  IN  IF exact # {} THEN First(exact) ELSE Only(Alike(s, ledger))
WasPending(s) ==
  \/ Only({i \in DOMAIN latest : SameBlock(s, latest[i])}) # {}
  \/ Only(Alike(s, latest)) # {}

\* The last block that was sent with a range.
LastRanged ==
  {i \in DOMAIN ledger :
     ledger[i].ranged /\ \A j \in DOMAIN ledger : ledger[j].ranged => j <= i}

\* Mutant of SentBefore: destinations are not compared.
SentBeforeByText(look, i) ==
  \E c \in CommittedAs(look[i]) :
    /\ ledger[c].text = look[i].text
    /\ \A j \in 1..(i - 1) : \A d \in CommittedAs(look[j]) : d <= c

\* A look agrees with what was sent if its first blocks were, in that order and
\* as they still are, and the others come after: after the last range that was
\* sent, or after the last block, or they were waiting before.
SentBefore(look, i) ==
  \E c \in CommittedAs(look[i]) :
    /\ ledger[c].text = look[i].text /\ ledger[c].link = look[i].link
    /\ \A j \in 1..(i - 1) : \A d \in CommittedAs(look[j]) : d <= c
ComesAfter(look, known, i) ==
  /\ CommittedAs(look[i]) = {}
  /\ IF look[i].ranged /\ LastRanged # {}
     THEN \A c \in LastRanged : look[i].number > SourceEnd(ledger[c].place)
     ELSE (known > 0 /\ Len(ledger) \in CommittedAs(look[known])) \/ WasPending(look[i])
Aligned(look, known) ==
  IF ledger = <<>> \/ look = <<>> THEN known = 0
  ELSE /\ \A i \in 1..Len(look) : \A j \in 1..(i - 1) :
            look[i].ranged /\ look[j].ranged => look[j].number < look[i].number
       /\ \A i \in 1..known : SentBefore(look, i)
       /\ \A i \in (known + 1)..Len(look) : ComesAfter(look, known, i)

\* A block that was there before, the same, and could be sent then as now.  How
\* long it has not changed is a matter of time.
Same(s, t) == [s EXCEPT !.place = t.place] = t
Ripe(s) == s.streamable /\ \E i \in DOMAIN latest : Same(s, latest[i])

Observe(look) ==
  \/ \E known \in 0..Len(look) :
       /\ Aligned(look, known)
       /\ \E last \in known..Len(look) :
            /\ \A i \in (known + 1)..last : Ripe(look[i])
            /\ ledger' = ledger \o SubSeq(look, known + 1, last)
            /\ latest' = SubSeq(look, last + 1, Len(look))
       /\ conflict' = FALSE
  \/ /\ \A known \in 0..Len(look) : ~Aligned(look, known)
     /\ conflict' = TRUE
     /\ UNCHANGED <<ledger, latest>>

\* Sends whatever the last look had left, unless that look did not agree.
Finish ==
  /\ answer = "open" /\ ready /\ (fenced => begun)
  /\ answer' = IF conflict THEN "failed" ELSE "completed"
  /\ ledger' = IF conflict THEN ledger ELSE ledger \o latest
  /\ latest' = IF conflict THEN latest ELSE <<>>
  /\ UNCHANGED <<pageVars, cached, clean, conflict, settling, ready, begun, actual>>

-----------------------------------------------------------------------------
(* The observation loop                                                       *)

\* The cached look is used again unless the observer has reported a mutation.
Concluded(look) == over /\ \E i \in DOMAIN look : look[i].text # Blank

ReadAnswer ==
  LET look == IF clean THEN cached ELSE Snapshot
      complete == Concluded(look)
  IN  /\ answer = "open" /\ ~ready
      /\ cached' = look /\ clean' = TRUE /\ actual' = Snapshot
      /\ Observe(look)
      /\ settling' = IF complete THEN look ELSE <<>>
      /\ \/ ready' = (complete /\ settling = look)
         \/ ready' = FALSE
      /\ begun' = (begun /\ ready')
      /\ UNCHANGED <<pageVars, answer>>

\* The turn's work is not over, or it is, and one more look must confirm.
BeginFence ==
  /\ answer = "open" /\ ready /\ fenced /\ ~begun
  /\ ready' = FALSE
  /\ \/ begun' = TRUE /\ clean' = FALSE
     \/ UNCHANGED <<begun, clean>>
  /\ UNCHANGED <<pageVars, cached, bufferVars, settling, answer, actual>>

CommitRefused ==
  /\ answer = "open" /\ ready /\ begun
  /\ begun' = FALSE /\ clean' = FALSE /\ ready' = FALSE
  /\ UNCHANGED <<pageVars, cached, bufferVars, settling, answer, actual>>

-----------------------------------------------------------------------------
(* ChatGPT's page                                                             *)

PageOnly == UNCHANGED <<layout, fenced, cached, bufferVars, settling, ready, begun, answer, actual>>

AddsBlock ==
  /\ ~over /\ Len(content) < LastBlock
  /\ \E shown \in Contents : content' = Append(content, shown)
  /\ clean' = FALSE /\ PageOnly /\ UNCHANGED <<out, over, edits, moved>>

\* A destination is an attribute the observer does not watch.
Rewrite ==
  /\ edits < MaxEdits /\ edits' = edits + 1
  /\ \E place \in Filled : \E shown \in Contents \ {content[place]} :
       LET quiet == shown.tag = content[place].tag /\ shown.text = content[place].text
                    /\ shown.link # NoLink /\ content[place].link # NoLink
       IN  /\ content' = [content EXCEPT ![place] = shown]
           /\ clean' = (clean /\ quiet)
           /\ moved' = (moved \/ shown.tag # content[place].tag)
  /\ PageOnly /\ UNCHANGED <<out, over>>

\* Blocks at the top leave the document, or come back.
Virtualize ==
  /\ edits < MaxEdits /\ edits' = edits + 1
  /\ out' \in 0..Len(content) \ {out}
  /\ moved' = TRUE
  /\ clean' = FALSE /\ PageOnly /\ UNCHANGED <<content, over>>

EndsGeneration ==
  /\ ~over /\ over' = TRUE
  /\ clean' = FALSE /\ PageOnly /\ UNCHANGED <<content, out, edits, moved>>

\* Anything else moves in the response, or the response is bound anew.
Stirs ==
  /\ clean /\ clean' = FALSE
  /\ PageOnly /\ UNCHANGED <<content, out, over, edits, moved>>

AnswerNext ==
  \/ AddsBlock \/ Rewrite \/ Virtualize \/ EndsGeneration \/ Stirs
  \/ ReadAnswer \/ BeginFence \/ CommitRefused \/ Finish

AnswerSpec == AnswerInit /\ [][AnswerNext]_answerVars

-----------------------------------------------------------------------------

Segments ==
  [place : 1..LastBlock, ranged : BOOLEAN, tag : {s.tag : s \in Contents},
   text : {s.text : s \in Contents}, link : {s.link : s \in Contents}, number : Nat,
   streamable : BOOLEAN]

AnswerTypeOK ==
  /\ layout \subseteq 1..LastBlock /\ fenced \in BOOLEAN
  /\ content \in Seq(Contents) /\ Len(content) <= LastBlock /\ out \in 0..Len(content)
  /\ over \in BOOLEAN /\ edits \in 0..MaxEdits /\ moved \in BOOLEAN /\ clean \in BOOLEAN
  /\ cached \in Seq(Segments) /\ ledger \in Seq(Segments) /\ latest \in Seq(Segments)
  /\ settling \in Seq(Segments) /\ actual \in Seq(Segments)
  /\ conflict \in BOOLEAN /\ ready \in BOOLEAN /\ begun \in BOOLEAN
  /\ answer \in {"open", "completed", "failed"}

Increasing(list) == \A i, j \in DOMAIN list : i < j => list[i].place < list[j].place

\* The blocks of a look can be told apart: by their ranges, or, if none has
\* ever moved, by what they are.
Distinct(look) ==
  \/ Filled \subseteq layout
  \/ /\ ~moved
     /\ \A i, j \in DOMAIN look :
          look[i].tag = look[j].tag /\ look[i].text = look[j].text => i = j

\* A completed answer has every block of the last look once, in order, with the
\* text and the destinations it had then, whatever was rewritten, hidden or shown
\* again meanwhile; and with a completion fence that look is what the page showed.
AnswerIsWhole ==
  answer = "completed" =>
    /\ Distinct(settling) =>
         /\ Increasing(ledger)
         /\ \A i \in DOMAIN settling : \E c \in DOMAIN ledger :
              /\ ledger[c].place = settling[i].place
              /\ ledger[c].text = settling[i].text /\ ledger[c].link = settling[i].link
    /\ fenced => settling = actual

=============================================================================
