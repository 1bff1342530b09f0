--------------------------- MODULE BrowserTurnProofs ---------------------------
(* What the browser worker promises, for any turns and any bounds: a turn     *)
(* (BrowserTurn) submits a message once and returns a finished answer; an     *)
(* answer of any length, content and layout, rewritten any number of times    *)
(* (AnswerStream), is the last look at it when it is complete; the composer   *)
(* (Composer) sends what the task asks for and restores what it changed.      *)
EXTENDS AnswerStream, BrowserTurn, Composer, WellFoundedInduction, TLAPS

-----------------------------------------------------------------------------
(* The answer's blocks                                                        *)

\* What a look knows of a block is what the block's place makes of it, as long as
\* blocks neither change their tags nor leave the document.
Faithful(s) ==
  /\ s.place \in Filled /\ s.ranged = (s.place \in layout)
  /\ s.ranged => s.number = SourceStart(s.place)
  /\ ~moved => /\ s.tag = content[s.place].tag
               /\ ~s.ranged => s.number = s.place - 1
AllFaithful ==
  \A list \in {ledger, latest, cached} : \A i \in DOMAIN list : Faithful(list[i])

\* A look is a stretch of the answer; without moves it begins with the first block
\* and holds what was ever sent or left.
LooksAreStretches ==
  /\ Increasing(cached)
  /\ ~moved => /\ out = 0
               /\ \A i \in DOMAIN cached : cached[i].place = i
               /\ \A c \in DOMAIN ledger : ledger[c].place <= Len(cached)
               /\ \A c \in DOMAIN latest : latest[c].place <= Len(cached)

Before(list, rest) == \A i \in DOMAIN list, j \in DOMAIN rest : list[i].place < rest[j].place

\* Blocks that have an identity are sent in their order.
Steady == Filled \subseteq layout \/ ~moved
SentInOrder == Steady => Increasing(ledger) /\ Increasing(latest) /\ Before(ledger, latest)

\* A look that agreed is in what was sent and what is left.
Holds(list, s) ==
  \E c \in DOMAIN list : list[c].place = s.place /\ list[c].text = s.text /\ list[c].link = s.link
NothingMissing ==
  ~conflict /\ Distinct(settling) =>
    \A i \in DOMAIN settling : Holds(ledger, settling[i]) \/ Holds(latest, settling[i])

CompletesOnce ==
  /\ settling = <<>> \/ settling = cached
  /\ begun /\ ~ready => ~clean
  /\ begun /\ ready => settling = actual
  /\ answer = "completed" => ready /\ (fenced => begun) /\ latest = <<>> /\ ~conflict

AnswerIInv ==
  /\ AnswerTypeOK /\ AllFaithful /\ LooksAreStretches /\ SentInOrder /\ NothingMissing
  /\ CompletesOnce

-----------------------------------------------------------------------------
(* Looks                                                                      *)

LEMMA PlacesAreNumbers ==
  \A s \in Segments : s.place \in Nat /\ 1 <= s.place /\ s.number \in Nat
BY AnswerAssumption DEF Segments

\* What a look makes of a block that is in the document.
LEMMA SegmentOf ==
  ASSUME AnswerTypeOK, NEW p \in Nat, out < p, p <= Len(content)
  PROVE  /\ Segment(p) \in Segments
         /\ Segment(p).place = p /\ Segment(p).ranged = (p \in layout)
         /\ Segment(p).tag = content[p].tag
         /\ Segment(p).number = IF p \in layout THEN SourceStart(p) ELSE p - out - 1
<1>1. content[p] \in Contents /\ p \in 1..LastBlock
  BY AnswerAssumption DEF AnswerTypeOK
<1>2. SourceStart(p) \in Nat /\ p - out - 1 \in Nat
  BY DEF AnswerTypeOK, SourceStart
<1> QED
  BY <1>1, <1>2 DEF Segment, Segments

\* A fresh look is the stretch of the answer that is in the document.
LEMMA SnapshotShape ==
  ASSUME AnswerTypeOK
  PROVE  /\ Snapshot \in Seq(Segments) /\ Len(Snapshot) = Len(content) - out
         /\ \A i \in DOMAIN Snapshot : Snapshot[i] = Segment(out + i)
<1>1. Len(content) - out \in Nat
  BY DEF AnswerTypeOK
<1>2. ASSUME NEW i \in 1..(Len(content) - out)
      PROVE  Segment(out + i) \in Segments
  <2>1. out + i \in Nat /\ out < out + i /\ out + i <= Len(content)
    BY DEF AnswerTypeOK
  <2> QED
    BY <2>1, SegmentOf
<1> QED
  BY <1>1, <1>2 DEF Snapshot

\* Its blocks are as their places make them.
LEMMA SnapshotFaithful ==
  ASSUME AnswerTypeOK, LooksAreStretches
  PROVE  /\ \A i \in DOMAIN Snapshot : Faithful(Snapshot[i]) /\ Snapshot[i].place = out + i
         /\ Increasing(Snapshot)
<1>1. ASSUME NEW i \in DOMAIN Snapshot
      PROVE  Faithful(Snapshot[i]) /\ Snapshot[i].place = out + i
  <2>1. /\ out + i \in Nat /\ out < out + i /\ out + i <= Len(content)
        /\ Snapshot[i] = Segment(out + i)
    BY SnapshotShape DEF AnswerTypeOK
  <2>2. out + i \in Filled
    BY <2>1 DEF Filled, AnswerTypeOK
  <2>3. /\ Snapshot[i].place = out + i /\ Snapshot[i].ranged = (out + i \in layout)
        /\ Snapshot[i].tag = content[out + i].tag
        /\ Snapshot[i].number =
             IF out + i \in layout THEN SourceStart(out + i) ELSE (out + i) - out - 1
    BY <2>1, SegmentOf
  <2>4. ~moved => out = 0
    BY DEF LooksAreStretches
  <2>5. out \in Nat /\ i \in Nat
    BY SnapshotShape DEF AnswerTypeOK
  <2>6. ~moved /\ out + i \notin layout => Snapshot[i].number = (out + i) - 1
    BY <2>3, <2>4, <2>5
  <2> HIDE DEF Faithful
  <2> QED
    BY <2>2, <2>3, <2>6 DEF Faithful
<1>2. Increasing(Snapshot)
  BY <1>1, SnapshotShape DEF Increasing, AnswerTypeOK
<1> QED
  BY <1>1, <1>2

\* The look that ReadAnswer takes, the cached one or a fresh one.
LookOk(look) ==
  /\ look \in Seq(Segments) /\ Increasing(look)
  /\ \A i \in DOMAIN look : Faithful(look[i])
  /\ ~moved => /\ \A i \in DOMAIN look : look[i].place = i
               /\ \A c \in DOMAIN ledger : ledger[c].place <= Len(look)
               /\ \A c \in DOMAIN latest : latest[c].place <= Len(look)

LEMMA TakenLookOk ==
  ASSUME AnswerTypeOK, AllFaithful, LooksAreStretches
  PROVE  LookOk(IF clean THEN cached ELSE Snapshot)
<1>1. CASE clean
  BY <1>1 DEF LookOk, AnswerTypeOK, AllFaithful, LooksAreStretches
<1>2. CASE ~clean
  <2>1. ASSUME ~moved PROVE \A i \in DOMAIN Snapshot : Snapshot[i].place = i
    BY <2>1, SnapshotShape, SnapshotFaithful DEF LooksAreStretches
  <2>2. ASSUME ~moved
        PROVE  /\ \A c \in DOMAIN ledger : ledger[c].place <= Len(Snapshot)
               /\ \A c \in DOMAIN latest : latest[c].place <= Len(Snapshot)
    <3>1. /\ \A c \in DOMAIN ledger : ledger[c].place \in Filled
          /\ \A c \in DOMAIN latest : latest[c].place \in Filled
      BY DEF AllFaithful, Faithful
    <3>2. Len(Snapshot) = Len(content)
      BY <2>2, SnapshotShape DEF LooksAreStretches, AnswerTypeOK
    <3> QED
      BY <3>1, <3>2 DEF Filled, AnswerTypeOK
  <2> QED
    BY <1>2, <2>1, <2>2, SnapshotShape, SnapshotFaithful DEF LookOk
<1> QED
  BY <1>1, <1>2

-----------------------------------------------------------------------------
(* The buffer                                                                 *)

\* What is sent of a look and what is left, place by place.
LEMMA SentAndLeft ==
  ASSUME AnswerTypeOK, NEW look \in Seq(Segments),
         NEW known \in 0..Len(look), NEW last \in known..Len(look)
  PROVE  LET sent == ledger \o SubSeq(look, known + 1, last)
             left == SubSeq(look, last + 1, Len(look))
         IN  /\ sent \in Seq(Segments) /\ Len(sent) = Len(ledger) + (last - known)
             /\ left \in Seq(Segments) /\ Len(left) = Len(look) - last
             /\ \A c \in 1..Len(ledger) : sent[c] = ledger[c]
             /\ \A c \in (Len(ledger) + 1)..Len(sent) : sent[c] = look[known + (c - Len(ledger))]
             /\ \A j \in 1..Len(left) : left[j] = look[last + j]
<1> DEFINE part == SubSeq(look, known + 1, last)
           left == SubSeq(look, last + 1, Len(look))
<1>1. /\ part \in Seq(Segments) /\ Len(part) = last - known
      /\ \A k \in 1..(last - known) : part[k] = look[known + k]
  OBVIOUS
<1>2. /\ left \in Seq(Segments) /\ Len(left) = Len(look) - last
      /\ \A j \in 1..(Len(look) - last) : left[j] = look[last + j]
  OBVIOUS
<1>3. ledger \in Seq(Segments)
  BY DEF AnswerTypeOK
<1> HIDE DEF part, left
<1> DEFINE more == last - known
<1>7. more \in Nat
  OBVIOUS
<1>8. part \in Seq(Segments) /\ Len(part) = more
  BY <1>1
<1> HIDE DEF more
<1>9. /\ ledger \o part \in Seq(Segments) /\ Len(ledger \o part) = Len(ledger) + more
      /\ \A c \in 1..Len(ledger) : (ledger \o part)[c] = ledger[c]
      /\ \A c \in (Len(ledger) + 1)..(Len(ledger) + more) :
           (ledger \o part)[c] = part[c - Len(ledger)]
  BY <1>3, <1>7, <1>8
<1>4. /\ ledger \o part \in Seq(Segments) /\ Len(ledger \o part) = Len(ledger) + (last - known)
      /\ \A c \in 1..Len(ledger) : (ledger \o part)[c] = ledger[c]
      /\ \A c \in (Len(ledger) + 1)..(Len(ledger) + (last - known)) :
           (ledger \o part)[c] = part[c - Len(ledger)]
  BY <1>9 DEF more
<1>5. ASSUME NEW c \in (Len(ledger) + 1)..(Len(ledger) + (last - known))
      PROVE  (ledger \o part)[c] = look[known + (c - Len(ledger))]
  <2>1. c - Len(ledger) \in 1..(last - known)
    BY <1>3
  <2> QED
    BY <1>1, <1>4, <2>1
<1>6. ledger \o SubSeq(look, known + 1, last) = ledger \o part
  BY DEF part
<1> QED
  BY <1>2, <1>4, <1>5, <1>6 DEF left

\* A number that is in a list has a first place there.
LEMMA FirstExists ==
  ASSUME NEW numbers \in SUBSET Nat, numbers # {}
  PROVE  \E n \in numbers : First(numbers) = {n} /\ \A m \in numbers : n <= m
<1> DEFINE smaller == {ss \in Nat \X Nat : ss[1] < ss[2]}
<1>3. IsWellFoundedOn(smaller, Nat)
  BY NatLessThanWellFounded, Zenon DEF OpToRel
<1>4. PICK n \in numbers : \A m \in numbers : <<m, n>> \notin smaller
  <2> HIDE DEF smaller
  <2> QED
    BY <1>3, WFMin
<1>1. ASSUME NEW m \in numbers PROVE n <= m
  <2>1. m \in Nat /\ n \in Nat /\ <<m, n>> \in Nat \X Nat
    OBVIOUS
  <2>2. ~(<<m, n>>[1] < <<m, n>>[2])
    BY <1>4, <2>1
  <2> QED
    BY <2>1, <2>2
<1>2. First(numbers) = {n}
  <2>1. \A k, m \in Nat : k <= m /\ m <= k => k = m
    OBVIOUS
  <2>2. n \in First(numbers)
    BY <1>1 DEF First
  <2>3. \A k \in First(numbers) : k = n
    BY <1>1, <2>1 DEF First
  <2> QED
    BY <2>2, <2>3
<1> QED
  BY <1>1, <1>2

\* What a block is taken for has its tag.
LEMMA TakenForItsTag ==
  ASSUME NEW s, NEW c \in CommittedAs(s)
  PROVE  c \in DOMAIN ledger /\ ledger[c].tag = s.tag
BY DEF CommittedAs, First, Only, Alike, SameBlock

\* A block that was sent, as its place makes it, is not taken for a new one.
LEMMA SentIsKnown ==
  ASSUME AnswerTypeOK, AllFaithful, ~moved,
         NEW s, Faithful(s), NEW c \in DOMAIN ledger, ledger[c].place = s.place
  PROVE  LET exact == {d \in DOMAIN ledger : SameBlock(s, ledger[d])}
         IN  c \in exact /\ CommittedAs(s) = First(exact) /\ First(exact) # {}
<1> DEFINE exact == {d \in DOMAIN ledger : SameBlock(s, ledger[d])}
<1>1. Faithful(ledger[c])
  BY DEF AllFaithful
<1>2. SameBlock(s, ledger[c])
  BY <1>1 DEF Faithful, SameBlock
<1>3. c \in exact /\ exact \in SUBSET Nat
  BY <1>2 DEF AnswerTypeOK
<1> QED
  BY <1>3, FirstExists DEF CommittedAs

\* What is left of an aligned look comes after everything that was sent.
LEMMA LeftComesAfterSent ==
  ASSUME AnswerTypeOK, AllFaithful, SentInOrder, Steady, NEW look, LookOk(look),
         NEW known \in 0..Len(look), Aligned(look, known),
         NEW c \in DOMAIN ledger, NEW i \in (known + 1)..Len(look)
  PROVE  ledger[c].place < look[i].place
<1> DEFINE n == Len(ledger)
<1>1. /\ ledger \in Seq(Segments) /\ look \in Seq(Segments) /\ n \in Nat /\ Len(look) \in Nat
      /\ c \in 1..n /\ n \in DOMAIN ledger /\ i \in DOMAIN look /\ i > known
      /\ ledger[c] \in Segments /\ ledger[n] \in Segments /\ look[i] \in Segments
  BY DEF AnswerTypeOK, LookOk
<1>2. ComesAfter(look, known, i) /\ (\A k \in (known + 1)..Len(look) : ComesAfter(look, known, k))
  BY <1>1 DEF Aligned
<1>3. ledger[c].place <= ledger[n].place
  BY <1>1, PlacesAreNumbers DEF SentInOrder, Increasing
<1>4. CASE Filled \subseteq layout
  <2>1. look[i].ranged /\ look[i].number = SourceStart(look[i].place)
    BY <1>1, <1>4 DEF LookOk, Faithful
  <2>2. \A d \in DOMAIN ledger : ledger[d].ranged
    BY <1>4 DEF AllFaithful, Faithful
  <2>3. n \in LastRanged
    BY <1>1, <2>2 DEF LastRanged
  <2>4. look[i].number > SourceEnd(ledger[n].place)
    BY <1>2, <2>1, <2>3 DEF ComesAfter
  <2>5. look[i].place \in Nat /\ ledger[n].place \in Nat /\ ledger[c].place \in Nat
    BY <1>1, PlacesAreNumbers
  <2>6. \A a, b \in Nat : 2 * (a - 1) > 2 * (b - 1) + 1 => b < a
    OBVIOUS
  <2>7. 2 * (look[i].place - 1) > 2 * (ledger[n].place - 1) + 1
    BY <2>1, <2>4 DEF SourceStart, SourceEnd
  <2>8. ledger[n].place < look[i].place
    BY <2>5, <2>6, <2>7
  <2> QED
    BY <1>3, <2>5, <2>8
<1>5. CASE ~moved
  <2> DEFINE q == ledger[c].place
  <2>1. q \in DOMAIN look /\ look[q].place = q /\ q \in Nat
    BY <1>1, <1>5, PlacesAreNumbers DEF LookOk
  <2>2. CommittedAs(look[q]) # {}
    BY <1>5, <2>1, SentIsKnown DEF LookOk
  <2>3. q \notin (known + 1)..Len(look)
    BY <1>2, <2>2 DEF ComesAfter
  <2>4. q <= known
    BY <1>1, <2>1, <2>3
  <2>5. look[i].place = i
    BY <1>1, <1>5 DEF LookOk
  <2> QED
    BY <1>1, <2>1, <2>4, <2>5
<1> QED
  BY <1>4, <1>5 DEF Steady

\* The part of an aligned look that was sent before is what was sent, when the
\* blocks can be told apart.
LEMMA SentBeforeHolds ==
  ASSUME AnswerTypeOK, AllFaithful, SentInOrder, NEW look, LookOk(look), Distinct(look),
         NEW known \in 0..Len(look), Aligned(look, known), ledger # <<>>, look # <<>>,
         NEW i \in 1..known
  PROVE  Holds(ledger, look[i])
<1>7. look \in Seq(Segments) /\ Len(look) \in Nat /\ i \in DOMAIN look
  BY DEF LookOk
<1>8. \A k \in 1..known : SentBefore(look, k) /\ k \in DOMAIN look
  BY <1>7 DEF Aligned
<1>9. \A k \in (known + 1)..Len(look) : CommittedAs(look[k]) = {}
  BY DEF Aligned, ComesAfter
<1>1. /\ look \in Seq(Segments) /\ Len(look) \in Nat /\ i \in DOMAIN look
      /\ \A k \in 1..known : SentBefore(look, k) /\ k \in DOMAIN look
      /\ \A k \in (known + 1)..Len(look) : CommittedAs(look[k]) = {}
  BY <1>7, <1>8, <1>9
<1>2. PICK c \in CommittedAs(look[i]) :
        ledger[c].text = look[i].text /\ ledger[c].link = look[i].link
  BY <1>1 DEF SentBefore
<1>3. c \in DOMAIN ledger /\ ledger[c].tag = look[i].tag
  BY TakenForItsTag
<1>4. Faithful(look[i]) /\ Faithful(ledger[c])
  BY <1>1, <1>3 DEF LookOk, AllFaithful
<1>5. CASE Filled \subseteq layout
  <2>1. look[i].ranged /\ look[i].number = SourceStart(look[i].place)
    BY <1>4, <1>5 DEF Faithful
  <2>2. ledger[c].ranged /\ ledger[c].number = SourceStart(ledger[c].place)
    BY <1>4, <1>5 DEF Faithful
  <2>3. Alike(look[i], ledger) = {}
    BY <2>1 DEF Alike
  <2>4. ledger[c].number = look[i].number
    BY <1>2, <2>3 DEF CommittedAs, First, Only, SameBlock
  <2>5. ledger[c].place \in Nat /\ look[i].place \in Nat
    BY <1>1, <1>3, PlacesAreNumbers DEF AnswerTypeOK
  <2>6. ledger[c].place = look[i].place
    BY <2>1, <2>2, <2>4, <2>5 DEF SourceStart
  <2> QED
    BY <1>2, <1>3, <2>6 DEF Holds
<1>6. CASE /\ ~moved
           /\ \A j, k \in DOMAIN look :
                look[j].tag = look[k].tag /\ look[j].text = look[k].text => j = k
  <2> DEFINE Exact(s) == {d \in DOMAIN ledger : SameBlock(s, ledger[d])}
             q == ledger[c].place
  <2>1. /\ \A d \in DOMAIN ledger : ledger[d].place \in DOMAIN look
        /\ \A k \in DOMAIN look : look[k].place = k
    <3>1. \A d \in DOMAIN ledger : ledger[d].place \in Nat /\ 1 <= ledger[d].place
      BY PlacesAreNumbers DEF AnswerTypeOK
    <3> QED
      BY <1>1, <1>6, <3>1 DEF LookOk
  \* Every place that was sent is known in this look, as the first of its number.
  <2>2. ASSUME NEW d \in DOMAIN ledger
        PROVE  LET r == ledger[d].place IN
               /\ r \in 1..known /\ d \in Exact(look[r])
               /\ CommittedAs(look[r]) = First(Exact(look[r])) /\ First(Exact(look[r])) # {}
    <3> DEFINE r == ledger[d].place
    <3>1. r \in DOMAIN look /\ look[r].place = r /\ Faithful(look[r])
      BY <2>1 DEF LookOk
    <3>2. /\ d \in Exact(look[r]) /\ CommittedAs(look[r]) = First(Exact(look[r]))
          /\ First(Exact(look[r])) # {}
      BY <1>6, <3>1, SentIsKnown
    <3>3. r \in 1..known
      <4>1. CommittedAs(look[r]) # {}
        BY <3>2
      <4>2. r \notin (known + 1)..Len(look)
        BY <1>9, <4>1
      <4> QED
        BY <1>7, <3>1, <4>2
    <3> QED
      BY <3>2, <3>3
  <2>3. PICK first \in First(Exact(look[q])) : ledger[first].text = look[q].text
    BY <1>1, <1>3, <2>2 DEF SentBefore
  <2>4. /\ first \in DOMAIN ledger /\ SameBlock(look[q], ledger[first])
        /\ \A d \in Exact(look[q]) : first <= d
    BY DEF First
  <2> DEFINE r == ledger[first].place
  <2>5. /\ r \in 1..known /\ first \in Exact(look[r])
        /\ CommittedAs(look[r]) = First(Exact(look[r]))
    BY <2>2, <2>4
  <2>6. Exact(look[r]) = Exact(look[q])
    BY <2>4, <2>5 DEF SameBlock
  <2>7. PICK other \in First(Exact(look[q])) : ledger[other].text = look[r].text
    <3>1. First(Exact(look[r])) = First(Exact(look[q]))
      BY <2>6
    <3>2. PICK other \in CommittedAs(look[r]) : ledger[other].text = look[r].text
      BY <1>1, <2>5 DEF SentBefore
    <3> QED
      BY <2>5, <3>1, <3>2
  <2>8. other = first
    BY <2>7, <2>3 DEF First, AnswerTypeOK
  <2>9. r = q
    <3>1. look[r].tag = look[q].tag
      BY <2>4, <2>5 DEF SameBlock
    <3>2. r \in DOMAIN look /\ q \in DOMAIN look
      BY <1>3, <2>1, <2>4
    <3> QED
      BY <1>6, <2>3, <2>7, <2>8, <3>1, <3>2
  <2>10. first = c
    <3>1. first \in Nat /\ c \in Nat /\ ledger[first].place \in Nat
      BY <1>3, <2>4, PlacesAreNumbers DEF AnswerTypeOK
    <3>2. Increasing(ledger)
      BY <1>6 DEF SentInOrder, Steady
    <3> QED
      BY <1>3, <2>4, <2>9, <3>1, <3>2 DEF Increasing
  <2>11. look[q].tag = ledger[c].tag /\ look[q].text = ledger[c].text
    BY <2>3, <2>4, <2>10 DEF SameBlock
  <2>12. i = q
    BY <1>1, <1>2, <1>3, <1>6, <2>1, <2>11
  <2>13. look[i].place = i
    BY <1>1, <2>1
  <2> QED
    BY <1>2, <1>3, <2>12, <2>13 DEF Holds
<1> QED
  BY <1>5, <1>6 DEF Distinct

-----------------------------------------------------------------------------
(* The steps                                                                  *)

\* A look that agrees is split into what was known, what is sent now and what is
\* left; another changes nothing.
LEMMA ObserveCases ==
  ASSUME NEW look, Observe(look)
  PROVE  \/ /\ conflict' = FALSE
            /\ \E known \in 0..Len(look) : \E last \in known..Len(look) :
                 /\ Aligned(look, known)
                 /\ ledger' = ledger \o SubSeq(look, known + 1, last)
                 /\ latest' = SubSeq(look, last + 1, Len(look))
         \/ conflict' = TRUE /\ ledger' = ledger /\ latest' = latest
BY DEF Observe

\* Whatever a look adds to what was sent or left is a block of it.
LEMMA ObserveShape ==
  ASSUME AnswerTypeOK, NEW look \in Seq(Segments), Observe(look)
  PROVE  /\ ledger' \in Seq(Segments) /\ latest' \in Seq(Segments) /\ conflict' \in BOOLEAN
         /\ \A c \in DOMAIN ledger' :
              \/ c \in DOMAIN ledger /\ ledger'[c] = ledger[c]
              \/ \E i \in DOMAIN look : ledger'[c] = look[i]
         /\ \A c \in DOMAIN latest' :
              \/ c \in DOMAIN latest /\ latest'[c] = latest[c]
              \/ \E i \in DOMAIN look : latest'[c] = look[i]
<1>1. CASE conflict' = TRUE /\ ledger' = ledger /\ latest' = latest
  BY <1>1 DEF AnswerTypeOK
<1>2. ASSUME conflict' = FALSE, NEW known \in 0..Len(look), NEW last \in known..Len(look),
             ledger' = ledger \o SubSeq(look, known + 1, last),
             latest' = SubSeq(look, last + 1, Len(look))
      PROVE  /\ ledger' \in Seq(Segments) /\ latest' \in Seq(Segments)
             /\ \A c \in DOMAIN ledger' :
                  \/ c \in DOMAIN ledger /\ ledger'[c] = ledger[c]
                  \/ \E i \in DOMAIN look : ledger'[c] = look[i]
             /\ \A c \in DOMAIN latest' : \E i \in DOMAIN look : latest'[c] = look[i]
  <2>1. /\ ledger' \in Seq(Segments) /\ Len(ledger') = Len(ledger) + (last - known)
        /\ latest' \in Seq(Segments) /\ Len(latest') = Len(look) - last
        /\ \A c \in 1..Len(ledger) : ledger'[c] = ledger[c]
        /\ \A c \in (Len(ledger) + 1)..Len(ledger') : ledger'[c] = look[known + (c - Len(ledger))]
        /\ \A j \in 1..Len(latest') : latest'[j] = look[last + j]
    BY <1>2, SentAndLeft
  <2>2. /\ Len(ledger) \in Nat /\ Len(look) \in Nat /\ known \in Nat /\ last \in Nat
        /\ known <= last /\ last <= Len(look)
    BY DEF AnswerTypeOK
  <2>3. ASSUME NEW c \in DOMAIN ledger', c \notin DOMAIN ledger
        PROVE  \E i \in DOMAIN look : ledger'[c] = look[i]
    <3>1. c \in (Len(ledger) + 1)..Len(ledger')
      BY <2>1, <2>2, <2>3 DEF AnswerTypeOK
    <3>2. known + (c - Len(ledger)) \in DOMAIN look
      BY <2>1, <2>2, <3>1
    <3> QED
      BY <2>1, <3>1, <3>2
  <2>4. ASSUME NEW c \in DOMAIN latest'
        PROVE  \E i \in DOMAIN look : latest'[c] = look[i]
    <3>1. c \in 1..Len(latest') /\ last + c \in DOMAIN look
      BY <2>1, <2>2
    <3> QED
      BY <2>1, <3>1
  <2>5. \A c \in DOMAIN ledger : ledger'[c] = ledger[c]
    <3>1. ledger \in Seq(Segments)
      BY DEF AnswerTypeOK
    <3>2. DOMAIN ledger = 1..Len(ledger)
      BY <3>1
    <3> QED
      BY <2>1, <3>2
  <2> QED
    BY <2>1, <2>3, <2>4, <2>5
<1> QED
  BY <1>1, <1>2, ObserveCases

\* A change of the page: it grows, and without moves its blocks stay what they are.
RestsStill ==
  /\ layout' = layout /\ fenced' = fenced /\ cached' = cached /\ ledger' = ledger
  /\ latest' = latest /\ conflict' = conflict /\ settling' = settling /\ ready' = ready
  /\ begun' = begun /\ answer' = answer /\ actual' = actual
PageStep ==
  /\ RestsStill
  /\ content' \in Seq(Contents) /\ Len(content) <= Len(content') /\ Len(content') <= LastBlock
  /\ out' \in 0..Len(content') /\ over' \in BOOLEAN /\ edits' \in 0..MaxEdits
  /\ moved' \in BOOLEAN /\ (moved => moved')
  /\ clean' \in BOOLEAN /\ (clean' => clean)
  /\ ~moved' => out' = out /\ \A p \in Filled : content'[p].tag = content[p].tag

LEMMA PageSteps ==
  ASSUME AnswerTypeOK, AddsBlock \/ Rewrite \/ Virtualize \/ EndsGeneration \/ Stirs
  PROVE  PageStep
<1> USE AnswerAssumption
<1>0. /\ content \in Seq(Contents) /\ Len(content) \in Nat /\ Len(content) <= LastBlock
      /\ Filled = 1..Len(content) /\ out \in 0..Len(content) /\ out \in Nat
      /\ edits \in 0..MaxEdits /\ over \in BOOLEAN /\ moved \in BOOLEAN /\ clean \in BOOLEAN
  BY DEF AnswerTypeOK, Filled
<1>6. RestsStill
  <2>1. PageOnly
    BY Zenon DEF AddsBlock, Rewrite, Virtualize, EndsGeneration, Stirs
  <2> QED
    BY <2>1 DEF PageOnly, bufferVars, RestsStill
<1>7. ASSUME content' = content, out' \in 0..Len(content), over' \in BOOLEAN,
             edits' \in 0..MaxEdits, moved' \in BOOLEAN, moved => moved',
             clean' \in BOOLEAN, clean' => clean, ~moved' => out' = out
      PROVE  PageStep
  BY <1>0, <1>6, <1>7 DEF PageStep
<1>1. CASE AddsBlock
  <2>1. PICK written \in Contents : content' = Append(content, written)
    BY <1>1 DEF AddsBlock
  <2>2. /\ content' \in Seq(Contents) /\ Len(content') = Len(content) + 1
        /\ \A p \in Filled : content'[p] = content[p]
    BY <1>0, <2>1
  <2>3. /\ Len(content) < LastBlock /\ out' = out /\ over' = over /\ edits' = edits
        /\ moved' = moved /\ clean' = FALSE
    BY <1>1 DEF AddsBlock
  <2>4. /\ Len(content) <= Len(content') /\ Len(content') <= LastBlock
        /\ out' \in 0..Len(content')
    BY <1>0, <2>2, <2>3
  <2> QED
    BY <1>0, <1>6, <2>2, <2>3, <2>4, Zenon DEF PageStep
<1>2. CASE Rewrite
  <2>1. PICK place \in Filled : \E written \in Contents \ {content[place]} :
          /\ content' = [content EXCEPT ![place] = written]
          /\ clean' = (clean /\ /\ written.tag = content[place].tag
                              /\ written.text = content[place].text
                              /\ written.link # NoLink /\ content[place].link # NoLink)
          /\ moved' = (moved \/ written.tag # content[place].tag)
    BY <1>2, Zenon DEF Rewrite
  <2>2. PICK written \in Contents :
          /\ content' = [content EXCEPT ![place] = written]
          /\ clean' = (clean /\ /\ written.tag = content[place].tag
                              /\ written.text = content[place].text
                              /\ written.link # NoLink /\ content[place].link # NoLink)
          /\ moved' = (moved \/ written.tag # content[place].tag)
    BY <2>1, Zenon
  <2>3. /\ content' \in Seq(Contents) /\ Len(content') = Len(content)
        /\ \A p \in Filled : content'[p] = IF p = place THEN written ELSE content[p]
    BY <1>0, <2>2
  <2>4. ~moved' => \A p \in Filled : content'[p].tag = content[p].tag
    BY <2>2, <2>3
  <2>5. moved' \in BOOLEAN /\ clean' \in BOOLEAN /\ (moved => moved') /\ (clean' => clean)
    BY <2>2, Zenon DEF AnswerTypeOK
  <2>6. out' = out /\ over' = over /\ edits' \in 0..MaxEdits
    BY <1>2 DEF Rewrite, AnswerTypeOK
  <2>7. /\ Len(content) <= Len(content') /\ Len(content') <= LastBlock
        /\ out' \in 0..Len(content') /\ over' \in BOOLEAN
    BY <1>0, <2>3, <2>6
  <2> QED
    BY <1>6, <2>3, <2>4, <2>5, <2>6, <2>7, Zenon DEF PageStep
<1>3. CASE Virtualize
  <2>1. out' \in 0..Len(content) /\ edits' \in 0..MaxEdits
    BY <1>0, <1>3 DEF Virtualize
  <2>2. content' = content /\ over' = over /\ moved' = TRUE /\ clean' = FALSE
    BY <1>3 DEF Virtualize
  <2> QED
    BY <1>0, <1>7, <2>1, <2>2, Zenon
<1>4. CASE EndsGeneration
  <2>1. /\ content' = content /\ out' = out /\ edits' = edits /\ moved' = moved
        /\ over' = TRUE /\ clean' = FALSE
    BY <1>4 DEF EndsGeneration
  <2> QED
    BY <1>0, <1>7, <2>1, Zenon
<1>5. CASE Stirs
  <2>1. /\ content' = content /\ out' = out /\ edits' = edits /\ moved' = moved
        /\ over' = over /\ clean' = FALSE
    BY <1>5 DEF Stirs
  <2> QED
    BY <1>0, <1>7, <2>1, Zenon
<1> QED
  BY <1>1, <1>2, <1>3, <1>4, <1>5

LEMMA PageKeeps ==
  ASSUME AnswerIInv, PageStep
  PROVE  AnswerIInv'
<1>0. /\ Filled \subseteq Filled' /\ content \in Seq(Contents) /\ out \in 0..Len(content)
  BY DEF AnswerIInv, AnswerTypeOK, PageStep, RestsStill, Filled
<1>1. AnswerTypeOK'
  BY DEF AnswerIInv, AnswerTypeOK, PageStep, RestsStill, Segments
<1>2. \A s : Faithful(s) => Faithful(s)'
  BY <1>0 DEF PageStep, RestsStill, Faithful, SourceStart
<1>3. AllFaithful'
  BY <1>2 DEF AnswerIInv, AllFaithful, PageStep, RestsStill
<1>4. LooksAreStretches'
  BY DEF AnswerIInv, LooksAreStretches, PageStep, RestsStill, Increasing
<1>5. Steady' => Steady
  BY <1>0 DEF Steady, PageStep, RestsStill
<1>6. SentInOrder'
  BY <1>5 DEF AnswerIInv, SentInOrder, PageStep, RestsStill, Increasing, Before
<1>7. \A look : Distinct(look)' => Distinct(look)
  BY <1>0 DEF Distinct, PageStep, RestsStill
<1>8. NothingMissing'
  BY <1>7 DEF AnswerIInv, NothingMissing, PageStep, RestsStill, Holds
<1>9. CompletesOnce'
  BY DEF AnswerIInv, CompletesOnce, PageStep, RestsStill
<1> QED
  BY <1>1, <1>3, <1>4, <1>6, <1>8, <1>9 DEF AnswerIInv

\* After a look that agreed, what was sent is in order, and whatever the look has
\* was sent or is left.
LEMMA Agreed ==
  ASSUME AnswerTypeOK, AllFaithful, SentInOrder, NEW look, LookOk(look),
         NEW known \in 0..Len(look), NEW last \in known..Len(look), Aligned(look, known),
         ledger' = ledger \o SubSeq(look, known + 1, last),
         latest' = SubSeq(look, last + 1, Len(look))
  PROVE  /\ Steady => Increasing(ledger') /\ Increasing(latest') /\ Before(ledger', latest')
         /\ Distinct(look) =>
              \A i \in DOMAIN look : Holds(ledger', look[i]) \/ Holds(latest', look[i])
<1> DEFINE n == Len(ledger)
           size == Len(look)
           sent == last - known
<1>1. look \in Seq(Segments) /\ size \in Nat /\ ledger \in Seq(Segments) /\ n \in Nat
  BY DEF LookOk, AnswerTypeOK
<1>2. /\ ledger' \in Seq(Segments) /\ Len(ledger') = n + sent
      /\ latest' \in Seq(Segments) /\ Len(latest') = size - last
      /\ \A c \in 1..n : ledger'[c] = ledger[c]
      /\ \A c \in (n + 1)..Len(ledger') : ledger'[c] = look[known + (c - n)]
      /\ \A j \in 1..Len(latest') : latest'[j] = look[last + j]
  BY <1>1, SentAndLeft
\* The numbers, apart from the sequences.
<1>3. /\ known \in Nat /\ last \in Nat /\ sent \in Nat /\ n \in Nat /\ size \in Nat
      /\ last = known + sent /\ last <= size
  BY <1>1
<1>4. /\ DOMAIN ledger' = 1..(n + sent) /\ DOMAIN latest' = 1..(size - last)
      /\ DOMAIN look = 1..size /\ DOMAIN ledger = 1..n
      /\ \A c \in 1..n : ledger'[c] = ledger[c]
      /\ \A c \in (n + 1)..(n + sent) : ledger'[c] = look[known + (c - n)]
      /\ \A j \in 1..(size - last) : latest'[j] = look[last + j]
  BY <1>1, <1>2
<1>5. \A i, j \in 1..size : i < j => look[i].place < look[j].place
  BY <1>4 DEF LookOk, Increasing
<1>6. Distinct(look) /\ ledger # <<>> /\ look # <<>> =>
        \A i \in 1..known : Holds(ledger, look[i])
  BY SentBeforeHolds
<1>7. Steady => \A c \in 1..n : \A i \in (known + 1)..size : ledger[c].place < look[i].place
  BY <1>4, LeftComesAfterSent
<1>8. ledger = <<>> \/ look = <<>> => known = 0
  BY DEF Aligned
<1> HIDE DEF n, size, sent
\* Each block of what is sent is an old one, or one of this look.
<1>9. ASSUME NEW c \in 1..(n + sent)
      PROVE  \/ c \in 1..n /\ ledger'[c] = ledger[c]
             \/ /\ c > n /\ known + (c - n) \in (known + 1)..last
                /\ known + (c - n) \in (known + 1)..size /\ known + (c - n) \in 1..size
                /\ ledger'[c] = look[known + (c - n)]
  <2>1. \/ c \in 1..n
        \/ /\ c > n /\ c \in (n + 1)..(n + sent)
           /\ known + (c - n) \in (known + 1)..last
           /\ known + (c - n) \in (known + 1)..size /\ known + (c - n) \in 1..size
    BY <1>3
  <2> QED
    BY <1>4, <2>1
<1>10. ASSUME NEW j \in 1..(size - last)
       PROVE  /\ last + j \in (known + 1)..size /\ last + j \in 1..size /\ last + j > last
              /\ latest'[j] = look[last + j] /\ j \in Nat
  <2>1. /\ last + j \in (known + 1)..size /\ last + j \in 1..size /\ last + j > last /\ j \in Nat
    BY <1>3
  <2> QED
    BY <1>4, <2>1
<1>11. ASSUME Steady
       PROVE  Increasing(ledger') /\ Increasing(latest') /\ Before(ledger', latest')
  <2>1. \A c \in 1..n : \A i \in (known + 1)..size : ledger[c].place < look[i].place
    BY <1>7, <1>11
  <2>2. ASSUME NEW c \in 1..(n + sent), NEW d \in 1..(n + sent), c < d
        PROVE  ledger'[c].place < ledger'[d].place
    <3>1. CASE d \in 1..n /\ ledger'[d] = ledger[d]
      <4>1. c \in 1..n
        BY <1>3, <2>2, <3>1
      <4>2. ledger'[c] = ledger[c]
        BY <1>4, <4>1
      <4>3. Increasing(ledger)
        BY <1>11 DEF SentInOrder
      <4> QED
        BY <1>4, <2>2, <3>1, <4>1, <4>2, <4>3 DEF Increasing
    <3>2. CASE /\ d > n /\ known + (d - n) \in (known + 1)..size /\ known + (d - n) \in 1..size
               /\ ledger'[d] = look[known + (d - n)]
      <4>1. CASE c \in 1..n /\ ledger'[c] = ledger[c]
        BY <2>1, <3>2, <4>1
      <4>2. CASE /\ c > n /\ known + (c - n) \in 1..size
                 /\ ledger'[c] = look[known + (c - n)]
        <5>1. known + (c - n) < known + (d - n)
          BY <1>3, <2>2
        <5> QED
          BY <1>5, <3>2, <4>2, <5>1
      <4> QED
        BY <1>9, <4>1, <4>2
    <3> QED
      BY <1>9, <3>1, <3>2
  <2>3. ASSUME NEW c \in 1..(size - last), NEW d \in 1..(size - last), c < d
        PROVE  latest'[c].place < latest'[d].place
    <3>1. last + c < last + d
      BY <1>3, <2>3
    <3> QED
      BY <1>5, <1>10, <3>1
  <2>4. ASSUME NEW c \in 1..(n + sent), NEW d \in 1..(size - last)
        PROVE  ledger'[c].place < latest'[d].place
    <3>1. /\ last + d \in (known + 1)..size /\ last + d \in 1..size /\ last + d > last
          /\ latest'[d] = look[last + d]
      BY <1>10
    <3>2. CASE c \in 1..n /\ ledger'[c] = ledger[c]
      BY <2>1, <3>1, <3>2
    <3>3. CASE /\ known + (c - n) \in (known + 1)..last /\ known + (c - n) \in 1..size
               /\ ledger'[c] = look[known + (c - n)]
      <4>1. known + (c - n) < last + d
        BY <1>3, <3>1, <3>3
      <4> QED
        BY <1>5, <3>1, <3>3, <4>1
    <3> QED
      BY <1>9, <3>2, <3>3
  <2> QED
    BY <1>4, <2>2, <2>3, <2>4 DEF Increasing, Before
<1>12. ASSUME Distinct(look), NEW i \in 1..size
       PROVE  Holds(ledger', look[i]) \/ Holds(latest', look[i])
  <2>1. CASE i <= known
    <3>1. i \in 1..known /\ known # 0
      BY <1>3, <2>1
    <3>2. Holds(ledger, look[i])
      BY <1>6, <1>8, <1>12, <3>1
    <3>3. \A c \in 1..n : c \in 1..(n + sent)
      BY <1>3
    <3>4. PICK c \in 1..n : /\ ledger[c].place = look[i].place /\ ledger[c].text = look[i].text
                            /\ ledger[c].link = look[i].link
      BY <1>4, <3>2 DEF Holds
    <3>5. c \in DOMAIN ledger' /\ ledger'[c] = ledger[c]
      BY <1>4, <3>3
    <3> QED
      BY <3>4, <3>5 DEF Holds
  <2>2. CASE known < i /\ i <= last
    <3> DEFINE c == n + (i - known)
    <3>1. c \in (n + 1)..(n + sent) /\ c \in 1..(n + sent) /\ known + (c - n) = i
      BY <1>3, <2>2
    <3>2. ledger'[c] = look[i] /\ c \in DOMAIN ledger'
      BY <1>4, <3>1
    <3> HIDE DEF c
    <3> QED
      BY <3>2 DEF Holds
  <2>3. CASE i > last
    <3> DEFINE c == i - last
    <3>1. c \in 1..(size - last) /\ last + c = i
      BY <1>3, <2>3
    <3>2. latest'[c] = look[i] /\ c \in DOMAIN latest'
      BY <1>4, <3>1
    <3> HIDE DEF c
    <3> QED
      BY <3>2 DEF Holds
  <2> QED
    BY <1>3, <2>1, <2>2, <2>3
<1> QED
  BY <1>4, <1>11, <1>12

\* A look keeps the invariant.
LEMMA ReadKeeps ==
  ASSUME AnswerIInv, ReadAnswer
  PROVE  AnswerIInv'
<1> DEFINE look == IF clean THEN cached ELSE Snapshot
<1>1. /\ answer = "open" /\ ~ready /\ cached' = look /\ clean' = TRUE /\ actual' = Snapshot
      /\ Observe(look) /\ (settling' = look \/ settling' = <<>>)
      /\ ready' \in BOOLEAN /\ (ready' => settling' = look)
      /\ begun' = (begun /\ ready') /\ answer' = answer
  BY Zenon DEF ReadAnswer
<1>2. /\ layout' = layout /\ fenced' = fenced /\ content' = content /\ out' = out
      /\ over' = over /\ edits' = edits /\ moved' = moved
  BY DEF ReadAnswer, pageVars
<1>3. /\ AnswerTypeOK /\ AllFaithful /\ LooksAreStretches /\ SentInOrder /\ NothingMissing
      /\ CompletesOnce
  BY DEF AnswerIInv
<1>4. LookOk(look)
  BY <1>3, TakenLookOk
<1>5. ~clean => look = Snapshot
  OBVIOUS
<1> HIDE DEF look
<1>6. look \in Seq(Segments)
  BY <1>4 DEF LookOk
<1>7. /\ ledger' \in Seq(Segments) /\ latest' \in Seq(Segments) /\ conflict' \in BOOLEAN
      /\ \A c \in DOMAIN ledger' :
           \/ c \in DOMAIN ledger /\ ledger'[c] = ledger[c]
           \/ \E i \in DOMAIN look : ledger'[c] = look[i]
      /\ \A c \in DOMAIN latest' :
           \/ c \in DOMAIN latest /\ latest'[c] = latest[c]
           \/ \E i \in DOMAIN look : latest'[c] = look[i]
  BY <1>1, <1>3, <1>6, ObserveShape
<1>8. Snapshot \in Seq(Segments)
  BY <1>3, SnapshotShape
<1>9. AnswerTypeOK'
  <2>1. begun' \in BOOLEAN
    BY <1>1, Zenon
  <2>2. settling' \in Seq(Segments)
    <3>1. <<>> \in Seq(Segments)
      OBVIOUS
    <3> QED
      BY <1>1, <1>6, <3>1, Zenon
  <2> QED
    BY <1>1, <1>2, <1>3, <1>6, <1>7, <1>8, <2>1, <2>2 DEF AnswerTypeOK, Segments
<1>10. \A s : Faithful(s) => Faithful(s)'
  BY <1>2 DEF Faithful, Filled, SourceStart
<1>11. AllFaithful'
  <2>1. \A i \in DOMAIN look : Faithful(look[i])
    BY <1>4 DEF LookOk
  <2>2. \A c \in DOMAIN ledger : Faithful(ledger[c])
    BY <1>3 DEF AllFaithful
  <2>3. \A c \in DOMAIN latest : Faithful(latest[c])
    BY <1>3 DEF AllFaithful
  <2>4. \A c \in DOMAIN ledger' : Faithful(ledger'[c])
    BY <1>7, <2>1, <2>2
  <2>5. \A c \in DOMAIN latest' : Faithful(latest'[c])
    BY <1>7, <2>1, <2>3
  <2> QED
    BY <1>1, <1>10, <2>1, <2>4, <2>5 DEF AllFaithful
<1>12. LooksAreStretches'
  <2>1. Increasing(look)
    BY <1>4 DEF LookOk
  <2>2. ASSUME ~moved
        PROVE  /\ out = 0 /\ \A i \in DOMAIN look : look[i].place = i
               /\ \A c \in DOMAIN ledger' : ledger'[c].place <= Len(look)
               /\ \A c \in DOMAIN latest' : latest'[c].place <= Len(look)
    <3>1. /\ \A i \in DOMAIN look : look[i].place = i
          /\ \A c \in DOMAIN ledger : ledger[c].place <= Len(look)
          /\ \A c \in DOMAIN latest : latest[c].place <= Len(look)
      BY <1>4, <2>2 DEF LookOk
    <3>2. \A i \in DOMAIN look : i <= Len(look)
      BY <1>6
    <3> QED
      BY <1>3, <1>7, <2>2, <3>1, <3>2 DEF LooksAreStretches
  <2> QED
    BY <1>1, <1>2, <2>1, <2>2 DEF LooksAreStretches, Increasing
<1>13. Steady' = Steady
  BY <1>2 DEF Steady, Filled
<1>14. ASSUME conflict' = TRUE /\ ledger' = ledger /\ latest' = latest
       PROVE  SentInOrder' /\ NothingMissing'
  <2>1. SentInOrder'
    BY <1>3, <1>13, <1>14 DEF SentInOrder, Increasing, Before
  <2>2. NothingMissing'
    BY <1>14 DEF NothingMissing
  <2> QED
    BY <2>1, <2>2
<1>15. ASSUME conflict' = FALSE,
              \E known \in 0..Len(look) : \E last \in known..Len(look) :
                /\ Aligned(look, known)
                /\ ledger' = ledger \o SubSeq(look, known + 1, last)
                /\ latest' = SubSeq(look, last + 1, Len(look))
       PROVE  SentInOrder' /\ NothingMissing'
  <2>1. /\ Steady => Increasing(ledger') /\ Increasing(latest') /\ Before(ledger', latest')
        /\ Distinct(look) =>
             \A i \in DOMAIN look : Holds(ledger', look[i]) \/ Holds(latest', look[i])
    BY <1>3, <1>4, <1>15, Agreed
  <2>2. SentInOrder'
    BY <1>13, <2>1 DEF SentInOrder, Increasing, Before
  <2>3. ASSUME settling' = look PROVE NothingMissing'
    <3>1. ASSUME Distinct(settling)', NEW i \in DOMAIN settling'
          PROVE  Holds(ledger', settling'[i]) \/ Holds(latest', settling'[i])
      <4>1. Distinct(look)
        BY <1>2, <2>3, <3>1 DEF Distinct, Filled
      <4> QED
        BY <2>1, <2>3, <3>1, <4>1
    <3> QED
      BY <3>1 DEF NothingMissing, Holds
  <2>4. ASSUME settling' = <<>> PROVE NothingMissing'
    <3>1. DOMAIN settling' = {}
      BY <2>4
    <3> QED
      BY <3>1 DEF NothingMissing
  <2>5. NothingMissing'
    BY <1>1, <2>3, <2>4, Zenon
  <2> QED
    BY <2>2, <2>5
<1>16. SentInOrder' /\ NothingMissing'
  BY <1>1, <1>14, <1>15, ObserveCases
<1>17. CompletesOnce'
  <2>1. begun' => begun /\ ready'
    BY <1>1, Zenon
  <2>2. begun' => look = Snapshot
    BY <1>1, <1>3, <1>5, <2>1, Zenon DEF CompletesOnce
  <2> QED
    BY <1>1, <2>1, <2>2 DEF CompletesOnce
<1> QED
  BY <1>9, <1>11, <1>12, <1>16, <1>17 DEF AnswerIInv

\* What was left is sent at the end.
LEMMA FinishKeeps ==
  ASSUME AnswerIInv, Finish
  PROVE  AnswerIInv'
<1>1. /\ AnswerTypeOK /\ AllFaithful /\ LooksAreStretches /\ SentInOrder /\ NothingMissing
      /\ CompletesOnce
  BY DEF AnswerIInv
<1>2. /\ layout' = layout /\ fenced' = fenced /\ content' = content /\ out' = out
      /\ over' = over /\ edits' = edits /\ moved' = moved /\ cached' = cached
      /\ clean' = clean /\ conflict' = conflict /\ settling' = settling /\ ready' = ready
      /\ begun' = begun /\ actual' = actual /\ ready /\ (fenced => begun)
      /\ answer' = IF conflict THEN "failed" ELSE "completed"
  BY DEF Finish, pageVars
<1>3. /\ ledger \in Seq(Segments) /\ latest \in Seq(Segments) /\ cached \in Seq(Segments)
      /\ conflict \in BOOLEAN
  BY <1>1 DEF AnswerTypeOK
<1>4. CASE conflict
  <2>1. ledger' = ledger /\ latest' = latest /\ answer' = "failed"
    BY <1>2, <1>4 DEF Finish
  <2>2. AnswerTypeOK'
    BY <1>1, <1>2, <2>1 DEF AnswerTypeOK, Segments
  <2>3. AllFaithful' /\ LooksAreStretches' /\ SentInOrder'
    BY <1>1, <1>2, <2>1 DEF AllFaithful, Faithful, Filled, SourceStart, LooksAreStretches,
                            SentInOrder, Steady, Increasing, Before
  <2>4. NothingMissing'
    BY <1>2, <1>4 DEF NothingMissing
  <2>5. CompletesOnce'
    BY <1>1, <1>2, <2>1 DEF CompletesOnce
  <2> QED
    BY <2>2, <2>3, <2>4, <2>5 DEF AnswerIInv
<1>5. CASE ~conflict
  <2> DEFINE n == Len(ledger)
             more == Len(latest)
  <2>1. ledger' = ledger \o latest /\ latest' = <<>> /\ answer' = "completed"
    BY <1>2, <1>5 DEF Finish
  <2>2. n \in Nat /\ more \in Nat /\ DOMAIN ledger = 1..n /\ DOMAIN latest = 1..more
    BY <1>3
  <2>3. /\ ledger' \in Seq(Segments) /\ latest' \in Seq(Segments)
        /\ DOMAIN ledger' = 1..(n + more) /\ DOMAIN latest' = {}
        /\ \A c \in 1..n : ledger'[c] = ledger[c]
        /\ \A c \in (n + 1)..(n + more) : ledger'[c] = latest[c - n]
    BY <1>3, <2>1
  <2> HIDE DEF n, more
  <2>4. ASSUME NEW c \in DOMAIN ledger'
        PROVE  \/ c \in DOMAIN ledger /\ ledger'[c] = ledger[c]
               \/ c > n /\ c - n \in DOMAIN latest /\ ledger'[c] = latest[c - n]
    <3>1. c \in 1..(n + more)
      BY <2>3
    <3>2. c \in 1..n \/ (c \in (n + 1)..(n + more) /\ c > n /\ c - n \in 1..more)
      BY <2>2, <3>1
    <3> QED
      BY <2>2, <2>3, <3>2
  <2>5. AnswerTypeOK'
    BY <1>1, <1>2, <2>1, <2>3 DEF AnswerTypeOK, Segments
  <2>6. \A s : Faithful(s) => Faithful(s)'
    BY <1>2 DEF Faithful, Filled, SourceStart
  <2>7. AllFaithful'
    <3>1. \A c \in DOMAIN ledger' : Faithful(ledger'[c])
      BY <1>1, <2>4 DEF AllFaithful
    <3>2. \A c \in DOMAIN cached : Faithful(cached[c])
      BY <1>1 DEF AllFaithful
    <3> QED
      BY <1>2, <2>3, <2>6, <3>1, <3>2 DEF AllFaithful
  <2>8. LooksAreStretches'
    BY <1>1, <1>2, <2>3, <2>4 DEF LooksAreStretches, Increasing
  <2>9. ASSUME Steady', NEW c \in DOMAIN ledger', NEW d \in DOMAIN ledger', c < d
        PROVE  ledger'[c].place < ledger'[d].place
    <3>1. Increasing(ledger) /\ Increasing(latest) /\ Before(ledger, latest)
      BY <1>1, <1>2, <2>9 DEF SentInOrder, Steady, Filled
    <3>2. CASE d \in DOMAIN ledger /\ ledger'[d] = ledger[d]
      <4>1. c \in DOMAIN ledger /\ ledger'[c] = ledger[c]
        BY <2>2, <2>3, <2>9, <3>2
      <4> QED
        BY <2>9, <3>1, <3>2, <4>1 DEF Increasing
    <3>3. CASE d > n /\ d - n \in DOMAIN latest /\ ledger'[d] = latest[d - n]
      <4>1. CASE c \in DOMAIN ledger /\ ledger'[c] = ledger[c]
        BY <3>1, <3>3, <4>1 DEF Before
      <4>2. CASE c > n /\ c - n \in DOMAIN latest /\ ledger'[c] = latest[c - n]
        <5>1. c - n < d - n
          BY <2>2, <2>3, <2>9
        <5> QED
          BY <3>1, <3>3, <4>2, <5>1 DEF Increasing
      <4> QED
        BY <2>4, <4>1, <4>2
    <3> QED
      BY <2>4, <3>2, <3>3
  <2>10. SentInOrder'
    BY <2>3, <2>9 DEF SentInOrder, Increasing, Before
  <2>11. NothingMissing'
    <3>1. ASSUME Distinct(settling)', NEW i \in DOMAIN settling
          PROVE  Holds(ledger', settling[i])
      <4>1. Holds(ledger, settling[i]) \/ Holds(latest, settling[i])
        BY <1>1, <1>2, <1>5, <3>1 DEF NothingMissing, Distinct, Filled
      <4>2. \A c \in DOMAIN ledger : c \in DOMAIN ledger' /\ ledger'[c] = ledger[c]
        BY <2>2, <2>3
      <4>3. ASSUME NEW c \in DOMAIN latest
            PROVE  n + c \in DOMAIN ledger' /\ ledger'[n + c] = latest[c]
        <5>1. n + c \in (n + 1)..(n + more) /\ n + c \in 1..(n + more) /\ (n + c) - n = c
          BY <2>2
        <5> QED
          BY <2>3, <5>1
      <4> QED
        BY <4>1, <4>2, <4>3 DEF Holds
    <3> QED
      BY <1>2, <3>1 DEF NothingMissing, Holds
  <2>12. CompletesOnce'
    BY <1>1, <1>2, <1>5, <2>1 DEF CompletesOnce
  <2> QED
    BY <2>5, <2>7, <2>8, <2>10, <2>11, <2>12 DEF AnswerIInv
<1> QED
  BY <1>3, <1>4, <1>5

\* The completion fence asks for one more look.
LEMMA FenceKeeps ==
  ASSUME AnswerIInv, BeginFence \/ CommitRefused
  PROVE  AnswerIInv'
<1>1. /\ layout' = layout /\ fenced' = fenced /\ content' = content /\ out' = out
      /\ over' = over /\ edits' = edits /\ moved' = moved /\ cached' = cached
      /\ ledger' = ledger /\ latest' = latest /\ conflict' = conflict
      /\ settling' = settling /\ answer' = answer /\ actual' = actual
      /\ answer = "open" /\ ready /\ ready' = FALSE
  BY DEF BeginFence, CommitRefused, pageVars, bufferVars
<1>2. \/ clean' = FALSE /\ begun' \in BOOLEAN
      \/ clean' = clean /\ begun' = begun /\ ~begun
  BY DEF BeginFence, CommitRefused
<1>3. AnswerTypeOK'
  <2>1. clean' \in BOOLEAN /\ begun' \in BOOLEAN
    BY <1>2, Zenon DEF AnswerIInv, AnswerTypeOK
  <2> QED
    BY <1>1, <2>1 DEF AnswerIInv, AnswerTypeOK, Segments
<1>4. AllFaithful' /\ LooksAreStretches' /\ SentInOrder'
  BY <1>1 DEF AnswerIInv, AllFaithful, Faithful, Filled, SourceStart, LooksAreStretches,
              SentInOrder, Steady, Increasing, Before
<1>5. NothingMissing'
  BY <1>1 DEF AnswerIInv, NothingMissing, Distinct, Filled, Holds
<1>6. CompletesOnce'
  BY <1>1, <1>2 DEF AnswerIInv, CompletesOnce
<1> QED
  BY <1>3, <1>4, <1>5, <1>6 DEF AnswerIInv

\* The answer is followed consistently: what was sent and what is left of the last
\* look that agreed are blocks as their places make them, in order and without gaps.
THEOREM AnswerConsistent == AnswerSpec => []AnswerIInv
<1>1. ASSUME AnswerInit PROVE AnswerIInv
  <2>1. /\ content = <<>> /\ cached = <<>> /\ ledger = <<>> /\ latest = <<>>
        /\ settling = <<>> /\ actual = <<>> /\ DOMAIN content = {} /\ DOMAIN ledger = {}
        /\ DOMAIN latest = {} /\ DOMAIN cached = {} /\ DOMAIN settling = {} /\ Len(content) = 0
    BY <1>1 DEF AnswerInit
  <2>2. AnswerTypeOK
    <3>1. <<>> \in Seq(Contents) /\ <<>> \in Seq(Segments)
      OBVIOUS
    <3>2. layout \subseteq 1..LastBlock
      BY <1>1, AnswerAssumption DEF AnswerInit
    <3>3. 0 <= LastBlock /\ 0 \in 0..MaxEdits /\ 0 \in 0..Len(content)
      BY <2>1, AnswerAssumption
    <3> HIDE DEF Segments
    <3> QED
      BY <1>1, <2>1, <3>1, <3>2, <3>3 DEF AnswerInit, AnswerTypeOK
  <2>3. AllFaithful /\ LooksAreStretches /\ SentInOrder /\ NothingMissing
    BY <1>1, <2>1 DEF AnswerInit, AllFaithful, LooksAreStretches, SentInOrder, NothingMissing,
                      Increasing, Before
  <2>4. CompletesOnce
    BY <1>1 DEF AnswerInit, CompletesOnce
  <2> QED
    BY <2>2, <2>3, <2>4 DEF AnswerIInv
<1>2. ASSUME AnswerIInv, [AnswerNext]_answerVars PROVE AnswerIInv'
  <2>1. CASE AddsBlock \/ Rewrite \/ Virtualize \/ EndsGeneration \/ Stirs
    BY <1>2, <2>1, PageSteps, PageKeeps DEF AnswerIInv
  <2>2. CASE ReadAnswer
    BY <1>2, <2>2, ReadKeeps
  <2>3. CASE Finish
    BY <1>2, <2>3, FinishKeeps
  <2>4. CASE BeginFence \/ CommitRefused
    BY <1>2, <2>4, FenceKeeps
  <2>5. CASE UNCHANGED answerVars
    <3>1. /\ layout' = layout /\ fenced' = fenced /\ content' = content /\ out' = out
          /\ over' = over /\ edits' = edits /\ moved' = moved /\ cached' = cached
          /\ clean' = clean /\ ledger' = ledger /\ latest' = latest /\ conflict' = conflict
          /\ settling' = settling /\ ready' = ready /\ begun' = begun /\ answer' = answer
          /\ actual' = actual
      BY <2>5 DEF answerVars, pageVars, bufferVars
    <3>2. AnswerTypeOK'
      BY <1>2, <3>1 DEF AnswerIInv, AnswerTypeOK, Segments
    <3>3. AllFaithful' /\ LooksAreStretches' /\ SentInOrder'
      BY <1>2, <3>1 DEF AnswerIInv, AllFaithful, Faithful, Filled, SourceStart,
                        LooksAreStretches, SentInOrder, Steady, Increasing, Before
    <3>4. NothingMissing'
      BY <1>2, <3>1 DEF AnswerIInv, NothingMissing, Distinct, Filled, Holds
    <3>5. CompletesOnce'
      BY <1>2, <3>1 DEF AnswerIInv, CompletesOnce
    <3> QED
      BY <3>2, <3>3, <3>4, <3>5 DEF AnswerIInv
  <2> QED
    BY <1>2, <2>1, <2>2, <2>3, <2>4, <2>5 DEF AnswerNext
<1> QED
  BY <1>1, <1>2, PTL DEF AnswerSpec

\* A completed answer has every block of the last look once, in order and as it was
\* then, for every answer whose blocks can be told apart (ChatGptMarkdownBuffer of
\* markdown.ts), and with a completion fence that look is what the page showed.
THEOREM AnswersAreWhole == AnswerSpec => []AnswerIsWhole
<1>1. ASSUME AnswerIInv PROVE AnswerIsWhole
  <2>1. SUFFICES ASSUME answer = "completed"
                 PROVE  /\ Distinct(settling) =>
                             /\ Increasing(ledger)
                             /\ \A i \in DOMAIN settling : Holds(ledger, settling[i])
                        /\ fenced => settling = actual
    BY DEF AnswerIsWhole, Holds
  <2>2. latest = <<>> /\ ~conflict /\ (fenced => settling = actual)
    BY <1>1, <2>1 DEF AnswerIInv, CompletesOnce
  <2>3. ASSUME Distinct(settling)
        PROVE  /\ Increasing(ledger)
               /\ \A i \in DOMAIN settling : Holds(ledger, settling[i])
    <3>1. Steady
      BY <2>3 DEF Distinct, Steady
    <3>2. Increasing(ledger)
      BY <1>1, <3>1 DEF AnswerIInv, SentInOrder
    <3>3. \A s : ~Holds(latest, s)
      BY <2>2 DEF Holds
    <3> QED
      BY <1>1, <2>2, <2>3, <3>2, <3>3 DEF AnswerIInv, NothingMissing
  <2> QED
    BY <2>2, <2>3
<1> QED
  BY <1>1, AnswerConsistent, PTL

-----------------------------------------------------------------------------
(* The browser turn                                                           *)

\* What is at stake in the submission of a message: until the turn takes it for sent
\* there is at most one, and whatever the page works on came of it.
SubmitIInv ==
  /\ page.messages = acked \/ page.messages = acked + 1
  /\ page.phase \in {"thinking", "writing", "calling", "resuming"} => page.messages = acked + 1
  /\ page.phase \in {"calling", "resuming"} => LastMessage /\ asked.tools
  /\ progress.batches > 0 => LastMessage /\ page.messages = acked + 1
  /\ page.composer = "prompt" => page.messages = acked
  /\ step \in {"leasing", "paging", "preparing", "attaching"} => page.messages = acked
  /\ step \in {"binding", "staging", "observing"} => page.messages = acked + 1
  /\ step = "staging" => ~LastMessage

\* What connects the tool batches, the boundary, the fence and the snapshot: an action
\* that is shown while the broker is quiet is that of a finished answer, or of the text
\* that was there before the last tool.
ObserveIInv ==
  /\ tracker.seen = progress.observed /\ tracker.seen <= progress.batches
  /\ progress.active => page.phase = "calling"
  /\ ~progress.active => progress.observed = progress.batches
  /\ page.phase = "calling" /\ ~progress.active => progress.batches < MaxBatches
  /\ quietSince => page.phase # "calling"
  /\ ~missed /\ ((progress.active /\ progress.observed = progress.batches)
                 \/ page.phase = "resuming")
       => tracker.boundary = page.text
  /\ snap # NoSnap => step = "observing"
  /\ ~missed /\ snap.action /\ (quietSince \/ ~asked.tools)
       => \/ page.phase = "done" /\ snap.text = page.text
          \/ asked.tools /\ snap.text = tracker.boundary
  /\ outcome.status = "none" \/ step \in {"draining", "releasing", "ended"}

TurnIInv == TurnTypeOK /\ SubmitIInv /\ ObserveIInv /\ AnswerIsFinal

PageType == [composer : {"empty", "prompt"}, messages : Nat, phase : Phases, text : Texts]
ProgressType ==
  [batches : 0 .. MaxBatches, observed : 0 .. MaxBatches, active : BOOLEAN, stale : BOOLEAN]
TrackerType ==
  [seen : 0 .. MaxBatches, boundary : Texts \cup {NoText}, candidate : Texts \cup {NoText},
   fence : BOOLEAN]
SnapType == [present : BOOLEAN, text : Texts \cup {NoText}, action : BOOLEAN]
AttachType == [triggers : 0 .. MaxTriggers, refresh : BOOLEAN, retry : BOOLEAN]
BudgetType == [rebinds : 0 .. MaxRebinds, faults : 0 .. MaxFaults]

RestType ==
  /\ asked \in TurnKinds /\ reused \in BOOLEAN /\ step \in Steps
  /\ acked \in 0 .. asked.stages /\ quietSince \in BOOLEAN
  /\ aborted \in {"no", "client", "handoff"}
  /\ outcome \in [status : {"none", "completed", "failed", "aborted", "handoff"},
                  answer : Texts \cup {NoText}]
  /\ receipts \in Nat /\ lease \in {"none", "held", "released"} /\ missed \in BOOLEAN

\* The bounds are natural numbers.
LEMMA TurnBounds ==
  /\ MaxText \in Nat /\ MaxBatches \in Nat /\ MaxRebinds \in Nat /\ MaxFaults \in Nat
  /\ MaxTriggers \in Nat
BY TurnShapes

\* Which steps change page.
LEMMA PageMoves ==
  ASSUME TurnNext
  PROVE  \/ page' = page
         \/ Insert
         \/ Verify
         \/ PressSend
         \/ SubmitsItself
         \/ Writes
         \/ FinishesAnswer
         \/ CallsTool
         \/ ToolAnswered
BY DEF TurnNext, WorkerStep, Lease, AcquirePage, Prepare, TriggerFails, RefreshCatalog, Insert,
  Verify, AttachFiles,
       PressSend, Accept, Bind, StageAcknowledged, Look, DomVerdict, ProbeStalls, InternalFault,
       Judge, StageFails, LoopFails, NoticeAbort, Drain, Release, AbortTurn, SubmitsItself,
       Writes, FinishesAnswer, CallsTool, BatchRecorded, ToolAnswered, GoesStale, TurnFails,
       EndsWith, Goes, Acknowledges, environment, answering, worker

\* Which steps change progress.
LEMMA ProgressMoves ==
  ASSUME TurnNext
  PROVE  \/ progress' = progress
         \/ Accept
         \/ Bind
         \/ \E running \in BOOLEAN : Judge(running)
         \/ BatchRecorded
         \/ ToolAnswered
         \/ GoesStale
BY DEF TurnNext, WorkerStep, Lease, AcquirePage, Prepare, TriggerFails, RefreshCatalog, Insert,
  Verify, AttachFiles,
       PressSend, Accept, Bind, StageAcknowledged, Look, DomVerdict, ProbeStalls, InternalFault,
       Judge, StageFails, LoopFails, NoticeAbort, Drain, Release, AbortTurn, SubmitsItself,
       Writes, FinishesAnswer, CallsTool, BatchRecorded, ToolAnswered, GoesStale, TurnFails,
       EndsWith, Goes, Acknowledges, environment, answering, worker

\* Which steps change tracker.
LEMMA TrackerMoves ==
  ASSUME TurnNext
  PROVE  \/ tracker' = tracker
         \/ Accept
         \/ Bind
         \/ \E running \in BOOLEAN : Judge(running)
BY DEF TurnNext, WorkerStep, Lease, AcquirePage, Prepare, TriggerFails, RefreshCatalog, Insert,
  Verify, AttachFiles,
       PressSend, Accept, Bind, StageAcknowledged, Look, DomVerdict, ProbeStalls, InternalFault,
       Judge, StageFails, LoopFails, NoticeAbort, Drain, Release, AbortTurn, SubmitsItself,
       Writes, FinishesAnswer, CallsTool, BatchRecorded, ToolAnswered, GoesStale, TurnFails,
       EndsWith, Goes, Acknowledges, environment, answering, worker

\* Which steps change snap.
LEMMA SnapMoves ==
  ASSUME TurnNext
  PROVE  \/ snap' = snap
         \/ Look
         \/ \E running \in BOOLEAN : Judge(running)
         \/ DomVerdict
BY DEF TurnNext, WorkerStep, Lease, AcquirePage, Prepare, TriggerFails, RefreshCatalog, Insert,
  Verify, AttachFiles,
       PressSend, Accept, Bind, StageAcknowledged, Look, DomVerdict, ProbeStalls, InternalFault,
       Judge, StageFails, LoopFails, NoticeAbort, Drain, Release, AbortTurn, SubmitsItself,
       Writes, FinishesAnswer, CallsTool, BatchRecorded, ToolAnswered, GoesStale, TurnFails,
       EndsWith, Goes, Acknowledges, environment, answering, worker

\* Which steps change attach.
LEMMA AttachMoves ==
  ASSUME TurnNext
  PROVE  \/ attach' = attach
         \/ Prepare
         \/ TriggerFails
         \/ RefreshCatalog
         \/ Verify
BY DEF TurnNext, WorkerStep, Lease, AcquirePage, Prepare, TriggerFails, RefreshCatalog, Insert,
  Verify, AttachFiles,
       PressSend, Accept, Bind, StageAcknowledged, Look, DomVerdict, ProbeStalls, InternalFault,
       Judge, StageFails, LoopFails, NoticeAbort, Drain, Release, AbortTurn, SubmitsItself,
       Writes, FinishesAnswer, CallsTool, BatchRecorded, ToolAnswered, GoesStale, TurnFails,
       EndsWith, Goes, Acknowledges, environment, answering, worker

\* Which steps change budget.
LEMMA BudgetMoves ==
  ASSUME TurnNext
  PROVE  \/ budget' = budget
         \/ Accept
         \/ Bind
         \/ Look
         \/ ProbeStalls
         \/ InternalFault
BY DEF TurnNext, WorkerStep, Lease, AcquirePage, Prepare, TriggerFails, RefreshCatalog, Insert,
  Verify, AttachFiles,
       PressSend, Accept, Bind, StageAcknowledged, Look, DomVerdict, ProbeStalls, InternalFault,
       Judge, StageFails, LoopFails, NoticeAbort, Drain, Release, AbortTurn, SubmitsItself,
       Writes, FinishesAnswer, CallsTool, BatchRecorded, ToolAnswered, GoesStale, TurnFails,
       EndsWith, Goes, Acknowledges, environment, answering, worker

\* The page keeps its type.
LEMMA PageTyped ==
  ASSUME page \in PageType, TurnNext
  PROVE  page' \in PageType
<1>0. 0 \in Texts /\ page.messages + 1 \in Nat
  BY TurnBounds DEF PageType, Texts
<1>1. CASE page' = page
  BY <1>1
<1>2. CASE Insert \/ Verify \/ FinishesAnswer
  BY <1>2 DEF Insert, Verify, FinishesAnswer, PageType, Phases
<1>3. CASE PressSend \/ SubmitsItself
  BY <1>0, <1>3 DEF PressSend, SubmitsItself, PageType, Phases
<1>4. CASE Writes
  <2>1. page.text + 1 \in Texts
    BY <1>4, TurnBounds DEF PageType, Writes, Texts
  <2> QED
    BY <1>4, <2>1 DEF PageType, Writes, Phases
<1>5. CASE CallsTool \/ ToolAnswered
  BY <1>5 DEF CallsTool, ToolAnswered, PageType, Phases
<1> QED
  BY <1>1, <1>2, <1>3, <1>4, <1>5, PageMoves

\* The progress keeps its type: a call is answered before the next one comes.
LEMMA ProgressTyped ==
  ASSUME progress \in ProgressType, ObserveIInv, TurnNext
  PROVE  progress' \in ProgressType
<1>1. CASE progress' = progress
  BY <1>1
<1>2. CASE \/ Accept \/ Bind \/ ToolAnswered \/ GoesStale
           \/ \E running \in BOOLEAN : Judge(running)
  BY <1>2 DEF Accept, Bind, ToolAnswered, GoesStale, Judge, Acknowledges, ProgressType
<1>3. CASE BatchRecorded
  <2>1. progress.batches + 1 \in 0 .. MaxBatches
    BY <1>3, TurnBounds DEF BatchRecorded, ObserveIInv, ProgressType
  <2> QED
    BY <1>3, <2>1 DEF BatchRecorded, ProgressType
<1> QED
  BY <1>1, <1>2, <1>3, ProgressMoves

\* A boundary is a tracker.
LEMMA BoundaryTyped ==
  ASSUME tracker \in TrackerType, progress \in ProgressType, NEW text \in Texts \cup {NoText}
  PROVE  Boundary(text) \in TrackerType
<1>1. NoText \in Texts \cup {NoText}
  OBVIOUS
<1> QED
  BY <1>1 DEF Boundary, TrackerType, ProgressType

\* The tracker keeps its type.
LEMMA TrackerTyped ==
  ASSUME tracker \in TrackerType, progress \in ProgressType, snap \in SnapType,
         page \in PageType, TurnNext
  PROVE  tracker' \in TrackerType
<1>0. \A text \in Texts \cup {NoText} : Boundary(text) \in TrackerType
  BY BoundaryTyped
<1>1. CASE tracker' = tracker
  BY <1>1
<1>2. CASE Accept \/ Bind
  <2>1. Probed \subseteq Texts
    BY TurnBounds DEF Probed, PageType, Texts
  <2> QED
    BY <1>0, <1>2, <2>1 DEF Accept, Bind, Acknowledges
<1>3. ASSUME NEW running \in BOOLEAN, Judge(running)
      PROVE  tracker' \in TrackerType
  <2> DEFINE t == IF NewBatch THEN Boundary(snap.text) ELSE tracker
  <2>1. t \in TrackerType /\ Candidate(t, running) \in Texts \cup {NoText}
    BY <1>0 DEF SnapType, Candidate
  <2>2. \/ tracker' = t
        \/ tracker' = [t EXCEPT !.candidate = Candidate(t, running), !.fence = FALSE]
        \/ tracker' = [t EXCEPT !.fence = ~@ /\ Quiet]
    BY <1>3 DEF Judge
  <2> HIDE DEF t
  <2> QED
    BY <2>1, <2>2 DEF TrackerType, Quiet
<1> QED
  BY <1>1, <1>2, <1>3, TrackerMoves

\* The snapshot keeps its type.
LEMMA SnapTyped ==
  ASSUME snap \in SnapType, page \in PageType, TurnNext
  PROVE  snap' \in SnapType
<1>0. NoSnap \in SnapType /\ 0 \in Texts
  BY TurnBounds DEF NoSnap, SnapType, Texts
<1>1. CASE snap' = snap
  BY <1>1
<1>2. CASE DomVerdict \/ \E running \in BOOLEAN : Judge(running)
  BY <1>0, <1>2 DEF DomVerdict, Judge
<1>3. CASE Look
  <2>1. ActionVisible \subseteq BOOLEAN
    BY DEF ActionVisible
  <2>2. \/ snap' = [present |-> FALSE, text |-> 0, action |-> FALSE]
        \/ \E action \in BOOLEAN : snap' = [present |-> TRUE, text |-> page.text, action |-> action]
    BY <1>3, <2>1 DEF Look
  <2>3. CASE snap' = [present |-> FALSE, text |-> 0, action |-> FALSE]
    BY <1>0, <2>3 DEF SnapType
  <2>4. ASSUME NEW action \in BOOLEAN,
               snap' = [present |-> TRUE, text |-> page.text, action |-> action]
        PROVE  snap' \in SnapType
    <3>1. page.text \in Texts
      BY DEF PageType
    <3> QED
      BY <2>4, <3>1 DEF SnapType
  <2> QED
    BY <2>2, <2>3, <2>4
<1> QED
  BY <1>1, <1>2, <1>3, SnapMoves

\* What is left to try keeps its type.
LEMMA AttachTyped ==
  ASSUME attach \in AttachType, asked \in TurnKinds, TurnNext
  PROVE  attach' \in AttachType
<1>1. CASE attach' = attach
  BY <1>1
<1>2. CASE Prepare
  <2>1. 0 \in 0 .. MaxTriggers
    BY TurnBounds
  <2>2. (asked.compaction /\ LastMessage) \in BOOLEAN
        /\ (asked.tools /\ ~reused /\ asked.stages = 0) \in BOOLEAN
    BY TurnShapes DEF LastMessage
  <2> QED
    BY <1>2, <2>1, <2>2 DEF Prepare, AttachType
<1>3. CASE TriggerFails \/ RefreshCatalog
  <2>1. CASE attach.triggers + 1 < MaxTriggers
    <3>1. attach.triggers + 1 \in 0 .. MaxTriggers
      BY <2>1, TurnBounds DEF AttachType
    <3> QED
      BY <1>3, <3>1 DEF TriggerFails, RefreshCatalog, AttachType
  <2>2. CASE ~(attach.triggers + 1 < MaxTriggers)
    BY <1>3, <2>2, TurnBounds DEF TriggerFails, RefreshCatalog, AttachType
  <2> QED
    BY <2>1, <2>2
<1>4. CASE Verify
  BY <1>4 DEF Verify, AttachType
<1> QED
  BY <1>1, <1>2, <1>3, <1>4, AttachMoves

\* The budgets keep their type.
LEMMA BudgetTyped ==
  ASSUME budget \in BudgetType, TurnNext
  PROVE  budget' \in BudgetType
<1>0. 0 \in 0 .. MaxRebinds /\ 0 \in 0 .. MaxFaults
  BY TurnBounds
<1>1. CASE budget' = budget
  BY <1>1
<1>2. CASE Accept \/ Bind
  BY <1>0, <1>2 DEF Accept, Bind, BudgetType
<1>3. CASE Look
  BY <1>0, <1>3 DEF Look, BudgetType
<1>4. CASE ProbeStalls
  <2>1. budget.rebinds < MaxRebinds => budget.rebinds + 1 \in 0 .. MaxRebinds
    BY TurnBounds DEF BudgetType
  <2> QED
    BY <1>4, <2>1 DEF ProbeStalls, BudgetType
<1>5. CASE InternalFault
  <2>1. budget.faults < MaxFaults => budget.faults + 1 \in 0 .. MaxFaults
    BY TurnBounds DEF BudgetType
  <2> QED
    BY <1>5, <2>1 DEF InternalFault, BudgetType
<1> QED
  BY <1>1, <1>2, <1>3, <1>4, <1>5, BudgetMoves

\* The other variables keep their types.
LEMMA RestTyped ==
  ASSUME RestType, SubmitIInv, snap \in SnapType, TurnNext
  PROVE  RestType'
<1>1. CASE \E granted, retained \in BOOLEAN : Lease(granted, retained)
  BY TurnBounds, <1>1 DEF Lease, TurnFails, EndsWith, Goes, environment, answering, RestType,
    SubmitIInv, LastMessage, Steps
<1>2. CASE AcquirePage
  BY <1>2 DEF AcquirePage, TurnFails, EndsWith, Goes, environment, answering, RestType,
    SubmitIInv, LastMessage, Steps
<1>3. CASE Prepare
  BY <1>3 DEF Prepare, TurnFails, EndsWith, Goes, environment, answering, RestType, SubmitIInv,
    LastMessage, Steps
<1>4. CASE TriggerFails
  BY <1>4 DEF TriggerFails, TurnFails, EndsWith, Goes, environment, answering, RestType,
    SubmitIInv, LastMessage, Steps
<1>5. CASE RefreshCatalog
  BY <1>5 DEF RefreshCatalog, TurnFails, EndsWith, Goes, environment, answering, RestType,
    SubmitIInv, LastMessage, Steps
<1>6. CASE Insert
  BY <1>6 DEF Insert, TurnFails, EndsWith, Goes, environment, answering, RestType, SubmitIInv,
    LastMessage, Steps
<1>7. CASE Verify
  BY <1>7 DEF Verify, TurnFails, EndsWith, Goes, environment, answering, RestType, SubmitIInv,
    LastMessage, Steps
<1>8. CASE AttachFiles
  BY <1>8 DEF AttachFiles, TurnFails, EndsWith, Goes, environment, answering, RestType,
    SubmitIInv, LastMessage, Steps
<1>9. CASE PressSend
  BY <1>9 DEF PressSend, TurnFails, EndsWith, Goes, environment, answering, RestType, SubmitIInv,
    LastMessage, Steps
<1>10. CASE Accept
  <2>1. receipts' \in Nat
    BY <1>10 DEF Accept, RestType
  <2>2. PICK text \in Probed : Acknowledges(text)
    BY <1>10 DEF Accept
  <2>3. missed \in BOOLEAN /\ (missed \/ text # page.text) \in BOOLEAN
    BY DEF RestType
  <2>4. missed' \in BOOLEAN
    BY <2>2, <2>3 DEF Acknowledges
  <2> QED
    BY <1>10, <2>1, <2>4 DEF Accept, Goes, RestType, SubmitIInv, LastMessage, Steps
<1>11. CASE Bind
  BY <1>11 DEF Bind, Goes, Acknowledges, RestType, SubmitIInv, LastMessage, Steps
<1>12. CASE StageAcknowledged
  BY TurnShapes, <1>12 DEF StageAcknowledged, TurnFails, EndsWith, Goes, environment, answering,
    RestType, SubmitIInv, LastMessage, Steps
<1>13. CASE Look
  BY <1>13 DEF Look, TurnFails, EndsWith, Goes, environment, answering, RestType, SubmitIInv,
    LastMessage, Steps
<1>14. CASE DomVerdict
  BY <1>14 DEF DomVerdict, TurnFails, EndsWith, Goes, environment, answering, RestType,
    SubmitIInv, LastMessage, Steps
<1>15. CASE ProbeStalls
  BY <1>15 DEF ProbeStalls, TurnFails, EndsWith, Goes, environment, answering, RestType,
    SubmitIInv, LastMessage, Steps
<1>16. CASE InternalFault
  BY <1>16 DEF InternalFault, TurnFails, EndsWith, Goes, environment, answering, RestType,
    SubmitIInv, LastMessage, Steps
<1>17. CASE \E running \in BOOLEAN : Judge(running)
  <2>1. missed' \in BOOLEAN /\ quietSince' \in BOOLEAN
    BY <1>17 DEF Judge, Quiet, RestType
  <2>2. \/ UNCHANGED outcome /\ step' = step
        \/ /\ outcome' = [status |-> "completed", answer |-> snap.text]
           /\ step' = "draining"
    BY <1>17 DEF Judge, Goes, EndsWith
  <2>3. UNCHANGED <<asked, reused, acked, aborted, receipts, lease>>
    BY <1>17 DEF Judge
  <2> QED
    BY <2>1, <2>2, <2>3 DEF RestType, SnapType, Steps
<1>18. CASE StageFails
  BY <1>18 DEF StageFails, TurnFails, EndsWith, Goes, environment, answering, RestType,
    SubmitIInv, LastMessage, Steps
<1>19. CASE LoopFails
  BY <1>19 DEF LoopFails, TurnFails, EndsWith, Goes, environment, answering, RestType, SubmitIInv,
    LastMessage, Steps
<1>20. CASE NoticeAbort
  BY <1>20 DEF NoticeAbort, TurnFails, EndsWith, Goes, environment, answering, RestType,
    SubmitIInv, LastMessage, Steps
<1>21. CASE Drain
  BY <1>21 DEF Drain, TurnFails, EndsWith, Goes, environment, answering, RestType, SubmitIInv,
    LastMessage, Steps
<1>22. CASE \E reply \in {"ok", "cancelledByUser", "authenticationRequired",
"lost"} : Release(reply)
  BY <1>22 DEF Release, TurnFails, EndsWith, Goes, environment, answering, RestType, SubmitIInv,
    LastMessage, Steps
<1>23. CASE AbortTurn
  BY <1>23 DEF AbortTurn, TurnFails, EndsWith, Goes, environment, answering, RestType, SubmitIInv,
    LastMessage, Steps
<1>24. CASE SubmitsItself
  BY <1>24 DEF SubmitsItself, worker, RestType, SubmitIInv, LastMessage, Steps
<1>25. CASE Writes
  BY <1>25 DEF Writes, worker, RestType, SubmitIInv, LastMessage, Steps
<1>26. CASE FinishesAnswer
  BY <1>26 DEF FinishesAnswer, worker, RestType, SubmitIInv, LastMessage, Steps
<1>27. CASE CallsTool
  BY <1>27 DEF CallsTool, worker, RestType, SubmitIInv, LastMessage, Steps
<1>28. CASE BatchRecorded
  BY <1>28 DEF BatchRecorded, worker, RestType, SubmitIInv, LastMessage, Steps
<1>29. CASE ToolAnswered
  BY <1>29 DEF ToolAnswered, worker, RestType, SubmitIInv, LastMessage, Steps
<1>30. CASE GoesStale
  BY <1>30 DEF GoesStale, worker, RestType, SubmitIInv, LastMessage, Steps
<1> QED
  BY <1>1, <1>2, <1>3, <1>4, <1>5, <1>6, <1>7, <1>8, <1>9, <1>10, <1>11, <1>12, <1>13, <1>14,
    <1>15, <1>16, <1>17, <1>18, <1>19, <1>20, <1>21, <1>22, <1>23, <1>24, <1>25, <1>26, <1>27,
    <1>28, <1>29, <1>30 DEF TurnNext, WorkerStep

\* The turn's types are those of its variables.
LEMMA TurnTypes ==
  TurnTypeOK <=>
    /\ page \in PageType /\ progress \in ProgressType /\ tracker \in TrackerType
    /\ snap \in SnapType /\ attach \in AttachType /\ budget \in BudgetType /\ RestType
BY DEF TurnTypeOK, PageType, ProgressType, TrackerType, SnapType, AttachType, BudgetType, RestType

\* The turn keeps its types.
LEMMA TurnTyped ==
  ASSUME TurnTypeOK, SubmitIInv, ObserveIInv, TurnNext
  PROVE  TurnTypeOK'
<1>1. /\ page \in PageType /\ progress \in ProgressType /\ tracker \in TrackerType
      /\ snap \in SnapType /\ attach \in AttachType /\ budget \in BudgetType /\ RestType
  BY TurnTypes
<1>2. page' \in PageType /\ progress' \in ProgressType /\ tracker' \in TrackerType
  BY <1>1, PageTyped, ProgressTyped, TrackerTyped
<1>3. snap' \in SnapType /\ budget' \in BudgetType /\ RestType'
  BY <1>1, SnapTyped, BudgetTyped, RestTyped
<1>4. attach' \in AttachType
  BY <1>1, AttachTyped DEF RestType
<1> QED
  BY <1>2, <1>3, <1>4 DEF TurnTypeOK, PageType, ProgressType, TrackerType, SnapType, AttachType,
     BudgetType, RestType

\* At most one message of a stage is submitted.
LEMMA SubmitKept ==
  ASSUME TurnTypeOK, SubmitIInv, ObserveIInv, TurnNext
  PROVE  SubmitIInv'
<1>1. CASE \E granted, retained \in BOOLEAN : Lease(granted, retained)
  BY <1>1 DEF Lease, TurnFails, EndsWith, Goes, environment, answering, TurnTypeOK, SubmitIInv,
    ObserveIInv, LastMessage
<1>2. CASE AcquirePage
  BY <1>2 DEF AcquirePage, TurnFails, EndsWith, Goes, environment, answering, TurnTypeOK,
    SubmitIInv, ObserveIInv, LastMessage
<1>3. CASE Prepare
  BY <1>3 DEF Prepare, TurnFails, EndsWith, Goes, environment, answering, TurnTypeOK, SubmitIInv,
    ObserveIInv, LastMessage
<1>4. CASE TriggerFails
  BY <1>4 DEF TriggerFails, TurnFails, EndsWith, Goes, environment, answering, TurnTypeOK,
    SubmitIInv, ObserveIInv, LastMessage
<1>5. CASE RefreshCatalog
  BY <1>5 DEF RefreshCatalog, TurnFails, EndsWith, Goes, environment, answering, TurnTypeOK,
    SubmitIInv, ObserveIInv, LastMessage
<1>6. CASE Insert
  BY <1>6 DEF Insert, TurnFails, EndsWith, Goes, environment, answering, TurnTypeOK, SubmitIInv,
    ObserveIInv, LastMessage
<1>7. CASE Verify
  BY <1>7 DEF Verify, TurnFails, EndsWith, Goes, environment, answering, SafeToRetry, Evidence,
    TurnTypeOK, SubmitIInv, ObserveIInv, LastMessage
<1>8. CASE AttachFiles
  BY <1>8 DEF AttachFiles, TurnFails, EndsWith, Goes, environment, answering, TurnTypeOK,
    SubmitIInv, ObserveIInv, LastMessage
<1>9. CASE PressSend
  <2>1. /\ page.messages = acked /\ step = "sending" /\ page.composer = "prompt"
        /\ page.messages \in Nat
    BY <1>9 DEF PressSend, SubmitIInv, TurnTypeOK
  <2>2. step' = "accepting" /\ UNCHANGED <<asked, acked, progress>>
    BY <1>9 DEF PressSend, Goes
  <2>3. CASE UNCHANGED page
    BY <2>1, <2>2, <2>3 DEF SubmitIInv, LastMessage
  <2>4. CASE page' = [page EXCEPT !.composer = "empty", !.messages = @ + 1,
                                  !.phase = "thinking", !.text = 0]
    <3>1. /\ page'.composer = "empty" /\ page'.messages = acked + 1
          /\ page'.phase = "thinking"
      BY <2>1, <2>4 DEF TurnTypeOK
    <3> QED
      BY <2>1, <2>2, <3>1 DEF SubmitIInv, LastMessage
  <2> QED
    BY <1>9, <2>3, <2>4 DEF PressSend
<1>10. CASE Accept
  BY <1>10 DEF Accept, Goes, Acknowledges, Boundary, NewBatch, Evidence, Probed, TurnTypeOK,
    SubmitIInv, ObserveIInv, LastMessage
<1>11. CASE Bind
  BY <1>11 DEF Bind, Goes, Acknowledges, Boundary, NewBatch, Probed, TurnTypeOK, SubmitIInv,
    ObserveIInv, LastMessage
<1>12. CASE StageAcknowledged
  BY <1>12 DEF StageAcknowledged, TurnFails, EndsWith, Goes, environment, answering, TurnTypeOK,
    SubmitIInv, ObserveIInv, LastMessage
<1>13. CASE Look
  BY <1>13 DEF Look, TurnFails, EndsWith, Goes, environment, answering, TurnTypeOK, SubmitIInv,
    ObserveIInv, LastMessage
<1>14. CASE DomVerdict
  BY <1>14 DEF DomVerdict, TurnFails, EndsWith, Goes, environment, answering, TurnTypeOK,
    SubmitIInv, ObserveIInv, LastMessage
<1>15. CASE ProbeStalls
  BY <1>15 DEF ProbeStalls, TurnFails, EndsWith, Goes, environment, answering, TurnTypeOK,
    SubmitIInv, ObserveIInv, LastMessage
<1>16. CASE InternalFault
  BY <1>16 DEF InternalFault, TurnFails, EndsWith, Goes, environment, answering, TurnTypeOK,
    SubmitIInv, ObserveIInv, LastMessage
<1>17. CASE \E running \in BOOLEAN : Judge(running)
  BY <1>17 DEF Judge, Goes, EndsWith, Boundary, NewBatch, Settled, Candidate, Quiet, TurnTypeOK,
    SubmitIInv, ObserveIInv, LastMessage
<1>18. CASE StageFails
  BY <1>18 DEF StageFails, TurnFails, EndsWith, Goes, environment, answering, TurnTypeOK,
    SubmitIInv, ObserveIInv, LastMessage
<1>19. CASE LoopFails
  BY <1>19 DEF LoopFails, TurnFails, EndsWith, Goes, environment, answering, TurnTypeOK,
    SubmitIInv, ObserveIInv, LastMessage
<1>20. CASE NoticeAbort
  BY <1>20 DEF NoticeAbort, TurnFails, EndsWith, Goes, environment, answering, TurnTypeOK,
    SubmitIInv, ObserveIInv, LastMessage
<1>21. CASE Drain
  BY <1>21 DEF Drain, TurnFails, EndsWith, Goes, environment, answering, TurnTypeOK, SubmitIInv,
    ObserveIInv, LastMessage
<1>22. CASE \E reply \in {"ok", "cancelledByUser", "authenticationRequired",
"lost"} : Release(reply)
  BY <1>22 DEF Release, TurnFails, EndsWith, Goes, environment, answering, TurnTypeOK, SubmitIInv,
    ObserveIInv, LastMessage
<1>23. CASE AbortTurn
  BY <1>23 DEF AbortTurn, TurnFails, EndsWith, Goes, environment, answering, TurnTypeOK,
    SubmitIInv, ObserveIInv, LastMessage
<1>24. CASE SubmitsItself
  BY <1>24 DEF SubmitsItself, worker, TurnTypeOK, SubmitIInv, ObserveIInv, LastMessage
<1>25. CASE Writes
  BY <1>25 DEF Writes, worker, TurnTypeOK, SubmitIInv, ObserveIInv, LastMessage
<1>26. CASE FinishesAnswer
  BY <1>26 DEF FinishesAnswer, worker, TurnTypeOK, SubmitIInv, ObserveIInv, LastMessage
<1>27. CASE CallsTool
  BY <1>27 DEF CallsTool, worker, TurnTypeOK, SubmitIInv, ObserveIInv, LastMessage
<1>28. CASE BatchRecorded
  BY <1>28 DEF BatchRecorded, worker, TurnTypeOK, SubmitIInv, ObserveIInv, LastMessage
<1>29. CASE ToolAnswered
  BY <1>29 DEF ToolAnswered, worker, TurnTypeOK, SubmitIInv, ObserveIInv, LastMessage
<1>30. CASE GoesStale
  BY <1>30 DEF GoesStale, worker, TurnTypeOK, SubmitIInv, ObserveIInv, LastMessage
<1> QED
  BY <1>1, <1>2, <1>3, <1>4, <1>5, <1>6, <1>7, <1>8, <1>9, <1>10, <1>11, <1>12, <1>13, <1>14,
    <1>15, <1>16, <1>17, <1>18, <1>19, <1>20, <1>21, <1>22, <1>23, <1>24, <1>25, <1>26, <1>27,
    <1>28, <1>29, <1>30 DEF TurnNext, WorkerStep

\* What the acknowledgement of a batch changes, if there is one.
LEMMA Acknowledged ==
  ASSUME TurnTypeOK, NEW text, Acknowledges(text)
  PROVE  /\ NewBatch =>
              /\ tracker'.seen = progress.batches /\ tracker'.boundary = text
              /\ progress'.observed = progress.batches
              /\ progress'.batches = progress.batches /\ progress'.active = progress.active
              /\ ~missed' => ~missed /\ text = page.text
         /\ ~NewBatch => UNCHANGED <<tracker, progress, missed>>
<1>1. CASE NewBatch
  BY <1>1 DEF Acknowledges, Boundary, TurnTypeOK
<1>2. CASE ~NewBatch
  BY <1>2 DEF Acknowledges
<1> QED
  BY <1>1, <1>2

\* An acknowledgement of what the page shows keeps boundary and page together.
LEMMA AcknowledgeKept ==
  ASSUME TurnTypeOK, ObserveIInv, NEW text, Acknowledges(text), step # "observing",
         UNCHANGED <<page, quietSince, snap, asked>>, UNCHANGED outcome, outcome.status = "none"
  PROVE  ObserveIInv'
<1>1. snap = NoSnap /\ snap' = NoSnap
  BY DEF ObserveIInv
<1>2. CASE NewBatch
  <2>1. /\ tracker'.seen = progress.batches /\ tracker'.boundary = text
        /\ progress'.observed = progress.batches
        /\ progress'.batches = progress.batches /\ progress'.active = progress.active
        /\ ~missed' => ~missed /\ text = page.text
    BY <1>2, Acknowledged
  <2> QED
    BY <1>1, <2>1 DEF ObserveIInv, TurnTypeOK, NoSnap
<1>3. CASE ~NewBatch
  <2>1. UNCHANGED <<tracker, progress, missed>>
    BY <1>3, Acknowledged
  <2> QED
    BY <1>1, <2>1 DEF ObserveIInv, NoSnap
<1> QED
  BY <1>2, <1>3

\* The observation stays connected with the page.
LEMMA ObserveKept ==
  ASSUME TurnTypeOK, SubmitIInv, ObserveIInv, TurnNext
  PROVE  ObserveIInv'
<1>1. CASE \E granted, retained \in BOOLEAN : Lease(granted, retained)
  BY <1>1 DEF Lease, TurnFails, EndsWith, Goes, environment, answering, TurnTypeOK, SubmitIInv,
    ObserveIInv, NoSnap
<1>2. CASE AcquirePage
  BY <1>2 DEF AcquirePage, TurnFails, EndsWith, Goes, environment, answering, TurnTypeOK,
    SubmitIInv, ObserveIInv, NoSnap
<1>3. CASE Prepare
  BY <1>3 DEF Prepare, TurnFails, EndsWith, Goes, environment, answering, TurnTypeOK, SubmitIInv,
    ObserveIInv, NoSnap
<1>4. CASE TriggerFails
  BY <1>4 DEF TriggerFails, TurnFails, EndsWith, Goes, environment, answering, TurnTypeOK,
    SubmitIInv, ObserveIInv, NoSnap
<1>5. CASE RefreshCatalog
  BY <1>5 DEF RefreshCatalog, TurnFails, EndsWith, Goes, environment, answering, TurnTypeOK,
    SubmitIInv, ObserveIInv, NoSnap
<1>6. CASE Insert
  BY <1>6 DEF Insert, TurnFails, EndsWith, Goes, environment, answering, TurnTypeOK, SubmitIInv,
    ObserveIInv, NoSnap
<1>7. CASE Verify
  BY <1>7 DEF Verify, TurnFails, EndsWith, Goes, environment, answering, SafeToRetry, Evidence,
    TurnTypeOK, SubmitIInv, ObserveIInv, NoSnap
<1>8. CASE AttachFiles
  BY <1>8 DEF AttachFiles, TurnFails, EndsWith, Goes, environment, answering, TurnTypeOK,
    SubmitIInv, ObserveIInv, NoSnap
<1>9. CASE PressSend
  <2>1. /\ page.messages = acked /\ acked # acked + 1 /\ snap = NoSnap
        /\ step' = "accepting" /\ step = "sending"
    BY <1>9 DEF PressSend, Goes, SubmitIInv, ObserveIInv, TurnTypeOK
  <2>2. ~progress.active /\ page.phase \notin {"calling", "resuming"}
    BY <2>1 DEF SubmitIInv, ObserveIInv
  <2>3. UNCHANGED <<asked, progress, quietSince, tracker, snap, missed, outcome>>
    BY <1>9 DEF PressSend, Goes, answering
  <2>4. page'.phase \notin {"calling", "resuming"}
    BY <1>9, <2>2 DEF PressSend, TurnTypeOK
  <2> QED
    BY <2>1, <2>2, <2>3, <2>4 DEF ObserveIInv, NoSnap
<1>10. CASE Accept
  <2>1. PICK text \in Probed : Acknowledges(text)
    BY <1>10 DEF Accept
  <2>2. step # "observing" /\ outcome.status = "none"
    BY <1>10 DEF Accept, ObserveIInv
  <2> QED
    BY <1>10, <2>1, <2>2, AcknowledgeKept DEF Accept, Goes
<1>11. CASE Bind
  <2>1. PICK text \in Probed : Acknowledges(text)
    BY <1>11 DEF Bind
  <2>2. step # "observing" /\ outcome.status = "none"
    BY <1>11 DEF Bind, ObserveIInv
  <2> QED
    BY <1>11, <2>1, <2>2, AcknowledgeKept DEF Bind, Goes
<1>12. CASE StageAcknowledged
  BY <1>12 DEF StageAcknowledged, TurnFails, EndsWith, Goes, environment, answering, TurnTypeOK,
    SubmitIInv, ObserveIInv, NoSnap
<1>13. CASE Look
  <2>1. /\ step = "observing" /\ step' = step
        /\ UNCHANGED <<asked, page, progress, quietSince, tracker, missed, outcome>>
    BY <1>13 DEF Look, environment
  <2>2. ASSUME ~missed, snap'.action, quietSince \/ ~asked.tools
        PROVE  \/ page.phase = "done" /\ snap'.text = page.text
               \/ asked.tools /\ snap'.text = tracker.boundary
    <3>1. PICK action \in ActionVisible :
            snap' = [present |-> TRUE, text |-> page.text, action |-> action]
      BY <1>13, <2>2 DEF Look
    <3>2. action = TRUE /\ snap'.text = page.text
      BY <2>2, <3>1 DEF ActionVisible
    <3>3. page.phase \in {"done", "calling", "resuming"}
      BY <3>2 DEF ActionVisible
    <3> QED
      BY <2>2, <3>2, <3>3 DEF ObserveIInv, SubmitIInv
  <2> QED
    BY <2>1, <2>2 DEF ObserveIInv
<1>14. CASE DomVerdict
  BY <1>14 DEF DomVerdict, TurnFails, EndsWith, Goes, environment, answering, TurnTypeOK,
    SubmitIInv, ObserveIInv, NoSnap
<1>15. CASE ProbeStalls
  BY <1>15 DEF ProbeStalls, TurnFails, EndsWith, Goes, environment, answering, TurnTypeOK,
    SubmitIInv, ObserveIInv, NoSnap
<1>16. CASE InternalFault
  BY <1>16 DEF InternalFault, TurnFails, EndsWith, Goes, environment, answering, TurnTypeOK,
    SubmitIInv, ObserveIInv, NoSnap
<1>17. CASE \E running \in BOOLEAN : Judge(running)
  <2>1. PICK running \in BOOLEAN : Judge(running)
    BY <1>17
  <2> DEFINE t == IF NewBatch THEN Boundary(snap.text) ELSE tracker
  <2>2. /\ step = "observing" /\ step' \in {"observing", "draining"} /\ snap' = NoSnap
        /\ step' = "observing" => UNCHANGED outcome
        /\ UNCHANGED <<asked, page>>
    BY <2>1 DEF Judge, Goes, EndsWith
  <2>3. \/ tracker' = t
        \/ tracker' = [t EXCEPT !.candidate = Candidate(t, running), !.fence = FALSE]
        \/ tracker' = [t EXCEPT !.fence = ~@ /\ Quiet]
    BY <2>1 DEF Judge
  <2>4. /\ t.seen = IF NewBatch THEN progress.batches ELSE tracker.seen
        /\ t.boundary = IF NewBatch THEN snap.text ELSE tracker.boundary
        /\ "seen" \in DOMAIN t /\ "boundary" \in DOMAIN t
    BY DEF Boundary, TurnTypeOK
  <2> HIDE DEF t
  <2>5. tracker'.seen = t.seen /\ tracker'.boundary = t.boundary
    BY <2>3, <2>4
  <2>6. quietSince' => quietSince \/ page.phase # "calling"
    BY <2>1 DEF Judge, Quiet
  <2>7. /\ progress'.batches = progress.batches /\ progress'.active = progress.active
        /\ progress'.observed = IF NewBatch THEN progress.batches ELSE progress.observed
    BY <2>1 DEF Judge, TurnTypeOK
  <2>8. ~missed' => ~missed /\ (NewBatch => snap.text = page.text)
    BY <2>1 DEF Judge
  <2>9. snap'.action = FALSE
    BY <2>2 DEF NoSnap
  <2> HIDE DEF NewBatch
  <2> QED
    BY <2>2, <2>4, <2>5, <2>6, <2>7, <2>8, <2>9 DEF ObserveIInv, TurnTypeOK
<1>18. CASE StageFails
  BY <1>18 DEF StageFails, TurnFails, EndsWith, Goes, environment, answering, TurnTypeOK,
    SubmitIInv, ObserveIInv, NoSnap
<1>19. CASE LoopFails
  BY <1>19 DEF LoopFails, TurnFails, EndsWith, Goes, environment, answering, TurnTypeOK,
    SubmitIInv, ObserveIInv, NoSnap
<1>20. CASE NoticeAbort
  BY <1>20 DEF NoticeAbort, TurnFails, EndsWith, Goes, environment, answering, TurnTypeOK,
    SubmitIInv, ObserveIInv, NoSnap
<1>21. CASE Drain
  BY <1>21 DEF Drain, TurnFails, EndsWith, Goes, environment, answering, TurnTypeOK, SubmitIInv,
    ObserveIInv, NoSnap
<1>22. CASE \E reply \in {"ok", "cancelledByUser", "authenticationRequired",
"lost"} : Release(reply)
  BY <1>22 DEF Release, TurnFails, EndsWith, Goes, environment, answering, TurnTypeOK, SubmitIInv,
    ObserveIInv, NoSnap
<1>23. CASE AbortTurn
  BY <1>23 DEF AbortTurn, TurnFails, EndsWith, Goes, environment, answering, TurnTypeOK,
    SubmitIInv, ObserveIInv, NoSnap
<1>24. CASE SubmitsItself
  BY <1>24 DEF SubmitsItself, worker, TurnTypeOK, SubmitIInv, ObserveIInv, NoSnap
<1>25. CASE Writes
  BY <1>25 DEF Writes, worker, TurnTypeOK, SubmitIInv, ObserveIInv, NoSnap
<1>26. CASE FinishesAnswer
  BY <1>26 DEF FinishesAnswer, worker, TurnTypeOK, SubmitIInv, ObserveIInv, NoSnap
<1>27. CASE CallsTool
  BY <1>27 DEF CallsTool, worker, TurnTypeOK, SubmitIInv, ObserveIInv, NoSnap
<1>28. CASE BatchRecorded
  BY <1>28 DEF BatchRecorded, worker, TurnTypeOK, SubmitIInv, ObserveIInv, NoSnap
<1>29. CASE ToolAnswered
  BY <1>29 DEF ToolAnswered, worker, TurnTypeOK, SubmitIInv, ObserveIInv, NoSnap
<1>30. CASE GoesStale
  BY <1>30 DEF GoesStale, worker, TurnTypeOK, SubmitIInv, ObserveIInv, NoSnap
<1> QED
  BY <1>1, <1>2, <1>3, <1>4, <1>5, <1>6, <1>7, <1>8, <1>9, <1>10, <1>11, <1>12, <1>13, <1>14,
    <1>15, <1>16, <1>17, <1>18, <1>19, <1>20, <1>21, <1>22, <1>23, <1>24, <1>25, <1>26, <1>27,
    <1>28, <1>29, <1>30 DEF TurnNext, WorkerStep

\* Only a judgement completes a turn; a boundary once missed stays missed.
LEMMA OutcomeMoves ==
  ASSUME TurnNext
  PROVE  /\ \/ outcome' = outcome
            \/ outcome'.status # "completed"
            \/ \E running \in BOOLEAN : Judge(running)
         /\ missed => missed'
<1>1. CASE \E granted, retained \in BOOLEAN : Lease(granted, retained)
  BY <1>1 DEF Lease, TurnFails, EndsWith, Goes, answering
<1>2. CASE AcquirePage
  BY <1>2 DEF AcquirePage, TurnFails, EndsWith, Goes, answering
<1>3. CASE Prepare
  BY <1>3 DEF Prepare, TurnFails, EndsWith, Goes, answering
<1>4. CASE TriggerFails
  BY <1>4 DEF TriggerFails, TurnFails, EndsWith, Goes, answering
<1>5. CASE RefreshCatalog
  BY <1>5 DEF RefreshCatalog, TurnFails, EndsWith, Goes, answering
<1>6. CASE Insert
  BY <1>6 DEF Insert, TurnFails, EndsWith, Goes, answering
<1>7. CASE Verify
  BY <1>7 DEF Verify, TurnFails, EndsWith, Goes, answering
<1>8. CASE AttachFiles
  BY <1>8 DEF AttachFiles, TurnFails, EndsWith, Goes, answering
<1>9. CASE PressSend
  BY <1>9 DEF PressSend, TurnFails, EndsWith, Goes, answering
<1>10. CASE Accept
  BY <1>10 DEF Accept, Goes, Acknowledges
<1>11. CASE Bind
  BY <1>11 DEF Bind, Goes, Acknowledges
<1>12. CASE StageAcknowledged
  BY <1>12 DEF StageAcknowledged, TurnFails, EndsWith, Goes, answering
<1>13. CASE Look
  BY <1>13 DEF Look, TurnFails, EndsWith, Goes, answering
<1>14. CASE DomVerdict
  BY <1>14 DEF DomVerdict, TurnFails, EndsWith, Goes, answering
<1>15. CASE ProbeStalls
  BY <1>15 DEF ProbeStalls, TurnFails, EndsWith, Goes, answering
<1>16. CASE InternalFault
  BY <1>16 DEF InternalFault, TurnFails, EndsWith, Goes, answering
<1>17. CASE \E running \in BOOLEAN : Judge(running)
  BY <1>17 DEF Judge, TurnFails, EndsWith, Goes, answering
<1>18. CASE StageFails
  BY <1>18 DEF StageFails, TurnFails, EndsWith, Goes, answering
<1>19. CASE LoopFails
  BY <1>19 DEF LoopFails, TurnFails, EndsWith, Goes, answering
<1>20. CASE NoticeAbort
  BY <1>20 DEF NoticeAbort, TurnFails, EndsWith, Goes, answering
<1>21. CASE Drain
  BY <1>21 DEF Drain, TurnFails, EndsWith, Goes, answering
<1>22. CASE \E reply \in {"ok", "cancelledByUser", "authenticationRequired",
"lost"} : Release(reply)
  BY <1>22 DEF Release, TurnFails, EndsWith, Goes, answering
<1>23. CASE AbortTurn
  BY <1>23 DEF AbortTurn, TurnFails, EndsWith, Goes, answering
<1>24. CASE SubmitsItself
  BY <1>24 DEF SubmitsItself, worker
<1>25. CASE Writes
  BY <1>25 DEF Writes, worker
<1>26. CASE FinishesAnswer
  BY <1>26 DEF FinishesAnswer, worker
<1>27. CASE CallsTool
  BY <1>27 DEF CallsTool, worker
<1>28. CASE BatchRecorded
  BY <1>28 DEF BatchRecorded, worker
<1>29. CASE ToolAnswered
  BY <1>29 DEF ToolAnswered, worker
<1>30. CASE GoesStale
  BY <1>30 DEF GoesStale, worker
<1> QED
  BY <1>1, <1>2, <1>3, <1>4, <1>5, <1>6, <1>7, <1>8, <1>9, <1>10, <1>11, <1>12, <1>13, <1>14,
    <1>15, <1>16, <1>17, <1>18, <1>19, <1>20, <1>21, <1>22, <1>23, <1>24, <1>25, <1>26, <1>27,
    <1>28, <1>29, <1>30 DEF TurnNext, WorkerStep

\* A settled answer, with nothing outstanding and no boundary in its way, is final.
LEMMA JudgedIsFinal ==
  ASSUME TurnTypeOK, ObserveIInv, NEW running \in BOOLEAN, Judge(running),
         outcome'.status = "completed"
  PROVE  missed' \/ (page'.phase = "done" /\ outcome'.answer = page'.text)
<1> DEFINE t == IF NewBatch THEN Boundary(snap.text) ELSE tracker
<1>1. /\ outcome.status = "none" /\ UNCHANGED page
      /\ missed' = (missed \/ (NewBatch /\ snap.text # page.text))
  BY DEF Judge, ObserveIInv
<1>2. /\ Settled(t, running) /\ outcome'.answer = snap.text
      /\ ~asked.tools \/ quietSince
  BY <1>1 DEF Judge, Goes, EndsWith
<1>3. /\ ~progress.active /\ t.boundary # snap.text /\ Complete(running)
  BY <1>2 DEF Settled, Candidate
<1>4. ~NewBatch
  BY <1>3 DEF NewBatch, ObserveIInv, TurnTypeOK
<1>5. tracker.boundary # snap.text /\ snap.action
  BY <1>3, <1>4 DEF Complete
<1> QED
  BY <1>1, <1>2, <1>4, <1>5 DEF ObserveIInv

\* The answer of a turn stays final.
LEMMA AnswerKept ==
  ASSUME TurnIInv, TurnNext
  PROVE  AnswerIsFinal'
<1> USE DEF TurnIInv
<1> SUFFICES ASSUME outcome'.status = "completed", ~missed'
             PROVE  page'.phase = "done" /\ outcome'.answer = page'.text
  BY DEF AnswerIsFinal
<1>1. CASE \E running \in BOOLEAN : Judge(running)
  BY <1>1, JudgedIsFinal
<1>2. CASE outcome' = outcome
  <2>1. page.phase = "done" /\ outcome.answer = page.text
    BY <1>2, OutcomeMoves DEF AnswerIsFinal
  <2>2. step \in {"draining", "releasing", "ended"} /\ ~progress.active
    BY <1>2, <2>1 DEF ObserveIInv
  <2>3. page' = page
    BY <2>1, <2>2, PageMoves DEF Insert, Verify, PressSend, SubmitsItself, Writes,
       FinishesAnswer, CallsTool, ToolAnswered
  <2> QED
    BY <1>2, <2>1, <2>3
<1> QED
  BY <1>1, <1>2, OutcomeMoves

\* The inductive invariant of a browser turn: what it has submitted, what it has
\* observed of the tools, and what it may still take for the end of the answer agree.
THEOREM TurnConsistent == TurnSpec => []TurnIInv
<1>1. TurnInit => TurnIInv
  <2> SUFFICES ASSUME TurnInit PROVE TurnIInv
    OBVIOUS
  <2>1. asked.stages \in Nat /\ 0 \in 0 .. asked.stages
    BY TurnShapes DEF TurnInit
  <2>2. page \in PageType /\ attach \in AttachType
    BY TurnBounds DEF TurnInit, PageType, AttachType, Phases, Texts
  <2>3. progress \in ProgressType /\ budget \in BudgetType
    BY TurnBounds DEF TurnInit, ProgressType, BudgetType
  <2>4. tracker \in TrackerType /\ snap \in SnapType
    BY TurnBounds DEF TurnInit, TrackerType, SnapType, NoSnap, NoText
  <2>5. RestType
    BY <2>1 DEF TurnInit, RestType, Steps
  <2>6. TurnTypeOK
    BY <2>2, <2>3, <2>4, <2>5, TurnTypes
  <2>7. SubmitIInv /\ AnswerIsFinal
    BY <2>1, TurnBounds DEF TurnInit, SubmitIInv, AnswerIsFinal, LastMessage
  <2>8. ObserveIInv
    BY TurnBounds DEF TurnInit, ObserveIInv, NoSnap
  <2> QED
    BY <2>6, <2>7, <2>8 DEF TurnIInv
<1>2. TurnIInv /\ [TurnNext]_turnVars => TurnIInv'
  <2> SUFFICES ASSUME TurnIInv, [TurnNext]_turnVars PROVE TurnIInv'
    OBVIOUS
  <2>1. CASE TurnNext
    <3>1. TurnTypeOK' /\ SubmitIInv' /\ ObserveIInv'
      BY <2>1, TurnTyped, SubmitKept, ObserveKept DEF TurnIInv
    <3> QED
      BY <2>1, <3>1, AnswerKept DEF TurnIInv
  <2>2. CASE UNCHANGED turnVars
    BY <2>2 DEF turnVars, TurnIInv, TurnTypeOK, SubmitIInv, ObserveIInv, AnswerIsFinal,
       LastMessage
  <2> QED
    BY <2>1, <2>2
<1> QED
  BY <1>1, <1>2, PTL DEF TurnSpec

\* A message is submitted at most once, whatever fails, is retried or goes by itself.
THEOREM SubmitsOnce == TurnSpec => []NoSecondSubmission
<1>1. TurnIInv => NoSecondSubmission
  BY DEF TurnIInv, SubmitIInv, NoSecondSubmission, TurnTypeOK
<1> QED
  BY <1>1, TurnConsistent, PTL

\* The answer of a completed turn is the finished text of the page.
THEOREM AnswersAreFinal == TurnSpec => []AnswerIsFinal
<1>1. TurnIInv => AnswerIsFinal
  BY DEF TurnIInv
<1> QED
  BY <1>1, TurnConsistent, PTL

-----------------------------------------------------------------------------
(* The composer                                                               *)

\* The composer holds nothing of a failed attachment.
Clean == ui.draft \in {"empty", "left"} /\ ui.pill \in {"none", "left"}

Selected == {"attaching", "access", "toggling", "proving", "restoring", "mentioning",
             "activating", "inserting", "verifying", "filing", "sending"}

\* What the worker relies on when it presses Send.
MessageIInv ==
  /\ at \notin {"start", "over"} => WithinLimits
  /\ at \in {"sliding", "confirming"} => ~task.luna
  /\ at # "over" => piece \in 0 .. task.stages
  /\ at = "acknowledging" =>
       ~task.luna /\ piece > 0 /\ chosen.label = EffortOf(piece - 1) /\ ~IsFinal(piece - 1)
  /\ at \in Selected =>
       IF task.luna THEN ui.think => Think ELSE chosen.label = EffortOf(piece)
  /\ at = "filing" => IsFinal(piece)
  /\ at \in {"inserting", "verifying", "filing", "sending"} /\ Mentions(piece) =>
       ui.pill # "none"
  /\ at \in {"verifying", "filing", "sending"} /\ task.luna => ui.think = Think
  /\ at \in {"filing", "sending"} => ui.draft = "prompt"

\* What it leaves behind.
RestoredIInv ==
  /\ at \in {"start", "surface", "selecting", "sliding", "confirming", "acknowledging",
             "attaching", "access", "toggling", "proving"} => Clean
  /\ at = "over" \/ at = "restoring" => (raised \in {"plain", "integrity"} => Clean)
  /\ at \notin {"over", "restoring"} => raised = "none"
  /\ at \in {"proving", "restoring"} => receipt # NoReceipt
  /\ at \in {"toggling", "proving", "restoring"} \/ receipt # NoReceipt => ~site.labelled
  /\ at \notin {"proving", "restoring"} /\ raised # "persistent" /\ receipt # NoReceipt
       /\ ~proven => ui.choice = receipt

ComposerIInv == ComposerTypeOK /\ MessageIInv /\ RestoredIInv /\ SendsAsMeant

\* The page as the worker knows it.
UiType ==
  [draft : {"empty", "left", "mention", "prompt", "mangled"}, pill : {"none", "left", "set"},
   think : BOOLEAN, choice : {0, 1}, effort : Efforts, family : Families, chat : {0, 1}]
SiteType ==
  [labelled : BOOLEAN, granting : {0, 1}, listed : BOOLEAN, picker : BOOLEAN, pro : BOOLEAN,
   latest : {"6", "newer"}]
TriesType == [mentions : 0 .. MaxMentions, refresh : BOOLEAN, retry : BOOLEAN]

\* Clearing empties the composer and leaves the rest.
LEMMA ClearedUi ==
  ASSUME NEW u \in UiType
  PROVE  /\ Cleared(u) \in UiType
         /\ Cleared(u).draft = "empty" /\ Cleared(u).pill = "none"
         /\ Cleared(u).think = u.think /\ Cleared(u).choice = u.choice
         /\ Cleared(u).effort = u.effort /\ Cleared(u).family = u.family
         /\ Cleared(u).chat = u.chat
BY DEF Cleared, UiType

\* Rendering loses the selection at most.
LEMMA RenderedUi ==
  ASSUME NEW u \in UiType, NEW v \in Rendered(u)
  PROVE  /\ v \in UiType
         /\ v.draft = u.draft /\ v.pill = u.pill /\ v.think = u.think
         /\ v.choice = u.choice /\ v.chat = u.chat
<1>1. PICK effort \in {u.effort, Fallback.effort}, family \in {u.family, Fallback.family} :
        v = [u EXCEPT !.effort = effort, !.family = family]
  BY DEF Rendered
<1>2. effort \in Efforts /\ family \in Families
  BY TaskShapes DEF UiType
<1> QED
  BY <1>1, <1>2 DEF UiType

\* Which steps leave the page alone.
LEMMA UiMoves ==
  ASSUME ComposerNext
  PROVE  \/ ui' = ui
         \/ PrepareSurface \/ SelectLuna \/ OpenSlider \/ CloseSlider \/ AccessByLabel
         \/ ProofFound \/ ProofMissing \/ ProofFails \/ Toggle \/ Restore \/ Mention
         \/ MentionFails \/ CatalogStale \/ Activate \/ SetThink \/ InsertPrompt
         \/ VerifyPrompt \/ UploadFiles \/ Send \/ Acknowledge \/ AddressShows
BY DEF ComposerNext, Begin, Slide, ConfirmSelection, StageExpires, Attach, PillIsThere, shown

\* The page keeps its type.
LEMMA UiTyped ==
  ASSUME ui \in UiType, task \in Tasks, site \in SiteType, slot \in Efforts,
         receipt \in {NoReceipt, 0, 1}, RestoredIInv, ComposerNext
  PROVE  ui' \in UiType
<1>0. /\ \A u \in UiType : Cleared(u) \in UiType /\ Rendered(u) \subseteq UiType
      /\ Cleared(ui) \in UiType /\ Rendered(ui) \subseteq UiType
  BY ClearedUi, RenderedUi
<1>1. CASE ui' = ui
  BY <1>1
<1>2. CASE PrepareSurface \/ UploadFiles
  BY <1>0, <1>2 DEF PrepareSurface, UploadFiles, shown
<1>3. CASE SelectLuna
  <2>1. /\ [ui EXCEPT !.think = FALSE] \in UiType /\ [ui EXCEPT !.draft = "mangled"] \in UiType
        /\ [ui EXCEPT !.think = @ /\ Think] \in UiType
    BY DEF UiType
  <2> QED
    BY <1>3, <2>1 DEF SelectLuna
<1>4. CASE OpenSlider
  <2>1. WithFamily(ui) \in UiType
    BY TaskShapes DEF WithFamily, UiType, Families
  <2> QED
    BY <1>4, <2>1 DEF OpenSlider
<1>5. CASE CloseSlider
  BY <1>5 DEF CloseSlider, UiType
<1>6. CASE AccessByLabel
  BY <1>6 DEF AccessByLabel, UiType, SiteType
<1>7. CASE ProofFound \/ ProofMissing
  BY <1>0, <1>7 DEF ProofFound, ProofMissing
<1>8. CASE ProofFails
  BY <1>0, <1>8 DEF ProofFails, UiType
<1>9. CASE Toggle
  BY <1>9 DEF Toggle, UiType
<1>10. CASE Restore
  BY <1>10 DEF Restore, PutBack, RestoredIInv, NoReceipt, UiType
<1>11. CASE Mention
  BY <1>11 DEF Mention, UiType
<1>12. CASE MentionFails \/ VerifyPrompt \/ CatalogStale
  BY <1>0, <1>12 DEF MentionFails, VerifyPrompt, CatalogStale, ClearsAfter
<1>13. CASE Activate
  <2>1. [ui EXCEPT !.draft = "empty", !.pill = "set"] \in UiType
    BY DEF UiType
  <2> QED
    BY <1>0, <1>13, <2>1 DEF Activate
<1>14. CASE SetThink
  <2>1. \A u \in UiType : [u EXCEPT !.think = TRUE] \in UiType
    BY DEF UiType
  <2> QED
    BY <1>0, <1>14, <2>1 DEF SetThink, ClearsAfter, Readied
<1>15. CASE InsertPrompt
  <2>1. \A text \in {"prompt", "mangled"} : [Readied(ui) EXCEPT !.draft = text] \in UiType
    <3>1. Readied(ui) \in UiType
      BY <1>0 DEF Readied
    <3> QED
      BY <3>1 DEF UiType
  <2> QED
    BY <1>0, <1>15, <2>1 DEF InsertPrompt, ClearsAfter
<1>16. CASE Send
  BY <1>0, <1>16 DEF Send
<1>17. CASE Acknowledge
  <2>1. \A chat \in {ui.chat, 1} : [ui EXCEPT !.chat = chat] \in UiType
    BY DEF UiType
  <2> QED
    BY <1>0, <1>17, <2>1 DEF Acknowledge
<1>18. CASE AddressShows
  BY <1>18 DEF AddressShows, UiType
<1> QED
  BY <1>1, <1>2, <1>3, <1>4, <1>5, <1>6, <1>7, <1>8, <1>9, <1>10, <1>11, <1>12, <1>13, <1>14,
     <1>15, <1>16, <1>17, <1>18, UiMoves

\* What is left to try keeps its type.
LEMMA TriesTyped ==
  ASSUME tries \in TriesType, task \in Tasks, ComposerNext
  PROVE  tries' \in TriesType
<1>1. CASE tries' = tries \/ tries' = [tries EXCEPT !.retry = FALSE]
           \/ tries' = [tries EXCEPT !.refresh = FALSE]
  BY <1>1 DEF TriesType
<1>2. CASE Begin
  <2>1. Mentions(0) \in BOOLEAN /\ task.compaction \in BOOLEAN
    BY TaskShapes DEF Mentions, IsFinal
  <2> QED
    BY <1>2, <2>1 DEF Begin, TriesType
<1>3. CASE Mention
  <2>1. tries.mentions - 1 \in 0 .. MaxMentions
    BY <1>3, TaskShapes DEF Mention, TriesType
  <2> QED
    BY <1>3, <2>1 DEF Mention, TriesType
<1>4. CASE tries' = [tries EXCEPT !.refresh = FALSE, !.retry = task.compaction]
  BY <1>4, TaskShapes DEF TriesType
<1> QED
  BY <1>1, <1>2, <1>3, <1>4 DEF ComposerNext, PrepareSurface, SelectLuna, OpenSlider, Slide,
     CloseSlider, ConfirmSelection, StageExpires, Attach, AccessByLabel, ProofFound,
     ProofMissing, ProofFails, Toggle, Restore, PillIsThere, MentionFails, CatalogStale,
     Activate, SetThink, InsertPrompt, VerifyPrompt, UploadFiles, Send, Acknowledge,
     AddressShows, Raises, ResetsForRetry, ReloadsCatalog, ClearsAfter

OtherType ==
  /\ task \in Tasks /\ site \in SiteType /\ at \in Places /\ piece \in 0 .. task.stages + 1
  /\ slot \in Efforts /\ chosen \in [label : Efforts \cup {-1}, chat : {-1, 0, 1}]
  /\ receipt \in {NoReceipt, 0, 1} /\ proven \in BOOLEAN /\ expired \in BOOLEAN
  /\ raised \in Errors

\* A part's effort exists and has room for the part.
LEMMA EffortFits ==
  ASSUME task \in Tasks, WithinLimits, NEW p \in 0 .. task.stages
  PROVE  /\ EffortOf(p) \in Efforts
         /\ ~task.luna => SizeOf(p) <= Room[EffortOf(p)]
<1>1. task.effort \in Efforts /\ task.stages \in Nat /\ task.stage \in Nat /\ task.size \in Nat
  BY TaskShapes
<1>2. CASE IsFinal(p)
  BY <1>1, <1>2 DEF EffortOf, SizeOf, WithinLimits, FitsInline, FitsInParts
<1>3. CASE ~IsFinal(p)
  <2>1. ~task.luna /\ FitsInParts
    BY <1>1, <1>3 DEF IsFinal, WithinLimits
  <2>2. /\ StagingEfforts \subseteq {0, 1, TopEffort} /\ StagingEfforts # {}
        /\ StagingEfforts \subseteq Efforts
        /\ \A e \in StagingEfforts : Room[e] >= task.stage
    BY <2>1, TaskShapes DEF StagingEfforts, FitsInParts, Available, Efforts
  <2> DEFINE S == StagingEfforts
  <2>0. TopEffort \in Nat \ {0, 1} /\ S \subseteq {0, 1, TopEffort} /\ S # {}
    BY <2>2, TaskShapes
  <2> HIDE DEF S
  <2>3. \E e \in S : \A other \in S : e <= other
    <3>1. CASE 0 \in S
      BY ONLY <2>0, <3>1
    <3>2. CASE 0 \notin S /\ 1 \in S
      BY ONLY <2>0, <3>2
    <3>3. CASE 0 \notin S /\ 1 \notin S
      <4>1. S = {TopEffort} /\ TopEffort \in Nat
        BY ONLY <2>0, <3>3
      <4> QED
        BY ONLY <4>1
    <3> QED
      BY <3>1, <3>2, <3>3
  <2>4. StagingEffort \in StagingEfforts
    BY <2>3 DEF StagingEffort, S
  <2>5. EffortOf(p) = StagingEffort /\ SizeOf(p) = task.stage
    BY <1>3 DEF EffortOf, SizeOf
  <2>6. Room[StagingEffort] \in Nat
    BY <2>2, <2>4, TaskShapes
  <2> QED
    BY <1>1, <2>2, <2>4, <2>5, <2>6
<1> QED
  BY <1>2, <1>3

\* What a turn needs does not change, as its task does not.
LEMMA TaskFixed ==
  ASSUME ComposerNext
  PROVE  /\ task' = task /\ StagingEffort' = StagingEffort /\ WithinLimits' = WithinLimits
         /\ Think' = Think
<1>1. task' = task
  BY DEF ComposerNext, Begin, PrepareSurface, SelectLuna, OpenSlider, Slide, CloseSlider,
    ConfirmSelection,
     StageExpires, Attach, AccessByLabel, ProofFound, ProofMissing, ProofFails, Toggle, Restore,
     PillIsThere, Mention, MentionFails, CatalogStale, Activate, SetThink, InsertPrompt,
     VerifyPrompt, UploadFiles, Send, Acknowledge, AddressShows, shown
<1> QED
  BY <1>1 DEF StagingEffort, StagingEfforts, WithinLimits, FitsInline, FitsInParts, Available, Think
\* The other variables keep their types.
LEMMA OtherTyped ==
  ASSUME OtherType, ui \in UiType, MessageIInv, RestoredIInv, ComposerNext
  PROVE  OtherType'
<1>1. CASE Begin
  BY <1>1 DEF Begin, Moves, Stops, shown, selection, proof, submitted, OtherType, Places,
     Attaching, Errors
<1>2. CASE PrepareSurface
  <2>1. site' \in SiteType
    BY <1>2 DEF PrepareSurface, shown, OtherType, SiteType
  <2> QED
    BY <1>2, <2>1 DEF PrepareSurface, Moves, Stops, selection, proof, submitted, OtherType,
       Places, Attaching, Errors
<1>3. CASE SelectLuna
  BY <1>3 DEF SelectLuna, Moves, Stops, shown, selection, proof, submitted, OtherType,
     Places, Attaching, Errors
<1>4. CASE OpenSlider
  <2>1. slot' \in Efforts /\ chosen' \in [label : Efforts \cup {-1}, chat : {-1, 0, 1}]
    BY <1>4 DEF OpenSlider, selection, OtherType, UiType
  <2> QED
    BY <1>4, <2>1 DEF OpenSlider, Moves, Stops, proof, submitted, OtherType, Places, Attaching,
       Errors
<1>5. CASE Slide
  <2>1. EffortOf(piece) \in Efforts
    <3>1. WithinLimits /\ piece \in 0 .. task.stages
      BY <1>5 DEF Slide, MessageIInv
    <3> QED
      BY <3>1, EffortFits DEF OtherType
  <2>2. slot' \in Efforts
    <3>1. PICK e \in Efforts : e = EffortOf(piece)
      BY <2>1
    <3>2. slot' = slot \/ (slot # e /\ slot' = IF slot < e THEN slot + 1 ELSE slot - 1)
      BY <1>5, <3>1 DEF Slide
    <3>3. slot \in 0 .. TopEffort /\ e \in 0 .. TopEffort /\ TopEffort \in Nat
      BY TaskShapes DEF OtherType, Efforts
    <3> QED
      BY <3>2, <3>3 DEF Efforts
  <2> QED
    BY <1>5, <2>2 DEF Slide, Moves, Stops, shown, proof, submitted, OtherType, Places, Errors
<1>6. CASE CloseSlider
  <2>1. chosen' \in [label : Efforts \cup {-1}, chat : {-1, 0, 1}]
    <3>1. \A kept \in {slot, ui.effort} : kept \in Efforts
      BY DEF OtherType, UiType
    <3> QED
      BY <1>6, <3>1 DEF CloseSlider, OtherType
  <2> QED
    BY <1>6, <2>1 DEF CloseSlider, Moves, Stops, proof, submitted, OtherType, Places, Errors
<1>7. CASE ConfirmSelection
  BY <1>7 DEF ConfirmSelection, Moves, Stops, shown, selection, proof, submitted, OtherType,
     Places, Attaching, Errors
<1>8. CASE StageExpires
  BY <1>8 DEF StageExpires, Moves, Stops, shown, selection, proof, submitted, Awaited,
     Attaching, OtherType, Places, Errors
<1>9. CASE Attach
  BY <1>9 DEF Attach, Moves, Stops, shown, selection, proof, submitted, Raises,
     ResetsForRetry, OtherType, Places, Attaching, Errors
<1>10. CASE AccessByLabel
  BY <1>10 DEF AccessByLabel, Moves, Stops, shown, selection, proof, submitted, Raises,
     ResetsForRetry, Personalized, OtherType, Places, Attaching, Errors
<1>11. CASE ProofFound
  BY <1>11 DEF ProofFound, Moves, Stops, shown, selection, proof, submitted, Cleared,
     OtherType, Places, Attaching, Errors
<1>12. CASE ProofMissing
  BY <1>12 DEF ProofMissing, Moves, Stops, shown, selection, proof, submitted, Cleared,
     OtherType, Places, Attaching, Errors
<1>13. CASE ProofFails
  BY <1>13 DEF ProofFails, Moves, Stops, shown, selection, proof, submitted, Raises,
     ResetsForRetry, Cleared, OtherType, Places, Attaching, Errors
<1>14. CASE Toggle
  <2>1. receipt' \in {NoReceipt, 0, 1} /\ proven' \in BOOLEAN
    BY <1>14 DEF Toggle, proof, Checked, UiType, OtherType
  <2> QED
    BY <1>14, <2>1 DEF Toggle, Moves, Raises, ResetsForRetry, selection, submitted, OtherType,
       Places, Attaching, Errors
<1>15. CASE Restore
  BY <1>15 DEF Restore, Moves, Stops, shown, selection, proof, submitted, Raises,
     ResetsForRetry, PutBack, OtherType, Places, Attaching, Errors
<1>16. CASE PillIsThere
  BY <1>16 DEF PillIsThere, Moves, Stops, shown, selection, proof, submitted, OtherType,
     Places, Attaching, Errors
<1>17. CASE Mention
  BY <1>17 DEF Mention, Moves, Stops, shown, selection, proof, submitted, OtherType, Places,
     Attaching, Errors
<1>18. CASE MentionFails
  BY <1>18 DEF MentionFails, Moves, Stops, shown, selection, proof, submitted, Raises,
     ResetsForRetry, ClearsAfter, Cleared, OtherType, Places, Attaching, Errors
<1>19. CASE CatalogStale
  BY <1>19 DEF CatalogStale, Moves, Stops, shown, selection, proof, submitted, Raises,
     ResetsForRetry, Cleared, ReloadsCatalog, OtherType, Places, Attaching, Errors
<1>20. CASE Activate
  BY <1>20 DEF Activate, Moves, Stops, shown, selection, proof, submitted, Rendered,
     OtherType, Places, Attaching, Errors
<1>21. CASE SetThink
  BY <1>21 DEF SetThink, Moves, Stops, shown, selection, proof, submitted, Raises,
     ResetsForRetry, ClearsAfter, Cleared, Readied, OtherType, Places, Attaching, Errors
<1>22. CASE InsertPrompt
  BY <1>22 DEF InsertPrompt, Moves, Stops, shown, selection, proof, submitted, Rendered,
     Raises, ResetsForRetry, ClearsAfter, Cleared, Readied, OtherType, Places, Attaching, Errors
<1>23. CASE VerifyPrompt
  BY <1>23 DEF VerifyPrompt, Moves, Stops, shown, selection, proof, submitted, Raises,
     ResetsForRetry, ClearsAfter, Cleared, OtherType, Places, Attaching, Errors
<1>24. CASE UploadFiles
  BY <1>24 DEF UploadFiles, Moves, Stops, shown, selection, proof, submitted, Rendered,
     OtherType, Places, Attaching, Errors
<1>25. CASE Send
  <2>1. piece' \in 0 .. task.stages + 1
    BY <1>25, TaskShapes DEF Send, submitted, MessageIInv, OtherType
  <2> QED
    BY <1>25, <2>1 DEF Send, Moves, Stops, selection, proof, OtherType, Places, Attaching,
       Errors
<1>26. CASE Acknowledge
  BY <1>26 DEF Acknowledge, Moves, Stops, shown, selection, proof, submitted, Rendered,
     OtherType, Places, Attaching, Errors
<1>27. CASE AddressShows
  BY <1>27 DEF AddressShows, Moves, Stops, shown, selection, proof, submitted, OtherType,
     Places, Attaching, Errors
<1> QED
  BY <1>1, <1>2, <1>3, <1>4, <1>5, <1>6, <1>7, <1>8, <1>9, <1>10, <1>11, <1>12, <1>13, <1>14,
     <1>15, <1>16, <1>17, <1>18, <1>19, <1>20, <1>21, <1>22, <1>23, <1>24, <1>25, <1>26, <1>27
     DEF ComposerNext

\* The composer's types are those of its variables.
LEMMA ComposerTypes ==
  ComposerTypeOK <=> ui \in UiType /\ tries \in TriesType /\ OtherType
BY DEF ComposerTypeOK, UiType, TriesType, OtherType, SiteType

\* The composer keeps its types.
LEMMA ComposerTyped ==
  ASSUME ComposerTypeOK, MessageIInv, RestoredIInv, ComposerNext
  PROVE  ComposerTypeOK'
<1>1. ui \in UiType /\ tries \in TriesType /\ OtherType
  BY ComposerTypes
<1>2. ui' \in UiType /\ tries' \in TriesType /\ OtherType'
  BY <1>1, UiTyped, TriesTyped, OtherTyped DEF OtherType
<1> QED
  BY <1>2 DEF ComposerTypeOK, UiType, TriesType, OtherType, SiteType

\* What the worker relies on holds.
LEMMA MessageKept ==
  ASSUME ComposerTypeOK, MessageIInv, RestoredIInv, ComposerNext
  PROVE  MessageIInv'
<1> USE TaskFixed
<1>0. ui \in UiType
  BY ComposerTypes
<1>1. CASE Begin
  BY <1>1 DEF Begin, Moves, Stops, shown, selection, proof, submitted, ComposerTypeOK,
     MessageIInv, RestoredIInv, Clean, Selected, EffortOf, IsFinal, Mentions
<1>2. CASE PrepareSurface
  BY <1>2 DEF PrepareSurface, Moves, Stops, shown, selection, proof, submitted, Rendered,
     ComposerTypeOK, MessageIInv, RestoredIInv, Clean, Selected, EffortOf, IsFinal, Mentions
<1>3. CASE SelectLuna
  BY <1>3 DEF SelectLuna, Moves, Stops, shown, selection, proof, submitted, ComposerTypeOK,
     MessageIInv, RestoredIInv, Clean, Selected, EffortOf, IsFinal, Mentions
<1>4. CASE OpenSlider
  BY <1>4 DEF OpenSlider, Moves, Stops, shown, selection, proof, submitted, WithFamily,
     ComposerTypeOK, MessageIInv, RestoredIInv, Clean, Selected, EffortOf, IsFinal, Mentions
<1>5. CASE Slide
  BY <1>5 DEF Slide, Moves, Stops, shown, selection, proof, submitted, ComposerTypeOK,
     MessageIInv, RestoredIInv, Clean, Selected, EffortOf, IsFinal, Mentions
<1>6. CASE CloseSlider
  BY <1>6 DEF CloseSlider, Moves, Stops, shown, selection, proof, submitted, ComposerTypeOK,
     MessageIInv, RestoredIInv, Clean, Selected, EffortOf, IsFinal, Mentions
<1>7. CASE ConfirmSelection
  <2>1. CASE Moves("attaching")
    <3>1. ~Stops
      BY <2>1 DEF Moves, Stops
    <3>2. chosen.label = EffortOf(piece) /\ ~task.luna
      BY <1>7, <3>1 DEF ConfirmSelection, LabelHolds, MessageIInv
    <3> QED
      BY <1>7, <2>1, <3>2, TaskFixed DEF ConfirmSelection, Moves, shown, selection,
         submitted, MessageIInv, Selected, EffortOf, IsFinal, Mentions
  <2>2. CASE Stops
    BY <1>7, <2>2 DEF ConfirmSelection, Stops, MessageIInv, Selected
  <2> QED
    BY <1>7, <2>1, <2>2 DEF ConfirmSelection
<1>8. CASE StageExpires
  BY <1>8 DEF StageExpires, Moves, Stops, shown, selection, proof, submitted, Awaited,
     Attaching, ComposerTypeOK, MessageIInv, RestoredIInv, Clean, Selected, EffortOf, IsFinal,
     Mentions
<1>9. CASE Attach
  BY <1>9 DEF Attach, Moves, Stops, shown, selection, proof, submitted, Raises,
     ResetsForRetry, ComposerTypeOK, MessageIInv, RestoredIInv, Clean, Selected, EffortOf,
     IsFinal, Mentions
<1>10. CASE AccessByLabel
  BY <1>10 DEF AccessByLabel, Moves, Stops, shown, selection, proof, submitted, Raises,
     ResetsForRetry, Personalized, ComposerTypeOK, MessageIInv, RestoredIInv, Clean, Selected,
     EffortOf, IsFinal, Mentions
<1>11. CASE ProofFound
  BY <1>11 DEF ProofFound, Moves, Stops, shown, selection, proof, submitted, Cleared,
     ComposerTypeOK, MessageIInv, RestoredIInv, Clean, Selected, EffortOf, IsFinal, Mentions
<1>12. CASE ProofMissing
  BY <1>12 DEF ProofMissing, Moves, Stops, shown, selection, proof, submitted, Cleared,
     ComposerTypeOK, MessageIInv, RestoredIInv, Clean, Selected, EffortOf, IsFinal, Mentions
<1>13. CASE ProofFails
  BY <1>13 DEF ProofFails, Moves, Stops, shown, selection, proof, submitted, Raises,
     ResetsForRetry, Cleared, ComposerTypeOK, MessageIInv, RestoredIInv, Clean, Selected,
     EffortOf, IsFinal, Mentions
<1>14. CASE Toggle
  BY <1>14 DEF Toggle, Moves, Stops, shown, selection, proof, submitted, Raises,
     ResetsForRetry, Checked, ComposerTypeOK, MessageIInv, RestoredIInv, Clean, Selected,
     EffortOf, IsFinal, Mentions
<1>15. CASE Restore
  BY <1>15 DEF Restore, Moves, Stops, shown, selection, proof, submitted, Raises,
     ResetsForRetry, PutBack, ComposerTypeOK, MessageIInv, RestoredIInv, Clean, Selected,
     EffortOf, IsFinal, Mentions
<1>16. CASE PillIsThere
  BY <1>16 DEF PillIsThere, Moves, Stops, shown, selection, proof, submitted, ComposerTypeOK,
     MessageIInv, RestoredIInv, Clean, Selected, EffortOf, IsFinal, Mentions
<1>17. CASE Mention
  BY <1>17 DEF Mention, Moves, Stops, shown, selection, proof, submitted, ComposerTypeOK,
     MessageIInv, RestoredIInv, Clean, Selected, EffortOf, IsFinal, Mentions
<1>18. CASE MentionFails
  BY <1>18 DEF MentionFails, Moves, Stops, shown, selection, proof, submitted, Raises,
     ResetsForRetry, ClearsAfter, Cleared, ComposerTypeOK, MessageIInv, RestoredIInv, Clean,
     Selected, EffortOf, IsFinal, Mentions
<1>19. CASE CatalogStale
  BY <1>19 DEF CatalogStale, Moves, Stops, shown, selection, proof, submitted, Raises,
     ResetsForRetry, Cleared, ReloadsCatalog, ComposerTypeOK, MessageIInv, RestoredIInv, Clean,
     Selected, EffortOf, IsFinal, Mentions
<1>20. CASE Activate
  <2>1. [ui EXCEPT !.draft = "empty", !.pill = "set"] \in UiType
    BY <1>0 DEF UiType
  <2>2. ui'.think = ui.think /\ ui'.pill = "set" /\ at' = "inserting"
    BY <1>20, <2>1, <1>0, RenderedUi DEF Activate, Moves, UiType
  <2> QED
    BY <1>20, <2>2 DEF Activate, selection, submitted, MessageIInv, Selected, EffortOf, IsFinal,
       Mentions
<1>21. CASE SetThink
  BY <1>21 DEF SetThink, Moves, Stops, shown, selection, proof, submitted, Raises,
     ResetsForRetry, ClearsAfter, Cleared, Readied, ComposerTypeOK, MessageIInv, RestoredIInv,
     Clean, Selected, EffortOf, IsFinal, Mentions
<1>22. CASE InsertPrompt
  <2>1. at \in Selected /\ at' \in {"attaching", "over", "verifying"}
        /\ UNCHANGED <<piece, chosen>>
    BY <1>22 DEF InsertPrompt, ClearsAfter, Raises, ResetsForRetry, Moves, selection, submitted,
       Selected
  <2>2. at' = "verifying" \/ at' = "over" =>
          at' = "over" \/ \E text \in {"prompt", "mangled"} :
                            ui' \in Rendered([Readied(ui) EXCEPT !.draft = text])
    BY <1>22 DEF InsertPrompt, ClearsAfter, Raises, ResetsForRetry, Moves
  <2>3. at' = "attaching" => ui' = Cleared(ui)
    BY <1>22 DEF InsertPrompt, ClearsAfter, Raises, ResetsForRetry, Moves
  <2>4. at' = "verifying" => ui'.think = ui.think /\ (Mentions(piece) => ui'.pill = ui.pill)
    <3> SUFFICES ASSUME at' = "verifying"
                 PROVE  ui'.think = ui.think /\ (Mentions(piece) => ui'.pill = ui.pill)
      OBVIOUS
    <3>1. PICK text \in {"prompt", "mangled"} :
            ui' \in Rendered([Readied(ui) EXCEPT !.draft = text])
      BY <2>2
    <3>2. /\ Readied(ui) \in UiType /\ Readied(ui).think = ui.think
          /\ Mentions(piece) => Readied(ui).pill = ui.pill
      BY <1>0, ClearedUi DEF Readied
    <3> DEFINE u == [Readied(ui) EXCEPT !.draft = text]
    <3>3. u \in UiType /\ u.think = Readied(ui).think /\ u.pill = Readied(ui).pill
      BY <3>2 DEF UiType
    <3> HIDE DEF u
    <3>4. ui' \in Rendered(u)
      BY <3>1 DEF u
    <3> QED
      BY <3>2, <3>3, <3>4, RenderedUi
  <2>5. Think => ui.think
    BY <1>22 DEF InsertPrompt
  <2>6. Cleared(ui).think = ui.think
    BY <1>0, ClearedUi
  <2>7. at = "inserting"
    BY <1>22 DEF InsertPrompt
  <2>8. task.luna => ui.think = Think
    <3>1. ui.think \in BOOLEAN /\ Think \in BOOLEAN
      BY <1>0 DEF UiType, Think
    <3> QED
      BY <2>5, <2>7, <3>1 DEF MessageIInv, Selected
  <2> QED
    BY <2>1, <2>3, <2>4, <2>5, <2>6, <2>7, <2>8 DEF MessageIInv, Selected, EffortOf,
       IsFinal, Mentions
<1>23. CASE VerifyPrompt
  <2>1. CASE Moves(IF IsFinal(piece) THEN "filing" ELSE "sending") /\ ui' = ui
               /\ ui.draft = "prompt"
    BY <1>23, <2>1 DEF VerifyPrompt, Moves, selection, submitted, MessageIInv, Selected,
       EffortOf, IsFinal, Mentions
  <2>2. CASE ClearsAfter("integrity") \/ ClearsAfter("plain")
    <3>1. \/ at' = "over"
          \/ at' = "attaching" /\ ui' = Cleared(ui)
      BY <2>2 DEF ClearsAfter, Raises, ResetsForRetry, Moves
    <3>2. Cleared(ui).think = ui.think
      BY <1>0, ClearedUi
    <3> QED
      BY <1>23, <3>1, <3>2 DEF VerifyPrompt, selection, submitted, MessageIInv, Selected,
         EffortOf, IsFinal, Mentions
  <2> QED
    BY <1>23, <2>1, <2>2 DEF VerifyPrompt
<1>24. CASE UploadFiles
  <2>1. CASE Stops
    BY <1>24, <2>1 DEF UploadFiles, Stops, MessageIInv, Selected
  <2>2. CASE Moves("sending") /\ ui' \in Rendered(ui)
    <3>1. ui'.draft = ui.draft /\ ui'.pill = ui.pill /\ ui'.think = ui.think
      BY <1>0, <2>2, RenderedUi
    <3> QED
      BY <1>24, <2>2, <3>1 DEF UploadFiles, Moves, selection, submitted, MessageIInv, Selected,
         EffortOf, IsFinal, Mentions
  <2> QED
    BY <1>24, <2>1, <2>2 DEF UploadFiles
<1>25. CASE Send
  <2>1. CASE at' = "over"
    BY <2>1 DEF MessageIInv, Selected
  <2>2. CASE at' = "acknowledging"
    <3>1. ~IsFinal(piece) /\ piece' = piece + 1 /\ chosen' = chosen /\ at = "sending"
      BY <1>25, <2>2 DEF Send, Moves, Stops, submitted, selection
    <3>2. piece \in 0 .. task.stages /\ WithinLimits /\ task.stages \in Nat
      BY <3>1, TaskShapes DEF MessageIInv, ComposerTypeOK
    <3>3. piece # task.stages
      BY <3>1 DEF IsFinal
    <3>4. ~task.luna
      BY <3>2, <3>3 DEF WithinLimits
    <3>5. chosen.label = EffortOf(piece)
      BY <3>1, <3>4 DEF MessageIInv, Selected
    <3>6. piece' - 1 = piece /\ piece' > 0 /\ piece' \in 0 .. task.stages
      BY <3>1, <3>2, <3>3
    <3> QED
      BY <2>2, <3>1, <3>2, <3>3, <3>4, <3>5, <3>6 DEF MessageIInv, Selected, EffortOf, IsFinal
  <2> QED
    BY <1>25, <2>1, <2>2 DEF Send, Moves, Stops
<1>26. CASE Acknowledge
  BY <1>26 DEF Acknowledge, Moves, Stops, shown, selection, proof, submitted, Rendered,
     ComposerTypeOK, MessageIInv, RestoredIInv, Clean, Selected, EffortOf, IsFinal, Mentions
<1>27. CASE AddressShows
  BY <1>27 DEF AddressShows, Moves, Stops, shown, selection, proof, submitted,
     ComposerTypeOK, MessageIInv, RestoredIInv, Clean, Selected, EffortOf, IsFinal, Mentions
<1> QED
  BY <1>1, <1>2, <1>3, <1>4, <1>5, <1>6, <1>7, <1>8, <1>9, <1>10, <1>11, <1>12, <1>13, <1>14,
     <1>15, <1>16, <1>17, <1>18, <1>19, <1>20, <1>21, <1>22, <1>23, <1>24, <1>25, <1>26, <1>27
     DEF ComposerNext

\* What a turn leaves behind is put back.
LEMMA RestoredKept ==
  ASSUME ComposerTypeOK, MessageIInv, RestoredIInv, ComposerNext
  PROVE  RestoredIInv'
<1>0. ui \in UiType
  BY ComposerTypes
<1>1. CASE Begin
  BY <1>1 DEF Begin, Moves, Stops, shown, selection, proof, submitted, ComposerTypeOK,
     RestoredIInv, Clean, NoReceipt
<1>2. CASE PrepareSurface
  <2>1. CASE Stops /\ UNCHANGED shown
    BY <1>2, <2>1 DEF PrepareSurface, Stops, shown, proof, RestoredIInv, Clean
  <2>2. CASE Moves("selecting") /\ ui' \in Rendered(ui)
    <3>1. ui'.draft = ui.draft /\ ui'.pill = ui.pill /\ ui'.choice = ui.choice
      BY <1>0, <2>2, RenderedUi
    <3>2. site'.labelled = site.labelled
      BY <1>2 DEF PrepareSurface, shown, ComposerTypeOK
    <3> QED
      BY <1>2, <2>2, <3>1, <3>2 DEF PrepareSurface, Moves, proof, RestoredIInv, Clean
  <2> QED
    BY <1>2, <2>1, <2>2 DEF PrepareSurface
<1>3. CASE SelectLuna
  BY <1>3 DEF SelectLuna, Moves, Stops, shown, selection, proof, submitted, ComposerTypeOK,
     RestoredIInv, Clean, NoReceipt
<1>4. CASE OpenSlider
  BY <1>4 DEF OpenSlider, Moves, Stops, shown, selection, proof, submitted, WithFamily,
     ComposerTypeOK, RestoredIInv, Clean, NoReceipt
<1>5. CASE Slide
  BY <1>5 DEF Slide, Moves, Stops, shown, selection, proof, submitted, ComposerTypeOK,
     RestoredIInv, Clean, NoReceipt
<1>6. CASE CloseSlider
  BY <1>6 DEF CloseSlider, Moves, Stops, shown, selection, proof, submitted, ComposerTypeOK,
     RestoredIInv, Clean, NoReceipt
<1>7. CASE ConfirmSelection
  BY <1>7 DEF ConfirmSelection, Moves, Stops, shown, selection, proof, submitted,
     ComposerTypeOK, RestoredIInv, Clean, NoReceipt
<1>8. CASE StageExpires
  BY <1>8 DEF StageExpires, Moves, Stops, shown, selection, proof, submitted, Awaited,
     Attaching, ComposerTypeOK, RestoredIInv, Clean, NoReceipt
<1>9. CASE Attach
  BY <1>9 DEF Attach, Moves, Stops, shown, selection, proof, submitted, Raises,
     ResetsForRetry, ComposerTypeOK, RestoredIInv, Clean, NoReceipt
<1>10. CASE AccessByLabel
  BY <1>10 DEF AccessByLabel, Moves, Stops, shown, selection, proof, submitted, Raises,
     ResetsForRetry, Personalized, ComposerTypeOK, RestoredIInv, Clean, NoReceipt
<1>11. CASE ProofFound
  BY <1>11 DEF ProofFound, Moves, Stops, shown, selection, proof, submitted, Cleared,
     ComposerTypeOK, RestoredIInv, Clean, NoReceipt
<1>12. CASE ProofMissing
  BY <1>12 DEF ProofMissing, Moves, Stops, shown, selection, proof, submitted, Cleared,
     ComposerTypeOK, RestoredIInv, Clean, NoReceipt
<1>13. CASE ProofFails
  BY <1>13 DEF ProofFails, Moves, Stops, shown, selection, proof, submitted, Raises,
     ResetsForRetry, Cleared, ComposerTypeOK, RestoredIInv, Clean, NoReceipt
<1>14. CASE Toggle
  BY <1>14 DEF Toggle, Moves, Stops, shown, selection, proof, submitted, Raises,
     ResetsForRetry, Checked, ComposerTypeOK, RestoredIInv, Clean, NoReceipt
<1>15. CASE Restore
  BY <1>15 DEF Restore, Moves, Stops, shown, selection, proof, submitted, Raises,
     ResetsForRetry, PutBack, ComposerTypeOK, RestoredIInv, Clean, NoReceipt
<1>16. CASE PillIsThere
  BY <1>16 DEF PillIsThere, Moves, Stops, shown, selection, proof, submitted, ComposerTypeOK,
     RestoredIInv, Clean, NoReceipt
<1>17. CASE Mention
  BY <1>17 DEF Mention, Moves, Stops, shown, selection, proof, submitted, ComposerTypeOK,
     RestoredIInv, Clean, NoReceipt
<1>18. CASE MentionFails
  BY <1>18 DEF MentionFails, Moves, Stops, shown, selection, proof, submitted, Raises,
     ResetsForRetry, ClearsAfter, Cleared, ComposerTypeOK, RestoredIInv, Clean, NoReceipt
<1>19. CASE CatalogStale
  BY <1>19 DEF CatalogStale, Moves, Stops, shown, selection, proof, submitted, Raises,
     ResetsForRetry, Cleared, ReloadsCatalog, ComposerTypeOK, RestoredIInv, Clean, NoReceipt
<1>20. CASE Activate
  <2>1. [ui EXCEPT !.draft = "empty", !.pill = "set"] \in UiType
    BY <1>0 DEF UiType
  <2>2. ui'.choice = ui.choice
    BY <1>20, <1>0, <2>1, RenderedUi DEF Activate, UiType
  <2> QED
    BY <1>20, <2>2 DEF Activate, Moves, proof, RestoredIInv
<1>21. CASE SetThink
  BY <1>21 DEF SetThink, Moves, Stops, shown, selection, proof, submitted, Raises,
     ResetsForRetry, ClearsAfter, Cleared, Readied, ComposerTypeOK, RestoredIInv, Clean,
     NoReceipt
<1>22. CASE InsertPrompt
  <2>1. Cleared(ui).choice = ui.choice /\ Cleared(ui).draft = "empty"
        /\ Cleared(ui).pill = "none"
    BY <1>0, ClearedUi
  <2>2. at = "inserting" /\ UNCHANGED <<site, receipt, proven>>
    BY <1>22 DEF InsertPrompt, proof
  <2>3. CASE ClearsAfter("plain") \/ ClearsAfter("integrity")
    BY <2>1, <2>2, <2>3 DEF ClearsAfter, Raises, ResetsForRetry, Moves, RestoredIInv, Clean
  <2>4. CASE Moves("verifying")
             /\ \E text \in {"prompt", "mangled"} :
                  ui' \in Rendered([Readied(ui) EXCEPT !.draft = text])
    <3>1. PICK text \in {"prompt", "mangled"} :
            ui' \in Rendered([Readied(ui) EXCEPT !.draft = text])
      BY <2>4
    <3>2. Readied(ui) \in UiType /\ Readied(ui).choice = ui.choice
      BY <1>0, ClearedUi DEF Readied
    <3> DEFINE u == [Readied(ui) EXCEPT !.draft = text]
    <3>3. u \in UiType /\ u.choice = Readied(ui).choice
      BY <3>2 DEF UiType
    <3> HIDE DEF u
    <3>4. ui' \in Rendered(u)
      BY <3>1 DEF u
    <3>5. ui'.choice = ui.choice
      BY <3>2, <3>3, <3>4, RenderedUi
    <3> QED
      BY <2>2, <2>4, <3>5 DEF Moves, RestoredIInv
  <2> QED
    BY <1>22, <2>3, <2>4 DEF InsertPrompt
<1>23. CASE VerifyPrompt
  BY <1>23 DEF VerifyPrompt, Moves, Stops, shown, selection, proof, submitted, Raises,
     ResetsForRetry, ClearsAfter, Cleared, ComposerTypeOK, RestoredIInv, Clean, NoReceipt
<1>24. CASE UploadFiles
  <2>1. CASE Stops /\ UNCHANGED ui
    BY <1>24, <2>1 DEF UploadFiles, Stops, proof, RestoredIInv, Clean
  <2>2. CASE Moves("sending") /\ ui' \in Rendered(ui)
    <3>1. ui'.choice = ui.choice
      BY <1>0, <2>2, RenderedUi
    <3> QED
      BY <1>24, <2>2, <3>1 DEF UploadFiles, Moves, proof, RestoredIInv
  <2> QED
    BY <1>24, <2>1, <2>2 DEF UploadFiles
<1>25. CASE Send
  BY <1>25 DEF Send, Moves, Stops, shown, selection, proof, submitted, Cleared,
     ComposerTypeOK, RestoredIInv, Clean, NoReceipt
<1>26. CASE Acknowledge
  <2>1. CASE Stops /\ UNCHANGED ui
    BY <1>26, <2>1 DEF Acknowledge, Stops, proof, RestoredIInv, Clean
  <2>2. CASE \E chat \in {ui.chat, IF task.temporary \/ task.reused THEN ui.chat ELSE 1} :
               ui' \in Rendered([ui EXCEPT !.chat = chat])
    <3>1. PICK chat \in {0, 1} : ui' \in Rendered([ui EXCEPT !.chat = chat])
      BY <1>0, <2>2 DEF UiType
    <3> DEFINE u == [ui EXCEPT !.chat = chat]
    <3>2. /\ u \in UiType /\ u.choice = ui.choice /\ u.draft = ui.draft /\ u.pill = ui.pill
      BY <1>0 DEF UiType
    <3> HIDE DEF u
    <3>3. ui' \in Rendered(u)
      BY <3>1 DEF u
    <3>4. ui'.choice = ui.choice /\ ui'.draft = ui.draft /\ ui'.pill = ui.pill
      BY <3>2, <3>3, RenderedUi
    <3>5. at' \in {"selecting", "attaching", "over"} /\ at = "acknowledging"
          /\ raised' \in {"none", "failed"} /\ (at' # "over" => raised' = "none")
      BY <1>26 DEF Acknowledge, Moves, Stops
    <3> QED
      BY <1>26, <3>4, <3>5 DEF Acknowledge, proof, RestoredIInv, Clean
  <2> QED
    BY <1>26, <2>1, <2>2 DEF Acknowledge
<1>27. CASE AddressShows
  BY <1>27 DEF AddressShows, Moves, Stops, shown, selection, proof, submitted,
     ComposerTypeOK, RestoredIInv, Clean, NoReceipt
<1> QED
  BY <1>1, <1>2, <1>3, <1>4, <1>5, <1>6, <1>7, <1>8, <1>9, <1>10, <1>11, <1>12, <1>13, <1>14,
     <1>15, <1>16, <1>17, <1>18, <1>19, <1>20, <1>21, <1>22, <1>23, <1>24, <1>25, <1>26, <1>27
     DEF ComposerNext

\* Only a message that is as it was meant is added.
LEMMA SendKept ==
  ASSUME ComposerTypeOK, MessageIInv, SendsAsMeant, ComposerNext
  PROVE  SendsAsMeant'
<1>1. messages' = messages \/ (Send /\ messages' = messages \cup {Message} /\ StillSelected)
  BY DEF ComposerNext, Begin, PrepareSurface, SelectLuna, OpenSlider, Slide, CloseSlider,
    ConfirmSelection,
     StageExpires, Attach, AccessByLabel, ProofFound, ProofMissing, ProofFails, Toggle, Restore,
     PillIsThere, Mention, MentionFails, CatalogStale, Activate, SetThink, InsertPrompt,
     VerifyPrompt, UploadFiles, Send, Acknowledge, AddressShows, submitted
<1> DEFINE Meant(m) ==
      /\ m.draft = "prompt" /\ (Mentions(m.piece) => m.pill # "none")
      /\ IF task.luna THEN m.think = Think
         ELSE /\ m.effort = EffortOf(m.piece) /\ SizeOf(m.piece) <= Room[m.effort]
              /\ task.family = "any" \/ m.version = Wanted(m.effort)
<1>2. ASSUME Send, StillSelected
      PROVE  Meant(Message)
  <2>1. /\ at = "sending" /\ ui.draft = "prompt" /\ (Mentions(piece) => ui.pill # "none")
        /\ WithinLimits /\ piece \in 0 .. task.stages /\ task \in Tasks
        /\ IF task.luna THEN ui.think = Think ELSE chosen.label = EffortOf(piece)
    BY <1>2 DEF Send, MessageIInv, Selected, ComposerTypeOK
  <2>2. ~task.luna => /\ ui.effort = EffortOf(piece)
                      /\ task.family = "any" \/ Version(ui) = Wanted(EffortOf(piece))
    BY <1>2, <2>1 DEF StillSelected, LabelHolds, FamilyShown
  <2>3. ~task.luna => SizeOf(piece) <= Room[EffortOf(piece)]
    BY <2>1, EffortFits
  <2> QED
    BY <2>1, <2>2, <2>3 DEF Message
<1>3. \A m \in messages' : Meant(m)
  BY <1>1, <1>2 DEF SendsAsMeant
<1> QED
  BY <1>3, TaskFixed DEF SendsAsMeant, Mentions, IsFinal, EffortOf, SizeOf, Wanted

\* The inductive invariant of the composer: at every place, what the next step of the
\* worker takes for granted of the page and of its own selection.
THEOREM ComposerConsistent == ComposerSpec => []ComposerIInv
<1>1. ComposerInit => ComposerIInv
  <2> SUFFICES ASSUME ComposerInit PROVE ComposerIInv
    OBVIOUS
  <2>1. /\ 0 \in 0 .. task.stages + 1 /\ 0 \in 0 .. task.stages /\ 0 \in Efforts
        /\ MaxMentions \in 0 .. MaxMentions /\ Fallback.effort \in Efforts
        /\ Fallback.family \in Families /\ site \in SiteType /\ task \in Tasks
    BY TaskShapes DEF ComposerInit, Efforts, SiteType
  <2>2. ui \in UiType
    BY <2>1 DEF ComposerInit, UiType
  <2>3. tries \in TriesType
    BY <2>1 DEF ComposerInit, TriesType
  <2>4. OtherType
    BY <2>1 DEF ComposerInit, OtherType, NoChoice, Places, Errors, NoReceipt
  <2>5. MessageIInv /\ SendsAsMeant
    BY <2>1 DEF ComposerInit, MessageIInv, Selected, SendsAsMeant
  <2>6. RestoredIInv
    <3>1. Clean
      BY DEF ComposerInit, Clean
    <3> QED
      BY <3>1 DEF ComposerInit, RestoredIInv
  <2> QED
    BY <2>2, <2>3, <2>4, <2>5, <2>6, ComposerTypes DEF ComposerIInv
<1>2. ComposerIInv /\ [ComposerNext]_composerVars => ComposerIInv'
  <2> SUFFICES ASSUME ComposerIInv, [ComposerNext]_composerVars PROVE ComposerIInv'
    OBVIOUS
  <2>1. CASE ComposerNext
    BY <2>1, ComposerTyped, MessageKept, RestoredKept, SendKept DEF ComposerIInv
  <2>2. CASE UNCHANGED composerVars
    <3>1. ComposerTypeOK' /\ RestoredIInv'
      BY <2>2 DEF composerVars, ComposerIInv, ComposerTypeOK, RestoredIInv, Clean
    <3>2. /\ StagingEffort' = StagingEffort /\ WithinLimits' = WithinLimits /\ Think' = Think
          /\ task' = task
      BY <2>2 DEF composerVars, StagingEffort, StagingEfforts, WithinLimits, FitsInline,
         FitsInParts, Available, Think
    <3>3. MessageIInv' /\ SendsAsMeant'
      BY <2>2, <3>2 DEF composerVars, ComposerIInv, MessageIInv, SendsAsMeant, Selected,
         EffortOf, IsFinal, Mentions, SizeOf, Wanted
    <3> QED
      BY <3>1, <3>3 DEF ComposerIInv
  <2> QED
    BY <2>1, <2>2
<1> QED
  BY <1>1, <1>2, PTL DEF ComposerSpec

\* Every message goes out with the effort, version, text and connector it was meant with.
THEOREM MessagesAsMeant == ComposerSpec => []SendsAsMeant
<1>1. ComposerIInv => SendsAsMeant
  BY DEF ComposerIInv
<1> QED
  BY <1>1, ComposerConsistent, PTL

\* A turn that is over has put the page back, or its error tells that it could not.
THEOREM PutsBackOrTells == ComposerSpec => []PutBackOrTold
<1>1. ComposerIInv => PutBackOrTold
  BY DEF ComposerIInv, RestoredIInv, Clean, PutBackOrTold
<1> QED
  BY <1>1, ComposerConsistent, PTL
=============================================================================
