--------------------------- MODULE ToolRoundsProofs ---------------------------
(***************************************************************************)
(* For any number of requests, tools and browsers, any length of answer    *)
(* and any budget: Codex reads the text of a browser once and in order,    *)
(* and all of it with the answer.  The steps of the model are first        *)
(* gathered into a few kinds (StepKind), by what they do to a session, to  *)
(* a request and to Codex; the invariant is then kept kind by kind.        *)
(***************************************************************************)
EXTENDS ToolRounds, FiniteSetTheorems, SequenceTheorems, WellFoundedInduction, TLAPS

\* Every set of numbers has a least element.
LEMMA Least ==
  ASSUME NEW T \in SUBSET Nat, T # {}
  PROVE  \E n \in T : \A k \in T : n <= k
<1> DEFINE smaller == {ss \in Nat \X Nat : ss[1] < ss[2]}
<1>1. IsWellFoundedOn(smaller, Nat)
  BY NatLessThanWellFounded, Zenon DEF OpToRel
<1>2. PICK n \in T : \A k \in T : <<k, n>> \notin smaller
  <2> HIDE DEF smaller
  <2> QED
    BY <1>1, WFMin
<1>3. ASSUME NEW k \in T PROVE n <= k
  <2>1. k \in Nat /\ n \in Nat /\ <<k, n>> \in Nat \X Nat
    OBVIOUS
  <2>2. ~(<<k, n>>[1] < <<k, n>>[2])
    BY <1>2, <2>1
  <2> QED
    BY <2>1, <2>2
<1> QED
  BY <1>3

\* A sum that is defined by recursion exists.
Sums(f, T, n) == f = [k \in 0..n |-> IF k = 0 THEN <<>> ELSE f[k - 1] \o T[k]]

\* A recursion over the rounds has a value for every number of rounds.
LEMMA SumExists ==
  ASSUME NEW T, NEW n \in Nat
  PROVE  \E f : Sums(f, T, n)
<1> DEFINE Bad == {k \in Nat : ~ \E f : Sums(f, T, k)}
<1> SUFFICES ASSUME Bad # {} PROVE FALSE
  OBVIOUS
<1>1. PICK k \in Bad : \A j \in Bad : k <= j
  BY Least
<1>2. k \in Nat /\ ~ \E f : Sums(f, T, k)
  BY <1>1
<1>3. Sums([j \in 0..0 |-> <<>>], T, 0)
  BY DEF Sums
<1>4. k # 0
  BY <1>2, <1>3
<1>5. k - 1 \in Nat /\ k - 1 \notin Bad
  BY <1>1, <1>2, <1>4
<1>6. PICK g : Sums(g, T, k - 1)
  BY <1>5
<1> HIDE DEF Bad
<1> DEFINE h == [j \in 0..k |-> IF j = k THEN g[k - 1] \o T[k] ELSE g[j]]
<1>7. \A j \in 0..(k - 1) : g[j] = IF j = 0 THEN <<>> ELSE g[j - 1] \o T[j]
  BY <1>5, <1>6 DEF Sums
<1>8. \A j \in 0..k : h[j] = IF j = 0 THEN <<>> ELSE h[j - 1] \o T[j]
  <2>1. \A j \in 0..k : h[j] = IF j = k THEN g[k - 1] \o T[k] ELSE g[j]
    OBVIOUS
  <2> HIDE DEF h
  <2>2. \A j \in 0..(k - 1) : h[j] = g[j]
    BY <2>1, <1>2
  <2>3. ASSUME NEW j \in 0..k PROVE h[j] = IF j = 0 THEN <<>> ELSE h[j - 1] \o T[j]
    <3>1. CASE j = k
      <4>1. k \in 0..k /\ k - 1 \in 0..(k - 1)
        BY <1>2, <1>5
      <4>2. h[k] = g[k - 1] \o T[k] /\ h[k - 1] = g[k - 1]
        BY <4>1, <2>1, <2>2
      <4> QED
        BY <3>1, <4>2, <1>4
    <3>2. CASE j # k
      <4>1. j \in 0..(k - 1) /\ (j # 0 => j - 1 \in 0..(k - 1))
        BY <3>2, <1>2
      <4> QED
        BY <4>1, <2>2, <1>7
    <3> QED
      BY <3>1, <3>2
  <2> QED
    BY <2>3
<1>9. Sums(h, T, k)
  <2>1. h = [j \in 0..k |-> h[j]]
    OBVIOUS
  <2> HIDE DEF h
  <2> QED
    BY <1>8, <2>1 DEF Sums
<1> QED
  BY <1>2, <1>9

\* What a response of session s tells, of those Codex has kept.
Tells(h, s) == IF h.on = s THEN SubSeq(h.events, 1, Len(h.events) - 1) ELSE <<>>
Told(held, s, k) == Tells(held[k], s)

\* The text heard through a round is that of the earlier rounds and its own.
LEMMA HeardStep ==
  ASSUME NEW held, Len(held) \in Nat, NEW s
  PROVE  /\ HeardIn(held, s)[0] = <<>>
         /\ \A k \in 1..Len(held) :
              HeardIn(held, s)[k] = HeardIn(held, s)[k - 1] \o Told(held, s, k)
<1> DEFINE T == [k \in 1..Len(held) |-> Told(held, s, k)]
           Body(f) == [k \in 0..Len(held) |-> IF k = 0 THEN <<>> ELSE f[k - 1] \o Told(held, s, k)]
<1>1. PICK g : Sums(g, T, Len(held))
  BY SumExists
<1>2. g = Body(g)
  <2>1. \A k \in 0..Len(held) : k # 0 => T[k] = Told(held, s, k)
    OBVIOUS
  <2> QED
    BY <1>1, <2>1 DEF Sums
<1>3. HeardIn(held, s) = CHOOSE f : f = Body(f)
  BY DEF HeardIn, Told, Tells
<1>4. HeardIn(held, s) = Body(HeardIn(held, s))
  BY <1>2, <1>3
<1> DEFINE F == HeardIn(held, s)
<1>5. F = [k \in 0..Len(held) |-> IF k = 0 THEN <<>> ELSE F[k - 1] \o Told(held, s, k)]
  BY <1>4
<1> HIDE DEF T, F
<1>6. F[0] = <<>>
  BY <1>5
<1>7. ASSUME NEW k \in 1..Len(held) PROVE F[k] = F[k - 1] \o Told(held, s, k)
  <2>1. k \in 0..Len(held) /\ k # 0
    OBVIOUS
  <2> QED
    BY <1>5, <2>1
<1> QED
  BY <1>6, <1>7 DEF F

-----------------------------------------------------------------------------
(***************************************************************************)
(* The rounds of a turn (ToolRounds).  Of a browser, what counts is what   *)
(* its journal has for the round Codex is in, and what it has not told     *)
(* yet.  Codex is in a round for the first time (Onward), or asks again    *)
(* for the one it had received from this browser (Again).                  *)
(***************************************************************************)

TextEvents == [type : {"text"}, n : Nat]
ToolEvents == [type : {"tools"}, calls : SUBSET Tools]
ErrorEvents == [type : {"error"}, retry : BOOLEAN]
DoneEvent == [type |-> "done"]
Events == TextEvents \cup ToolEvents \cup ErrorEvents \cup {DoneEvent}
Responses == [on : Nat, events : Seq(Events)]

Outcomes == {"running", "final", "generic", "rejected", "retryable"}
Surfaces ==
  [phase : {"starting", "prepared", "activated", "accepted"}, outcome : Outcomes,
   cancelled : BOOLEAN, retired : BOOLEAN, written : Nat, pushed : Nat, drained : Nat,
   told : BOOLEAN, call : [Tools -> {"none", "queued", "delivered", "answered"}],
   after : [Tools -> Nat], active : Int, batches : Nat, observed : Nat,
   outstanding : SUBSET Tools, resolved : SUBSET Tools,
   prelude : Seq(Events), final : Seq(Events), journal : [RoundKeys -> Seq(Events)],
   completed : SUBSET RoundKeys, failed : SUBSET RoundKeys, tail : Seq(Observers)]

Busy == {"token", "deliver", "race", "finish"}
Asked ==
  [pc : Busy \cup {"idle", "queued"}, on : Nat, key : RoundKeys, results : SUBSET Tools,
   gone : BOOLEAN, seen : Seq(Events), batch : SUBSET Tools, rev : Nat]
Codexes ==
  [round : Nat \ {0}, variant : {1, 2}, held : Seq(Responses),
   live : Observers \cup {Nobody}, state : {"asking", "finished", "refused"}, lost : Nat]

RoundsTyped ==
  /\ mode \in {"tools", "manual", "readonly"} /\ buffered \in BOOLEAN
  /\ sess \in Seq(Surfaces) /\ current \in 0..Len(sess)
  /\ obs \in [Observers -> Asked] /\ codex \in Codexes

\* A browser serves its requests one at a time, in the order they came.
RoundsQueued ==
  /\ \A s \in 1..Len(sess) :
       /\ \A i \in 1..Len(sess[s].tail) :
            obs[sess[s].tail[i]].pc # "idle" /\ obs[sess[s].tail[i]].on = s
       /\ \A i, j \in 1..Len(sess[s].tail) : sess[s].tail[i] = sess[s].tail[j] => i = j
  /\ \A o \in Observers : obs[o].pc # "idle" =>
       /\ obs[o].on \in 1..Len(sess)
       /\ \E i \in 1..Len(Of(o).tail) : Of(o).tail[i] = o
       /\ obs[o].pc \in Busy => Of(o).tail[1] = o /\ obs[o].key \notin Of(o).completed

\* A request that delivers results delivers all that are awaited; the model goes on
\* when it has them.
ResultsAwaited ==
  \A o \in Observers :
    /\ obs[o].pc = "deliver" => Of(o).outstanding \subseteq obs[o].results
    /\ obs[o].pc \in {"race", "finish"} => Of(o).outstanding = {}
    /\ obs[o].batch # {} => obs[o].pc = "race"
    /\ obs[o].pc = "race" => obs[o].batch \subseteq CallsIn(Of(o), {"delivered"})

HeldOn(c, s) == {k \in 1..(c.round - 1) : c.held[k].on = s}
CallsOf(c, k) == LastOf(c.held[k].events).calls

\* The request Codex waits for is the last one of its browser, and has told the journal.
LiveIsLast ==
  /\ \A o \in Observers : obs[o].pc # "idle" => (obs[o].gone <=> o # codex.live)
  /\ codex.live # Nobody =>
       LET o == obs[codex.live]
           x == sess[o.on]
       IN  /\ codex.state = "asking" /\ o.pc # "idle" /\ current \in {0, o.on}
           /\ o.results = UNION {CallsOf(codex, k) : k \in HeldOn(codex, o.on)}
           /\ x.tail[Len(x.tail)] = codex.live
           /\ o.seen = IF o.pc = "queued" THEN <<>> ELSE x.journal[o.key]

\* A browser that is asked or may be.
Works(x) ==
  /\ x.outstanding \subseteq CallsIn(x, {"delivered"}) /\ x.outstanding \cap x.resolved = {}
  /\ x.told => mode = "manual"
  /\ x.phase = "starting" => ~x.told /\ x.outcome # "final"
  /\ x.told \/ x.outcome = "final" => CallsIn(x, {"queued", "delivered"}) = {}
  /\ x.drained <= x.pushed /\ x.pushed <= x.written /\ x.failed \subseteq x.completed
  /\ x.outcome = "final" \/ mode = "manual" => x.pushed = x.written
  /\ x.outcome = "running" => x.final = <<>>
  /\ mode = "readonly" => x.outstanding = {} /\ CallsIn(x, {"queued", "delivered"}) = {}
SurfacesWork == \A s \in 1..Len(sess) : s = current \/ sess[s].tail # <<>> => Works(sess[s])

\* A structured answer that was asked for again, and read whole both times.
Twice(n) == Between(0, n) \o Between(0, n)
ReadTwice(c, b, heard, n) == b /\ c.variant = 2 /\ heard = Twice(n)

\* What Codex has kept.
Length(c, s, k) == Len(HeardIn(c.held, s)[k])
IsAnswer(c, s, k) == c.state = "finished" /\ k = c.round /\ c.held[k].on = s
HeldInOrder ==
  /\ Len(codex.held) = codex.round - 1 \/ Len(codex.held) = codex.round
  /\ codex.state = "asking" /\ Len(codex.held) = codex.round => codex.variant = 2
  /\ \A k \in 1..Len(codex.held) :
       /\ codex.held[k].on \in 1..Len(sess) /\ codex.held[k].events # <<>>
       /\ k < codex.round => LastOf(codex.held[k].events) \in ToolEvents
  /\ \A s \in Nat, k \in 0..Len(codex.held) :
       /\ Length(codex, s, k) \in Nat
       /\ IsAnswer(codex, s, k) \/ HeardIn(codex.held, s)[k] = Between(0, Length(codex, s, k))
       /\ s \notin 1..Len(sess) => Length(codex, s, k) = 0
       /\ buffered /\ k < codex.round => Length(codex, s, k) = 0
  /\ codex.state = "finished" =>
       /\ Len(codex.held) = codex.round
       /\ LET s == codex.held[codex.round].on
              heard == HeardIn(codex.held, s)[codex.round]
              n == sess[s].written
          IN  /\ sess[s].outcome = "final" /\ current \in {0, s}
              /\ heard = Between(0, n) \/ ReadTwice(codex, buffered, heard, n)

\* What a journal has for a round.
Untold(x, k) == x.journal[k] = <<>> /\ k \notin x.completed
Broken(x, k) ==
  k \in x.completed /\ (k \in x.failed \/ (x.journal[k] # <<>> /\ LastOf(x.journal[k]) \in ErrorEvents))
Fresh(x, k) == k \in RoundKeys => Untold(x, k) \/ Broken(x, k)
\* How much of a browser's text is in its journals: a structured answer comes last.
Shown(b, x) == IF b THEN 0 ELSE x.drained
ToldTools(b, x, k, m) ==
  /\ k \in x.completed \ x.failed /\ x.outstanding # {}
  /\ \E calls \in SUBSET Tools :
       /\ x.outstanding \subseteq calls /\ calls \subseteq x.outstanding \cup x.resolved
       /\ x.journal[k] = Append(Between(m, Shown(b, x)), Batch(calls))
AllTold(b, x, m) ==
  /\ x.outcome = "final" /\ m <= x.written
  /\ IF b THEN x.final \in {<<>>, Between(0, x.written)}
     ELSE x.drained = x.written /\ x.final = Between(m, x.written)
ToldOnce(b, x, k, m) ==
  /\ k \in x.completed \ x.failed /\ AllTold(b, x, m)
  /\ x.journal[k] = Append(Between(m, x.written), DoneEvent)
ToldTwice(b, x, k) ==
  /\ k \in x.completed \ x.failed /\ x.outcome = "final" /\ b /\ k[2] = 2
  /\ x.journal[k] = Append(Twice(x.written), DoneEvent)
ToldDone(b, x, k, m) == ToldOnce(b, x, k, m) \/ ToldTwice(b, x, k)

\* Codex is in its round for the first time with this browser.
Telling(b, x, k, m) ==
  /\ k \notin x.completed /\ m <= Shown(b, x)
  /\ x.journal[k] = Between(m, Shown(b, x))
  /\ x.outcome = "final" => x.final = <<>>
AwaitsResults(c, b, x, s) ==
  LET m == Length(c, s, c.round - 2)
  IN  /\ c.round > 1 /\ c.held[c.round - 1].on = s
      /\ x.outstanding \subseteq CallsOf(c, c.round - 1)
      /\ Fresh(x, <<c.round, c.variant>>)
      /\ Length(c, s, c.round - 1) = Shown(b, x) /\ m <= Shown(b, x)
      /\ x.prelude = Between(m, Shown(b, x))
      /\ Fresh(x, <<c.round - 1, 2>>) \/ ToldTools(b, x, <<c.round - 1, 2>>, m)
Onward(c, b, x, s) ==
  LET m == Length(c, s, c.round - 1)
      k == <<c.round, c.variant>>
  IN  /\ k \in RoundKeys => Telling(b, x, k, m) \/ Broken(x, k) \/ ToldDone(b, x, k, m)
      /\ x.outstanding # {} => AwaitsResults(c, b, x, s)
      /\ \A j \in HeldOn(c, s) :
           /\ CallsOf(c, j) \subseteq x.resolved \cup x.outstanding
           /\ j < c.round - 1 => CallsOf(c, j) \subseteq x.resolved

\* Codex asks this browser again for what it had received from it.
IsAgain(c, s) == Len(c.held) = c.round /\ c.held[c.round].on = s
Again(c, b, x, s) ==
  LET m == Length(c, s, c.round - 1)
      k == <<c.round, c.variant>>
  IN  /\ Fresh(x, k) \/ ToldTools(b, x, k, m) \/ ToldDone(b, x, k, m)
      /\ m <= Shown(b, x)
      /\ IF x.outcome = "final" THEN AllTold(b, x, m) \/ ToldTwice(b, x, k)
         ELSE /\ x.outstanding # {} /\ x.outstanding \subseteq CallsOf(c, c.round)
              /\ x.prelude = Between(m, Shown(b, x))
      /\ \A j \in HeldOn(c, s) : CallsOf(c, j) \subseteq x.resolved

Later(c, k) == k[1] > c.round \/ (k[1] = c.round /\ k[2] > c.variant)
Follows(c, b, x, s) ==
  /\ \A k \in RoundKeys : Later(c, k) => Fresh(x, k)
  /\ IF IsAgain(c, s) THEN Again(c, b, x, s) ELSE Onward(c, b, x, s)

\* The browser of the request Codex waits for, or that the next one will ask.
IsHere(s) == s = current \/ (codex.live # Nobody /\ s = obs[codex.live].on)
RequestsHere(s) ==
  \A o \in Observers : obs[o].pc # "idle" /\ obs[o].on = s =>
    /\ obs[o].key = <<codex.round, codex.variant>>
    /\ IsAgain(codex, s) =>
         /\ codex.variant = 2
         /\ obs[o].pc = "queued" \/ (obs[o].pc = "token" /\ sess[s].outcome # "final")
RoundsFollow ==
  codex.state # "refused" =>
    \A s \in 1..Len(sess) : IsHere(s) => Follows(codex, buffered, sess[s], s) /\ RequestsHere(s)

RoundsIInv ==
  /\ RoundsTyped /\ RoundsQueued /\ ResultsAwaited /\ LiveIsLast /\ SurfacesWork
  /\ HeldInOrder /\ RoundsFollow

-----------------------------------------------------------------------------
(* Texts                                                                     *)

\* The pieces of text between two positions are a list of events, as long as the
\* distance.
LEMMA BetweenFacts ==
  ASSUME NEW i \in Nat, NEW j \in Nat, i <= j
  PROVE  /\ Between(i, j) \in Seq(TextEvents) /\ Between(i, j) \in Seq(Events)
         /\ Len(Between(i, j)) = j - i /\ (i = j => Between(i, j) = <<>>)
<1>1. j - i \in Nat
  OBVIOUS
<1>2. \A k \in 1..(j - i) : TextPiece(i + k) \in TextEvents
  BY DEF TextPiece, TextEvents
<1>3. Between(i, j) \in Seq(TextEvents) /\ Len(Between(i, j)) = j - i
  BY <1>1, <1>2 DEF Between
<1>4. TextEvents \subseteq Events
  BY DEF Events
<1>5. Between(i, j) \in Seq(Events)
  BY <1>3, <1>4, SeqMonotonic
<1> QED
  BY <1>3, <1>5

\* A browser's text is drained piece by piece, and the pieces join.
LEMMA BetweenJoins ==
  ASSUME NEW i \in Nat, NEW j \in Nat, NEW k \in Nat, i <= j, j <= k
  PROVE  Between(i, j) \o Between(j, k) = Between(i, k)
<1>1. /\ Between(i, j) \in Seq(TextEvents) /\ Between(j, k) \in Seq(TextEvents)
      /\ Between(i, k) \in Seq(TextEvents)
      /\ Len(Between(i, j)) = j - i /\ Len(Between(j, k)) = k - j /\ Len(Between(i, k)) = k - i
  <2>1. i <= k
    OBVIOUS
  <2> QED
    BY <2>1, BetweenFacts
<1>2. /\ Between(i, j) \o Between(j, k) \in Seq(TextEvents)
      /\ Len(Between(i, j) \o Between(j, k)) = k - i
      /\ \A n \in 1..(k - i) : (Between(i, j) \o Between(j, k))[n] =
           IF n <= j - i THEN Between(i, j)[n] ELSE Between(j, k)[n - (j - i)]
  <2> DEFINE a == Between(i, j)
             c == Between(j, k)
  <2>1. /\ a \in Seq(TextEvents) /\ c \in Seq(TextEvents)
        /\ Len(a) = j - i /\ Len(c) = k - j
    BY <1>1
  <2> HIDE DEF a, c
  <2>2. /\ a \o c \in Seq(TextEvents) /\ Len(a \o c) = Len(a) + Len(c)
        /\ \A n \in 1..(Len(a) + Len(c)) : (a \o c)[n] =
             IF n <= Len(a) THEN a[n] ELSE c[n - Len(a)]
    BY <2>1, ConcatProperties
  <2>3. Len(a) + Len(c) = k - i
    BY <2>1
  <2>4. /\ a \o c \in Seq(TextEvents) /\ Len(a \o c) = k - i
        /\ \A n \in 1..(k - i) : (a \o c)[n] = IF n <= j - i THEN a[n] ELSE c[n - (j - i)]
    BY <2>1, <2>2, <2>3
  <2> QED
    BY <2>4 DEF a, c
<1>3. /\ \A n \in 1..(j - i) : Between(i, j)[n] = TextPiece(i + n)
      /\ \A n \in 1..(k - j) : Between(j, k)[n] = TextPiece(j + n)
      /\ \A n \in 1..(k - i) : Between(i, k)[n] = TextPiece(i + n)
  BY DEF Between
<1>4. ASSUME NEW n \in 1..(k - i)
      PROVE  (Between(i, j) \o Between(j, k))[n] = Between(i, k)[n]
  <2>1. CASE n <= j - i
    BY <1>2, <1>3, <2>1
  <2>2. CASE ~(n <= j - i)
    <3>1. n - (j - i) \in 1..(k - j) /\ j + (n - (j - i)) = i + n
      BY <2>2
    <3> QED
      BY <1>2, <1>3, <2>2, <3>1
  <2> QED
    BY <2>1, <2>2
<1> QED
  BY <1>1, <1>2, <1>4, SeqEqual

\* A list of events and the one that closes it.
LEMMA ClosedList ==
  ASSUME NEW list \in Seq(Events), NEW e \in Events
  PROVE  LET closed == Append(list, e)
         IN  /\ closed \in Seq(Events) /\ closed # <<>> /\ LastOf(closed) = e
             /\ list \o <<e>> = closed
             /\ SubSeq(closed, 1, Len(closed) - 1) = list
<1> DEFINE closed == Append(list, e)
<1>1. /\ closed \in Seq(Events) /\ Len(closed) = Len(list) + 1 /\ Len(list) \in Nat
      /\ closed[Len(list) + 1] = e /\ \A i \in 1..Len(list) : closed[i] = list[i]
  OBVIOUS
<1>2. list \o <<e>> = closed
  OBVIOUS
<1> HIDE DEF closed
<1>3. closed # <<>> /\ LastOf(closed) = e
  BY <1>1 DEF LastOf
<1>4. \A i \in 1..(Len(closed) - 1) : closed[i] \in Events
  BY <1>1
<1>5. /\ SubSeq(closed, 1, Len(closed) - 1) \in Seq(Events)
      /\ Len(SubSeq(closed, 1, Len(closed) - 1)) = Len(list)
      /\ \A i \in 1..Len(list) : SubSeq(closed, 1, Len(closed) - 1)[i] = closed[i]
  BY <1>1, <1>4, SubSeqProperties
<1>6. SubSeq(closed, 1, Len(closed) - 1) = list
  BY <1>1, <1>5, SeqEqual
<1> QED
  BY <1>1, <1>2, <1>3, <1>6 DEF closed

\* The kinds of events differ.
LEMMA Kinds ==
  /\ DoneEvent \in Events /\ DoneEvent \notin ToolEvents /\ DoneEvent \notin ErrorEvents
  /\ DoneEvent.type = "done"
  /\ \A e \in ToolEvents : /\ e \in Events /\ e \notin ErrorEvents /\ e.type = "tools"
                          /\ e.calls \in SUBSET Tools
  /\ \A e \in ErrorEvents : e \in Events /\ e.type = "error" /\ e.retry \in BOOLEAN
  /\ \A calls \in SUBSET Tools : Batch(calls) \in ToolEvents /\ Batch(calls).calls = calls
BY DEF Events, ToolEvents, ErrorEvents, DoneEvent, Batch

-----------------------------------------------------------------------------
(* What Codex has heard                                                      *)

\* What is kept in place of the rounds from r on.
LEMMA KeptNext ==
  ASSUME NEW held \in Seq(Responses), NEW r \in 1..(Len(held) + 1), NEW h \in Responses
  PROVE  LET next == Append(SubSeq(held, 1, r - 1), h)
         IN  /\ next \in Seq(Responses) /\ Len(next) = r /\ next[r] = h
             /\ \A k \in 1..(r - 1) : next[k] = held[k]
<1> DEFINE part == SubSeq(held, 1, r - 1)
<1>1. \A k \in 1..(r - 1) : held[k] \in Responses
  OBVIOUS
<1>2. /\ part \in Seq(Responses) /\ Len(part) = r - 1
      /\ \A k \in 1..(r - 1) : part[k] = held[k]
  BY <1>1, SubSeqProperties
<1> HIDE DEF part
<1> SUFFICES LET next == Append(part, h)
             IN  /\ next \in Seq(Responses) /\ Len(next) = r /\ next[r] = h
                 /\ \A k \in 1..(r - 1) : next[k] = held[k]
  BY DEF part
<1> QED
  BY <1>2

\* What is heard through a round depends on the responses kept up to it alone.
LEMMA HeardSame ==
  ASSUME NEW held \in Seq(Responses), NEW next \in Seq(Responses), NEW s,
         NEW n \in Nat, n <= Len(held), n <= Len(next), \A k \in 1..n : next[k] = held[k]
  PROVE  \A k \in 0..n : HeardIn(next, s)[k] = HeardIn(held, s)[k]
<1>1. /\ HeardIn(held, s)[0] = <<>> /\ HeardIn(next, s)[0] = <<>>
      /\ \A k \in 1..n : HeardIn(held, s)[k] = HeardIn(held, s)[k - 1] \o Told(held, s, k)
      /\ \A k \in 1..n : HeardIn(next, s)[k] = HeardIn(next, s)[k - 1] \o Told(next, s, k)
  <2>1. /\ Len(held) \in Nat /\ Len(next) \in Nat
        /\ \A k \in 1..n : k \in 1..Len(held) /\ k \in 1..Len(next)
    OBVIOUS
  <2> QED
    BY <2>1, HeardStep
<1>2. \A k \in 1..n : Told(next, s, k) = Told(held, s, k)
  BY DEF Told
<1> DEFINE Bad == {k \in 0..n : HeardIn(next, s)[k] # HeardIn(held, s)[k]}
<1> SUFFICES ASSUME Bad # {} PROVE FALSE
  OBVIOUS
<1>3. Bad \in SUBSET Nat
  OBVIOUS
<1>4. PICK k \in Bad : \A j \in Bad : k <= j
  BY <1>3, Least
<1>5. k \in 0..n /\ HeardIn(next, s)[k] # HeardIn(held, s)[k]
  BY <1>4
<1>6. k \in 1..n
  BY <1>1, <1>5
<1>7. k - 1 \in 0..n /\ k - 1 \notin Bad
  BY <1>4, <1>6
<1>8. HeardIn(next, s)[k - 1] = HeardIn(held, s)[k - 1]
  BY <1>7
<1> QED
  BY <1>1, <1>2, <1>5, <1>6, <1>8

\* A browser's text grows by what the new response tells.
LEMMA HeardBefore ==
  ASSUME NEW held \in Seq(Responses), NEW r \in 1..(Len(held) + 1), NEW h \in Responses, NEW s,
         NEW next, next = Append(SubSeq(held, 1, r - 1), h)
  PROVE  \A k \in 0..(r - 1) : HeardIn(next, s)[k] = HeardIn(held, s)[k]
<1>1. /\ next \in Seq(Responses) /\ Len(next) = r /\ next[r] = h
      /\ \A k \in 1..(r - 1) : next[k] = held[k]
  BY KeptNext
<1>2. r - 1 \in Nat /\ r - 1 <= Len(held) /\ r - 1 <= Len(next)
  BY <1>1
<1> QED
  BY ONLY held \in Seq(Responses), <1>1, <1>2, HeardSame

\* A response that is kept adds its text to what its browser told before.
LEMMA HeardGrows ==
  ASSUME NEW held \in Seq(Responses), NEW r \in 1..(Len(held) + 1), NEW h \in Responses, NEW s,
         NEW next, next = Append(SubSeq(held, 1, r - 1), h)
  PROVE  HeardIn(next, s)[r] = HeardIn(held, s)[r - 1] \o Tells(h, s)
<1>1. next \in Seq(Responses) /\ Len(next) = r /\ next[r] = h
  BY KeptNext
<1>2. r - 1 \in 0..(r - 1) /\ Len(next) \in Nat /\ r \in 1..Len(next)
  BY <1>1
<1>3. HeardIn(next, s)[r] = HeardIn(next, s)[r - 1] \o Told(next, s, r)
  BY ONLY <1>2, HeardStep
<1>4. HeardIn(next, s)[r - 1] = HeardIn(held, s)[r - 1]
  BY <1>2, HeardBefore
<1>5. Told(next, s, r) = Tells(h, s)
  BY <1>1 DEF Told
<1> QED
  BY <1>3, <1>4, <1>5

\* The fields of a session, and what changing one leaves.
LEMMA SurfaceFields ==
  ASSUME NEW x \in Surfaces
  PROVE  /\ x.outcome \in Outcomes /\ x.written \in Nat /\ x.pushed \in Nat /\ x.drained \in Nat
         /\ x.told \in BOOLEAN /\ x.call \in [Tools -> {"none", "queued", "delivered", "answered"}]
         /\ x.active \in Int /\ x.batches \in Nat /\ x.observed \in Nat
         /\ x.outstanding \in SUBSET Tools /\ x.resolved \in SUBSET Tools
         /\ x.prelude \in Seq(Events) /\ x.final \in Seq(Events)
         /\ x.journal \in [RoundKeys -> Seq(Events)] /\ x.completed \in SUBSET RoundKeys
         /\ x.failed \in SUBSET RoundKeys /\ x.tail \in Seq(Observers)
         /\ x.after \in [Tools -> Nat]
BY DEF Surfaces

\* What a browser leaves of its session.
Kept(x, y) ==
  /\ y.drained = x.drained /\ y.outstanding = x.outstanding /\ y.resolved = x.resolved
  /\ y.prelude = x.prelude /\ y.final = x.final /\ y.journal = x.journal
  /\ y.completed = x.completed /\ y.failed = x.failed /\ y.tail = x.tail

\* What a request leaves of its session, whatever it journals.
Served(x, y) ==
  /\ y.outcome = x.outcome /\ y.told = x.told /\ y.written = x.written /\ y.pushed = x.pushed
  /\ y.phase = x.phase

\* What a request journals is added to its own round.
LEMMA JournalGrows ==
  ASSUME NEW x \in Surfaces, NEW k \in RoundKeys, NEW list \in Seq(Events)
  PROVE  LET all == [x.journal EXCEPT ![k] = x.journal[k] \o list]
         IN  /\ all \in [RoundKeys -> Seq(Events)] /\ all[k] = x.journal[k] \o list
             /\ all[k] \in Seq(Events)
             /\ \A j \in RoundKeys \ {k} : all[j] = x.journal[j]
<1>1. x.journal \in [RoundKeys -> Seq(Events)] /\ x.journal[k] \in Seq(Events)
  BY SurfaceFields
<1>2. x.journal[k] \o list \in Seq(Events)
  BY <1>1, ConcatProperties
<1> QED
  BY <1>1, <1>2

\* Aborting the browser and revoking the capability leave what was told.
LEMMA PutRetired ==
  ASSUME NEW x \in Surfaces, NEW c \in BOOLEAN, NEW r \in BOOLEAN, NEW n \in Int
  PROVE  LET y == [x EXCEPT !.cancelled = c, !.retired = r, !.active = n]
         IN  y \in Surfaces /\ Kept(x, y) /\ Served(x, y) /\ y.call = x.call
BY DEF Surfaces, Served, Kept

\* runtime.cancel leaves what the rounds have told.
LEMMA PutCancelled ==
  ASSUME NEW x \in Surfaces
  PROVE  LET y == Cancelled(x)
         IN  y \in Surfaces /\ Kept(x, y) /\ Served(x, y) /\ y.call = x.call
<1>1. TRUE \in BOOLEAN /\ 0 \in Int
  OBVIOUS
<1> QED
  BY ONLY <1>1, PutRetired, x \in Surfaces DEF Cancelled

\* A session changed in anything but its calls, its counters and its text goes on working.
LEMMA WorksOn ==
  ASSUME NEW x, NEW y, Works(x), Served(x, y), y.call = x.call, y.outstanding = x.outstanding,
         y.resolved = x.resolved, y.drained = x.drained \/ y.drained = x.pushed,
         y.failed \subseteq y.completed, y.outcome = "running" => y.final = <<>>,
         x.pushed \in Nat
  PROVE  Works(y)
BY DEF Works, Served, CallsIn

\* A drain yields the text pushed since the last one; a structured answer none.
LEMMA FreshTyped ==
  ASSUME NEW x \in Surfaces, Works(x)
  PROVE  /\ FreshText(x) \in Seq(Events)
         /\ buffered => FreshText(x) = <<>>
         /\ ~buffered => FreshText(x) = Between(x.drained, x.pushed)
<1>1. x.drained \in Nat /\ x.pushed \in Nat
  BY SurfaceFields
<1>2. x.drained <= x.pushed
  BY DEF Works
<1>3. Between(x.drained, x.pushed) \in Seq(Events)
  BY <1>1, <1>2, BetweenFacts
<1>4. <<>> \in Seq(Events)
  OBVIOUS
<1> QED
  BY <1>3, <1>4 DEF FreshText

\* A drain takes what was pushed; everything else stays.
LEMMA DrainFacts ==
  ASSUME NEW o, NEW x \in Surfaces, Works(x), obs[o].key \in RoundKeys
  PROVE  LET y == Drain(o, x)
             k == obs[o].key
         IN  /\ y \in Surfaces /\ Works(y) /\ Served(x, y) /\ y.drained = x.pushed
             /\ y.journal[k] = x.journal[k] \o FreshText(x) /\ y.journal[k] \in Seq(Events)
             /\ \A j \in RoundKeys \ {k} : y.journal[j] = x.journal[j]
             /\ y.call = x.call /\ y.outstanding = x.outstanding /\ y.resolved = x.resolved
             /\ y.prelude = x.prelude /\ y.final = x.final
             /\ y.completed = x.completed /\ y.failed = x.failed /\ y.tail = x.tail
<1> DEFINE k == obs[o].key
           all == [x.journal EXCEPT ![k] = x.journal[k] \o FreshText(x)]
           y == [x EXCEPT !.drained = x.pushed, !.journal = all]
<1>1. Drain(o, x) = y
  BY DEF Drain
<1>2. k \in RoundKeys /\ FreshText(x) \in Seq(Events) /\ x.pushed \in Nat
  BY FreshTyped, SurfaceFields
<1>3. /\ all \in [RoundKeys -> Seq(Events)] /\ all[k] = x.journal[k] \o FreshText(x)
      /\ all[k] \in Seq(Events) /\ \A j \in RoundKeys \ {k} : all[j] = x.journal[j]
  BY <1>2, JournalGrows
<1> HIDE DEF all
<1>4. /\ y \in Surfaces /\ y.drained = x.pushed /\ y.journal = all /\ Served(x, y)
      /\ y.call = x.call /\ y.outstanding = x.outstanding /\ y.resolved = x.resolved
      /\ y.prelude = x.prelude /\ y.final = x.final
      /\ y.completed = x.completed /\ y.failed = x.failed /\ y.tail = x.tail
  BY ONLY x \in Surfaces, <1>2, <1>3 DEF Surfaces, Served
<1> HIDE DEF y
<1>5. Works(y)
  <2>1. y.failed \subseteq y.completed /\ (y.outcome = "running" => y.final = <<>>)
    BY <1>4 DEF Works, Served
  <2> QED
    BY <1>2, <1>4, <2>1, WorksOn
<1> HIDE DEF k
<1> QED
  BY <1>1, <1>3, <1>4, <1>5 DEF k

\* What a request that goes on does to its session.
Proceeds(x, y, k) ==
  /\ y \in Surfaces /\ Works(y) /\ Served(x, y) /\ y.tail = x.tail
  /\ y.completed = x.completed /\ y.failed = x.failed /\ y.final = x.final
  /\ \A j \in RoundKeys \ {k} : y.journal[j] = x.journal[j]
  /\ \/ y.drained = x.drained /\ y.journal[k] = x.journal[k]
     \/ /\ y.outstanding = {} /\ y.drained = x.pushed
        /\ y.journal[k] = x.journal[k] \o FreshText(x)
  /\ y.outstanding \subseteq x.outstanding
  /\ y.resolved = x.resolved \cup (x.outstanding \ y.outstanding)
  /\ y.prelude = x.prelude \/ y.outstanding = {}

\* A request may go on without touching its session.
LEMMA ProceedsSame ==
  ASSUME NEW x \in Surfaces, Works(x), NEW k
  PROVE  Proceeds(x, x, k)
BY DEF Proceeds, Served

\* A request that drains the text feed goes on.
LEMMA DrainProceeds ==
  ASSUME NEW o, NEW x \in Surfaces, Works(x), obs[o].key \in RoundKeys, x.outstanding = {}
  PROVE  Proceeds(x, Drain(o, x), obs[o].key) /\ Drain(o, x).call = x.call
<1> DEFINE y == Drain(o, x)
           k == obs[o].key
<1>1. /\ y \in Surfaces /\ Works(y) /\ Served(x, y) /\ y.drained = x.pushed
      /\ y.journal[k] = x.journal[k] \o FreshText(x)
      /\ \A j \in RoundKeys \ {k} : y.journal[j] = x.journal[j]
      /\ y.call = x.call /\ y.outstanding = x.outstanding /\ y.resolved = x.resolved
      /\ y.prelude = x.prelude /\ y.final = x.final
      /\ y.completed = x.completed /\ y.failed = x.failed /\ y.tail = x.tail
  BY DrainFacts
<1> HIDE DEF y, k
<1>2. y.resolved = x.resolved \cup (x.outstanding \ y.outstanding)
  BY <1>1
<1> QED
  BY <1>1, <1>2 DEF Proceeds, y, k

\* A request that delivers one result of several goes on.
LEMMA AnsweredProceeds ==
  ASSUME NEW x \in Surfaces, Works(x), NEW k, NEW c \in x.outstanding
  PROVE  LET y == Answered(x, c)
         IN  /\ Proceeds(x, y, k) /\ y.outstanding = x.outstanding \ {c}
             /\ y.drained = x.drained /\ y.journal = x.journal
<1> DEFINE y == Answered(x, c)
           calls == [x.call EXCEPT ![c] = "answered"]
           list == IF x.outstanding = {c} THEN <<>> ELSE x.prelude
           D == x.outstanding \ {c}
           R == x.resolved \cup {c}
           n == x.active - 1
           z == [x EXCEPT !.call = calls, !.active = n, !.outstanding = D, !.resolved = R,
                          !.prelude = list]
<1>1. y = z
  BY DEF Answered
<1>2. /\ x.outstanding \in SUBSET Tools /\ x.resolved \in SUBSET Tools /\ x.active \in Int
      /\ x.call \in [Tools -> {"none", "queued", "delivered", "answered"}]
      /\ x.prelude \in Seq(Events) /\ x.pushed \in Nat
  BY SurfaceFields
<1>3. /\ calls \in [Tools -> {"none", "queued", "delivered", "answered"}]
      /\ n \in Int /\ D \in SUBSET Tools /\ R \in SUBSET Tools /\ list \in Seq(Events)
  BY <1>2
<1>4. /\ calls[c] = "answered" /\ \A d \in Tools \ {c} : calls[d] = x.call[d]
  BY <1>2
<1>5. list = x.prelude \/ D = {}
  OBVIOUS
<1> HIDE DEF calls, list, n, z
<1>6. /\ z \in Surfaces /\ z.drained = x.drained /\ z.journal = x.journal /\ Served(x, z)
      /\ z.call = calls /\ z.outstanding = D /\ z.resolved = R
      /\ z.prelude = list /\ z.final = x.final
      /\ z.completed = x.completed /\ z.failed = x.failed /\ z.tail = x.tail
  BY ONLY x \in Surfaces, <1>3 DEF z, Surfaces, Served
<1>7. /\ CallsIn(z, {"delivered"}) = CallsIn(x, {"delivered"}) \ {c}
      /\ CallsIn(z, {"queued", "delivered"}) = CallsIn(x, {"queued", "delivered"}) \ {c}
  BY <1>2, <1>4, <1>6 DEF CallsIn
<1>8. Works(z)
  <2>1. D \subseteq CallsIn(z, {"delivered"}) /\ D \cap R = {}
    BY <1>7 DEF Works
  <2> HIDE DEF D, R
  <2> QED
    BY <2>1, <1>6, <1>7 DEF Works, Served, D
<1>9. D \subseteq x.outstanding /\ R = x.resolved \cup (x.outstanding \ D)
  OBVIOUS
<1> HIDE DEF D, R, y
<1>10. Proceeds(x, z, k)
  BY <1>5, <1>6, <1>8, <1>9 DEF Proceeds
<1> QED
  BY <1>1, <1>6, <1>10 DEF y, D

\* A request that delivers the last result and drains the feed goes on.
LEMMA AnsweredDrains ==
  ASSUME NEW o, NEW x \in Surfaces, Works(x), obs[o].key \in RoundKeys, NEW c, x.outstanding = {c}
  PROVE  LET y == Drain(o, Answered(x, c))
         IN  Proceeds(x, y, obs[o].key) /\ y.outstanding = {}
<1> DEFINE z == Answered(x, c)
           y == Drain(o, z)
           k == obs[o].key
<1>1. /\ Proceeds(x, z, k) /\ z.outstanding = {}
      /\ z.drained = x.drained /\ z.journal = x.journal
  BY AnsweredProceeds
<1>2. z \in Surfaces /\ Works(z)
  BY <1>1 DEF Proceeds
<1> HIDE DEF z
<1>3. Proceeds(z, y, k)
  BY <1>1, <1>2, DrainProceeds
<1>4. y.drained = z.pushed /\ y.journal[k] = z.journal[k] \o FreshText(z) /\ y.outstanding = {}
  BY <1>1, <1>2, DrainFacts
<1>5. z.pushed = x.pushed /\ FreshText(z) = FreshText(x)
  BY <1>1 DEF Proceeds, Served, FreshText
<1> HIDE DEF y, k
<1>6. Proceeds(x, y, k)
  BY <1>1, <1>3, <1>4, <1>5 DEF Proceeds, Served
<1> QED
  BY <1>4, <1>6 DEF y, k, z

\* A request that takes a batch from the broker goes on.
LEMMA FetchProceeds ==
  ASSUME NEW x \in Surfaces, Works(x), NEW k, NEW n \in Int, mode # "readonly"
  PROVE  LET batch == NextBatch(x)
             y == [x EXCEPT !.call = [c \in Tools |-> IF c \in batch THEN "delivered" ELSE @[c]],
                            !.active = n, !.batches = @ + 1]
         IN  Proceeds(x, y, k) /\ batch \subseteq CallsIn(y, {"delivered"}) /\ batch \in SUBSET Tools
<1> DEFINE batch == NextBatch(x)
           calls == [c \in Tools |-> IF c \in batch THEN "delivered" ELSE x.call[c]]
           b == x.batches + 1
           y == [x EXCEPT !.call = calls, !.active = n, !.batches = b]
<1>1. /\ x.call \in [Tools -> {"none", "queued", "delivered", "answered"}] /\ x.batches \in Nat
  BY SurfaceFields
<1>2. batch \subseteq CallsIn(x, {"queued", "delivered"}) /\ batch \in SUBSET Tools
  BY DEF NextBatch, CallsIn
<1> HIDE DEF batch
<1>3. /\ calls \in [Tools -> {"none", "queued", "delivered", "answered"}] /\ b \in Nat
      /\ \A c \in Tools : calls[c] = IF c \in batch THEN "delivered" ELSE x.call[c]
  BY <1>1
<1> HIDE DEF calls, b
<1>4. y \in Surfaces /\ Kept(x, y) /\ Served(x, y) /\ y.call = calls
  BY ONLY x \in Surfaces, n \in Int, <1>3 DEF Surfaces, Kept, Served
<1> HIDE DEF y
<1>5. /\ CallsIn(y, {"queued", "delivered"}) = CallsIn(x, {"queued", "delivered"})
      /\ CallsIn(x, {"delivered"}) \subseteq CallsIn(y, {"delivered"})
      /\ batch \subseteq CallsIn(y, {"delivered"})
  BY <1>2, <1>3, <1>4 DEF CallsIn
<1>6. Works(y)
  BY <1>4, <1>5 DEF Works, Kept, Served
<1>7. Proceeds(x, y, k)
  <2>1. y.resolved = x.resolved \cup (x.outstanding \ y.outstanding)
    BY <1>4 DEF Kept
  <2> QED
    BY <1>4, <1>6, <2>1 DEF Proceeds, Kept
<1> QED
  BY <1>2, <1>5, <1>7 DEF y, calls, b, batch

\* The journal, a list and the event that closes it are one list.
LEMMA AppendJoins ==
  ASSUME NEW a \in Seq(Events), NEW list \in Seq(Events), NEW e \in Events
  PROVE  /\ a \o Append(list, e) = Append(a \o list, e) /\ a \o list \in Seq(Events)
         /\ a \o Append(list, e) \in Seq(Events) /\ Append(list, e) \in Seq(Events)
<1> DEFINE l == a \o Append(list, e)
           r == Append(a \o list, e)
<1>1. /\ a \o list \in Seq(Events) /\ Len(a \o list) = Len(a) + Len(list)
      /\ \A i \in 1..(Len(a) + Len(list)) :
           (a \o list)[i] = IF i <= Len(a) THEN a[i] ELSE list[i - Len(a)]
  BY ConcatProperties
<1> DEFINE m == Append(list, e)
           c == a \o list
<1>2. /\ m \in Seq(Events) /\ Len(m) = Len(list) + 1 /\ m[Len(list) + 1] = e
      /\ \A i \in 1..Len(list) : m[i] = list[i]
  OBVIOUS
<1> HIDE DEF m
<1>3. /\ a \o m \in Seq(Events) /\ Len(a \o m) = Len(a) + Len(m)
      /\ \A i \in 1..(Len(a) + Len(m)) : (a \o m)[i] = IF i <= Len(a) THEN a[i] ELSE m[i - Len(a)]
  BY <1>2, ConcatProperties
<1> HIDE DEF c
<1>4. /\ r \in Seq(Events) /\ Len(r) = Len(c) + 1 /\ r[Len(c) + 1] = e
      /\ \A i \in 1..Len(c) : r[i] = c[i]
  BY <1>1 DEF c
<1>5. Len(a) \in Nat /\ Len(list) \in Nat /\ l = a \o m
  BY DEF m
<1> HIDE DEF l, r
<1>6. ASSUME NEW i \in 1..Len(l) PROVE l[i] = r[i]
  <2>1. i \in 1..(Len(a) + Len(list) + 1)
    BY <1>2, <1>3, <1>5
  <2>2. CASE i <= Len(a)
    <3>1. i \in 1..(Len(a) + Len(list)) /\ i \in 1..(Len(a) + Len(m))
      BY <2>1, <2>2, <1>2, <1>5
    <3>2. l[i] = a[i]
      BY <3>1, <2>2, <1>3, <1>5
    <3>3. r[i] = a[i]
      BY <3>1, <2>2, <1>1, <1>4 DEF c
    <3> QED
      BY <3>2, <3>3
  <2>3. CASE i > Len(a) /\ i <= Len(a) + Len(list)
    <3>1. i - Len(a) \in 1..Len(list) /\ i \in 1..(Len(a) + Len(list))
      BY <2>1, <2>3, <1>5
    <3>2. l[i] = list[i - Len(a)]
      BY <3>1, <2>3, <2>1, <1>2, <1>3, <1>5
    <3>3. r[i] = list[i - Len(a)]
      BY <3>1, <2>3, <1>1, <1>4, <1>5 DEF c
    <3> QED
      BY <3>2, <3>3
  <2>4. CASE i = Len(a) + Len(list) + 1
    <3>1. l[i] = m[Len(list) + 1]
      BY <2>1, <2>4, <1>2, <1>3, <1>5
    <3>2. r[i] = e
      BY <2>4, <1>1, <1>4, <1>5 DEF c
    <3> QED
      BY <3>1, <3>2, <1>2
  <2> QED
    BY <2>1, <2>2, <2>3, <2>4, <1>5
<1>7. Len(l) = Len(r)
  BY <1>1, <1>2, <1>3, <1>4, <1>5 DEF c
<1>8. l \in Seq(Events)
  BY <1>3, <1>5
<1>9. l = r
  BY <1>4, <1>6, <1>7, <1>8, SeqEqual
<1> QED
  BY <1>1, <1>2, <1>8, <1>9 DEF l, r, m

\* What a request that ends leaves of its session.
Leaves(x, y, k) ==
  /\ y \in Surfaces /\ Works(y) /\ Served(x, y) /\ y.tail = x.tail /\ y.resolved = x.resolved
  /\ \A j \in RoundKeys \ {k} : y.journal[j] = x.journal[j]

\* The round is closed, or closed as a failure that is remembered.
LEMMA CompleteFacts ==
  ASSUME NEW o, NEW x \in Surfaces, Works(x), obs[o].key \in RoundKeys
  PROVE  LET y == Complete(o, x)
         IN  /\ Leaves(x, y, obs[o].key) /\ y.call = x.call /\ y.outstanding = x.outstanding
             /\ y.prelude = x.prelude /\ y.final = x.final /\ y.drained = x.drained
             /\ y.completed = x.completed \cup {obs[o].key} /\ y.failed = x.failed
             /\ y.journal = x.journal
<1> DEFINE k == obs[o].key
           d == x.completed \cup {k}
           y == [x EXCEPT !.completed = d]
<1>1. d \in SUBSET RoundKeys /\ x.pushed \in Nat
  BY SurfaceFields
<1>2. x.failed \subseteq d /\ (x.outcome = "running" => x.final = <<>>)
  BY DEF Works
<1>3. Complete(o, x) = y
  BY DEF Complete, Surfaces
<1> HIDE DEF d
<1>4. /\ y \in Surfaces /\ y.drained = x.drained /\ y.journal = x.journal /\ Served(x, y)
      /\ y.call = x.call /\ y.outstanding = x.outstanding /\ y.resolved = x.resolved
      /\ y.prelude = x.prelude /\ y.final = x.final
      /\ y.completed = d /\ y.failed = x.failed /\ y.tail = x.tail
  BY ONLY x \in Surfaces, <1>1 DEF Surfaces, Served
<1> HIDE DEF y, k
<1>6. Works(y)
  <2>1. y.outcome = x.outcome
    BY <1>4 DEF Served
  <2> QED
    BY <1>1, <1>2, <1>4, <2>1, WorksOn
<1>7. Leaves(x, y, k)
  BY <1>4, <1>6 DEF Leaves
<1> QED
  BY <1>3, <1>4, <1>7 DEF y, d, k

\* A round that throws is remembered as failed, its journal as it was.
LEMMA FailedFacts ==
  ASSUME NEW o, NEW x \in Surfaces, Works(x), obs[o].key \in RoundKeys
  PROVE  LET z == [Complete(o, x) EXCEPT !.failed = @ \cup {obs[o].key}]
         IN  /\ Leaves(x, z, obs[o].key) /\ z.call = x.call /\ z.outstanding = x.outstanding
             /\ z.prelude = x.prelude /\ z.final = x.final /\ z.drained = x.drained
             /\ z.completed = x.completed \cup {obs[o].key}
             /\ z.failed = x.failed \cup {obs[o].key} /\ z.journal = x.journal
<1> DEFINE k == obs[o].key
           d == x.completed \cup {k}
           f == x.failed \cup {k}
           z == [x EXCEPT !.completed = d, !.failed = f]
<1>1. d \in SUBSET RoundKeys /\ f \in SUBSET RoundKeys /\ x.pushed \in Nat
  BY SurfaceFields
<1>2. f \subseteq d /\ (x.outcome = "running" => x.final = <<>>)
  BY DEF Works
<1>3. [Complete(o, x) EXCEPT !.failed = @ \cup {k}] = z
  BY DEF Complete, Surfaces
<1> HIDE DEF d, f
<1>5. /\ z \in Surfaces /\ z.drained = x.drained /\ z.journal = x.journal /\ Served(x, z)
      /\ z.call = x.call /\ z.outstanding = x.outstanding /\ z.resolved = x.resolved
      /\ z.prelude = x.prelude /\ z.final = x.final
      /\ z.completed = d /\ z.failed = f /\ z.tail = x.tail
  BY ONLY x \in Surfaces, <1>1 DEF Surfaces, Served
<1> HIDE DEF z, k
<1>6. Works(z)
  <2>1. z.outcome = x.outcome
    BY <1>5 DEF Served
  <2> QED
    BY <1>1, <1>2, <1>5, <2>1, WorksOn
<1>7. Leaves(x, z, k)
  BY <1>5, <1>6 DEF Leaves
<1> QED
  BY <1>3, <1>5, <1>7 DEF z, d, f, k

\* Events are added to the journal of the round.
LEMMA JournalFacts ==
  ASSUME NEW o, NEW x \in Surfaces, Works(x), obs[o].key \in RoundKeys, NEW list \in Seq(Events)
  PROVE  LET y == Journal(o, x, list)
             k == obs[o].key
         IN  /\ Leaves(x, y, k) /\ y.call = x.call /\ y.outstanding = x.outstanding
             /\ y.prelude = x.prelude /\ y.final = x.final /\ y.drained = x.drained
             /\ y.completed = x.completed /\ y.failed = x.failed
             /\ y.journal[k] = x.journal[k] \o list /\ y.journal[k] \in Seq(Events)
             /\ x.journal[k] \in Seq(Events)
<1> DEFINE k == obs[o].key
           all == [x.journal EXCEPT ![k] = x.journal[k] \o list]
           y == [x EXCEPT !.journal = all]
<1>1. Journal(o, x, list) = y
  BY DEF Journal
<1>2. /\ all \in [RoundKeys -> Seq(Events)] /\ all[k] = x.journal[k] \o list
      /\ all[k] \in Seq(Events) /\ \A j \in RoundKeys \ {k} : all[j] = x.journal[j]
  BY JournalGrows
<1>3. x.pushed \in Nat /\ x.journal[k] \in Seq(Events)
  BY SurfaceFields
<1> HIDE DEF all
<1>4. /\ y \in Surfaces /\ y.drained = x.drained /\ y.journal = all /\ Served(x, y)
      /\ y.call = x.call /\ y.outstanding = x.outstanding /\ y.resolved = x.resolved
      /\ y.prelude = x.prelude /\ y.final = x.final
      /\ y.completed = x.completed /\ y.failed = x.failed /\ y.tail = x.tail
  BY ONLY x \in Surfaces, <1>2 DEF Surfaces, Served
<1> HIDE DEF y, k
<1>5. Works(y)
  <2>1. y.failed \subseteq y.completed /\ (y.outcome = "running" => y.final = <<>>)
    BY <1>4 DEF Works, Served
  <2> QED
    BY <1>3, <1>4, <2>1, WorksOn
<1>6. Leaves(x, y, k)
  BY <1>2, <1>4, <1>5 DEF Leaves
<1> QED
  BY <1>1, <1>2, <1>3, <1>4, <1>6 DEF y, k

\* The session keeps the calls it waits for, and what it has drained.
Holds(x, y) == y.call = x.call /\ y.outstanding = x.outstanding /\ y.prelude = x.prelude
Stays(x, y) == y.final = x.final /\ y.drained = x.drained

\* The journal of the round grows by list.
Adds(x, y, k, list) ==
  /\ list \in Seq(Events) /\ y.journal[k] = x.journal[k] \o list /\ y.journal[k] \in Seq(Events)

\* A round that fails is closed with the error, or remembered as failed.
Breaks(x, y, k, thrown) ==
  /\ Leaves(x, y, k) /\ Holds(x, y) /\ Broken(y, k)
  /\ y.completed = x.completed \cup {k}
  /\ x.failed \subseteq y.failed /\ y.failed \subseteq x.failed \cup {k}
  /\ thrown \/ (y.journal[k] # <<>> /\ LastOf(y.journal[k]) \in ErrorEvents)

\* A round that fails cancels the session, and leaves what it has told.
LEMMA CancelledFacts ==
  ASSUME NEW x \in Surfaces, Works(x), NEW k
  PROVE  LET y == Cancelled(x)
         IN  /\ Leaves(x, y, k) /\ Holds(x, y) /\ Stays(x, y) /\ y.journal = x.journal
             /\ y.completed = x.completed /\ y.failed = x.failed
<1> DEFINE y == Cancelled(x)
<1>1. y \in Surfaces /\ Kept(x, y) /\ Served(x, y) /\ y.call = x.call
  BY PutCancelled
<1>2. x.pushed \in Nat
  BY SurfaceFields
<1> HIDE DEF y
<1>3. y.failed \subseteq y.completed /\ (y.outcome = "running" => y.final = <<>>)
  BY <1>1 DEF Works, Kept, Served
<1>4. Works(y)
  BY <1>1, <1>2, <1>3, WorksOn DEF Kept
<1>5. Leaves(x, y, k) /\ Holds(x, y) /\ Stays(x, y)
  BY <1>1, <1>4 DEF Leaves, Holds, Stays, Kept
<1> QED
  BY <1>1, <1>5 DEF y, Kept

\* A failure ends the request: thrown, or journaled as an error.
LEMMA FailsFacts ==
  ASSUME NEW o, NEW x \in Surfaces, Works(x), obs[o].key \in RoundKeys,
         NEW error \in {"generic", "rejected", "retryable"}, Fails(o, x, error)
  PROVE  \E y \in Surfaces, thrown \in BOOLEAN, list \in Seq(Events) :
           /\ Ends(o, y, thrown) /\ current' \in {current, Unregistered(obs[o].on)}
           /\ Breaks(x, y, obs[o].key, thrown) /\ Stays(x, y)
           /\ ~thrown => Adds(x, y, obs[o].key, list)
<1> DEFINE k == obs[o].key
           turnError == Submitted(x, error)
           count == IF turnError = "retryable" THEN retries + 1 ELSE 0
           again == turnError = "retryable" /\ count <= MaxRetries
           c == Cancelled(x)
           ended == Complete(o, c)
           y1 == [ended EXCEPT !.failed = @ \cup {k}]
           e == [type |-> "error", retry |-> again]
           y2 == Journal(o, ended, <<e>>)
<1>1. /\ Leaves(x, c, k) /\ Holds(x, c) /\ Stays(x, c) /\ c.journal = x.journal
      /\ c.completed = x.completed /\ c.failed = x.failed
  BY CancelledFacts
<1>2. c \in Surfaces /\ Works(c)
  BY <1>1 DEF Leaves
<1>3. /\ current' \in {current, Unregistered(obs[o].on)}
      /\ turnError = "generic" => Ends(o, y1, TRUE)
      /\ turnError # "generic" => Ends(o, y2, FALSE)
  BY DEF Fails
<1>4. e \in Events /\ e \in ErrorEvents
  <2>1. again \in BOOLEAN
    OBVIOUS
  <2> HIDE DEF again
  <2> QED
    BY <2>1 DEF Events, ErrorEvents
<1> HIDE DEF c, e
<1>5. /\ Leaves(c, ended, k) /\ ended.call = c.call /\ ended.outstanding = c.outstanding
      /\ ended.prelude = c.prelude /\ ended.final = c.final /\ ended.drained = c.drained
      /\ ended.completed = c.completed \cup {k} /\ ended.failed = c.failed
      /\ ended.journal = c.journal
      /\ Leaves(c, y1, k) /\ y1.call = c.call /\ y1.outstanding = c.outstanding
      /\ y1.prelude = c.prelude /\ y1.final = c.final /\ y1.drained = c.drained
      /\ y1.completed = c.completed \cup {k}
      /\ y1.failed = c.failed \cup {k} /\ y1.journal = c.journal
  BY <1>2, CompleteFacts, FailedFacts
<1> HIDE DEF y1, ended
<1>6. CASE turnError = "generic"
  <2>1. Leaves(x, y1, k) /\ Holds(x, y1) /\ Stays(x, y1)
    BY <1>1, <1>5 DEF Leaves, Served, Holds, Stays
  <2>2. y1.completed = x.completed \cup {k} /\ y1.failed = x.failed \cup {k}
    BY <1>1, <1>5
  <2>3. Broken(y1, k)
    BY <2>2 DEF Broken
  <2> HIDE DEF k, turnError
  <2>4. Breaks(x, y1, k, TRUE)
    BY <2>1, <2>2, <2>3 DEF Breaks
  <2>5. y1 \in Surfaces /\ <<>> \in Seq(Events) /\ TRUE \in BOOLEAN
    BY <2>1 DEF Leaves
  <2>6. Ends(o, y1, TRUE)
    BY <1>3, <1>6
  <2> QED
    BY <1>3, <2>1, <2>4, <2>5, <2>6 DEF k
<1>7. CASE turnError # "generic"
  <2>1. ended \in Surfaces /\ Works(ended) /\ <<e>> \in Seq(Events)
    BY <1>4, <1>5 DEF Leaves
  <2>2. /\ Leaves(ended, y2, k) /\ y2.call = ended.call /\ y2.outstanding = ended.outstanding
        /\ y2.prelude = ended.prelude /\ y2.final = ended.final /\ y2.drained = ended.drained
        /\ y2.completed = ended.completed /\ y2.failed = ended.failed
        /\ y2.journal[k] = ended.journal[k] \o <<e>> /\ y2.journal[k] \in Seq(Events)
        /\ ended.journal[k] \in Seq(Events)
    BY <2>1, JournalFacts
  <2> HIDE DEF y2, k, turnError
  <2>3. Leaves(x, y2, k) /\ Holds(x, y2) /\ Stays(x, y2)
    BY <1>1, <1>5, <2>2 DEF Leaves, Served, Holds, Stays
  <2>4. Adds(x, y2, k, <<e>>)
    BY <1>1, <1>5, <2>1, <2>2 DEF Adds
  <2>5. y2.journal[k] # <<>> /\ LastOf(y2.journal[k]) = e
    <3> DEFINE l == ended.journal[k]
    <3>1. l \in Seq(Events) /\ y2.journal[k] = l \o <<e>>
      BY <2>2
    <3> HIDE DEF l
    <3>2. /\ Append(l, e) # <<>> /\ LastOf(Append(l, e)) = e
          /\ l \o <<e>> = Append(l, e)
      BY ONLY <3>1, <1>4, ClosedList
    <3> QED
      BY <3>1, <3>2
  <2>6. y2.completed = x.completed \cup {k} /\ y2.failed = x.failed
    BY <1>1, <1>5, <2>2
  <2>7. Broken(y2, k)
    BY <2>5, <2>6, <1>4 DEF Broken
  <2>8. Breaks(x, y2, k, FALSE)
    BY <2>3, <2>5, <2>6, <2>7, <1>4 DEF Breaks
  <2>9. y2 \in Surfaces /\ FALSE \in BOOLEAN
    BY <2>3 DEF Leaves
  <2>10. Ends(o, y2, FALSE)
    BY <1>3, <1>7
  <2> QED
    BY <1>3, <2>1, <2>3, <2>4, <2>8, <2>9, <2>10 DEF k
<1> QED
  BY <1>6, <1>7

\* A structured answer is a list of events.
LEMMA OnePieceTyped ==
  ASSUME NEW x \in Surfaces, buffered \in BOOLEAN
  PROVE  OnePiece(x) \in Seq(Events)
<1>1. x.written \in Nat /\ 0 \in Nat /\ 0 <= x.written
  BY SurfaceFields
<1>2. Between(0, x.written) \in Seq(Events)
  BY <1>1, BetweenFacts
<1>3. <<>> \in Seq(Events)
  OBVIOUS
<1> QED
  BY <1>2, <1>3 DEF OnePiece

\* The answer closes the round: what is not told yet, and that it is whole.
LEMMA FinishesFacts ==
  ASSUME NEW o, NEW x \in Surfaces, Works(x), obs[o].key \in RoundKeys,
         NEW rest \in Seq(Events), Finishes(o, x, rest)
  PROVE  \E y \in Surfaces, list \in Seq(Events) :
           LET k == obs[o].key
           IN  /\ Ends(o, y, FALSE) /\ current' = current
               /\ Leaves(x, y, k) /\ Holds(x, y) /\ Stays(x, y)
               /\ y.completed = x.completed \cup {k} /\ y.failed = x.failed
               /\ Adds(x, y, k, list)
               /\ y.journal[k] = Append(x.journal[k] \o rest, DoneEvent)
               /\ x.journal[k] \o rest \in Seq(Events)
<1> DEFINE k == obs[o].key
           list == Append(rest, DoneEvent)
           z == Journal(o, x, list)
           y == Complete(o, z)
<1>1. Ends(o, y, FALSE) /\ current' = current
  BY DEF Finishes, DoneEvent
<1>3. DoneEvent \in Events /\ x.journal[k] \in Seq(Events)
  BY Kinds, SurfaceFields
<1>4. list \in Seq(Events)
  BY <1>3
<1>5. /\ x.journal[k] \o list = Append(x.journal[k] \o rest, DoneEvent)
      /\ x.journal[k] \o rest \in Seq(Events)
  BY <1>3, AppendJoins
<1> HIDE DEF list
<1>6. /\ Leaves(x, z, k) /\ z.call = x.call /\ z.outstanding = x.outstanding
      /\ z.prelude = x.prelude /\ z.final = x.final /\ z.drained = x.drained
      /\ z.completed = x.completed /\ z.failed = x.failed
      /\ z.journal[k] = x.journal[k] \o list /\ z.journal[k] \in Seq(Events)
  BY <1>4, JournalFacts
<1> HIDE DEF z
<1>7. z \in Surfaces /\ Works(z)
  BY <1>6 DEF Leaves
<1>8. /\ Leaves(z, y, k) /\ y.call = z.call /\ y.outstanding = z.outstanding
      /\ y.prelude = z.prelude /\ y.final = z.final /\ y.drained = z.drained
      /\ y.completed = z.completed \cup {k} /\ y.failed = z.failed
      /\ y.journal = z.journal
  BY <1>7, CompleteFacts
<1> HIDE DEF y, k
<1>9. Leaves(x, y, k) /\ Holds(x, y) /\ Stays(x, y)
  BY <1>6, <1>8 DEF Leaves, Served, Holds, Stays
<1>10. /\ y.completed = x.completed \cup {k} /\ y.failed = x.failed
       /\ Adds(x, y, k, list)
       /\ y.journal[k] = Append(x.journal[k] \o rest, DoneEvent) /\ y \in Surfaces
  BY <1>4, <1>5, <1>6, <1>8, <1>9 DEF Adds, Leaves
<1> QED
  BY <1>1, <1>4, <1>5, <1>9, <1>10 DEF k

\* What a browser does to its session: it leaves what the requests have made of it.
BrowserStep(x, y) ==
  /\ y \in Surfaces /\ Kept(x, y) /\ x.outcome = "running" /\ (Works(x) => Works(y))
  /\ CallsIn(y, {"delivered"}) = CallsIn(x, {"delivered"})

BrowserMoves ==
  \E s \in 1..Len(sess) : \E y :
    /\ BrowserStep(sess[s], y) /\ sess' = [sess EXCEPT ![s] = y]
    /\ UNCHANGED <<mode, buffered, current, codex, obs>>

\* A step of the browser that leaves its calls alone.
BrowserText(x, y) ==
  /\ y.told => x.told \/ (mode = "manual" /\ MayComplete(x))
  /\ y.pushed <= y.written /\ x.pushed <= y.pushed
  /\ y.outcome = "final" => x.told \/ MayComplete(x)
  /\ y.outcome = "final" \/ mode = "manual" => y.pushed = y.written
  /\ y.phase = "starting" => ~y.told /\ y.outcome # "final"

\* A browser that moves leaves its session as it may be.
LEMMA BrowserWorks ==
  ASSUME NEW x \in Surfaces, NEW y \in Surfaces, Kept(x, y), x.outcome = "running",
         y.call = x.call, Works(x) => BrowserText(x, y)
  PROVE  BrowserStep(x, y)
<1>1. CallsIn(y, {"delivered"}) = CallsIn(x, {"delivered"})
      /\ CallsIn(y, {"queued", "delivered"}) = CallsIn(x, {"queued", "delivered"})
  BY DEF CallsIn
<1>2. /\ x.drained \in Nat /\ x.pushed \in Nat /\ x.written \in Nat
      /\ y.pushed \in Nat
  BY SurfaceFields
<1>3. ASSUME Works(x) PROVE Works(y)
  <2>1. y.told => mode = "manual"
    BY <1>3 DEF Works, BrowserText
  <2>2. y.told \/ y.outcome = "final" => CallsIn(y, {"queued", "delivered"}) = {}
    BY <1>1, <1>3 DEF Works, MayComplete, BrowserText
  <2>3. y.drained <= y.pushed
    BY <1>2, <1>3 DEF Works, Kept, BrowserText
  <2>4. /\ y.outcome = "final" \/ mode = "manual" => y.pushed = y.written
        /\ y.pushed <= y.written
        /\ y.phase = "starting" => ~y.told /\ y.outcome # "final"
    BY <1>3 DEF BrowserText
  <2>5. y.outstanding \subseteq CallsIn(y, {"delivered"}) /\ y.outstanding \cap y.resolved = {}
    BY <1>1, <1>3 DEF Works, Kept
  <2> QED
    BY <1>1, <1>3, <2>1, <2>2, <2>3, <2>4, <2>5 DEF Works, Kept
<1> QED
  BY <1>1, <1>3 DEF BrowserStep

\* Every step of the worker, of the user or of the broker is a move of a browser.
LEMMA BrowserActions ==
  ASSUME RoundsTyped, NEW s \in DOMAIN sess,
         \/ Prepare(s) \/ Submit(s) \/ ConfirmSent(s) \/ Write(s) \/ Push(s) \/ Observe(s)
         \/ AnswerIsWritten(s) \/ ManualAnswer(s) \/ RetireCapability(s)
         \/ \E c \in Tools : CallTool(s, c)
         \/ \E error \in {"generic", "rejected", "retryable"} : Break(s, error)
  PROVE  BrowserMoves
<1> DEFINE x == sess[s]
<1>1. s \in 1..Len(sess) /\ x \in Surfaces
  BY DEF RoundsTyped
<1>2. /\ x.written \in Nat /\ x.pushed \in Nat /\ x.drained \in Nat /\ x.observed \in Nat
      /\ x.batches \in Nat /\ x.call \in [Tools -> {"none", "queued", "delivered", "answered"}]
      /\ x.after \in [Tools -> Nat] /\ x.told \in BOOLEAN /\ x.outcome \in Outcomes
      /\ MaxText \in Nat
  BY <1>1, SurfaceFields, RoundsAssumption
<1>3. ASSUME NEW y, Becomes(s, y), BrowserStep(x, y) PROVE BrowserMoves
  BY <1>1, <1>3 DEF Becomes, BrowserMoves
<1>4. ASSUME NEW ph \in {"prepared", "activated", "accepted"}, x.outcome = "running",
             Becomes(s, [x EXCEPT !.phase = ph])
      PROVE  BrowserMoves
  <2> DEFINE y == [x EXCEPT !.phase = ph]
  <2>1. /\ y \in Surfaces /\ Kept(x, y) /\ y.call = x.call /\ y.outcome = x.outcome
        /\ y.told = x.told /\ y.written = x.written /\ y.pushed = x.pushed /\ y.phase = ph
    BY <1>1 DEF Surfaces, Kept
  <2>2. Works(x) => BrowserText(x, y)
    BY <2>1, <1>2, <1>4 DEF Works, BrowserText
  <2> HIDE DEF y
  <2>3. BrowserStep(x, y)
    BY <1>1, <1>4, <2>1, <2>2, BrowserWorks
  <2> QED
    BY <1>3, <1>4, <2>3 DEF y
<1>5. ASSUME NEW w \in Nat, NEW p \in Nat, x.outcome = "running",
             Becomes(s, [x EXCEPT !.written = w, !.pushed = p])
             \/ (w = x.written /\ Becomes(s, [x EXCEPT !.pushed = p]))
             \/ (p = x.pushed /\ Becomes(s, [x EXCEPT !.written = w]))
             \/ (w = x.written /\ Becomes(s, [x EXCEPT !.pushed = p, !.observed = x.batches])),
             Works(x) => p <= w /\ x.pushed <= p /\ (mode = "manual" => p = w)
      PROVE  BrowserMoves
  <2>1. PICK y : /\ y \in Surfaces /\ Kept(x, y) /\ y.call = x.call /\ y.outcome = x.outcome
                 /\ y.told = x.told /\ y.written = w /\ y.pushed = p /\ y.phase = x.phase /\ Becomes(s, y)
    <3>1. CASE Becomes(s, [x EXCEPT !.written = w, !.pushed = p])
      <4> DEFINE y == [x EXCEPT !.written = w, !.pushed = p]
      <4>1. /\ y \in Surfaces /\ Kept(x, y) /\ y.call = x.call /\ y.outcome = x.outcome
            /\ y.told = x.told /\ y.written = w /\ y.pushed = p /\ y.phase = x.phase
        BY <1>1 DEF Surfaces, Kept
      <4> HIDE DEF y
      <4> QED
        BY <3>1, <4>1 DEF y
    <3>2. CASE w = x.written /\ Becomes(s, [x EXCEPT !.pushed = p])
      <4> DEFINE y == [x EXCEPT !.pushed = p]
      <4>1. /\ y \in Surfaces /\ Kept(x, y) /\ y.call = x.call /\ y.outcome = x.outcome
            /\ y.told = x.told /\ y.written = w /\ y.pushed = p /\ y.phase = x.phase
        BY <1>1, <3>2 DEF Surfaces, Kept
      <4> HIDE DEF y
      <4> QED
        BY <3>2, <4>1 DEF y
    <3>3. CASE p = x.pushed /\ Becomes(s, [x EXCEPT !.written = w])
      <4> DEFINE y == [x EXCEPT !.written = w]
      <4>1. /\ y \in Surfaces /\ Kept(x, y) /\ y.call = x.call /\ y.outcome = x.outcome
            /\ y.told = x.told /\ y.written = w /\ y.pushed = p /\ y.phase = x.phase
        BY <1>1, <3>3 DEF Surfaces, Kept
      <4> HIDE DEF y
      <4> QED
        BY <3>3, <4>1 DEF y
    <3>4. CASE w = x.written /\ Becomes(s, [x EXCEPT !.pushed = p, !.observed = x.batches])
      <4> DEFINE b == x.batches
                 y == [x EXCEPT !.pushed = p, !.observed = b]
      <4>1. b \in Nat
        BY <1>2
      <4> HIDE DEF b
      <4>2. /\ y \in Surfaces /\ Kept(x, y) /\ y.call = x.call /\ y.outcome = x.outcome
            /\ y.told = x.told /\ y.written = w /\ y.pushed = p /\ y.phase = x.phase
        BY <1>1, <3>4, <4>1 DEF Surfaces, Kept
      <4> HIDE DEF y
      <4> QED
        BY <3>4, <4>2 DEF y, b
    <3> QED
      BY <1>5, <3>1, <3>2, <3>3, <3>4
  <2>2. Works(x) => BrowserText(x, y)
    BY <2>1, <1>2, <1>5 DEF Works, BrowserText
  <2>3. BrowserStep(x, y)
    BY <1>1, <1>5, <2>1, <2>2, BrowserWorks
  <2> QED
    BY <1>3, <2>1, <2>3
<1>6. CASE Prepare(s) \/ Submit(s) \/ ConfirmSent(s)
  BY <1>4, <1>6 DEF Prepare, Submit, ConfirmSent, Runs
<1>7. CASE Write(s)
  <2> DEFINE w == x.written + 1
  <2>1. w \in Nat /\ x.outcome = "running" /\ Becomes(s, [x EXCEPT !.written = w])
        /\ mode # "manual"
    BY <1>2, <1>7 DEF Write, Runs
  <2>2. Works(x) => x.pushed <= w
    BY <1>2 DEF Works
  <2> HIDE DEF w
  <2> DEFINE p == x.pushed
  <2>3. /\ p \in Nat /\ p = x.pushed
        /\ Works(x) => p <= w /\ x.pushed <= p /\ (mode = "manual" => p = w)
    BY <1>2, <2>1, <2>2
  <2> HIDE DEF p
  <2> QED
    BY <1>5, <2>1, <2>3
<1>8. CASE Push(s)
  <2> DEFINE p == x.pushed + 1
  <2>1. /\ p \in Nat /\ x.outcome = "running" /\ Becomes(s, [x EXCEPT !.pushed = p])
        /\ p <= x.written /\ x.pushed <= p
    BY <1>2, <1>8 DEF Push, Runs
  <2>2. Works(x) => mode # "manual"
    BY <1>2, <1>8 DEF Works, Push
  <2> HIDE DEF p
  <2>3. Works(x) => p <= x.written /\ x.pushed <= p /\ (mode = "manual" => p = x.written)
    BY <2>1, <2>2
  <2> DEFINE w == x.written
  <2>4. /\ w \in Nat /\ w = x.written /\ Becomes(s, [x EXCEPT !.pushed = p])
        /\ Works(x) => p <= w /\ x.pushed <= p /\ (mode = "manual" => p = w)
    BY <1>2, <2>1, <2>3
  <2> HIDE DEF w
  <2> QED
    BY <1>5, <2>1, <2>4
<1>9. CASE Observe(s)
  <2> DEFINE p == x.written
  <2>1. /\ p \in Nat /\ x.outcome = "running"
        /\ Becomes(s, [x EXCEPT !.pushed = p, !.observed = x.batches])
    BY <1>2, <1>9 DEF Observe, Runs
  <2>2. Works(x) => x.pushed <= p /\ p <= x.written
    BY <1>2 DEF Works
  <2>3. p = x.written
    OBVIOUS
  <2> HIDE DEF p
  <2> QED
    BY <1>2, <1>5, <2>1, <2>2, <2>3
<1>10. CASE AnswerIsWritten(s)
  <2>1. x.outcome = "running" /\ MayComplete(x) /\ x.phase = "accepted"
    BY <1>10 DEF AnswerIsWritten, Runs
  <2>2. CASE /\ mode # "manual"
             /\ Becomes(s, [x EXCEPT !.pushed = x.written, !.outcome = "final"])
    <3> DEFINE p == x.written
               y == [x EXCEPT !.pushed = p, !.outcome = "final"]
    <3>1. p \in Nat /\ "final" \in Outcomes /\ p = x.written
      BY <1>2 DEF Outcomes
    <3> HIDE DEF p
    <3>2. /\ y \in Surfaces /\ Kept(x, y) /\ y.call = x.call /\ y.outcome = "final"
          /\ y.told = x.told /\ y.written = x.written /\ y.pushed = p /\ y.phase = x.phase
      BY <1>1, <3>1 DEF Surfaces, Kept
    <3> HIDE DEF y
    <3>3. Works(x) => BrowserText(x, y)
      BY <1>2, <2>1, <2>2, <3>1, <3>2 DEF Works, BrowserText
    <3>4. BrowserStep(x, y)
      BY <1>1, <2>1, <3>2, <3>3, BrowserWorks
    <3> QED
      BY <1>3, <2>2, <3>4 DEF y, p
  <2>3. CASE mode = "manual" /\ Becomes(s, [x EXCEPT !.told = TRUE])
    <3> DEFINE y == [x EXCEPT !.told = TRUE]
    <3>1. /\ y \in Surfaces /\ Kept(x, y) /\ y.call = x.call /\ y.outcome = x.outcome
          /\ y.told = TRUE /\ y.written = x.written /\ y.pushed = x.pushed
          /\ y.phase = x.phase
      BY <1>1 DEF Surfaces, Kept
    <3> HIDE DEF y
    <3>2. Works(x) => BrowserText(x, y)
      BY <1>2, <2>1, <2>3, <3>1 DEF Works, BrowserText
    <3>3. BrowserStep(x, y)
      BY <1>1, <2>1, <3>1, <3>2, BrowserWorks
    <3> QED
      BY <1>3, <2>3, <3>3 DEF y
  <2> QED
    BY <1>10, <2>2, <2>3 DEF AnswerIsWritten
<1>11. CASE ManualAnswer(s)
  <2>1. x.outcome = "running" /\ x.told
    BY <1>11 DEF ManualAnswer
  <2>2. CASE x.written = 0 /\ Becomes(s, [x EXCEPT !.written = MaxText, !.pushed = MaxText])
    <3>1. Works(x) => x.pushed <= MaxText
      BY <1>2, <2>2 DEF Works
    <3>2. MaxText <= MaxText
      BY <1>2
    <3> QED
      BY <1>2, <1>5, <2>1, <2>2, <3>1, <3>2
  <2>3. CASE Becomes(s, [x EXCEPT !.outcome = "final"])
    <3> DEFINE y == [x EXCEPT !.outcome = "final"]
    <3>1. /\ y \in Surfaces /\ Kept(x, y) /\ y.call = x.call /\ y.outcome = "final"
          /\ y.told = x.told /\ y.written = x.written /\ y.pushed = x.pushed
          /\ y.phase = x.phase
      BY <1>1 DEF Surfaces, Kept, Outcomes
    <3> HIDE DEF y
    <3>2. Works(x) => BrowserText(x, y)
      BY <1>2, <2>1, <3>1 DEF Works, BrowserText
    <3>3. BrowserStep(x, y)
      BY <1>1, <2>1, <3>1, <3>2, BrowserWorks
    <3> QED
      BY <1>3, <2>3, <3>3 DEF y
  <2> QED
    BY <1>11, <2>2, <2>3 DEF ManualAnswer
<1>12. CASE RetireCapability(s)
  <2> DEFINE y == Cancelled(x)
  <2>1. /\ x.outcome = "running" /\ Becomes(s, y)
    BY <1>12 DEF RetireCapability, Runs
  <2>2. y \in Surfaces /\ Kept(x, y) /\ Served(x, y) /\ y.call = x.call
    BY <1>1, PutCancelled
  <2> HIDE DEF y
  <2>3. Works(x) => BrowserText(x, y)
    BY <1>2, <2>1, <2>2 DEF Works, BrowserText, Served
  <2>4. BrowserStep(x, y)
    BY <1>1, <2>1, <2>2, <2>3, BrowserWorks
  <2> QED
    BY <1>3, <2>1, <2>4
<1>13. ASSUME NEW error \in {"generic", "rejected", "retryable"}, Break(s, error)
       PROVE  BrowserMoves
  <2> DEFINE y == [x EXCEPT !.outcome = error]
  <2>1. x.outcome = "running" /\ Becomes(s, y)
    BY <1>13 DEF Break
  <2>2. error \in Outcomes /\ error # "final"
    BY DEF Outcomes
  <2>3. /\ y \in Surfaces /\ Kept(x, y) /\ y.call = x.call /\ y.outcome = error
        /\ y.told = x.told /\ y.written = x.written /\ y.pushed = x.pushed /\ y.phase = x.phase
    BY <1>1, <2>2 DEF Surfaces, Kept
  <2> HIDE DEF y
  <2>4. Works(x) => BrowserText(x, y)
    BY <1>2, <2>1, <2>2, <2>3 DEF Works, BrowserText
  <2>5. BrowserStep(x, y)
    BY <1>1, <2>1, <2>3, <2>4, BrowserWorks
  <2> QED
    BY <1>3, <2>1, <2>5
<1>14. ASSUME NEW c \in Tools, CallTool(s, c) PROVE BrowserMoves
  <2> DEFINE calls == [x.call EXCEPT ![c] = "queued"]
             at == [x.after EXCEPT ![c] = x.written]
             y == [x EXCEPT !.call = calls, !.after = at]
  <2>1. /\ x.outcome = "running" /\ Becomes(s, y) /\ ~x.told /\ mode # "readonly"
        /\ x.call[c] = "none"
    BY <1>14 DEF CallTool, Runs
  <2>2. /\ calls \in [Tools -> {"none", "queued", "delivered", "answered"}]
        /\ at \in [Tools -> Nat] /\ calls[c] = "queued"
        /\ \A d \in Tools \ {c} : calls[d] = x.call[d]
    BY <1>2
  <2> HIDE DEF calls, at
  <2>3. y \in Surfaces /\ Kept(x, y) /\ Served(x, y) /\ y.call = calls
    BY <1>1, <2>2 DEF Surfaces, Kept, Served
  <2> HIDE DEF y
  <2>4. CallsIn(y, {"delivered"}) = CallsIn(x, {"delivered"})
    BY <2>1, <2>2, <2>3 DEF CallsIn
  <2>5. Works(x) => Works(y)
    BY <2>1, <2>3, <2>4 DEF Works, Kept, Served
  <2>6. BrowserStep(x, y)
    BY <2>1, <2>3, <2>4, <2>5 DEF BrowserStep
  <2> QED
    BY <1>3, <2>1, <2>6
<1> QED
  BY <1>6, <1>7, <1>8, <1>9, <1>10, <1>11, <1>12, <1>13, <1>14

\* A request in its session.
LEMMA RequestFacts ==
  ASSUME RoundsTyped, RoundsQueued, SurfacesWork, NEW o \in Observers, obs[o].pc # "idle"
  PROVE  /\ obs[o] \in Asked /\ obs[o].on \in 1..Len(sess) /\ Of(o) = sess[obs[o].on]
         /\ Of(o) \in Surfaces /\ Works(Of(o)) /\ obs[o].key \in RoundKeys
         /\ obs[o].results \in SUBSET Tools /\ obs[o].batch \in SUBSET Tools
         /\ obs[o].pc \in Busy => Of(o).tail[1] = o /\ obs[o].key \notin Of(o).completed
<1>1. obs[o] \in Asked /\ obs[o].on \in 1..Len(sess) /\ Of(o) = sess[obs[o].on]
  BY DEF RoundsTyped, RoundsQueued, Of
<1>2. Of(o) \in Surfaces
  BY <1>1 DEF RoundsTyped
<1>3. PICK i \in 1..Len(Of(o).tail) : Of(o).tail[i] = o
  BY DEF RoundsQueued
<1>4. Of(o).tail # <<>>
  BY <1>3
<1>5. Works(Of(o))
  BY <1>1, <1>4 DEF SurfacesWork
<1>6. obs[o].key \in RoundKeys /\ obs[o].results \in SUBSET Tools /\ obs[o].batch \in SUBSET Tools
  BY <1>1 DEF Asked
<1> QED
  BY <1>1, <1>2, <1>5, <1>6 DEF RoundsQueued

\* Replayed and live, what the client has seen is the journal of its round.
LEMMA SeenIsJournal ==
  ASSUME RoundsTyped, RoundsQueued, SurfacesWork, LiveIsLast, NEW o \in Observers, obs[o].pc # "idle",
         NEW y, NEW list, Adds(Of(o), y, obs[o].key, list)
  PROVE  /\ SeenIn(o, y) \in Seq(Events)
         /\ o = codex.live => SeenIn(o, y) = y.journal[obs[o].key]
<1> DEFINE k == obs[o].key
           j == Of(o).journal[k]
<1>1. /\ obs[o].on \in 1..Len(sess) /\ Of(o) = sess[obs[o].on] /\ Of(o) \in Surfaces
      /\ k \in RoundKeys
  BY RequestFacts
<1>2. j \in Seq(Events) /\ list \in Seq(Events) /\ y.journal[k] = j \o list /\ y.journal[k] \in Seq(Events)
  BY <1>1, SurfaceFields DEF Adds
<1>3. CASE o # codex.live
  <2>1. obs[o].gone
    BY <1>3 DEF LiveIsLast
  <2> QED
    BY <1>3, <2>1 DEF SeenIn
<1>4. CASE o = codex.live
  <2>1. ~obs[o].gone /\ obs[o].seen = IF obs[o].pc = "queued" THEN <<>> ELSE j
    <3>1. codex.live # Nobody
      BY <1>4, RoundsAssumption
    <3> QED
      BY <1>1, <1>4, <3>1 DEF LiveIsLast
  <2>2. SeenIn(o, y) = Replay(o) \o obs[o].seen \o SubSeq(y.journal[k], Len(j) + 1, Len(y.journal[k]))
    BY <1>1, <2>1 DEF SeenIn
  <2>3. Replay(o) = IF obs[o].pc = "queued" THEN j ELSE <<>>
    BY DEF Replay
  <2> HIDE DEF j, k
  <2>4. Replay(o) \o obs[o].seen = j
    BY <1>2, <2>1, <2>3
  <2>5. SubSeq(y.journal[k], Len(j) + 1, Len(y.journal[k])) = list
    BY <1>2
  <2> QED
    BY <1>2, <2>2, <2>4, <2>5 DEF k
<1> QED
  BY <1>3, <1>4

\* A request that goes on has taken what its browser told it.
GoesWith(o, y, a) ==
  /\ obs[o].pc # "idle" /\ Of(o).tail[1] = o /\ obs[o].key \notin Of(o).completed
  /\ Proceeds(Of(o), y, obs[o].key)
  /\ sess' = [sess EXCEPT ![obs[o].on] = y] /\ obs' = [obs EXCEPT ![o] = a]
  /\ a.pc \in Busy /\ a.on = obs[o].on /\ a.key = obs[o].key /\ a.gone = obs[o].gone
  /\ a.results = obs[o].results
  /\ o = codex.live => a.seen = y.journal[a.key]
  /\ a.pc = "deliver" => y.outstanding \subseteq a.results
  /\ a.pc \in {"race", "finish"} => y.outstanding = {}
  /\ a.batch # {} => a.pc = "race" /\ a.batch \subseteq CallsIn(y, {"delivered"})
  /\ obs[o].pc = "queued" => Of(o).outcome = "running"
  /\ a.pc = "token" => obs[o].pc = "queued" /\ y = Of(o)
  /\ a.pc # "token" /\ obs[o].pc \in {"queued", "token"} =>
       \/ Of(o).outstanding = {}
       \/ o = codex.live /\ Of(o).outstanding \subseteq obs[o].results
  /\ UNCHANGED <<mode, buffered, current, codex>>
RoundGoes(o) == \E y \in Surfaces, a \in Asked : GoesWith(o, y, a)

\* A step that leaves its request running has taken what its browser told it.
LEMMA GoesFacts ==
  ASSUME RoundsTyped, RoundsQueued, SurfacesWork, LiveIsLast, NEW o \in Observers, obs[o].pc # "idle",
         NEW y, NEW q \in Busy, GoesOn(o, y, q), Proceeds(Of(o), y, obs[o].key),
         Of(o).tail[1] = o, obs[o].key \notin Of(o).completed,
         q = "deliver" => y.outstanding \subseteq obs[o].results,
         q \in {"race", "finish"} => y.outstanding = {},
         obs[o].batch # {} => q = "race" /\ obs[o].batch \subseteq CallsIn(y, {"delivered"}),
         obs[o].pc = "queued" => Of(o).outcome = "running",
         q = "token" => obs[o].pc = "queued" /\ y = Of(o),
         q # "token" /\ obs[o].pc \in {"queued", "token"} =>
           \/ Of(o).outstanding = {}
           \/ o = codex.live /\ Of(o).outstanding \subseteq obs[o].results
  PROVE  RoundGoes(o)
<1> DEFINE x == Of(o)
           k == obs[o].key
           seen == SeenIn(o, y)
           a == [obs[o] EXCEPT !.pc = q, !.seen = seen]
<1>1. /\ obs[o] \in Asked /\ x \in Surfaces /\ Works(x) /\ k \in RoundKeys
      /\ obs \in [Observers -> Asked]
  BY RequestFacts DEF RoundsTyped
<1>2. \E list : Adds(x, y, k, list)
  <2>1. x.journal[k] \in Seq(Events) /\ <<>> \in Seq(Events) /\ FreshText(x) \in Seq(Events)
    BY <1>1, SurfaceFields, FreshTyped
  <2>2. y \in Surfaces /\ y.journal[k] \in Seq(Events)
    BY <1>1, SurfaceFields DEF Proceeds
  <2>3. CASE y.journal[k] = x.journal[k]
    <3>1. x.journal[k] = x.journal[k] \o <<>>
      BY <2>1
    <3>2. Adds(x, y, k, <<>>)
      BY <2>1, <2>2, <2>3, <3>1 DEF Adds
    <3> QED
      BY <3>2
  <2>4. CASE y.journal[k] = x.journal[k] \o FreshText(x)
    <3>1. Adds(x, y, k, FreshText(x))
      BY <2>1, <2>2, <2>4 DEF Adds
    <3> QED
      BY <3>1
  <2> QED
    BY <2>3, <2>4 DEF Proceeds
<1>3. seen \in Seq(Events) /\ (o = codex.live => seen = y.journal[k])
  BY <1>2, SeenIsJournal
<1> HIDE DEF seen, x
<1>4. q \in Busy \cup {"idle", "queued"}
  OBVIOUS
<1>5. /\ a \in Asked /\ a.pc = q /\ a.seen = seen /\ a.on = obs[o].on /\ a.key = k
      /\ a.gone = obs[o].gone /\ a.results = obs[o].results /\ a.batch = obs[o].batch
  BY <1>1, <1>3, <1>4 DEF Asked
<1>6. obs' = [obs EXCEPT ![o] = a] /\ sess' = [sess EXCEPT ![obs[o].on] = y]
      /\ UNCHANGED <<mode, buffered, current, codex>>
  BY <1>1 DEF GoesOn, seen
<1>7. y \in Surfaces
  BY DEF Proceeds
<1> HIDE DEF a
<1> QED
  BY <1>3, <1>5, <1>6, <1>7 DEF RoundGoes, GoesWith, x

\* The steps of a request that goes on.
LEMMA GoesActions ==
  ASSUME RoundsTyped, RoundsQueued, SurfacesWork, LiveIsLast, ResultsAwaited, NEW o \in Observers,
         \/ TextArrives(o) \/ FetchTools(o) \/ EmptyBatch(o)
         \/ /\ obs[o].pc = "queued" /\ Of(o).tail[1] = o /\ obs[o].key \notin Of(o).completed
            /\ Of(o).outcome = "running"
            /\ IF mode = "readonly" THEN GoesOn(o, Drain(o, Of(o)), "race") ELSE GoesOn(o, Of(o), "token")
         \/ /\ obs[o].pc = "token" /\ ~obs[o].gone
            /\ \/ Of(o).outstanding = {} /\ GoesOn(o, Drain(o, Of(o)), "race")
               \/ Results(o) = Of(o).outstanding /\ GoesOn(o, Of(o), "deliver")
         \/ /\ obs[o].pc = "deliver"
            /\ \E c \in Results(o) :
                 LET x == Answered(Of(o), c)
                 IN  IF Results(o) = {c} THEN GoesOn(o, Drain(o, x), "race") ELSE GoesOn(o, x, "deliver")
  PROVE  RoundGoes(o)
<1> DEFINE x == Of(o)
           k == obs[o].key
<1>1. obs[o].pc # "idle"
  BY DEF TextArrives, FetchTools, EmptyBatch
<1>2. /\ obs[o] \in Asked /\ x = sess[obs[o].on] /\ x \in Surfaces /\ Works(x) /\ k \in RoundKeys
      /\ obs[o].pc \in Busy => x.tail[1] = o /\ k \notin x.completed
  BY <1>1, RequestFacts
<1>3. ~obs[o].gone => o = codex.live
  BY <1>1 DEF LiveIsLast
<1>4. /\ obs[o].batch # {} => obs[o].pc = "race"
      /\ obs[o].pc \in {"race", "finish"} => x.outstanding = {}
      /\ obs[o].pc = "race" => obs[o].batch \subseteq CallsIn(x, {"delivered"})
      /\ obs[o].pc = "deliver" => x.outstanding \subseteq obs[o].results
  BY DEF ResultsAwaited
<1>5. Proceeds(x, x, k)
  BY <1>2, ProceedsSame
<1>6. /\ x.outstanding = {} => Proceeds(x, Drain(o, x), k) /\ Drain(o, x).call = x.call
      /\ Drain(o, x).outstanding = x.outstanding
  BY <1>2, DrainProceeds, DrainFacts
<1>7. {"token", "race", "finish", "deliver"} \subseteq Busy
  BY DEF Busy
<1>8. CASE TextArrives(o) \/ EmptyBatch(o)
  <2> DEFINE y == Drain(o, x)
             q == IF TextArrives(o) THEN "race" ELSE "finish"
  <2>1. /\ obs[o].pc = "race" /\ (TextArrives(o) => GoesOn(o, y, "race"))
        /\ (EmptyBatch(o) => GoesOn(o, y, "finish") /\ obs[o].batch = {})
    BY <1>8 DEF TextArrives, EmptyBatch
  <2>2. Proceeds(x, y, k) /\ y.outstanding = {} /\ CallsIn(y, {"delivered"}) = CallsIn(x, {"delivered"})
    BY <1>4, <1>6, <2>1 DEF CallsIn
  <2>3. x.tail[1] = o /\ k \notin x.completed
    BY <1>2, <1>7, <2>1
  <2> HIDE DEF y
  <2>4. CASE TextArrives(o)
    BY <1>1, <1>4, <1>7, <2>1, <2>2, <2>3, <2>4, GoesFacts
  <2>5. CASE EmptyBatch(o)
    BY <1>1, <1>4, <1>7, <2>1, <2>2, <2>3, <2>5, GoesFacts
  <2> QED
    BY <1>8, <2>4, <2>5
<1>9. CASE FetchTools(o)
  <2> DEFINE batch == NextBatch(x)
             n == x.active + Cardinality(batch)
             y == [x EXCEPT !.call = [c \in Tools |-> IF c \in batch THEN "delivered" ELSE @[c]],
                            !.active = n, !.batches = @ + 1]
             rev == x.batches + 1
             a == [obs[o] EXCEPT !.batch = batch, !.rev = rev]
  <2>1. /\ obs[o].pc = "race" /\ mode # "readonly" /\ ~obs[o].gone
        /\ sess' = [sess EXCEPT ![obs[o].on] = y]
        /\ obs' = [obs EXCEPT ![o].batch = batch, ![o].rev = rev]
        /\ UNCHANGED <<mode, buffered, current, codex>>
    BY <1>9, <1>2 DEF FetchTools
  <2>2. n \in Int /\ rev \in Nat
    <3>1. batch \subseteq Tools
      BY DEF NextBatch, CallsIn
    <3>2. IsFiniteSet(batch)
      BY <3>1, RoundsAssumption, FS_Subset
    <3>3. Cardinality(batch) \in Nat
      BY <3>2, FS_CardinalityType
    <3>4. x.active \in Int /\ x.batches \in Nat
      BY <1>2, SurfaceFields
    <3> QED
      BY <3>3, <3>4
  <2> HIDE DEF n
  <2>3. Proceeds(x, y, k) /\ batch \subseteq CallsIn(y, {"delivered"}) /\ batch \in SUBSET Tools
    BY <1>2, <2>1, <2>2, FetchProceeds
  <2> HIDE DEF y, batch, rev
  <2>4. /\ a \in Asked /\ a.pc = "race" /\ a.on = obs[o].on /\ a.key = k /\ a.gone = obs[o].gone
        /\ a.results = obs[o].results /\ a.batch = batch /\ a.seen = obs[o].seen
    BY <1>2, <2>1, <2>2, <2>3 DEF Asked
  <2>5. obs' = [obs EXCEPT ![o] = a]
    BY <2>1 DEF RoundsTyped
  <2>6. x.outstanding = {} /\ y.outstanding = {} /\ x.tail[1] = o /\ k \notin x.completed
    BY <1>2, <1>4, <1>7, <2>1, <2>3 DEF Proceeds
  <2>7. o = codex.live => obs[o].seen = y.journal[k]
    <3>1. ASSUME o = codex.live PROVE obs[o].seen = x.journal[k]
      <4>1. codex.live # Nobody
        BY <3>1, RoundsAssumption
      <4> QED
        BY <1>2, <2>1, <3>1, <4>1 DEF LiveIsLast
    <3>2. y.journal[k] = x.journal[k]
      BY <1>2 DEF y, Surfaces
    <3> QED
      BY <3>1, <3>2
  <2> HIDE DEF a
  <2>8. y \in Surfaces
    BY <2>3 DEF Proceeds
  <2> QED
    BY <1>1, <1>2, <1>7, <2>1, <2>3, <2>4, <2>5, <2>6, <2>7, <2>8 DEF RoundGoes, GoesWith
<1>10. CASE obs[o].pc = "queued"
  <2>1. /\ x.tail[1] = o /\ k \notin x.completed /\ x.outcome = "running"
        /\ IF mode = "readonly" THEN GoesOn(o, Drain(o, x), "race") ELSE GoesOn(o, x, "token")
    BY <1>10 DEF TextArrives, FetchTools, EmptyBatch
  <2>2. CASE mode = "readonly"
    <3>1. x.outstanding = {}
      BY <1>2, <2>2 DEF Works
    <3> DEFINE y == Drain(o, x)
    <3>2. Proceeds(x, y, k) /\ y.outstanding = {} /\ GoesOn(o, y, "race")
      BY <1>6, <2>1, <2>2, <3>1
    <3> HIDE DEF y
    <3> QED
      BY <1>1, <1>4, <1>7, <1>10, <2>1, <3>1, <3>2, GoesFacts
  <2>3. CASE mode # "readonly"
    <3>1. GoesOn(o, x, "token")
      BY <2>1, <2>3
    <3> HIDE DEF x
    <3> QED
      BY <1>1, <1>4, <1>5, <1>7, <1>10, <2>1, <3>1, GoesFacts DEF x
  <2> QED
    BY <2>2, <2>3
<1>11. CASE obs[o].pc = "token"
  <2>1. /\ ~obs[o].gone
        /\ \/ x.outstanding = {} /\ GoesOn(o, Drain(o, x), "race")
           \/ Results(o) = x.outstanding /\ GoesOn(o, x, "deliver")
    BY <1>11 DEF TextArrives, FetchTools, EmptyBatch
  <2>2. x.tail[1] = o /\ k \notin x.completed /\ o = codex.live
    BY <1>2, <1>3, <1>7, <1>11, <2>1
  <2>3. CASE x.outstanding = {} /\ GoesOn(o, Drain(o, x), "race")
    <3> DEFINE y == Drain(o, x)
    <3>1. Proceeds(x, y, k) /\ y.outstanding = {} /\ GoesOn(o, y, "race")
      BY <1>6, <2>3
    <3> HIDE DEF y
    <3> QED
      BY <1>1, <1>4, <1>7, <1>11, <2>2, <2>3, <3>1, GoesFacts
  <2>4. CASE Results(o) = x.outstanding /\ GoesOn(o, x, "deliver")
    <3>1. x.outstanding \subseteq obs[o].results
      BY <2>4 DEF Results
    <3> HIDE DEF x
    <3> QED
      BY <1>1, <1>4, <1>5, <1>7, <1>11, <2>2, <2>4, <3>1, GoesFacts DEF x
  <2> QED
    BY <2>1, <2>3, <2>4
<1>12. CASE obs[o].pc = "deliver"
  <2>1. PICK c \in Results(o) :
          LET z == Answered(x, c)
          IN  IF Results(o) = {c} THEN GoesOn(o, Drain(o, z), "race") ELSE GoesOn(o, z, "deliver")
    BY <1>12 DEF TextArrives, FetchTools, EmptyBatch
  <2>2. x.outstanding \subseteq obs[o].results /\ Results(o) = x.outstanding /\ c \in x.outstanding
    BY <1>4, <1>12 DEF Results
  <2>3. x.tail[1] = o /\ k \notin x.completed /\ obs[o].batch = {}
    BY <1>2, <1>4, <1>7, <1>12
  <2> DEFINE z == Answered(x, c)
  <2>4. Proceeds(x, z, k) /\ z.outstanding = x.outstanding \ {c}
    BY <1>2, <2>2, AnsweredProceeds
  <2>5. CASE x.outstanding = {c}
    <3> DEFINE y == Drain(o, z)
    <3>1. Proceeds(x, y, k) /\ y.outstanding = {}
      BY <1>2, <2>5, AnsweredDrains
    <3>2. GoesOn(o, y, "race")
      BY <2>1, <2>2, <2>5
    <3> HIDE DEF y
    <3> QED
      BY <1>1, <1>7, <1>12, <2>3, <3>1, <3>2, GoesFacts
  <2>6. CASE x.outstanding # {c}
    <3>1. GoesOn(o, z, "deliver")
      BY <2>1, <2>2, <2>6
    <3> HIDE DEF z
    <3>2. z.outstanding \subseteq obs[o].results
      BY <2>2, <2>4
    <3> QED
      BY <1>1, <1>7, <1>12, <2>3, <2>4, <3>1, <3>2, GoesFacts
  <2> QED
    BY <2>5, <2>6
<1> QED
  BY <1>8, <1>9, <1>10, <1>11, <1>12

\* A round is left as it is; its calls are told, for the first time or again; its
\* answer is told, after what a settled browser left.
Quits(x, y, k) ==
  /\ Leaves(x, y, k) /\ Holds(x, y) /\ Stays(x, y)
  /\ y.completed = x.completed /\ y.failed = x.failed /\ y.journal[k] = x.journal[k]
TellsCalls(x, y, k) ==
  /\ Leaves(x, y, k) /\ x.outstanding = {} /\ y.outstanding # {} /\ k \notin x.completed
  /\ y.completed = x.completed \cup {k} /\ y.failed = x.failed /\ y.final = x.final
  /\ y.drained = x.pushed /\ y.prelude = x.journal[k] \o FreshText(x)
  /\ y.journal[k] = Append(y.prelude, Batch(y.outstanding))
TellsAgain(x, y, k) ==
  /\ Leaves(x, y, k) /\ Holds(x, y) /\ Stays(x, y) /\ x.outstanding # {} /\ k \notin x.completed
  /\ y.completed = x.completed \cup {k} /\ y.failed = x.failed
  /\ x.journal[k] = <<>> => y.journal[k] = Append(x.prelude, Batch(x.outstanding))
NothingNew(x, k) == x.journal[k] = <<>> /\ x.drained = x.pushed /\ x.final # <<>>
Leftover(x, k, queued) ==
  IF queued /\ NothingNew(x, k) THEN x.final ELSE x.journal[k] \o FreshText(x)
TellsAnswer(x, y, k, queued) ==
  LET whole == Leftover(x, k, queued) \o OnePiece(x)
  IN  /\ Leaves(x, y, k) /\ Holds(x, y) /\ x.outcome = "final" /\ k \notin x.completed
      /\ y.completed = x.completed \cup {k} /\ y.failed = x.failed
      /\ y.journal[k] = Append(whole, DoneEvent)
      /\ y.drained = IF queued /\ NothingNew(x, k) THEN x.drained ELSE x.pushed
      /\ y.final = IF queued THEN whole ELSE Leftover(x, k, queued)

\* What ends a request, and what Codex hears of it if it still listens.
Closes(o, x, y, k, heard) ==
  \/ heard = <<>> /\ Quits(x, y, k)
  \/ /\ k \notin x.completed /\ (Stays(x, y) \/ obs[o].pc \in {"race", "finish"})
     /\ \/ heard = <<>> /\ Breaks(x, y, k, TRUE)
        \/ heard = y.journal[k] /\ Breaks(x, y, k, FALSE)
  \/ /\ heard = y.journal[k] /\ o = codex.live
     /\ \/ obs[o].pc = "race" /\ TellsCalls(x, y, k)
        \/ obs[o].pc = "token" /\ obs[o].results \cap x.outstanding = {} /\ TellsAgain(x, y, k)
  \/ /\ heard = y.journal[k] /\ obs[o].pc \notin {"token", "deliver"}
     /\ TellsAnswer(x, y, k, obs[o].pc = "queued")
  \/ heard = y.journal[k] /\ y = x /\ k \in x.completed \ x.failed /\ obs[o].pc = "queued"

EndsAs(o, y, heard) ==
  /\ obs[o].pc # "idle" /\ Of(o).tail[1] = o
  /\ sess' = [sess EXCEPT ![obs[o].on] = [y EXCEPT !.tail = Tail(@)]]
  /\ obs' = [obs EXCEPT ![o] = Unasked]
  /\ codex' = IF codex.live = o THEN Hears(obs[o].on, heard) ELSE codex
  /\ current' \in {current, Unregistered(obs[o].on)} /\ UNCHANGED <<mode, buffered>>
  /\ Closes(o, Of(o), y, obs[o].key, heard)
RoundEnds(o) == \E y \in Surfaces, heard \in Seq(Events) : EndsAs(o, y, heard)

\* A step that ends its request closes the round as one of the ways to close it.
LEMMA EndsFacts ==
  ASSUME RoundsTyped, RoundsQueued, SurfacesWork, LiveIsLast, NEW o \in Observers, obs[o].pc # "idle",
         Of(o).tail[1] = o, NEW y \in Surfaces, NEW thrown \in BOOLEAN, Ends(o, y, thrown),
         current' \in {current, Unregistered(obs[o].on)},
         thrown \/ \E list : Adds(Of(o), y, obs[o].key, list),
         Closes(o, Of(o), y, obs[o].key, IF thrown THEN <<>> ELSE y.journal[obs[o].key])
  PROVE  RoundEnds(o)
<1> DEFINE k == obs[o].key
           heard == IF thrown THEN <<>> ELSE y.journal[k]
<1>1. heard \in Seq(Events)
  <2>1. k \in RoundKeys
    BY RequestFacts
  <2>2. y.journal[k] \in Seq(Events) /\ <<>> \in Seq(Events)
    BY <2>1, SurfaceFields
  <2> QED
    BY <2>2
<1>2. o = codex.live /\ ~thrown => SeenIn(o, y) = y.journal[k]
  BY SeenIsJournal
<1>3. codex' = IF codex.live = o THEN Hears(obs[o].on, heard) ELSE codex
  BY <1>2 DEF Ends
<1>4. /\ sess' = [sess EXCEPT ![obs[o].on] = [y EXCEPT !.tail = Tail(@)]]
      /\ obs' = [obs EXCEPT ![o] = Unasked] /\ UNCHANGED <<mode, buffered>>
  BY DEF Ends
<1>5. Closes(o, Of(o), y, k, heard)
  OBVIOUS
<1> HIDE DEF heard, k
<1> QED
  BY <1>1, <1>3, <1>4, <1>5 DEF RoundEnds, EndsAs, k

\* A request that fails, from what its session is or has drained.
LEMMA FailsEnds ==
  ASSUME RoundsTyped, RoundsQueued, SurfacesWork, LiveIsLast, NEW o \in Observers, obs[o].pc # "idle",
         Of(o).tail[1] = o, obs[o].key \notin Of(o).completed,
         NEW z \in Surfaces, Works(z), Leaves(Of(o), z, obs[o].key), Holds(Of(o), z),
         z.completed = Of(o).completed, z.failed = Of(o).failed,
         NEW list, Adds(Of(o), z, obs[o].key, list),
         Stays(Of(o), z) \/ obs[o].pc \in {"race", "finish"},
         NEW error \in {"generic", "rejected", "retryable"}, Fails(o, z, error)
  PROVE  RoundEnds(o)
<1> DEFINE x == Of(o)
           k == obs[o].key
<1>1. k \in RoundKeys /\ x \in Surfaces
  BY RequestFacts
<1>2. PICK y \in Surfaces, thrown \in BOOLEAN, more \in Seq(Events) :
           /\ Ends(o, y, thrown) /\ current' \in {current, Unregistered(obs[o].on)}
           /\ Breaks(z, y, k, thrown) /\ Stays(z, y)
           /\ ~thrown => Adds(z, y, k, more)
  BY <1>1, FailsFacts
<1> HIDE DEF x, k
<1>3. Breaks(x, y, k, thrown)
  BY <1>2 DEF Breaks, Leaves, Served, Holds, x, k
<1>4. Stays(x, y) \/ obs[o].pc \in {"race", "finish"}
  BY <1>2 DEF Stays, x
<1>5. thrown \/ \E all : Adds(x, y, k, all)
  <2>1. ASSUME ~thrown PROVE Adds(x, y, k, list \o more)
    <3>1. /\ list \in Seq(Events) /\ more \in Seq(Events) /\ x.journal[k] \in Seq(Events)
          /\ z.journal[k] = x.journal[k] \o list /\ y.journal[k] = z.journal[k] \o more
          /\ y.journal[k] \in Seq(Events)
      BY <1>1, <1>2, <2>1, SurfaceFields DEF Adds, x, k
    <3>2. (x.journal[k] \o list) \o more = x.journal[k] \o (list \o more)
      <4> DEFINE j == x.journal[k]
      <4>1. j \in Seq(Events)
        BY <3>1
      <4> HIDE DEF j
      <4>2. (j \o list) \o more = j \o (list \o more)
        BY <3>1, <4>1, ConcatAssociative
      <4> QED
        BY <4>2 DEF j
    <3>3. list \o more \in Seq(Events)
      BY <3>1, ConcatProperties
    <3> QED
      BY <3>1, <3>2, <3>3 DEF Adds
  <2> QED
    BY <2>1
<1>6. Closes(o, x, y, k, IF thrown THEN <<>> ELSE y.journal[k])
  <2>1. CASE thrown = TRUE
    BY <1>3, <1>4, <2>1 DEF Closes, x, k
  <2>2. CASE thrown = FALSE
    BY <1>3, <1>4, <2>2 DEF Closes, x, k
  <2> QED
    BY <2>1, <2>2
<1> QED
  BY <1>2, <1>5, <1>6, EndsFacts DEF x, k

\* What two steps add to a journal, they add together.
LEMMA AddsJoin ==
  ASSUME NEW x \in Surfaces, NEW y, NEW z, NEW k \in RoundKeys, NEW list, NEW more,
         Adds(x, y, k, list), Adds(y, z, k, more)
  PROVE  \E all : Adds(x, z, k, all)
<1> DEFINE j == x.journal[k]
<1>1. /\ list \in Seq(Events) /\ more \in Seq(Events) /\ j \in Seq(Events)
      /\ y.journal[k] = j \o list /\ z.journal[k] = y.journal[k] \o more /\ z.journal[k] \in Seq(Events)
  BY SurfaceFields DEF Adds
<1> HIDE DEF j
<1>2. (j \o list) \o more = j \o (list \o more)
  BY <1>1, ConcatAssociative
<1>3. list \o more \in Seq(Events)
  BY <1>1, ConcatProperties
<1>4. Adds(x, z, k, list \o more)
  BY <1>1, <1>2, <1>3 DEF Adds, j
<1> QED
  BY <1>4

\* The answer of a settled browser ends the round.
LEMMA AnswerEnds ==
  ASSUME RoundsTyped, RoundsQueued, SurfacesWork, LiveIsLast, NEW o \in Observers, obs[o].pc # "idle",
         Of(o).tail[1] = o, obs[o].key \notin Of(o).completed, Of(o).outcome = "final",
         NEW z \in Surfaces, Works(z), Leaves(Of(o), z, obs[o].key), Holds(Of(o), z),
         z.completed = Of(o).completed, z.failed = Of(o).failed,
         NEW list, Adds(Of(o), z, obs[o].key, list),
         NEW rest \in Seq(Events), NEW whole,
         whole = Leftover(Of(o), obs[o].key, obs[o].pc = "queued") \o OnePiece(Of(o)),
         z.journal[obs[o].key] \o rest = whole,
         z.drained = IF obs[o].pc = "queued" /\ NothingNew(Of(o), obs[o].key)
                     THEN Of(o).drained ELSE Of(o).pushed,
         z.final = IF obs[o].pc = "queued" THEN whole
                   ELSE Leftover(Of(o), obs[o].key, obs[o].pc = "queued"),
         obs[o].pc \notin {"token", "deliver"}, Finishes(o, z, rest)
  PROVE  RoundEnds(o)
<1> DEFINE x == Of(o)
           k == obs[o].key
<1>1. k \in RoundKeys /\ x \in Surfaces
  BY RequestFacts
<1>2. PICK y \in Surfaces, more \in Seq(Events) :
           /\ Ends(o, y, FALSE) /\ current' = current
           /\ Leaves(z, y, k) /\ Holds(z, y) /\ Stays(z, y)
           /\ y.completed = z.completed \cup {k} /\ y.failed = z.failed
           /\ Adds(z, y, k, more)
           /\ y.journal[k] = Append(z.journal[k] \o rest, DoneEvent)
           /\ z.journal[k] \o rest \in Seq(Events)
  <2>1. obs[o].key \in RoundKeys
    BY <1>1
  <2> QED
    BY <2>1, FinishesFacts, ZenonT(30)
<1> HIDE DEF x, k
<1>4. Leaves(x, y, k) /\ Holds(x, y)
  BY <1>2 DEF Leaves, Served, Holds, x, k
<1>5. TellsAnswer(x, y, k, obs[o].pc = "queued")
  BY <1>2, <1>4 DEF TellsAnswer, Stays, x, k
<1>6. \E all : Adds(x, y, k, all)
  BY <1>1, <1>2, AddsJoin DEF x, k
<1>7. Closes(o, x, y, k, IF FALSE THEN <<>> ELSE y.journal[k])
  BY <1>5 DEF Closes, x, k
<1>8. FALSE \in BOOLEAN
  OBVIOUS
<1> QED
  BY <1>2, <1>6, <1>7, <1>8, EndsFacts DEF x, k

\* The steps that end a request.
EndActions(o) ==
  \/ /\ obs[o].pc = "queued" /\ Of(o).tail[1] = o
     /\ \/ /\ obs[o].key \in Of(o).completed /\ Ends(o, Of(o), obs[o].key \in Of(o).failed)
           /\ current' = IF obs[o].key \in Of(o).failed THEN Unregistered(obs[o].on) ELSE current
        \/ obs[o].key \notin Of(o).completed /\ Of(o).outcome # "running" /\ Settled(o)
  \/ AbortWait(o) \/ TokenRejected(o) \/ EmitTools(o) \/ ToolsFail(o) \/ BrowserOutcome(o)
  \/ /\ obs[o].pc = "token" /\ ~obs[o].gone
     /\ \/ Fails(o, Of(o), "generic")
        \/ LET x == Of(o)
               told == IF x.journal[obs[o].key] = <<>> THEN x.prelude ELSE <<>>
           IN  /\ x.outstanding # {} /\ Results(o) = {}
               /\ Ends(o, Complete(o, Journal(o, x, Append(told, Batch(x.outstanding)))), FALSE)
               /\ UNCHANGED <<current, retries>>
  \/ obs[o].pc = "deliver" /\ Fails(o, Of(o), "generic")

\* A list and the event that closes it complete a round.
ClosesWith(o, x, y, list, e) == y = Complete(o, Journal(o, x, Append(list, e)))

ClosedWith(x, y, k, list, e) ==
  /\ Leaves(x, y, k) /\ Holds(x, y) /\ Stays(x, y)
  /\ y.completed = x.completed \cup {k} /\ y.failed = x.failed
  /\ Adds(x, y, k, Append(list, e))
  /\ y.journal[k] = Append(x.journal[k] \o list, e)

\* A batch, or the answer, completes the round.
LEMMA BatchFacts ==
  ASSUME NEW o, NEW k, k = obs[o].key, NEW x \in Surfaces, Works(x), k \in RoundKeys,
         NEW list \in Seq(Events), NEW e \in Events,
         NEW y, ClosesWith(o, x, y, list, e)
  PROVE  ClosedWith(x, y, k, list, e)
<1> DEFINE new == Append(list, e)
           z == Journal(o, x, new)
<1>1. x.journal[k] \in Seq(Events)
  BY SurfaceFields
<1>2. /\ new \in Seq(Events) /\ x.journal[k] \o new = Append(x.journal[k] \o list, e)
      /\ x.journal[k] \o list \in Seq(Events)
  BY <1>1, AppendJoins
<1> HIDE DEF new
<1>9. LET j == obs[o].key
      IN  /\ Leaves(x, z, j) /\ z.call = x.call /\ z.outstanding = x.outstanding
          /\ z.prelude = x.prelude /\ z.final = x.final /\ z.drained = x.drained
          /\ z.completed = x.completed /\ z.failed = x.failed
          /\ z.journal[j] = x.journal[j] \o new /\ z.journal[j] \in Seq(Events)
  <2>1. obs[o].key \in RoundKeys
    OBVIOUS
  <2> QED
    BY ONLY x \in Surfaces, Works(x), <2>1, <1>2, JournalFacts
<1>3. /\ Leaves(x, z, k) /\ z.call = x.call /\ z.outstanding = x.outstanding
      /\ z.prelude = x.prelude /\ z.final = x.final /\ z.drained = x.drained
      /\ z.completed = x.completed /\ z.failed = x.failed
      /\ z.journal[k] = x.journal[k] \o new /\ z.journal[k] \in Seq(Events)
  BY <1>9
<1>8. y = Complete(o, z)
  BY DEF new, z, ClosesWith
<1> HIDE DEF z
<1>4. z \in Surfaces /\ Works(z)
  BY <1>3 DEF Leaves
<1>5. /\ Leaves(z, y, k) /\ y.call = z.call /\ y.outstanding = z.outstanding
      /\ y.prelude = z.prelude /\ y.final = z.final /\ y.drained = z.drained
      /\ y.completed = z.completed \cup {k} /\ y.failed = z.failed
      /\ y.journal = z.journal
  BY <1>4, <1>8, CompleteFacts
<1>6. Leaves(x, y, k) /\ Holds(x, y) /\ Stays(x, y)
  BY <1>3, <1>5 DEF Leaves, Served, Holds, Stays
<1>7. /\ y.completed = x.completed \cup {k} /\ y.failed = x.failed /\ Adds(x, y, k, new)
      /\ y.journal[k] = Append(x.journal[k] \o list, e)
  BY <1>2, <1>3, <1>5 DEF Adds
<1> QED
  BY <1>6, <1>7 DEF ClosedWith, new

\* What settles the browser's last round is kept.
Settles(x, z, k) ==
  \/ z = [x EXCEPT !.final = x.journal[k]]
  \/ z = [x EXCEPT !.final = x.journal[k], !.retired = TRUE, !.active = 0]

\* The round a settled browser ends with is kept to be told again.
LEMMA FinalFacts ==
  ASSUME NEW x \in Surfaces, Works(x), x.outcome # "running", NEW k \in RoundKeys,
         NEW z, Settles(x, z, k)
  PROVE  /\ z \in Surfaces /\ Works(z) /\ Leaves(x, z, k) /\ Holds(x, z) /\ z.journal = x.journal
         /\ z.drained = x.drained /\ z.completed = x.completed /\ z.failed = x.failed
         /\ z.final = z.journal[k]
<1> DEFINE list == x.journal[k]
<1>1. list \in Seq(Events) /\ x.pushed \in Nat /\ TRUE \in BOOLEAN /\ 0 \in Int
  BY SurfaceFields
<1>2. z = [x EXCEPT !.final = list] \/ z = [x EXCEPT !.final = list, !.retired = TRUE, !.active = 0]
  BY DEF Settles
<1> HIDE DEF list
<1>3. /\ z \in Surfaces /\ z.drained = x.drained /\ z.journal = x.journal /\ Served(x, z)
      /\ z.call = x.call /\ z.outstanding = x.outstanding /\ z.resolved = x.resolved
      /\ z.prelude = x.prelude /\ z.final = list
      /\ z.completed = x.completed /\ z.failed = x.failed /\ z.tail = x.tail
  <2>1. CASE z = [x EXCEPT !.final = list]
    BY ONLY x \in Surfaces, <1>1, <2>1 DEF Surfaces, Served
  <2>2. CASE z = [x EXCEPT !.final = list, !.retired = TRUE, !.active = 0]
    BY ONLY x \in Surfaces, <1>1, <2>2 DEF Surfaces, Served
  <2> QED
    BY <1>2, <2>1, <2>2
<1>4. z.failed \subseteq z.completed /\ z.outcome # "running"
  BY <1>3 DEF Works, Served
<1>5. Works(z)
  BY <1>1, <1>3, <1>4, WorksOn
<1> QED
  BY <1>3, <1>5 DEF Leaves, Holds, list

\* A drain adds to the journal of the round, whether or not its client listens.
LEMMA DrainAdds ==
  ASSUME NEW o, NEW x \in Surfaces, Works(x), obs[o].key \in RoundKeys
  PROVE  LET y == Drain(o, x)
             k == obs[o].key
         IN  /\ y \in Surfaces /\ Works(y) /\ Leaves(x, y, k) /\ Holds(x, y)
             /\ y.completed = x.completed /\ y.failed = x.failed /\ \E list : Adds(x, y, k, list)
             /\ y.drained = x.pushed /\ y.journal[k] = x.journal[k] \o FreshText(x)
             /\ y.final = x.final
<1> DEFINE y == Drain(o, x)
           k == obs[o].key
<1>1. /\ y \in Surfaces /\ Works(y) /\ Served(x, y) /\ y.drained = x.pushed
      /\ y.journal[k] = x.journal[k] \o FreshText(x) /\ y.journal[k] \in Seq(Events)
      /\ \A j \in RoundKeys \ {k} : y.journal[j] = x.journal[j]
      /\ y.call = x.call /\ y.outstanding = x.outstanding /\ y.resolved = x.resolved
      /\ y.prelude = x.prelude /\ y.final = x.final
      /\ y.completed = x.completed /\ y.failed = x.failed /\ y.tail = x.tail
  BY DrainFacts
<1>2. FreshText(x) \in Seq(Events)
  BY FreshTyped
<1> HIDE DEF y, k
<1>3. Adds(x, y, k, FreshText(x)) /\ Leaves(x, y, k) /\ Holds(x, y)
  BY <1>1, <1>2 DEF Adds, Leaves, Holds
<1> QED
  BY <1>1, <1>3 DEF y, k

\* What a settled browser leaves to tell is journaled: its text, or its last round.
LEMMA RemainderFacts ==
  ASSUME NEW o, NEW x \in Surfaces, Works(x), obs[o].key \in RoundKeys
  PROVE  LET y == Remainder(o, x)
             k == obs[o].key
         IN  /\ Leaves(x, y, k) /\ Holds(x, y) /\ y.completed = x.completed /\ y.failed = x.failed
             /\ \E list : Adds(x, y, k, list)
             /\ IF NothingNew(x, k) THEN y.drained = x.drained /\ y.journal[k] = x.final
                ELSE y.drained = x.pushed /\ y.journal[k] = x.journal[k] \o FreshText(x)
<1> DEFINE k == obs[o].key
           y == Remainder(o, x)
<1>1. CASE NothingNew(x, k)
  <2>1. y = Journal(o, x, x.final)
    BY <1>1 DEF Remainder, NothingNew
  <2>2. x.final \in Seq(Events)
    BY SurfaceFields
  <2> DEFINE u == Journal(o, x, x.final)
  <2>3. /\ Leaves(x, u, k) /\ u.call = x.call /\ u.outstanding = x.outstanding
        /\ u.prelude = x.prelude /\ u.final = x.final /\ u.drained = x.drained
        /\ u.completed = x.completed /\ u.failed = x.failed
        /\ u.journal[k] = x.journal[k] \o x.final /\ u.journal[k] \in Seq(Events)
    BY <2>2, JournalFacts
  <2> HIDE DEF y, u
  <2>4. x.journal[k] \o x.final = x.final
    BY <1>1, <2>2 DEF NothingNew
  <2>5. Adds(x, u, k, x.final)
    BY <2>2, <2>3 DEF Adds
  <2> QED
    BY <1>1, <2>1, <2>3, <2>4, <2>5 DEF Holds, u, y
<1>2. CASE ~NothingNew(x, k)
  <2>1. y = Drain(o, x)
    BY <1>2 DEF Remainder, NothingNew
  <2> HIDE DEF y
  <2> QED
    BY <1>2, <2>1, DrainAdds DEF y
<1> QED
  BY <1>1, <1>2

\* Every action that may end a request does so in one of those ways.
LEMMA EndsByAction ==
  ASSUME RoundsTyped, RoundsQueued, SurfacesWork, LiveIsLast, ResultsAwaited, NEW o \in Observers,
         EndActions(o)
  PROVE  RoundEnds(o)
<1> DEFINE x == Of(o)
           k == obs[o].key
<1>1. obs[o].pc # "idle"
  BY DEF EndActions, AbortWait, TokenRejected, EmitTools, ToolsFail, BrowserOutcome
<1>2. /\ obs[o] \in Asked /\ x = sess[obs[o].on] /\ x \in Surfaces /\ Works(x) /\ k \in RoundKeys
      /\ obs[o].batch \in SUBSET Tools
      /\ obs[o].pc \in Busy => x.tail[1] = o /\ k \notin x.completed
  BY <1>1, RequestFacts
<1>3. /\ ~obs[o].gone => o = codex.live
      /\ obs[o].pc \in {"race", "finish"} => x.outstanding = {}
      /\ obs[o].pc = "race" => obs[o].batch \subseteq CallsIn(x, {"delivered"})
  BY <1>1 DEF LiveIsLast, ResultsAwaited
<1>4. {"token", "race", "finish", "deliver"} \subseteq Busy
  BY DEF Busy
<1>5. x.outcome \in Outcomes
  BY <1>2, SurfaceFields
<1>6. /\ Leaves(x, x, k) /\ Holds(x, x) /\ Stays(x, x) /\ Adds(x, x, k, <<>>)
  <2>1. x.journal[k] \in Seq(Events) /\ <<>> \in Seq(Events)
    BY <1>2, SurfaceFields
  <2>2. x.journal[k] = x.journal[k] \o <<>>
    BY <2>1
  <2> QED
    BY <1>2, <2>1, <2>2 DEF Leaves, Holds, Stays, Adds, Served
<1>7. ASSUME x.tail[1] = o, k \notin x.completed,
             NEW error \in {"generic", "rejected", "retryable"}, Fails(o, x, error)
      PROVE  RoundEnds(o)
  <2> HIDE DEF x, k
  <2> QED
    BY <1>1, <1>2, <1>6, <1>7, FailsEnds DEF x, k
<1>15. LET y == Drain(o, x)
       IN  /\ y \in Surfaces /\ Works(y) /\ Leaves(x, y, k) /\ Holds(x, y)
           /\ y.completed = x.completed /\ y.failed = x.failed /\ \E list : Adds(x, y, k, list)
           /\ y.drained = x.pushed /\ y.journal[k] = x.journal[k] \o FreshText(x)
           /\ y.final = x.final
  BY <1>2, DrainAdds
<1>8. CASE obs[o].pc = "queued" /\ k \in x.completed
  <2> DEFINE thrown == k \in x.failed
  <2>1. /\ x.tail[1] = o /\ Ends(o, x, thrown) /\ current' \in {current, Unregistered(obs[o].on)}
    BY <1>8 DEF EndActions, AbortWait, TokenRejected, EmitTools, ToolsFail, BrowserOutcome
  <2>2. thrown \in BOOLEAN
    OBVIOUS
  <2>3. Closes(o, x, x, k, IF thrown THEN <<>> ELSE x.journal[k])
    <3>1. CASE thrown
      <4>1. Quits(x, x, k)
        BY <1>6 DEF Quits
      <4> HIDE DEF x, k
      <4> QED
        BY <3>1, <4>1 DEF Closes
    <3>2. CASE ~thrown
      BY <1>8, <3>2 DEF Closes
    <3> QED
      BY <3>1, <3>2
  <2> HIDE DEF thrown
  <2> QED
    BY <1>1, <1>2, <1>6, <2>1, <2>2, <2>3, EndsFacts
<1>9. CASE obs[o].pc = "queued" /\ k \notin x.completed
  <2>1. x.tail[1] = o /\ x.outcome # "running" /\ Settled(o)
    BY <1>9 DEF EndActions, AbortWait, TokenRejected, EmitTools, ToolsFail, BrowserOutcome
  <2>2. CASE x.outcome # "final"
    <3>1. x.outcome \in {"generic", "rejected", "retryable"}
      BY <1>5, <2>1, <2>2 DEF Outcomes
    <3>2. Fails(o, x, x.outcome)
      BY <2>1, <2>2 DEF Settled
    <3> QED
      BY <1>7, <1>9, <2>1, <3>1, <3>2
  <2>3. CASE x.outcome = "final"
    <3> DEFINE v == Remainder(o, x)
               y == Journal(o, v, OnePiece(x))
               z == [y EXCEPT !.final = y.journal[k]]
               last == Leftover(x, k, TRUE)
    <3>1. Finishes(o, z, <<>>) /\ <<>> \in Seq(Events)
      BY <2>1, <2>3 DEF Settled
    <3>2. /\ Leaves(x, v, k) /\ Holds(x, v) /\ v.completed = x.completed /\ v.failed = x.failed
          /\ \E list : Adds(x, v, k, list)
          /\ IF NothingNew(x, k) THEN v.drained = x.drained /\ v.journal[k] = x.final
             ELSE v.drained = x.pushed /\ v.journal[k] = x.journal[k] \o FreshText(x)
      BY <1>2, RemainderFacts
    <3>3. v \in Surfaces /\ Works(v) /\ v.outcome # "running"
      BY <2>3, <3>2 DEF Leaves, Served
    <3>4. OnePiece(x) \in Seq(Events)
      BY <1>2, OnePieceTyped DEF RoundsTyped
    <3> DEFINE one == OnePiece(x)
    <3>7. y = Journal(o, v, one)
      OBVIOUS
    <3>8. Settles(y, z, k)
      BY DEF Settles
    <3>9. one \in Seq(Events) /\ one = OnePiece(x) /\ k = obs[o].key
      BY <3>4
    <3> HIDE DEF v, y, z, one, x, k
    <3>10. /\ Leaves(v, y, k) /\ y.call = v.call /\ y.outstanding = v.outstanding
           /\ y.prelude = v.prelude /\ y.final = v.final /\ y.drained = v.drained
           /\ y.completed = v.completed /\ y.failed = v.failed
           /\ y.journal[k] = v.journal[k] \o one /\ y.journal[k] \in Seq(Events)
      <4>1. obs[o].key \in RoundKeys /\ v \in Surfaces /\ Works(v)
        BY <1>2, <3>3, <3>9
      <4>2. LET j == obs[o].key
            IN  /\ Leaves(v, y, j) /\ y.call = v.call /\ y.outstanding = v.outstanding
                /\ y.prelude = v.prelude /\ y.final = v.final /\ y.drained = v.drained
                /\ y.completed = v.completed /\ y.failed = v.failed
                /\ y.journal[j] = v.journal[j] \o one /\ y.journal[j] \in Seq(Events)
        BY ONLY <3>7, <3>9, <4>1, JournalFacts
      <4> QED
        BY <3>9, <4>2
    <3>11. Holds(v, y) /\ Adds(v, y, k, one) /\ y \in Surfaces /\ Works(y) /\ y.outcome # "running"
      BY <3>3, <3>9, <3>10 DEF Holds, Adds, Leaves, Served
    <3>12. /\ z \in Surfaces /\ Works(z) /\ Leaves(y, z, k) /\ Holds(y, z) /\ z.journal = y.journal
           /\ z.drained = y.drained /\ z.completed = y.completed /\ z.failed = y.failed
           /\ z.final = z.journal[k]
      BY <1>2, <3>8, <3>11, FinalFacts
    <3>13. /\ Leaves(x, z, k) /\ Holds(x, z) /\ z.completed = x.completed /\ z.failed = x.failed
      BY <3>2, <3>10, <3>11, <3>12 DEF Leaves, Served, Holds
    <3>14. \E list : Adds(x, z, k, list)
      <4>1. Adds(v, z, k, one)
        BY <3>11, <3>12 DEF Adds
      <4> QED
        BY <1>2, <3>2, <4>1, AddsJoin
    <3>15. /\ z.drained = IF NothingNew(x, k) THEN x.drained ELSE x.pushed
           /\ z.journal[k] = last \o one /\ z.final = last \o one
      BY <3>2, <3>10, <3>12 DEF Leftover
    <3>16. z.journal[k] \o <<>> = last \o one
      <4>1. z.journal[k] \in Seq(Events)
        BY <3>10, <3>12
      <4>2. z.journal[k] \o <<>> = z.journal[k]
        BY ONLY <4>1
      <4> QED
        BY <3>15, <4>2
    <3> DEFINE whole == last \o one
    <3>17. /\ whole = Leftover(x, k, obs[o].pc = "queued") \o OnePiece(x)
           /\ z.journal[k] \o <<>> = whole /\ z.final = whole
      BY <1>9, <3>9, <3>15, <3>16
    <3> HIDE DEF whole
    <3> QED
      BY <1>1, <1>9, <2>1, <2>3, <3>1, <3>12, <3>13, <3>14, <3>15, <3>17, AnswerEnds DEF x, k
  <2> QED
    BY <2>2, <2>3
<1>10. CASE AbortWait(o)
  <2>1. obs[o].pc \in {"token", "race"} /\ x.tail[1] = o
    BY <1>2, <1>4, <1>10 DEF AbortWait
  <2>2. PICK y \in {x, Cancelled(x)} :
          Ends(o, y, TRUE) /\ current' \in {current, Unregistered(obs[o].on)}
    BY <1>10 DEF AbortWait
  <2>3. /\ Leaves(x, Cancelled(x), k) /\ Holds(x, Cancelled(x)) /\ Stays(x, Cancelled(x))
        /\ Cancelled(x).journal = x.journal
        /\ Cancelled(x).completed = x.completed /\ Cancelled(x).failed = x.failed
    BY <1>2, CancelledFacts
  <2>4. Quits(x, y, k)
    BY <1>6, <2>2, <2>3 DEF Quits
  <2>5. y \in Surfaces
    BY <2>4 DEF Quits, Leaves
  <2>6. Closes(o, x, y, k, IF TRUE THEN <<>> ELSE y.journal[k])
    <3> HIDE DEF x, k
    <3> QED
      BY <2>4 DEF Closes
  <2>7. TRUE \in BOOLEAN
    OBVIOUS
  <2> HIDE DEF x, k
  <2> QED
    BY <1>1, <2>1, <2>2, <2>5, <2>6, <2>7, EndsFacts DEF x, k
<1>11. CASE TokenRejected(o) \/ ToolsFail(o) \/ (obs[o].pc = "token" /\ Fails(o, x, "generic"))
            \/ (obs[o].pc = "deliver" /\ Fails(o, x, "generic"))
  <2>1. PICK error \in {"generic", "rejected", "retryable"} : Fails(o, x, error)
    <3>1. CASE TokenRejected(o)
      <4>1. Fails(o, x, x.outcome) /\ x.outcome # "running" /\ x.phase = "starting"
        BY <3>1 DEF TokenRejected
      <4>2. x.outcome \in {"generic", "rejected", "retryable"}
        BY <1>2, <1>5, <4>1 DEF Outcomes, Works
      <4> QED
        BY <4>1, <4>2
    <3>2. CASE ~TokenRejected(o)
      BY <1>11, <3>2 DEF ToolsFail
    <3> QED
      BY <3>1, <3>2
  <2>2. x.tail[1] = o /\ k \notin x.completed
    BY <1>2, <1>4, <1>11 DEF TokenRejected, ToolsFail
  <2> QED
    BY <1>7, <2>1, <2>2
<1>12. CASE EmitTools(o)
  <2> DEFINE y == Drain(o, x)
             batch == obs[o].batch
             list == y.journal[k]
             z == [y EXCEPT !.outstanding = batch, !.prelude = list]
  <2>1. /\ obs[o].pc = "race" /\ ~obs[o].gone /\ batch # {}
        /\ IF ~Acceptable(o, y) THEN Fails(o, y, "generic")
           ELSE /\ Ends(o, Complete(o, Journal(o, z, <<Batch(batch)>>)), FALSE)
                /\ UNCHANGED <<current, retries>>
    BY <1>12 DEF EmitTools
  <2>2. /\ y \in Surfaces /\ Works(y) /\ Leaves(x, y, k) /\ Holds(x, y)
        /\ y.completed = x.completed /\ y.failed = x.failed /\ \E l : Adds(x, y, k, l)
        /\ y.drained = x.pushed /\ y.journal[k] = x.journal[k] \o FreshText(x)
        /\ y.final = x.final
    BY <1>15
  <2>3. x.tail[1] = o /\ k \notin x.completed
    BY <1>2, <1>4, <2>1
  <2>4. /\ batch \in SUBSET Tools /\ batch \subseteq CallsIn(x, {"delivered"}) /\ x.outstanding = {}
        /\ o = codex.live
    BY <1>2, <1>3, <2>1
  <2>5. CASE ~Acceptable(o, y)
    <3>1. Fails(o, y, "generic") /\ "generic" \in {"generic", "rejected", "retryable"}
      BY <2>1, <2>5
    <3> HIDE DEF x, y, k
    <3> QED
      BY <1>1, <2>1, <2>2, <2>3, <3>1, FailsEnds DEF x, k
  <2>6. CASE Acceptable(o, y)
    <3>1. /\ Ends(o, Complete(o, Journal(o, z, <<Batch(batch)>>)), FALSE)
          /\ current' = current /\ batch \cap y.resolved = {}
      BY <2>1, <2>6 DEF Acceptable
    <3>2. list \in Seq(Events)
      BY <1>2, <2>2, SurfaceFields
    <3> HIDE DEF list, batch, y, x, k
    <3>3. /\ z \in Surfaces /\ z.drained = y.drained /\ z.journal = y.journal /\ Served(y, z)
          /\ z.call = y.call /\ z.outstanding = batch /\ z.resolved = y.resolved
          /\ z.prelude = list /\ z.final = y.final
          /\ z.completed = y.completed /\ z.failed = y.failed /\ z.tail = y.tail
      BY ONLY <2>2, <2>4, <3>2 DEF Surfaces, Served
    <3> HIDE DEF z
    <3>4. CallsIn(x, {"delivered"}) = CallsIn(z, {"delivered"})
          /\ CallsIn(y, {"queued", "delivered"}) = CallsIn(z, {"queued", "delivered"})
          /\ CallsIn(z, {"delivered"}) \subseteq CallsIn(z, {"queued", "delivered"})
      BY <2>2, <3>3 DEF CallsIn, Holds
    <3>5. mode # "readonly"
      BY <2>1, <2>2, <2>4, <3>4 DEF Works
    <3>6. Works(z)
      BY <2>2, <2>4, <3>1, <3>3, <3>4, <3>5 DEF Works, Served
    <3> DEFINE w == Complete(o, Journal(o, z, Append(<<>>, Batch(batch))))
    <3>7. <<Batch(batch)>> = Append(<<>>, Batch(batch)) /\ <<>> \in Seq(Events)
      OBVIOUS
    <3>10. Ends(o, w, FALSE)
      BY <3>1, <3>7
    <3>18. Batch(batch) \in Events
      BY <2>4, Kinds
    <3>19. ClosesWith(o, z, w, <<>>, Batch(batch)) /\ k = obs[o].key
      BY DEF ClosesWith, k
    <3> HIDE DEF w
    <3>8. k \in RoundKeys /\ k \notin z.completed
      BY <1>2, <2>2, <2>3, <3>3
    <3>20. ClosedWith(z, w, k, <<>>, Batch(batch))
      BY <3>3, <3>6, <3>7, <3>8, <3>18, <3>19, BatchFacts
    <3>9. /\ Leaves(z, w, k) /\ Holds(z, w) /\ Stays(z, w)
          /\ w.completed = z.completed \cup {k} /\ w.failed = z.failed
          /\ Adds(z, w, k, Append(<<>>, Batch(batch)))
          /\ w.journal[k] = Append(z.journal[k] \o <<>>, Batch(batch))
      BY <3>20 DEF ClosedWith
    <3>11. z.journal[k] = list /\ z.journal[k] \o <<>> = list
      BY <3>2, <3>3 DEF list
    <3>12. Leaves(x, w, k)
      BY <2>2, <3>3, <3>9 DEF Leaves, Served
    <3>13. list = x.journal[k] \o FreshText(x)
      BY <2>2 DEF list
    <3>14. TellsCalls(x, w, k)
      BY <2>1, <2>2, <2>3, <2>4, <3>3, <3>9, <3>11, <3>12, <3>13 DEF TellsCalls, Holds, Stays
    <3>15. \E l : Adds(x, w, k, l)
      <4>1. \E l : Adds(x, z, k, l)
        BY <2>2, <3>3 DEF Adds
      <4> QED
        BY <1>2, <3>9, <4>1, AddsJoin
    <3>16. Closes(o, x, w, k, IF FALSE THEN <<>> ELSE w.journal[k])
      BY <2>1, <2>4, <3>14 DEF Closes
    <3>17. w \in Surfaces /\ FALSE \in BOOLEAN
      BY <3>12 DEF Leaves
    <3> QED
      BY <1>1, <2>3, <3>1, <3>10, <3>15, <3>16, <3>17, EndsFacts DEF x, k
  <2> QED
    BY <2>5, <2>6
<1>13. CASE BrowserOutcome(o)
  <2> DEFINE y == Drain(o, x)
             z == [y EXCEPT !.final = y.journal[k], !.retired = TRUE, !.active = 0]
  <2>1. /\ obs[o].pc \in {"race", "finish"} /\ x.outcome # "running"
        /\ IF x.outcome # "final" THEN Fails(o, z, x.outcome) ELSE Finishes(o, z, OnePiece(z))
    BY <1>13 DEF BrowserOutcome
  <2>2. Settles(y, z, k)
    BY DEF Settles
  <2>3. /\ y \in Surfaces /\ Works(y) /\ Leaves(x, y, k) /\ Holds(x, y)
        /\ y.completed = x.completed /\ y.failed = x.failed /\ \E list : Adds(x, y, k, list)
        /\ y.drained = x.pushed /\ y.journal[k] = x.journal[k] \o FreshText(x)
    BY <1>15
  <2>4. x.tail[1] = o /\ k \notin x.completed
    BY <1>2, <1>4, <2>1
  <2> HIDE DEF y, z, x, k
  <2>5. y.outcome = x.outcome
    BY <2>3 DEF Leaves, Served
  <2>6. /\ z \in Surfaces /\ Works(z) /\ Leaves(y, z, k) /\ Holds(y, z) /\ z.journal = y.journal
        /\ z.drained = y.drained /\ z.completed = y.completed /\ z.failed = y.failed
        /\ z.final = z.journal[k]
    BY <1>2, <2>1, <2>2, <2>3, <2>5, FinalFacts
  <2>7. /\ Leaves(x, z, k) /\ Holds(x, z) /\ z.completed = x.completed /\ z.failed = x.failed
        /\ z.drained = x.pushed /\ z.final = x.journal[k] \o FreshText(x)
    BY <2>3, <2>6 DEF Leaves, Served, Holds
  <2>8. \E list : Adds(x, z, k, list)
    BY <2>3, <2>6 DEF Adds
  <2>9. CASE x.outcome # "final"
    <3>1. x.outcome \in {"generic", "rejected", "retryable"}
      BY <1>5, <2>1, <2>9 DEF Outcomes
    <3> QED
      BY <1>1, <2>1, <2>4, <2>6, <2>7, <2>8, <2>9, <3>1, FailsEnds DEF x, k
  <2>10. CASE x.outcome = "final"
    <3> DEFINE one == OnePiece(x)
               last == Leftover(x, k, FALSE)
               whole == last \o one
    <3>1. OnePiece(z) = one /\ one \in Seq(Events)
      <4>1. z.written = x.written
        BY <2>7 DEF Leaves, Served
      <4>2. OnePiece(x) \in Seq(Events)
        BY <1>2, OnePieceTyped DEF RoundsTyped
      <4> QED
        BY <4>1, <4>2 DEF OnePiece
    <3>2. last = x.journal[k] \o FreshText(x)
      BY DEF Leftover
    <3>3. z.final = last /\ z.journal[k] = last
      BY <2>6, <2>7, <3>2
    <3>4. obs[o].pc # "queued"
      BY <2>1
    <3>5. /\ whole = Leftover(x, k, obs[o].pc = "queued") \o OnePiece(x)
          /\ z.journal[k] \o one = whole /\ z.final = Leftover(x, k, obs[o].pc = "queued")
      <4>1. (obs[o].pc = "queued") = FALSE
        BY <3>4
      <4> QED
        BY <3>3, <4>1
    <3>6. Finishes(o, z, one)
      BY <2>1, <2>10, <3>1
    <3> HIDE DEF one, last, whole
    <3> QED
      BY <1>1, <2>1, <2>4, <2>6, <2>7, <2>8, <2>10, <3>1, <3>4, <3>5, <3>6, AnswerEnds DEF x, k
  <2> QED
    BY <2>9, <2>10
<1>14. CASE /\ obs[o].pc = "token" /\ ~obs[o].gone /\ x.outstanding # {} /\ Results(o) = {}
            /\ LET told == IF x.journal[k] = <<>> THEN x.prelude ELSE <<>>
               IN  Ends(o, Complete(o, Journal(o, x, Append(told, Batch(x.outstanding)))), FALSE)
            /\ UNCHANGED <<current, retries>>
  <2> DEFINE told == IF x.journal[k] = <<>> THEN x.prelude ELSE <<>>
             calls == x.outstanding
             w == Complete(o, Journal(o, x, Append(told, Batch(calls))))
  <2>1. /\ obs[o].pc = "token" /\ o = codex.live /\ calls # {} /\ obs[o].results \cap calls = {}
        /\ Ends(o, w, FALSE) /\ current' = current
    BY <1>3, <1>14 DEF Results
  <2>2. told \in Seq(Events) /\ calls \in SUBSET Tools
    BY <1>2, SurfaceFields
  <2>3. x.tail[1] = o /\ k \notin x.completed
    BY <1>2, <1>4, <2>1
  <2>4. x.journal[k] = <<>> => told = x.prelude
    OBVIOUS
  <2>5. calls = x.outstanding
    OBVIOUS
  <2>11. Batch(calls) \in Events
    BY <2>2, Kinds
  <2>12. ClosesWith(o, x, w, told, Batch(calls)) /\ k = obs[o].key
    BY DEF ClosesWith
  <2> HIDE DEF told, calls, x, k, w
  <2>13. ClosedWith(x, w, k, told, Batch(calls))
    BY <1>2, <2>2, <2>11, <2>12, BatchFacts
  <2>6. /\ Leaves(x, w, k) /\ Holds(x, w) /\ Stays(x, w)
        /\ w.completed = x.completed \cup {k} /\ w.failed = x.failed
        /\ Adds(x, w, k, Append(told, Batch(calls)))
        /\ w.journal[k] = Append(x.journal[k] \o told, Batch(calls))
    BY <2>13 DEF ClosedWith
  <2>7. x.journal[k] = <<>> => w.journal[k] = Append(x.prelude, Batch(x.outstanding))
    BY <2>2, <2>4, <2>5, <2>6
  <2>8. TellsAgain(x, w, k)
    BY <2>1, <2>3, <2>5, <2>6, <2>7 DEF TellsAgain
  <2>9. Closes(o, x, w, k, IF FALSE THEN <<>> ELSE w.journal[k])
    BY <2>1, <2>5, <2>8 DEF Closes
  <2>10. w \in Surfaces /\ FALSE \in BOOLEAN
    BY <2>6 DEF Leaves
  <2> QED
    BY <1>1, <2>1, <2>3, <2>6, <2>9, <2>10, EndsFacts DEF x, k
<1> QED
  BY <1>8, <1>9, <1>10, <1>11, <1>12, <1>13, <1>14 DEF EndActions

\* Every step is a request's, that begins, goes on or ends, Codex's, or the browser's.
LEMMA StepKinds ==
  ASSUME RoundsIInv, RoundsNext
  PROVE  \/ \E o \in Observers : AskRound(o) \/ RoundGoes(o) \/ RoundEnds(o)
         \/ AskInVain \/ LoseConnection \/ AskAgain \/ BudgetExpires \/ BrowserMoves
<1>1. RoundsTyped /\ RoundsQueued /\ SurfacesWork /\ LiveIsLast /\ ResultsAwaited
  BY DEF RoundsIInv
<1>2. ASSUME NEW s \in DOMAIN sess,
         \/ Prepare(s) \/ Submit(s) \/ ConfirmSent(s) \/ Write(s) \/ Push(s)
         \/ \E c \in Tools : CallTool(s, c)
         \/ Observe(s) \/ AnswerIsWritten(s) \/ ManualAnswer(s) \/ RetireCapability(s)
         \/ \E error \in {"generic", "rejected", "retryable"} : Break(s, error)
      PROVE  BrowserMoves
  BY <1>1, <1>2, BrowserActions
<1>3. ASSUME NEW o \in Observers, EndActions(o) PROVE RoundEnds(o)
  BY <1>1, <1>3, EndsByAction
<1>4. ASSUME NEW o \in Observers, Enter(o) PROVE RoundGoes(o) \/ RoundEnds(o)
  <2>1. CASE obs[o].key \in Of(o).completed
    BY <1>3, <1>4, <2>1 DEF Enter, EndActions
  <2>2. CASE obs[o].key \notin Of(o).completed /\ Of(o).outcome # "running"
    BY <1>3, <1>4, <2>2 DEF Enter, EndActions
  <2>3. CASE obs[o].key \notin Of(o).completed /\ Of(o).outcome = "running"
    <3>1. /\ obs[o].pc = "queued" /\ Of(o).tail[1] = o
          /\ IF mode = "readonly" THEN GoesOn(o, Drain(o, Of(o)), "race") ELSE GoesOn(o, Of(o), "token")
      BY <1>4, <2>3 DEF Enter
    <3> QED
      BY <1>1, <2>3, <3>1, GoesActions
  <2> QED
    BY <2>1, <2>2, <2>3
<1>5. ASSUME NEW o \in Observers, Bound(o) PROVE RoundGoes(o) \/ RoundEnds(o)
  <2>1. obs[o].pc = "token" /\ ~obs[o].gone
    BY <1>5 DEF Bound
  <2>2. CASE Fails(o, Of(o), "generic")
    BY <1>3, <2>1, <2>2 DEF EndActions
  <2>3. CASE Of(o).outstanding = {} /\ GoesOn(o, Drain(o, Of(o)), "race")
    BY <1>1, <2>1, <2>3, GoesActions
  <2>4. CASE Results(o) = Of(o).outstanding /\ GoesOn(o, Of(o), "deliver")
    BY <1>1, <2>1, <2>4, GoesActions
  <2>5. CASE LET x == Of(o)
                 told == IF x.journal[obs[o].key] = <<>> THEN x.prelude ELSE <<>>
             IN  /\ x.outstanding # {} /\ Results(o) = {}
                 /\ Ends(o, Complete(o, Journal(o, x, Append(told, Batch(x.outstanding)))), FALSE)
                 /\ UNCHANGED <<current, retries>>
    BY <1>3, <2>1, <2>5 DEF EndActions
  <2>6. \/ Fails(o, Of(o), "generic")
        \/ Of(o).outstanding = {} /\ GoesOn(o, Drain(o, Of(o)), "race")
        \/ Results(o) = Of(o).outstanding /\ GoesOn(o, Of(o), "deliver")
        \/ LET x == Of(o)
               told == IF x.journal[obs[o].key] = <<>> THEN x.prelude ELSE <<>>
           IN  /\ x.outstanding # {} /\ Results(o) = {}
               /\ Ends(o, Complete(o, Journal(o, x, Append(told, Batch(x.outstanding)))), FALSE)
               /\ UNCHANGED <<current, retries>>
    BY <1>5, Zenon DEF Bound
  <2> QED
    BY <2>2, <2>3, <2>4, <2>5, <2>6
<1>6. ASSUME NEW o \in Observers, Deliver(o) PROVE RoundGoes(o) \/ RoundEnds(o)
  <2>1. obs[o].pc = "deliver"
    BY <1>6 DEF Deliver
  <2>2. CASE Fails(o, Of(o), "generic")
    BY <1>3, <2>1, <2>2 DEF EndActions
  <2>3. CASE \E c \in Results(o) :
               LET x == Answered(Of(o), c)
               IN  IF Results(o) = {c} THEN GoesOn(o, Drain(o, x), "race") ELSE GoesOn(o, x, "deliver")
    BY <1>1, <2>1, <2>3, GoesActions
  <2>4. \/ Fails(o, Of(o), "generic")
        \/ \E c \in Results(o) :
             LET x == Answered(Of(o), c)
             IN  IF Results(o) = {c} THEN GoesOn(o, Drain(o, x), "race") ELSE GoesOn(o, x, "deliver")
    BY <1>6, Zenon DEF Deliver
  <2> QED
    BY <2>2, <2>3, <2>4
<1>7. ASSUME NEW o \in Observers,
             \/ AbortWait(o) \/ TokenRejected(o) \/ EmitTools(o) \/ ToolsFail(o) \/ BrowserOutcome(o)
      PROVE  RoundEnds(o)
  BY <1>3, <1>7 DEF EndActions
<1>8. ASSUME NEW o \in Observers, TextArrives(o) \/ FetchTools(o) \/ EmptyBatch(o)
      PROVE  RoundGoes(o)
  BY <1>1, <1>8, GoesActions
<1> QED
  BY <1>2, <1>4, <1>5, <1>6, <1>7, <1>8, Zenon DEF RoundsNext

\* The state after a step: one session is another, and one request.
Moved(s, y) ==
  /\ sess' \in Seq(Surfaces) /\ Len(sess') = Len(sess) /\ y \in Surfaces /\ sess'[s] = y
  /\ \A t \in 1..Len(sess) : t # s => sess'[t] = sess[t]
Answers(o, a) ==
  /\ obs' \in [Observers -> Asked] /\ a \in Asked /\ obs'[o] = a
  /\ \A p \in Observers : p # o => obs'[p] = obs[p]

\* One session changes.
LEMMA MovedFacts ==
  ASSUME RoundsTyped, NEW s \in 1..Len(sess), NEW y \in Surfaces, sess' = [sess EXCEPT ![s] = y]
  PROVE  Moved(s, y)
BY DEF RoundsTyped, Moved

\* One request changes.
LEMMA AnswersFacts ==
  ASSUME RoundsTyped, NEW o \in Observers, NEW a \in Asked, obs' = [obs EXCEPT ![o] = a]
  PROVE  Answers(o, a)
BY DEF RoundsTyped, Answers

\* Two sessions that differ in what runs them, not in what they tell.
Content(x, y) ==
  /\ y.outcome = x.outcome /\ y.written = x.written /\ y.drained = x.drained
  /\ y.outstanding = x.outstanding /\ y.resolved = x.resolved /\ y.prelude = x.prelude
  /\ y.final = x.final /\ y.journal = x.journal /\ y.completed = x.completed /\ y.failed = x.failed

Requeued(x, y, list) == y = [x EXCEPT !.tail = list]

\* The queue of a session changes, and what it tells does not.
LEMMA TailFacts ==
  ASSUME NEW x \in Surfaces, NEW list \in Seq(Observers), NEW y, Requeued(x, y, list)
  PROVE  /\ y \in Surfaces /\ Content(x, y) /\ y.tail = list /\ (Works(x) => Works(y))
         /\ y.call = x.call
<1>1. /\ y \in Surfaces /\ Content(x, y) /\ y.tail = list /\ y.call = x.call /\ Served(x, y)
  BY DEF Surfaces, Content, Served, Requeued
<1>2. CallsIn(y, {"delivered"}) = CallsIn(x, {"delivered"})
      /\ CallsIn(y, {"queued", "delivered"}) = CallsIn(x, {"queued", "delivered"})
  BY <1>1 DEF CallsIn
<1>3. Works(x) => Works(y)
  BY <1>1, <1>2 DEF Content, Served, Works
<1> QED
  BY <1>1, <1>3

\* The requests behind the first one.
LEMMA TailTyped ==
  ASSUME NEW list \in Seq(Observers), list # <<>>
  PROVE  /\ Tail(list) \in Seq(Observers) /\ Len(Tail(list)) = Len(list) - 1 /\ Len(list) \in Nat \ {0}
         /\ \A i \in 1..(Len(list) - 1) : Tail(list)[i] = list[i + 1]
OBVIOUS

\* A browser has moved.
Browses(s, y) ==
  /\ s \in 1..Len(sess) /\ Moved(s, y) /\ BrowserStep(sess[s], y)
  /\ UNCHANGED <<mode, buffered, current, codex, obs>>

\* A move of a browser, as a change of one session.
LEMMA BrowsesFacts ==
  ASSUME RoundsTyped, BrowserMoves
  PROVE  \E s, y : Browses(s, y)
<1>0. PICK s \in 1..Len(sess) : \E y :
        /\ BrowserStep(sess[s], y) /\ sess' = [sess EXCEPT ![s] = y]
        /\ UNCHANGED <<mode, buffered, current, codex, obs>>
  BY DEF BrowserMoves
<1>1. PICK y :
        /\ BrowserStep(sess[s], y) /\ sess' = [sess EXCEPT ![s] = y]
        /\ UNCHANGED <<mode, buffered, current, codex, obs>>
  BY <1>0
<1>2. Moved(s, y)
  BY <1>1, MovedFacts DEF BrowserStep
<1> QED
  BY <1>1, <1>2 DEF Browses

\* A request has gone on.
Went(o, y, a) ==
  /\ obs[o].pc # "idle" /\ obs[o].on \in 1..Len(sess)
  /\ Of(o).tail[1] = o /\ obs[o].key \notin Of(o).completed /\ obs[o].key \in RoundKeys
  /\ Proceeds(Of(o), y, obs[o].key)
  /\ Moved(obs[o].on, y) /\ Answers(o, a)
  /\ a.pc \in Busy /\ a.on = obs[o].on /\ a.key = obs[o].key /\ a.gone = obs[o].gone
  /\ a.results = obs[o].results
  /\ o = codex.live => a.seen = y.journal[a.key]
  /\ a.pc = "deliver" => y.outstanding \subseteq a.results
  /\ a.pc \in {"race", "finish"} => y.outstanding = {}
  /\ a.batch # {} => a.pc = "race"
  /\ a.batch \subseteq CallsIn(y, {"delivered"})
  /\ obs[o].pc = "queued" => Of(o).outcome = "running"
  /\ a.pc = "token" => obs[o].pc = "queued" /\ y = Of(o)
  /\ a.pc # "token" /\ obs[o].pc \in {"queued", "token"} =>
       \/ Of(o).outstanding = {}
       \/ o = codex.live /\ Of(o).outstanding \subseteq obs[o].results
  /\ UNCHANGED <<mode, buffered, current, codex>>

\* A request that goes on, as a change of its session and of itself.
LEMMA WentFacts ==
  ASSUME RoundsTyped, RoundsQueued, SurfacesWork, NEW o \in Observers, RoundGoes(o)
  PROVE  \E y, a : Went(o, y, a)
<1>1. PICK y \in Surfaces, a \in Asked : GoesWith(o, y, a)
  BY DEF RoundGoes
<1> USE DEF GoesWith
<1>2. obs[o].on \in 1..Len(sess) /\ obs[o].key \in RoundKeys
  BY <1>1, RequestFacts
<1>3. Moved(obs[o].on, y)
  BY <1>1, <1>2, MovedFacts
<1>4. Answers(o, a)
  BY <1>1, AnswersFacts
<1> QED
  BY <1>1, <1>2, <1>3, <1>4 DEF Went

\* A request that is not asked.
LEMMA UnaskedTyped ==
  ASSUME RoundKeys # {}
  PROVE  Unasked \in Asked
<1>1. <<1, 1>> \in RoundKeys
  <2>1. 1 \in 1..MaxSurfaces * Cardinality(Tools) + 1
    BY RoundsAssumption, FS_CardinalityType DEF RoundKeys
  <2> QED
    BY <2>1 DEF RoundKeys
<1>2. <<>> \in Seq(Events) /\ 0 \in Nat
  OBVIOUS
<1> QED
  BY <1>1, <1>2 DEF Unasked, Asked

\* A request has ended: y is what it made of its session, and z that without it.
Ended(o, y, z, heard) ==
  /\ obs[o].pc # "idle" /\ obs[o].on \in 1..Len(sess)
  /\ Of(o).tail \in Seq(Observers) /\ Of(o).tail # <<>> /\ Of(o).tail[1] = o
  /\ obs[o].key \in RoundKeys /\ heard \in Seq(Events)
  /\ Closes(o, Of(o), y, obs[o].key, heard) /\ Leaves(Of(o), y, obs[o].key)
  /\ Moved(obs[o].on, z) /\ Works(z) /\ Content(y, z) /\ z.tail = Tail(Of(o).tail)
  /\ Answers(o, Unasked)
  /\ codex' = IF codex.live = o THEN Hears(obs[o].on, heard) ELSE codex
  /\ current' \in {current, 0} /\ UNCHANGED <<mode, buffered>>

\* A request that ends, as a change of its session, of itself and of Codex.
LEMMA EndedFacts ==
  ASSUME RoundsTyped, RoundsQueued, SurfacesWork, NEW o \in Observers, RoundEnds(o)
  PROVE  \E y, z, heard : Ended(o, y, z, heard)
<1> DEFINE x == Of(o)
           k == obs[o].key
<1>1. PICK y \in Surfaces, heard \in Seq(Events) : EndsAs(o, y, heard)
  BY DEF RoundEnds
<1> USE DEF EndsAs
<1>2. obs[o].on \in 1..Len(sess) /\ k \in RoundKeys /\ x \in Surfaces /\ Works(x)
      /\ x = sess[obs[o].on]
  BY <1>1, RequestFacts
<1>3. x.tail \in Seq(Observers) /\ x.tail # <<>>
  <2>1. x.tail \in Seq(Observers)
    BY <1>2, SurfaceFields
  <2>2. \E i \in 1..Len(x.tail) : x.tail[i] = o
    BY <1>1 DEF RoundsQueued
  <2> HIDE DEF x
  <2> QED
    BY <2>1, <2>2
<1>4. x.journal[k] \in Seq(Events)
  BY <1>2, SurfaceFields
<1> DEFINE z == [y EXCEPT !.tail = Tail(y.tail)]
<1>5. sess' = [sess EXCEPT ![obs[o].on] = z] /\ Requeued(y, z, Tail(y.tail))
  BY <1>1 DEF Requeued
<1> HIDE DEF x, k, z
<1>6. Leaves(x, y, k)
  <2>1. y = x => Leaves(x, y, k)
    BY <1>2 DEF Leaves, Served
  <2> QED
    BY <1>1, <2>1 DEF Closes, Quits, Breaks, TellsCalls, TellsAgain, TellsAnswer, x, k
<1>7. Tail(y.tail) \in Seq(Observers) /\ y.tail = x.tail
  <2>1. y.tail = x.tail
    BY <1>6 DEF Leaves
  <2> QED
    BY <1>3, <2>1, TailTyped
<1>8. z \in Surfaces /\ Content(y, z) /\ z.tail = Tail(x.tail) /\ Works(z)
  <2>1. Works(y)
    BY <1>6 DEF Leaves
  <2> QED
    BY <1>5, <1>7, <2>1, TailFacts
<1>9. Moved(obs[o].on, z)
  BY <1>2, <1>5, <1>8, MovedFacts
<1>10. Answers(o, Unasked)
  <2>1. Unasked \in Asked
    BY <1>2, UnaskedTyped
  <2> QED
    BY <1>1, <2>1, AnswersFacts
<1>11. current' \in {current, 0}
  BY <1>1 DEF Unregistered
<1> QED
  BY <1>1, <1>2, <1>3, <1>6, <1>8, <1>9, <1>10, <1>11 DEF Ended, x, k

\* A session starts as one that may be asked.
LEMMA SurfaceTyped ==
  /\ Surface \in Surfaces /\ Works(Surface)
<1>1. /\ [k \in RoundKeys |-> <<>>] \in [RoundKeys -> Seq(Events)]
      /\ [c \in Tools |-> "none"] \in [Tools -> {"none", "queued", "delivered", "answered"}]
      /\ [c \in Tools |-> 0] \in [Tools -> Nat]
      /\ <<>> \in Seq(Events) /\ <<>> \in Seq(Observers)
  <2>1. <<>> \in Seq(Events) /\ 0 \in Nat /\ <<>> \in Seq(Observers)
    OBVIOUS
  <2> QED
    BY <2>1
<1>2. "running" \in Outcomes
  BY DEF Outcomes
<1>3. Surface \in Surfaces
  BY <1>1, <1>2 DEF Surface, Surfaces
<1>4. Works(Surface)
  BY DEF Surface, Works, CallsIn
<1> QED
  BY <1>3, <1>4

\* A settled session that nobody uses keeps what its browser has written.
LEMMA RemainsTyped ==
  ASSUME NEW x \in Surfaces
  PROVE  /\ Remains(x) \in Surfaces /\ Remains(x).outcome = x.outcome
         /\ Remains(x).written = x.written /\ Remains(x).tail = x.tail
         /\ x.tail # <<>> => Remains(x) = x
<1>1. CASE x.tail # <<>>
  BY <1>1 DEF Remains
<1>2. CASE x.tail = <<>>
  <2> DEFINE v == Surface
             y == [v EXCEPT !.phase = x.phase, !.outcome = x.outcome, !.cancelled = TRUE,
                            !.written = x.written, !.after = x.after]
  <2>1. v \in Surfaces /\ v.tail = <<>>
    BY SurfaceTyped DEF Surface
  <2>2. Remains(x) = y
    BY <1>2 DEF Remains
  <2> HIDE DEF v
  <2>3. /\ x.phase \in {"starting", "prepared", "activated", "accepted"} /\ x.outcome \in Outcomes
        /\ x.written \in Nat /\ x.after \in [Tools -> Nat]
    BY DEF Surfaces
  <2>4. y \in Surfaces /\ y.outcome = x.outcome /\ y.written = x.written /\ y.tail = v.tail
    BY <2>1, <2>3 DEF Surfaces
  <2> QED
    BY <1>2, <2>1, <2>2, <2>4
<1> QED
  BY <1>1, <1>2

\* A request is asked: of the browser there is, or of a new one.
NewSurface(y) ==
  /\ y.outcome = "running" /\ y.drained = 0 /\ y.final = <<>>
  /\ y.outstanding = {} /\ y.completed = {} /\ y.failed = {}
  /\ \A k \in RoundKeys : y.journal[k] = <<>>
Asks(o, s, y, a) ==
  /\ codex.state = "asking" /\ codex.live = Nobody /\ obs[o].pc = "idle"
  /\ <<codex.round, codex.variant>> \in RoundKeys
  /\ current' = s /\ sess' \in Seq(Surfaces) /\ s \in 1..Len(sess') /\ Len(sess) <= Len(sess')
  /\ sess'[s] = y /\ y \in Surfaces
  /\ \A t \in 1..Len(sess) :
       /\ sess'[t].outcome = sess[t].outcome /\ sess'[t].written = sess[t].written
       /\ t # s => sess'[t].tail = sess[t].tail /\ (sess[t].tail # <<>> => sess'[t] = sess[t])
  /\ \/ /\ current = s /\ s \in 1..Len(sess) /\ Len(sess') = Len(sess)
        /\ Content(sess[s], y) /\ (Works(sess[s]) => Works(y)) /\ y.call = sess[s].call
        /\ y.tail = Append(sess[s].tail, o)
     \/ /\ current = 0 /\ s = Len(sess) + 1 /\ Len(sess') = s
        /\ Works(y) /\ y.tail = <<o>> /\ NewSurface(y)
  /\ Answers(o, a) /\ a.pc = "queued" /\ a.on = s /\ a.key = <<codex.round, codex.variant>>
  /\ a.results = UNION {CallsOf(codex, k) : k \in HeldOn(codex, s)}
  /\ ~a.gone /\ a.seen = <<>> /\ a.batch = {}
  /\ codex' = [codex EXCEPT !.live = o] /\ UNCHANGED <<mode, buffered>>

\* A request that is asked, as a change of its session, of itself and of Codex.
LEMMA AsksFacts ==
  ASSUME RoundsTyped, HeldInOrder, NEW o \in Observers, AskRound(o)
  PROVE  \E s, y, a : Asks(o, s, y, a)
<1> DEFINE known == IF current = 0
                    THEN Append([t \in DOMAIN sess |-> Remains(sess[t])], Surface) ELSE sess
           s == IF current = 0 THEN Len(known) ELSE current
           calls == UNION {LastOf(codex.held[k].events).calls :
                             k \in {j \in 1..(codex.round - 1) : codex.held[j].on = s}}
           a == [Unasked EXCEPT !.pc = "queued", !.on = s, !.key = <<codex.round, codex.variant>>,
                                !.results = calls]
           list == Append(known[s].tail, o)
           y == [known[s] EXCEPT !.tail = list]
<1>1. /\ codex.state = "asking" /\ codex.live = Nobody /\ obs[o].pc = "idle"
      /\ <<codex.round, codex.variant>> \in RoundKeys
      /\ current' = s /\ sess' = [known EXCEPT ![s].tail = Append(@, o)]
      /\ obs' = [obs EXCEPT ![o] = a]
      /\ codex' = [codex EXCEPT !.live = o] /\ UNCHANGED <<mode, buffered>>
  BY DEF AskRound
<1>2. sess \in Seq(Surfaces) /\ current \in 0..Len(sess) /\ codex \in Codexes
  BY DEF RoundsTyped
<1>3. /\ known \in Seq(Surfaces) /\ s \in 1..Len(known) /\ Len(sess) <= Len(known)
      /\ current # 0 => known = sess /\ s = current
      /\ current = 0 => s = Len(sess) + 1 /\ Len(known) = s /\ known[s] = Surface
      /\ \A t \in 1..Len(sess) :
           /\ known[t].outcome = sess[t].outcome /\ known[t].written = sess[t].written
           /\ known[t].tail = sess[t].tail /\ (sess[t].tail # <<>> => known[t] = sess[t])
  <2>1. CASE current # 0
    BY <1>2, <2>1
  <2>2. CASE current = 0
    <3> DEFINE left == [t \in DOMAIN sess |-> Remains(sess[t])]
    <3>1. \A t \in 1..Len(sess) : sess[t] \in Surfaces /\ Remains(sess[t]) \in Surfaces
      BY <1>2, RemainsTyped
    <3>2. left \in Seq(Surfaces) /\ Len(left) = Len(sess)
          /\ \A t \in 1..Len(sess) : left[t] = Remains(sess[t])
      BY <1>2, <3>1
    <3> HIDE DEF left
    <3>3. known = Append(left, Surface)
      BY <2>2 DEF left
    <3>4. /\ known \in Seq(Surfaces) /\ Len(known) = Len(sess) + 1 /\ known[Len(sess) + 1] = Surface
          /\ \A t \in 1..Len(sess) : known[t] = Remains(sess[t])
      BY <1>2, <3>2, <3>3, SurfaceTyped
    <3>5. s = Len(known)
      BY <2>2
    <3> HIDE DEF known, s
    <3>6. \A t \in 1..Len(sess) :
           /\ known[t].outcome = sess[t].outcome /\ known[t].written = sess[t].written
           /\ known[t].tail = sess[t].tail /\ (sess[t].tail # <<>> => known[t] = sess[t])
      BY <3>1, <3>4, RemainsTyped
    <3> QED
      BY <1>2, <2>2, <3>4, <3>5, <3>6
  <2> QED
    BY <2>1, <2>2
<1>4. calls = UNION {CallsOf(codex, k) : k \in HeldOn(codex, s)}
  BY DEF CallsOf, HeldOn
<1>5. calls \in SUBSET Tools
  <2>1. ASSUME NEW k \in 1..(codex.round - 1) PROVE LastOf(codex.held[k].events).calls \in SUBSET Tools
    <3>1. codex.round \in Nat \ {0} /\ codex.held \in Seq(Responses)
      BY <1>2 DEF Codexes
    <3>2. k \in 1..Len(codex.held) /\ k < codex.round
      BY <3>1 DEF HeldInOrder
    <3>3. LastOf(codex.held[k].events) \in ToolEvents
      BY <3>2 DEF HeldInOrder
    <3> QED
      BY <3>3, Kinds
  <2> QED
    BY <2>1
<1> HIDE DEF known, s, calls
<1>6. known[s] \in Surfaces /\ known[s].tail \in Seq(Observers) /\ list \in Seq(Observers)
  <2>1. known[s] \in Surfaces
    BY <1>3
  <2> QED
    BY <2>1, SurfaceFields
<1> HIDE DEF list
<1>7. Requeued(known[s], y, list)
  BY DEF Requeued
<1>8. /\ y \in Surfaces /\ Content(known[s], y) /\ y.tail = list
      /\ (Works(known[s]) => Works(y)) /\ y.call = known[s].call
  <2> HIDE DEF y
  <2> QED
    BY <1>6, <1>7, TailFacts
<1>9. sess' = [known EXCEPT ![s] = y]
  BY <1>1, <1>3 DEF list
<1> HIDE DEF y
<1>10. /\ sess' \in Seq(Surfaces) /\ Len(sess') = Len(known) /\ sess'[s] = y
       /\ \A t \in 1..Len(known) : t # s => sess'[t] = known[t]
  BY <1>3, <1>8, <1>9
<1>11. /\ a \in Asked /\ a.pc = "queued" /\ a.on = s /\ a.key = <<codex.round, codex.variant>>
       /\ a.results = calls /\ ~a.gone /\ a.seen = <<>> /\ a.batch = {}
  <2>1. s \in Nat
    BY <1>3
  <2> DEFINE u == Unasked
  <2>2. u \in Asked /\ ~u.gone /\ u.seen = <<>> /\ u.batch = {}
    BY <1>1, UnaskedTyped DEF Unasked
  <2>3. a = [u EXCEPT !.pc = "queued", !.on = s, !.key = <<codex.round, codex.variant>>,
                      !.results = calls]
    OBVIOUS
  <2> HIDE DEF a, u
  <2> DEFINE key == <<codex.round, codex.variant>>
  <2>4. key \in RoundKeys
    BY <1>1
  <2> HIDE DEF key
  <2>5. a = [u EXCEPT !.pc = "queued", !.on = s, !.key = key, !.results = calls]
    BY <2>3 DEF key
  <2>6. /\ a \in Asked /\ a.pc = "queued" /\ a.on = s /\ a.key = key
        /\ a.results = calls /\ ~a.gone /\ a.seen = <<>> /\ a.batch = {}
    BY ONLY <1>5, <2>1, <2>2, <2>4, <2>5 DEF Asked
  <2> QED
    BY <2>6 DEF key
<1> HIDE DEF a
<1>12. Answers(o, a)
  BY <1>1, <1>11, AnswersFacts
<1>13. \A t \in 1..Len(sess) :
         /\ sess'[t].outcome = sess[t].outcome /\ sess'[t].written = sess[t].written
         /\ t # s => sess'[t].tail = sess[t].tail /\ (sess[t].tail # <<>> => sess'[t] = sess[t])
  <2>1. ASSUME NEW t \in 1..Len(sess)
        PROVE  /\ sess'[t].outcome = sess[t].outcome /\ sess'[t].written = sess[t].written
               /\ t # s => sess'[t].tail = sess[t].tail /\ (sess[t].tail # <<>> => sess'[t] = sess[t])
    <3>1. t \in 1..Len(known)
      BY <1>2, <1>3
    <3>2. CASE t = s
      BY <1>3, <1>8, <1>10, <3>2 DEF Content
    <3>3. CASE t # s
      BY <1>3, <1>10, <3>1, <3>3
    <3> QED
      BY <3>2, <3>3
  <2> QED
    BY <2>1
<1>14. \/ /\ current = s /\ s \in 1..Len(sess) /\ Len(sess') = Len(sess)
          /\ Content(sess[s], y) /\ (Works(sess[s]) => Works(y)) /\ y.call = sess[s].call
          /\ y.tail = Append(sess[s].tail, o)
       \/ /\ current = 0 /\ s = Len(sess) + 1 /\ Len(sess') = s
          /\ Works(y) /\ y.tail = <<o>> /\ NewSurface(y)
  <2>1. CASE current # 0
    BY <1>2, <1>3, <1>8, <1>10, <2>1 DEF list
  <2>2. CASE current = 0
    <3>1. known[s] = Surface /\ Works(Surface) /\ s = Len(sess) + 1 /\ Len(sess') = s
      BY <1>3, <1>10, <2>2, SurfaceTyped
    <3>2. NewSurface(Surface) /\ Surface.tail = <<>>
      BY DEF NewSurface, Surface
    <3>3. NewSurface(y)
      BY <1>8, <3>1, <3>2 DEF NewSurface, Content
    <3>4. y.tail = <<o>>
      BY <1>8, <3>1, <3>2 DEF list
    <3> QED
      BY <1>8, <2>2, <3>1, <3>3, <3>4
  <2> QED
    BY <2>1, <2>2
<1>15. Asks(o, s, y, a)
  BY <1>1, <1>3, <1>4, <1>8, <1>10, <1>11, <1>12, <1>13, <1>14 DEF Asks
<1> QED
  BY <1>15

\* What Codex makes of a response.
HearsNothing(c, d) ==
  /\ d \in Codexes /\ d.live = Nobody /\ d.round = c.round /\ d.variant = c.variant
  /\ d.held = c.held /\ (d.state = c.state \/ d.state = "refused")
HearsWhole(c, d, s, heard) ==
  /\ d \in Codexes /\ d.live = Nobody
  /\ d.held = Append(SubSeq(c.held, 1, c.round - 1), [on |-> s, events |-> heard])
  /\ \/ /\ LastOf(heard) \in ToolEvents
        /\ d.round = c.round + 1 /\ d.variant = 1 /\ d.state = c.state
     \/ /\ LastOf(heard) = DoneEvent
        /\ d.round = c.round /\ d.variant = c.variant /\ d.state = "finished"
Whole(heard) == heard # <<>> /\ LastOf(heard) \in ToolEvents \cup {DoneEvent}

\* Codex keeps a whole response, and drops every other one.
LEMMA HearsFacts ==
  ASSUME codex \in Codexes, HeldInOrder, NEW s \in Nat, NEW heard \in Seq(Events)
  PROVE  IF Whole(heard) THEN HearsWhole(codex, Hears(s, heard), s, heard)
         ELSE HearsNothing(codex, Hears(s, heard))
<1> DEFINE c == codex
           ending == IF heard = <<>> THEN [type |-> "thrown"] ELSE LastOf(heard)
           response == [on |-> s, events |-> heard]
           next == Append(SubSeq(c.held, 1, c.round - 1), response)
           kept == [c EXCEPT !.live = Nobody, !.held = next]
           d == Hears(s, heard)
<1>1. d = CASE ending.type = "tools" -> [kept EXCEPT !.round = @ + 1, !.variant = 1]
            [] ending.type = "done" -> [kept EXCEPT !.state = "finished"]
            [] ending.type = "error" /\ ~ending.retry -> [c EXCEPT !.live = Nobody, !.state = "refused"]
            [] OTHER -> [c EXCEPT !.live = Nobody]
  BY DEF Hears
<1>2. c \in Codexes /\ c.held \in Seq(Responses) /\ c.round \in 1..(Len(c.held) + 1)
      /\ c.round + 1 \in Nat \ {0}
  <2>1. c \in Codexes /\ c.held \in Seq(Responses) /\ c.round \in Nat \ {0}
    BY DEF Codexes
  <2>2. Len(c.held) = c.round - 1 \/ Len(c.held) = c.round
    BY DEF HeldInOrder
  <2> QED
    BY <2>1, <2>2
<1>3. response \in Responses
  BY DEF Responses
<1> HIDE DEF response
<1>4. next \in Seq(Responses)
  BY <1>2, <1>3, KeptNext
<1>5. heard # <<>> => LastOf(heard) \in Events
  BY DEF LastOf
<1>6. heard = <<>> => ending.type = "thrown"
  OBVIOUS
<1>7. heard # <<>> => ending = LastOf(heard)
  OBVIOUS
<1> DEFINE part == SubSeq(c.held, 1, c.round - 1)
<1>8. next = Append(part, response)
  OBVIOUS
<1> HIDE DEF ending, next, c, d
<1>9. kept \in Codexes /\ kept.live = Nobody /\ kept.held = next /\ kept.round = c.round
      /\ kept.variant = c.variant /\ kept.state = c.state
  BY <1>2, <1>4 DEF Codexes
<1> HIDE DEF kept
<1>10. CASE heard # <<>> /\ LastOf(heard) \in ToolEvents
  <2>1. ending.type = "tools"
    BY <1>7, <1>10, Kinds
  <2>2. d = [kept EXCEPT !.round = @ + 1, !.variant = 1]
    BY <1>1, <2>1, Zenon
  <2>3. d \in Codexes /\ d.live = Nobody /\ d.held = next /\ d.round = c.round + 1
        /\ d.variant = 1 /\ d.state = c.state
    BY <1>2, <1>9, <2>2 DEF Codexes
  <2>4. HearsWhole(c, d, s, heard)
    BY <1>10, <2>3 DEF HearsWhole, next, response
  <2> QED
    BY <1>10, <2>4 DEF Whole, c, d
<1>11. CASE heard # <<>> /\ LastOf(heard) = DoneEvent
  <2>1. ending.type = "done"
    BY <1>7, <1>11, Kinds
  <2>2. d = [kept EXCEPT !.state = "finished"]
    <3>1. ending.type # "tools"
      BY <2>1
    <3> QED
      BY <1>1, <2>1, <3>1
  <2>3. d \in Codexes /\ d.live = Nobody /\ d.held = next /\ d.round = c.round
        /\ d.variant = c.variant /\ d.state = "finished"
    BY <1>2, <1>9, <2>2 DEF Codexes
  <2>4. HearsWhole(c, d, s, heard)
    BY <1>11, <2>3 DEF HearsWhole, next, response
  <2> QED
    BY <1>11, <2>4 DEF Whole, c, d
<1>12. CASE ~Whole(heard)
  <2>1. ending.type # "tools" /\ ending.type # "done"
    <3>1. CASE heard = <<>>
      BY <1>6, <3>1
    <3>2. CASE heard # <<>>
      <4>1. ending \in TextEvents \cup ErrorEvents
        BY <1>5, <1>7, <1>12, <3>2 DEF Whole, Events
      <4> QED
        BY <4>1 DEF TextEvents, ErrorEvents
    <3> QED
      BY <3>1, <3>2
  <2>2. d \in {[c EXCEPT !.live = Nobody, !.state = "refused"], [c EXCEPT !.live = Nobody]}
    BY <1>1, <2>1
  <2>3. HearsNothing(c, d)
    <3>1. CASE d = [c EXCEPT !.live = Nobody, !.state = "refused"]
      BY <1>2, <3>1 DEF Codexes, HearsNothing
    <3>2. CASE d = [c EXCEPT !.live = Nobody]
      BY <1>2, <3>2 DEF Codexes, HearsNothing
    <3> QED
      BY <2>2, <3>1, <3>2
  <2> QED
    BY <1>12, <2>3 DEF c, d
<1> QED
  BY <1>10, <1>11, <1>12 DEF Whole

\* Codex after a request has ended.
LEMMA EndedCodex ==
  ASSUME RoundsTyped, HeldInOrder, NEW o \in Observers, NEW y, NEW z, NEW heard, Ended(o, y, z, heard)
  PROVE  IF o # codex.live THEN codex' = codex
         ELSE IF Whole(heard) THEN HearsWhole(codex, codex', obs[o].on, heard)
         ELSE HearsNothing(codex, codex')
<1>1. codex \in Codexes /\ obs[o].on \in Nat /\ heard \in Seq(Events)
  BY DEF RoundsTyped, Ended, Asked
<1>2. codex' = IF codex.live = o THEN Hears(obs[o].on, heard) ELSE codex
  BY DEF Ended
<1> QED
  BY <1>1, <1>2, HearsFacts

-----------------------------------------------------------------------------
(* The steps of Codex alone.                                                 *)

\* The request Codex waited for is gone.
Lost(a) ==
  /\ codex.live \in Observers /\ Answers(codex.live, a) /\ a.gone /\ a.pc = obs[codex.live].pc
  /\ a.on = obs[codex.live].on /\ a.key = obs[codex.live].key
  /\ a.results = obs[codex.live].results /\ a.batch = obs[codex.live].batch
  /\ codex' \in Codexes /\ codex'.live = Nobody /\ codex'.round = codex.round
  /\ codex'.variant = codex.variant /\ codex'.held = codex.held /\ codex'.state = codex.state
  /\ UNCHANGED <<mode, buffered, current, sess>>

\* A lost connection leaves what Codex has kept.
LEMMA LosesLive ==
  ASSUME NEW c \in Codexes, NEW d, d = [c EXCEPT !.live = Nobody, !.lost = @ + 1]
  PROVE  /\ d \in Codexes /\ d.live = Nobody /\ d.round = c.round
         /\ d.variant = c.variant /\ d.held = c.held /\ d.state = c.state
<1> DEFINE n == c.lost + 1
<1>1. n \in Nat
  BY DEF Codexes
<1>2. d = [c EXCEPT !.live = Nobody, !.lost = n]
  OBVIOUS
<1> HIDE DEF n
<1> QED
  BY ONLY c \in Codexes, <1>1, <1>2 DEF Codexes

\* A lost connection, as a change of its request and of Codex.
LEMMA LostFacts ==
  ASSUME RoundsTyped, LoseConnection
  PROVE  \E a : Lost(a)
<1> DEFINE o == codex.live
           v == obs[o]
           a == [v EXCEPT !.gone = TRUE, !.seen = <<>>]
           c == codex
<1>9. codex' = [c EXCEPT !.live = Nobody, !.lost = @ + 1]
  BY DEF LoseConnection
<1>1. /\ o # Nobody /\ obs' = [obs EXCEPT ![o].gone = TRUE, ![o].seen = <<>>]
      /\ UNCHANGED <<mode, buffered, current, sess>>
  BY DEF LoseConnection
<1>2. c \in Codexes /\ obs \in [Observers -> Asked]
  BY DEF RoundsTyped
<1>3. o \in Observers
  BY <1>1, <1>2 DEF Codexes
<1>4. v \in Asked /\ <<>> \in Seq(Events)
  BY <1>2, <1>3
<1>5. obs' = [obs EXCEPT ![o] = a]
  BY <1>1, <1>2, <1>3
<1>10. c \in Codexes
  BY <1>2
<1> HIDE DEF c
<1>6. /\ codex' \in Codexes /\ codex'.live = Nobody /\ codex'.round = c.round
      /\ codex'.variant = c.variant /\ codex'.held = c.held /\ codex'.state = c.state
  BY ONLY <1>9, <1>10, LosesLive
<1> HIDE DEF v
<1>7. /\ a \in Asked /\ a.gone /\ a.pc = v.pc /\ a.on = v.on /\ a.key = v.key
      /\ a.results = v.results /\ a.batch = v.batch
  BY ONLY <1>4 DEF Asked
<1> HIDE DEF a
<1>8. Answers(o, a)
  BY <1>3, <1>5, <1>7, AnswersFacts
<1> QED
  BY <1>1, <1>3, <1>6, <1>7, <1>8 DEF Lost, v, c

\* Codex asks again for what it has received.
Asks2 ==
  /\ codex.live = Nobody /\ codex.held # <<>> /\ codex.variant = 1
  /\ \A o \in Observers : obs[o].pc = "idle"
  /\ \/ codex.state = "finished"
     \/ codex.state = "asking" /\ current # 0 /\ sess[current].outstanding # {}
  /\ codex' \in Codexes /\ codex'.live = Nobody /\ codex'.held = codex.held
  /\ codex'.round = Len(codex.held) /\ codex'.variant = 2 /\ codex'.state = "asking"
  /\ UNCHANGED <<mode, buffered, current, sess, obs>>

\* A round that is asked anew, as a change of Codex.
LEMMA Asks2Facts ==
  ASSUME RoundsTyped, AskAgain
  PROVE  Asks2
<1>1. codex \in Codexes
  BY DEF RoundsTyped
<1>2. Len(codex.held) \in Nat \ {0}
  <2>1. codex.held \in Seq(Responses) /\ codex.held # <<>>
    BY <1>1 DEF AskAgain, Codexes
  <2> DEFINE h == codex.held
  <2> HIDE DEF h
  <2>2. Len(h) \in Nat \ {0}
    BY <2>1 DEF h
  <2> QED
    BY <2>2 DEF h
<1> DEFINE n == Len(codex.held)
<1>3. codex' = [codex EXCEPT !.state = "asking", !.round = n, !.variant = 2]
  BY DEF AskAgain
<1> HIDE DEF n
<1>4. /\ codex' \in Codexes /\ codex'.live = codex.live /\ codex'.held = codex.held
      /\ codex'.round = n /\ codex'.variant = 2 /\ codex'.state = "asking"
  <2>1. n \in Nat \ {0}
    BY <1>2 DEF n
  <2> QED
    BY <1>1, <1>3, <2>1 DEF Codexes
<1> QED
  BY <1>4 DEF Asks2, AskAgain, n

\* Codex gives up, or nothing of this changes.
Rests ==
  /\ codex' \in Codexes /\ codex'.live = codex.live /\ codex'.round = codex.round
  /\ codex'.variant = codex.variant /\ codex'.held = codex.held
  /\ \/ codex'.state = codex.state
     \/ codex'.state = "refused" /\ codex.state = "asking" /\ codex.live = Nobody
  /\ UNCHANGED <<mode, buffered, current, sess, obs>>

\* The exhausted budget and its expiry leave the sessions and the requests.
LEMMA RestsFacts ==
  ASSUME RoundsTyped, AskInVain \/ BudgetExpires \/ UNCHANGED roundsVars
  PROVE  Rests
<1>1. codex \in Codexes
  BY DEF RoundsTyped
<1>2. CASE AskInVain
  <2>1. codex.state = "asking" /\ codex.live = Nobody /\ codex' = [codex EXCEPT !.state = "refused"]
        /\ UNCHANGED <<mode, buffered, current, sess, obs>>
    BY <1>2 DEF AskInVain
  <2>2. /\ codex' \in Codexes /\ codex'.live = codex.live /\ codex'.round = codex.round
        /\ codex'.variant = codex.variant /\ codex'.held = codex.held /\ codex'.state = "refused"
    BY <1>1, <2>1 DEF Codexes
  <2> QED
    BY <2>1, <2>2 DEF Rests
<1>3. CASE BudgetExpires \/ UNCHANGED roundsVars
  BY <1>1, <1>3 DEF BudgetExpires, roundsVars, Rests
<1> QED
  BY <1>2, <1>3

\* The steps of the rounds.
StepKind ==
  \/ \E s, y : Browses(s, y)
  \/ \E o \in Observers : \/ \E y, a : Went(o, y, a)
                          \/ \E y, z, heard : Ended(o, y, z, heard)
                          \/ \E s, y, a : Asks(o, s, y, a)
  \/ (\E a : Lost(a)) \/ Asks2 \/ Rests

\* Every step of the rounds is one of these.
LEMMA StepIsKind ==
  ASSUME RoundsIInv, [RoundsNext]_roundsVars
  PROVE  StepKind
<1>1. RoundsTyped /\ RoundsQueued /\ SurfacesWork /\ HeldInOrder
  BY DEF RoundsIInv
<1>2. CASE RoundsNext
  <2>1. ASSUME NEW o \in Observers, AskRound(o) \/ RoundGoes(o) \/ RoundEnds(o) PROVE StepKind
    BY <1>1, <2>1, AsksFacts, WentFacts, EndedFacts DEF StepKind
  <2>2. ASSUME AskInVain \/ BudgetExpires PROVE StepKind
    BY <1>1, <2>2, RestsFacts DEF StepKind
  <2>3. ASSUME LoseConnection \/ AskAgain \/ BrowserMoves PROVE StepKind
    BY <1>1, <2>3, LostFacts, Asks2Facts, BrowsesFacts DEF StepKind
  <2> QED
    BY <1>2, <2>1, <2>2, <2>3, StepKinds
<1>3. CASE UNCHANGED roundsVars
  BY <1>1, <1>3, RestsFacts DEF StepKind
<1> QED
  BY <1>2, <1>3

\* Every step keeps the types.
LEMMA TypedKept ==
  ASSUME RoundsTyped, HeldInOrder, StepKind
  PROVE  RoundsTyped'
<1>1. /\ mode \in {"tools", "manual", "readonly"} /\ buffered \in BOOLEAN /\ sess \in Seq(Surfaces)
      /\ current \in 0..Len(sess) /\ obs \in [Observers -> Asked] /\ codex \in Codexes
  BY DEF RoundsTyped
<1>2. ASSUME NEW s, NEW y, Browses(s, y) PROVE RoundsTyped'
  BY <1>1, <1>2 DEF Browses, Moved, RoundsTyped
<1>3. ASSUME NEW o \in Observers, NEW y, NEW a, Went(o, y, a) PROVE RoundsTyped'
  BY <1>1, <1>3 DEF Went, Moved, Answers, RoundsTyped
<1>4. ASSUME NEW o \in Observers, NEW y, NEW z, NEW heard, Ended(o, y, z, heard) PROVE RoundsTyped'
  <2>1. codex' \in Codexes
    <3>1. CASE o # codex.live
      BY <1>1, <1>4, <3>1, EndedCodex
    <3>2. CASE o = codex.live /\ Whole(heard)
      BY <1>1, <1>4, <3>2, EndedCodex DEF HearsWhole
    <3>3. CASE o = codex.live /\ ~Whole(heard)
      BY <1>1, <1>4, <3>3, EndedCodex DEF HearsNothing
    <3> QED
      BY <3>1, <3>2, <3>3
  <2>2. /\ sess' \in Seq(Surfaces) /\ Len(sess') = Len(sess) /\ obs' \in [Observers -> Asked]
        /\ current' \in {current, 0} /\ mode' = mode /\ buffered' = buffered
    BY <1>4 DEF Ended, Moved, Answers
  <2> QED
    BY <1>1, <2>1, <2>2 DEF RoundsTyped
<1>5. ASSUME NEW o \in Observers, NEW s, NEW y, NEW a, Asks(o, s, y, a) PROVE RoundsTyped'
  <2>1. /\ sess' \in Seq(Surfaces) /\ s \in 1..Len(sess') /\ current' = s
        /\ obs' \in [Observers -> Asked] /\ mode' = mode /\ buffered' = buffered
        /\ codex' = [codex EXCEPT !.live = o]
    BY <1>5 DEF Asks, Answers
  <2>2. codex' \in Codexes
    BY <1>1, <2>1 DEF Codexes
  <2> QED
    BY <1>1, <2>1, <2>2 DEF RoundsTyped
<1>6. ASSUME NEW a, Lost(a) PROVE RoundsTyped'
  BY <1>1, <1>6 DEF Lost, Answers, RoundsTyped
<1>7. ASSUME Asks2 \/ Rests PROVE RoundsTyped'
  BY <1>1, <1>7 DEF Asks2, Rests, RoundsTyped
<1> QED
  BY <1>2, <1>3, <1>4, <1>5, <1>6, <1>7 DEF StepKind

\* The requests of a session: what a step that leaves its queue leaves of them.
InLine(s, tail) ==
  /\ \A i \in 1..Len(tail) : obs[tail[i]].pc # "idle" /\ obs[tail[i]].on = s
  /\ \A i, j \in 1..Len(tail) : tail[i] = tail[j] => i = j
Queues(o) ==
  /\ obs[o].on \in 1..Len(sess)
  /\ \E i \in 1..Len(Of(o).tail) : Of(o).tail[i] = o
  /\ obs[o].pc \in Busy => Of(o).tail[1] = o /\ obs[o].key \notin Of(o).completed

\* The queues, session by session and request by request.
LEMMA QueuedParts ==
  RoundsQueued <=> /\ \A s \in 1..Len(sess) : InLine(s, sess[s].tail)
                   /\ \A o \in Observers : obs[o].pc # "idle" => Queues(o)
BY DEF RoundsQueued, InLine, Queues

\* The same of the state after a step.
LEMMA QueuedPartsNext ==
  RoundsQueued' <=> /\ \A s \in 1..Len(sess') : InLine(s, sess[s].tail)'
                    /\ \A o \in Observers : obs'[o].pc # "idle" => Queues(o)'
BY DEF RoundsQueued, InLine, Queues

\* Every step keeps the order of the requests: runExclusive runs one at a time.
LEMMA QueuedKept ==
  ASSUME RoundsTyped, RoundsQueued, StepKind
  PROVE  RoundsQueued'
<1>1. /\ sess \in Seq(Surfaces) /\ obs \in [Observers -> Asked] /\ codex \in Codexes
      /\ \A s \in 1..Len(sess) : sess[s].tail \in Seq(Observers)
  <2>1. sess \in Seq(Surfaces) /\ obs \in [Observers -> Asked] /\ codex \in Codexes
    BY DEF RoundsTyped
  <2>2. ASSUME NEW s \in 1..Len(sess) PROVE sess[s].tail \in Seq(Observers)
    <3>1. sess[s] \in Surfaces
      BY <2>1
    <3> QED
      BY <3>1, SurfaceFields
  <2> QED
    BY <2>1, <2>2
<1>2. /\ \A s \in 1..Len(sess) : InLine(s, sess[s].tail)
      /\ \A o \in Observers : obs[o].pc # "idle" => Queues(o)
  BY QueuedParts
<1>3. \A s \in 1..Len(sess) : \A i \in 1..Len(sess[s].tail) : sess[s].tail[i] \in Observers
  BY <1>1
<1>4. ASSUME Len(sess') = Len(sess), \A s \in 1..Len(sess) : sess'[s].tail = sess[s].tail,
             \A s \in 1..Len(sess) : sess'[s].completed = sess[s].completed,
             \A o \in Observers :
               /\ obs'[o].pc = "idle" <=> obs[o].pc = "idle"
               /\ obs'[o].on = obs[o].on /\ obs'[o].key = obs[o].key
               /\ obs'[o].pc \in Busy => obs[o].pc \in Busy \/
                    (Of(o).tail[1] = o /\ obs[o].key \notin Of(o).completed)
      PROVE  RoundsQueued'
  <2>1. ASSUME NEW s \in 1..Len(sess') PROVE InLine(s, sess[s].tail)'
    BY <1>2, <1>3, <1>4, <2>1 DEF InLine
  <2>2. ASSUME NEW o \in Observers, obs'[o].pc # "idle" PROVE Queues(o)'
    BY <1>2, <1>4, <2>2 DEF Queues, Of
  <2> QED
    BY <2>1, <2>2, QueuedPartsNext
<1>5. ASSUME NEW s, NEW y, Browses(s, y) PROVE RoundsQueued'
  <2>1. \A t \in 1..Len(sess) : sess'[t].tail = sess[t].tail /\ sess'[t].completed = sess[t].completed
    BY <1>5 DEF Browses, Moved, BrowserStep, Kept
  <2>2. Len(sess') = Len(sess) /\ obs' = obs
    BY <1>5 DEF Browses, Moved
  <2> QED
    BY <1>4, <2>1, <2>2
<1>6. ASSUME NEW o \in Observers, NEW y, NEW a, Went(o, y, a) PROVE RoundsQueued'
  <2>1. \A t \in 1..Len(sess) : sess'[t].tail = sess[t].tail /\ sess'[t].completed = sess[t].completed
    BY <1>6 DEF Went, Moved, Proceeds, Of
  <2>2. Len(sess') = Len(sess) /\ obs[o].pc # "idle" /\ a.pc \in Busy /\ a.pc # "idle"
        /\ Of(o).tail[1] = o /\ obs[o].key \notin Of(o).completed
        /\ a.on = obs[o].on /\ a.key = obs[o].key
        /\ obs'[o] = a /\ \A p \in Observers : p # o => obs'[p] = obs[p]
    BY <1>6 DEF Went, Moved, Answers, Busy
  <2>3. ASSUME NEW p \in Observers
        PROVE  /\ obs'[p].pc = "idle" <=> obs[p].pc = "idle"
               /\ obs'[p].on = obs[p].on /\ obs'[p].key = obs[p].key
               /\ obs'[p].pc \in Busy => obs[p].pc \in Busy \/
                    (Of(p).tail[1] = p /\ obs[p].key \notin Of(p).completed)
    BY <2>2
  <2> QED
    BY <1>4, <2>1, <2>2, <2>3
<1>7. ASSUME NEW o \in Observers, NEW y, NEW z, NEW heard, Ended(o, y, z, heard) PROVE RoundsQueued'
  <2> DEFINE s == obs[o].on
             tail == sess[s].tail
  <2>1. /\ s \in 1..Len(sess) /\ tail \in Seq(Observers) /\ tail # <<>> /\ tail[1] = o
        /\ Len(sess') = Len(sess) /\ sess'[s].tail = Tail(tail)
        /\ \A t \in 1..Len(sess) : t # s => sess'[t] = sess[t]
        /\ obs'[o] = Unasked /\ (\A p \in Observers : p # o => obs'[p] = obs[p])
    BY <1>7 DEF Ended, Moved, Answers, Of
  <2> HIDE DEF s, tail
  <2>2. /\ Len(Tail(tail)) = Len(tail) - 1 /\ Len(tail) \in Nat \ {0}
        /\ \A i \in 1..(Len(tail) - 1) : Tail(tail)[i] = tail[i + 1]
    BY <2>1, TailTyped
  <2>3. InLine(s, tail) /\ obs'[o].pc = "idle"
    BY <1>2, <2>1 DEF tail, Unasked
  <2>4. \A i \in 2..Len(tail) : tail[i] # o /\ tail[i] \in Observers
    <3>1. 1 \in 1..Len(tail)
      BY <2>2
    <3> QED
      BY <2>1, <2>2, <2>3, <3>1 DEF InLine
  <2>5. ASSUME NEW t \in 1..Len(sess') PROVE InLine(t, sess[t].tail)'
    <3>1. CASE t = s
      <4> DEFINE rest == Tail(tail)
      <4>1. /\ Len(rest) = Len(tail) - 1
            /\ \A i \in 1..(Len(tail) - 1) : rest[i] = tail[i + 1] /\ i + 1 \in 2..Len(tail)
        BY <2>2
      <4> HIDE DEF rest
      <4>2. \A i \in 1..Len(rest) : obs'[rest[i]].pc # "idle" /\ obs'[rest[i]].on = s
        <5>1. ASSUME NEW i \in 1..Len(rest) PROVE obs'[rest[i]].pc # "idle" /\ obs'[rest[i]].on = s
          <6>1. i \in 1..(Len(tail) - 1) /\ i + 1 \in 1..Len(tail)
            BY <2>2, <4>1
          <6>2. rest[i] = tail[i + 1] /\ tail[i + 1] # o /\ tail[i + 1] \in Observers
            BY <2>4, <4>1, <6>1
          <6>3. obs[tail[i + 1]].pc # "idle" /\ obs[tail[i + 1]].on = s
            BY <2>3, <6>1 DEF InLine
          <6> QED
            BY <2>1, <6>2, <6>3
        <5> QED
          BY <5>1
      <4>3. \A i, j \in 1..Len(rest) : rest[i] = rest[j] => i = j
        <5>1. ASSUME NEW i \in 1..Len(rest), NEW j \in 1..Len(rest), rest[i] = rest[j] PROVE i = j
          <6>1. /\ i \in 1..(Len(tail) - 1) /\ i + 1 \in 1..Len(tail)
                /\ j \in 1..(Len(tail) - 1) /\ j + 1 \in 1..Len(tail)
            BY <2>2, <4>1
          <6>2. tail[i + 1] = tail[j + 1]
            BY <4>1, <5>1, <6>1
          <6>3. i + 1 = j + 1
            BY <2>3, <6>1, <6>2 DEF InLine
          <6> QED
            BY <6>1, <6>3
        <5> QED
          BY <5>1
      <4>4. sess'[t].tail = rest
        BY <2>1, <3>1 DEF rest
      <4> QED
        BY <3>1, <4>2, <4>3, <4>4 DEF InLine
    <3>2. CASE t # s
      <4>1. sess'[t] = sess[t] /\ t \in 1..Len(sess)
        BY <2>1, <3>2
      <4>2. InLine(t, sess[t].tail)
        BY <1>2, <4>1
      <4>3. \A i \in 1..Len(sess[t].tail) : sess[t].tail[i] # o /\ sess[t].tail[i] \in Observers
        BY <1>3, <3>2, <4>1, <4>2 DEF InLine, s
      <4> QED
        BY <2>1, <4>1, <4>2, <4>3 DEF InLine
    <3> QED
      BY <3>1, <3>2
  <2>6. ASSUME NEW p \in Observers, obs'[p].pc # "idle" PROVE Queues(p)'
    <3>1. p # o /\ obs'[p] = obs[p]
      BY <2>1, <2>3, <2>6
    <3>2. Queues(p)
      BY <1>2, <2>6, <3>1
    <3>3. CASE obs[p].on = s
      <4>1. PICK i \in 1..Len(tail) : tail[i] = p
        BY <3>2, <3>3 DEF Queues, Of, tail
      <4>2. i # 1 /\ i - 1 \in 1..(Len(tail) - 1) /\ (i - 1) + 1 = i
        BY <2>1, <2>2, <3>1, <4>1
      <4>3. Tail(tail)[i - 1] = p
        BY <2>2, <4>1, <4>2
      <4>4. obs[p].pc \notin Busy
        BY <2>1, <3>1, <3>2, <3>3 DEF Queues, Of, tail
      <4>5. sess'[obs'[p].on].tail = Tail(tail)
        BY <2>1, <3>1, <3>3
      <4>6. i - 1 \in 1..Len(Tail(tail))
        BY <2>2, <4>2
      <4> QED
        BY <2>1, <3>1, <3>3, <4>3, <4>4, <4>5, <4>6 DEF Queues, Of
    <3>4. CASE obs[p].on # s
      <4>1. sess'[obs[p].on] = sess[obs[p].on]
        BY <2>1, <3>2, <3>4 DEF Queues
      <4> QED
        BY <2>1, <3>1, <3>2, <4>1 DEF Queues, Of
    <3> QED
      BY <3>3, <3>4
  <2> QED
    BY <2>5, <2>6, QueuedPartsNext
<1>8. ASSUME NEW o \in Observers, NEW s, NEW y, NEW a, Asks(o, s, y, a) PROVE RoundsQueued'
  <2>1. /\ obs[o].pc = "idle" /\ obs'[o] = a /\ a.pc = "queued" /\ a.on = s
        /\ \A p \in Observers : p # o => obs'[p] = obs[p]
        /\ s \in 1..Len(sess') /\ Len(sess) <= Len(sess') /\ Len(sess) \in Nat
        /\ sess'[s] = y
        /\ \A t \in 1..Len(sess) : t # s => sess'[t].tail = sess[t].tail
                                     /\ (sess[t].tail # <<>> => sess'[t] = sess[t])
    BY <1>1, <1>8 DEF Asks, Answers
  <2>2. \/ /\ s \in 1..Len(sess) /\ Len(sess') = Len(sess) /\ y.tail = Append(sess[s].tail, o)
           /\ y.completed = sess[s].completed
        \/ s = Len(sess) + 1 /\ Len(sess') = s /\ y.tail = <<o>>
    BY <1>8 DEF Asks, Content
  <2>3. \A t \in 1..Len(sess') : t # s => t \in 1..Len(sess)
    BY <2>1, <2>2
  <2>4. \A t \in 1..Len(sess) : \A i \in 1..Len(sess[t].tail) : sess[t].tail[i] # o
    BY <1>2, <2>1 DEF InLine
  <2>5. \A t \in 1..Len(sess) : \A i \in 1..Len(sess[t].tail) :
           obs'[sess[t].tail[i]] = obs[sess[t].tail[i]]
    BY <1>3, <2>1, <2>4
  <2>6. ASSUME NEW t \in 1..Len(sess'), t # s PROVE InLine(t, sess[t].tail)'
    <3>1. t \in 1..Len(sess) /\ sess'[t].tail = sess[t].tail
      BY <2>1, <2>3, <2>6
    <3> QED
      BY <1>2, <2>5, <3>1 DEF InLine
  <2>7. InLine(s, sess[s].tail)'
    <3>1. CASE s \in 1..Len(sess) /\ y.tail = Append(sess[s].tail, o)
      <4> DEFINE tail == sess[s].tail
                 more == Append(tail, o)
      <4>1. tail \in Seq(Observers) /\ InLine(s, tail)
        BY <1>1, <1>2, <3>1
      <4>2. /\ Len(more) = Len(tail) + 1 /\ Len(tail) \in Nat /\ more[Len(tail) + 1] = o
            /\ \A i \in 1..Len(tail) : more[i] = tail[i] /\ more[i] # o
        BY <2>4, <3>1, <4>1
      <4>3. \A i \in 1..Len(tail) : obs'[tail[i]] = obs[tail[i]]
        BY <2>5, <3>1
      <4>5. sess'[s].tail = more
        BY <2>1, <3>1
      <4> HIDE DEF more, tail
      <4>4. \A i \in 1..Len(more) : obs'[more[i]].pc # "idle" /\ obs'[more[i]].on = s
        <5>1. ASSUME NEW i \in 1..Len(more) PROVE obs'[more[i]].pc # "idle" /\ obs'[more[i]].on = s
          <6>1. CASE i = Len(tail) + 1
            BY <2>1, <4>2, <6>1
          <6>2. CASE i # Len(tail) + 1
            <7>1. i \in 1..Len(tail)
              BY <4>2, <6>2
            <7> QED
              BY <4>1, <4>2, <4>3, <7>1 DEF InLine
          <6> QED
            BY <6>1, <6>2
        <5> QED
          BY <5>1
      <4>6. \A i, j \in 1..Len(more) : more[i] = more[j] => i = j
        <5>1. ASSUME NEW i \in 1..Len(more), NEW j \in 1..Len(more), more[i] = more[j] PROVE i = j
          <6>1. (i \in 1..Len(tail) \/ i = Len(tail) + 1) /\ (j \in 1..Len(tail) \/ j = Len(tail) + 1)
            BY <4>2
          <6> QED
            BY <4>1, <4>2, <5>1, <6>1 DEF InLine
        <5> QED
          BY <5>1
      <4> QED
        BY <4>4, <4>5, <4>6 DEF InLine
    <3>2. CASE y.tail = <<o>>
      BY <2>1, <3>2 DEF InLine
    <3> QED
      BY <2>2, <3>1, <3>2
  <2>8. ASSUME NEW p \in Observers, obs'[p].pc # "idle" PROVE Queues(p)'
    <3>1. CASE p = o
      <4>1. \E i \in 1..Len(y.tail) : y.tail[i] = o
        <5>1. CASE s \in 1..Len(sess) /\ y.tail = Append(sess[s].tail, o)
          <6> DEFINE tail == sess[s].tail
                     more == Append(tail, o)
          <6>1. tail \in Seq(Observers)
            BY <1>1, <5>1
          <6>2. Len(more) \in 1..Len(more) /\ more[Len(more)] = o
            BY <6>1
          <6> QED
            BY <5>1, <6>2
        <5>2. CASE y.tail = <<o>>
          BY <5>2
        <5> QED
          BY <2>2, <5>1, <5>2
      <4>2. "queued" \notin Busy
        BY DEF Busy
      <4> QED
        BY <2>1, <3>1, <4>1, <4>2 DEF Queues, Of
    <3>2. CASE p # o
      <4>1. obs'[p] = obs[p] /\ Queues(p)
        BY <1>2, <2>1, <2>8, <3>2
      <4> DEFINE t == obs[p].on
      <4>2. t \in 1..Len(sess) /\ \E i \in 1..Len(sess[t].tail) : sess[t].tail[i] = p
        BY <4>1 DEF Queues, Of
      <4>3. sess[t].tail # <<>>
        BY <1>1, <4>2
      <4>4. CASE t # s
        <5>1. sess'[t] = sess[t]
          BY <2>1, <4>2, <4>3, <4>4
        <5>2. t \in 1..Len(sess')
          BY <2>1, <4>2
        <5> QED
          BY <4>1, <5>1, <5>2 DEF Queues, Of
      <4>5. CASE t = s
        <5>1. y.tail = Append(sess[s].tail, o) /\ y.completed = sess[s].completed
          BY <2>1, <2>2, <4>2, <4>5
        <5> DEFINE tail == sess[s].tail
                   more == Append(tail, o)
        <5>2. tail \in Seq(Observers) /\ tail # <<>>
          BY <1>1, <4>2, <4>3, <4>5
        <5>3. /\ Len(more) = Len(tail) + 1 /\ Len(tail) \in Nat \ {0}
              /\ \A i \in 1..Len(tail) : more[i] = tail[i]
          BY <5>2
        <5>4. more[1] = tail[1] /\ \E i \in 1..Len(more) : more[i] = p
          BY <4>2, <4>5, <5>3
        <5>5. obs[p].pc \in Busy => tail[1] = p /\ obs[p].key \notin sess[s].completed
          BY <4>1, <4>5 DEF Queues, Of
        <5>6. sess'[obs'[p].on] = y /\ y.tail = more
          BY <2>1, <4>1, <4>5, <5>1
        <5>7. obs'[p].on \in 1..Len(sess')
          BY <2>1, <4>1, <4>5
        <5> HIDE DEF more, tail, t
        <5> QED
          BY <4>1, <5>1, <5>4, <5>5, <5>6, <5>7 DEF Queues, Of
      <4> QED
        BY <4>4, <4>5
    <3> QED
      BY <3>1, <3>2
  <2> QED
    BY <2>6, <2>7, <2>8, QueuedPartsNext
<1>9. ASSUME NEW a, Lost(a) PROVE RoundsQueued'
  <2>1. sess' = sess /\ \A p \in Observers : obs'[p].pc = obs[p].pc /\ obs'[p].on = obs[p].on
                          /\ obs'[p].key = obs[p].key
    BY <1>9 DEF Lost, Answers
  <2> QED
    BY <1>4, <2>1
<1>10. ASSUME Asks2 \/ Rests PROVE RoundsQueued'
  <2>1. sess' = sess /\ obs' = obs
    BY <1>10 DEF Asks2, Rests
  <2> QED
    BY <1>4, <2>1
<1> QED
  BY <1>5, <1>6, <1>7, <1>8, <1>9, <1>10 DEF StepKind

Awaited(o) ==
  /\ obs[o].pc = "deliver" => Of(o).outstanding \subseteq obs[o].results
  /\ obs[o].pc \in {"race", "finish"} => Of(o).outstanding = {}
  /\ obs[o].batch # {} => obs[o].pc = "race"
  /\ obs[o].pc = "race" => obs[o].batch \subseteq CallsIn(Of(o), {"delivered"})

\* The results, request by request.
LEMMA AwaitedParts ==
  /\ ResultsAwaited <=> \A o \in Observers : Awaited(o)
  /\ ResultsAwaited' <=> \A o \in Observers : Awaited(o)'
BY DEF ResultsAwaited, Awaited

\* A request that has not moved still has the results it delivers.
LEMMA AwaitedSame ==
  ASSUME ResultsAwaited, NEW o \in Observers, obs'[o].pc = obs[o].pc, obs'[o].on = obs[o].on,
         obs'[o].results = obs[o].results, obs'[o].batch = obs[o].batch,
         obs[o].pc \in Busy =>
           /\ sess'[obs[o].on].outstanding = Of(o).outstanding
           /\ CallsIn(sess'[obs[o].on], {"delivered"}) = CallsIn(Of(o), {"delivered"})
  PROVE  Awaited(o)'
<1>1. Awaited(o)
  BY AwaitedParts
<1>2. {"deliver", "race", "finish"} \subseteq Busy
  BY DEF Busy
<1> QED
  BY <1>1, <1>2 DEF Awaited, Of, CallsIn

\* Two requests are not served at once.
LEMMA OneServed ==
  ASSUME RoundsQueued, NEW o \in Observers, NEW p \in Observers, o # p,
         obs[o].pc # "idle", Of(o).tail[1] = o, obs[p].pc \in Busy
  PROVE  obs[p].on # obs[o].on
<1>1. obs[p].pc # "idle"
  BY DEF Busy
<1>2. Of(p).tail[1] = p
  BY <1>1 DEF RoundsQueued
<1> QED
  BY <1>2 DEF Of

\* Every step keeps the results with the request that delivers them.
LEMMA AwaitedKept ==
  ASSUME RoundsTyped, RoundsQueued, ResultsAwaited, StepKind
  PROVE  ResultsAwaited'
<1>1. ASSUME NEW s, NEW y, Browses(s, y) PROVE ResultsAwaited'
  <2>1. ASSUME NEW p \in Observers PROVE Awaited(p)'
    <3>1. obs' = obs
      BY <1>1 DEF Browses
    <3>2. ASSUME obs[p].pc \in Busy
          PROVE  /\ sess'[obs[p].on].outstanding = Of(p).outstanding
                 /\ CallsIn(sess'[obs[p].on], {"delivered"}) = CallsIn(Of(p), {"delivered"})
      <4>1. obs[p].on \in 1..Len(sess)
        BY <3>2 DEF RoundsQueued, Busy
      <4>2. CASE obs[p].on = s
        BY <1>1, <4>2 DEF Browses, Moved, BrowserStep, Kept, Of
      <4>3. CASE obs[p].on # s
        BY <1>1, <4>1, <4>3 DEF Browses, Moved, Of
      <4> QED
        BY <4>2, <4>3
    <3> QED
      BY <3>1, <3>2, AwaitedSame
  <2> QED
    BY <2>1, AwaitedParts
<1>2. ASSUME NEW o \in Observers, NEW y, NEW a, Went(o, y, a) PROVE ResultsAwaited'
  <2>1. ASSUME NEW p \in Observers PROVE Awaited(p)'
    <3>1. CASE p = o
      <4>1. obs'[p] = a /\ sess'[a.on] = y
        BY <1>2, <3>1 DEF Went, Answers, Moved
      <4> QED
        BY <1>2, <4>1 DEF Went, Awaited, Of, CallsIn
    <3>2. CASE p # o
      <4>1. obs'[p] = obs[p] /\ obs[o].pc # "idle" /\ Of(o).tail[1] = o
        BY <1>2, <3>2 DEF Went, Answers
      <4>2. ASSUME obs[p].pc \in Busy PROVE sess'[obs[p].on] = Of(p)
        <5>1. obs[p].on # obs[o].on
          BY <3>2, <4>1, <4>2, OneServed
        <5>2. obs[p].on \in 1..Len(sess)
          BY <4>2 DEF RoundsQueued, Busy
        <5> QED
          BY <1>2, <5>1, <5>2 DEF Went, Moved, Of
      <4> QED
        BY <4>1, <4>2, AwaitedSame
    <3> QED
      BY <3>1, <3>2
  <2> QED
    BY <2>1, AwaitedParts
<1>3. ASSUME NEW o \in Observers, NEW y, NEW z, NEW heard, Ended(o, y, z, heard) PROVE ResultsAwaited'
  <2>1. ASSUME NEW p \in Observers PROVE Awaited(p)'
    <3>1. CASE p = o
      <4>1. obs'[p] = Unasked
        BY <1>3, <3>1 DEF Ended, Answers
      <4> QED
        BY <4>1 DEF Awaited, Unasked
    <3>2. CASE p # o
      <4>1. obs'[p] = obs[p] /\ obs[o].pc # "idle" /\ Of(o).tail[1] = o
        BY <1>3, <3>2 DEF Ended, Answers
      <4>2. ASSUME obs[p].pc \in Busy PROVE sess'[obs[p].on] = Of(p)
        <5>1. obs[p].on # obs[o].on
          BY <3>2, <4>1, <4>2, OneServed
        <5>2. obs[p].on \in 1..Len(sess)
          BY <4>2 DEF RoundsQueued, Busy
        <5> QED
          BY <1>3, <5>1, <5>2 DEF Ended, Moved, Of
      <4> QED
        BY <4>1, <4>2, AwaitedSame
    <3> QED
      BY <3>1, <3>2
  <2> QED
    BY <2>1, AwaitedParts
<1>4. ASSUME NEW o \in Observers, NEW s, NEW y, NEW a, Asks(o, s, y, a) PROVE ResultsAwaited'
  <2>1. ASSUME NEW p \in Observers PROVE Awaited(p)'
    <3>1. CASE p = o
      <4>1. obs'[p] = a /\ a.pc = "queued" /\ a.batch = {}
        BY <1>4, <3>1 DEF Asks, Answers
      <4> QED
        BY <4>1 DEF Awaited
    <3>2. CASE p # o
      <4>1. obs'[p] = obs[p]
        BY <1>4, <3>2 DEF Asks, Answers
      <4>2. ASSUME obs[p].pc \in Busy
            PROVE  /\ sess'[obs[p].on].outstanding = Of(p).outstanding
                   /\ CallsIn(sess'[obs[p].on], {"delivered"}) = CallsIn(Of(p), {"delivered"})
        <5>1. obs[p].on \in 1..Len(sess) /\ Of(p).tail # <<>> /\ Of(p).tail \in Seq(Observers)
          <6>1. obs[p].pc # "idle"
            BY <4>2 DEF Busy
          <6>2. obs[p].on \in 1..Len(sess) /\ \E i \in 1..Len(Of(p).tail) : Of(p).tail[i] = p
            BY <6>1 DEF RoundsQueued
          <6>3. Of(p).tail \in Seq(Observers)
            BY <6>2, SurfaceFields DEF RoundsTyped, Of
          <6> QED
            BY <6>2, <6>3
        <5>2. CASE obs[p].on # s
          <6>1. sess'[obs[p].on] = Of(p)
            BY <1>4, <5>1, <5>2 DEF Asks, Of
          <6> QED
            BY <6>1
        <5>3. CASE obs[p].on = s
          <6>1. Len(sess) \in Nat
            BY DEF RoundsTyped
          <6>2. Content(Of(p), sess'[s]) /\ sess'[s] \in Surfaces /\ current = s
            BY <1>4, <5>1, <5>3, <6>1 DEF Asks, Of
          <6>3. sess'[s].call = Of(p).call
            BY <1>4, <5>1, <5>3, <6>1 DEF Asks, Of
          <6> QED
            BY <5>3, <6>2, <6>3 DEF Content, CallsIn
        <5> QED
          BY <5>2, <5>3
      <4> QED
        BY <4>1, <4>2, AwaitedSame
    <3> QED
      BY <3>1, <3>2
  <2> QED
    BY <2>1, AwaitedParts
<1>5. ASSUME NEW a, Lost(a) PROVE ResultsAwaited'
  <2>1. sess' = sess /\ \A p \in Observers : obs'[p].pc = obs[p].pc /\ obs'[p].on = obs[p].on
                          /\ obs'[p].results = obs[p].results /\ obs'[p].batch = obs[p].batch
    BY <1>5 DEF Lost, Answers
  <2>2. ASSUME NEW p \in Observers PROVE Awaited(p)'
    BY <2>1, AwaitedSame DEF Of
  <2> QED
    BY <2>2, AwaitedParts
<1>6. ASSUME Asks2 \/ Rests PROVE ResultsAwaited'
  <2>1. sess' = sess /\ obs' = obs
    BY <1>6 DEF Asks2, Rests
  <2>2. ASSUME NEW p \in Observers PROVE Awaited(p)'
    BY <2>1, AwaitedSame DEF Of
  <2> QED
    BY <2>2, AwaitedParts
<1> QED
  BY <1>1, <1>2, <1>3, <1>4, <1>5, <1>6 DEF StepKind

-----------------------------------------------------------------------------

\* Every step keeps the sessions as they may be.
LEMMA SurfacesWorkKept ==
  ASSUME RoundsTyped, RoundsQueued, SurfacesWork, StepKind
  PROVE  SurfacesWork'
<1>1. Len(sess) \in Nat /\ current \in 0..Len(sess)
  BY DEF RoundsTyped
<1>2. ASSUME mode' = mode,
             \A s \in 1..Len(sess') : s = current' \/ sess'[s].tail # <<>> => Works(sess'[s])
      PROVE  SurfacesWork'
  BY <1>2 DEF SurfacesWork, Works, CallsIn
<1>3. ASSUME NEW t, NEW y, Moved(t, y), t \in 1..Len(sess), Works(sess[t]) => Works(y),
             t = current' \/ y.tail # <<>> => t = current \/ sess[t].tail # <<>>,
             current' \in {current, 0}, NEW s \in 1..Len(sess'), s = current' \/ sess'[s].tail # <<>>
      PROVE  Works(sess'[s])
  <2>1. s \in 1..Len(sess)
    BY <1>3 DEF Moved
  <2>2. s = current' => s = current
    BY <1>1, <1>3, <2>1
  <2>3. CASE s = t
    <3>1. sess'[s] = y
      BY <1>3, <2>3 DEF Moved
    <3>2. s = current \/ sess[s].tail # <<>>
      BY <1>3, <2>3, <3>1
    <3> QED
      BY <1>3, <2>1, <2>3, <3>1, <3>2 DEF SurfacesWork
  <2>4. CASE s # t
    <3>1. sess'[s] = sess[s]
      BY <1>3, <2>1, <2>4 DEF Moved
    <3>2. s = current \/ sess[s].tail # <<>>
      BY <1>3, <2>2, <3>1
    <3> QED
      BY <2>1, <3>1, <3>2 DEF SurfacesWork
  <2> QED
    BY <2>3, <2>4
<1>4. ASSUME NEW s, NEW y, Browses(s, y) PROVE SurfacesWork'
  <2>1. /\ Moved(s, y) /\ s \in 1..Len(sess) /\ (Works(sess[s]) => Works(y))
        /\ y.tail = sess[s].tail /\ current' = current /\ mode' = mode
    BY <1>4 DEF Browses, BrowserStep, Kept
  <2> QED
    BY <1>2, <1>3, <2>1
<1>5. ASSUME NEW o \in Observers, NEW y, NEW a, Went(o, y, a) PROVE SurfacesWork'
  <2>1. /\ Moved(obs[o].on, y) /\ obs[o].on \in 1..Len(sess) /\ Works(y)
        /\ y.tail = sess[obs[o].on].tail /\ current' = current /\ mode' = mode
    BY <1>5 DEF Went, Proceeds, Of
  <2> QED
    BY <1>2, <1>3, <2>1
<1>6. ASSUME NEW o \in Observers, NEW y, NEW z, NEW heard, Ended(o, y, z, heard) PROVE SurfacesWork'
  <2>1. /\ Moved(obs[o].on, z) /\ obs[o].on \in 1..Len(sess) /\ Works(z)
        /\ sess[obs[o].on].tail # <<>> /\ current' \in {current, 0} /\ mode' = mode
    BY <1>6 DEF Ended, Of
  <2> QED
    BY <1>2, <1>3, <2>1
<1>7. ASSUME NEW o \in Observers, NEW s, NEW y, NEW a, Asks(o, s, y, a) PROVE SurfacesWork'
  <2>1. ASSUME NEW t \in 1..Len(sess'), t = current' \/ sess'[t].tail # <<>> PROVE Works(sess'[t])
    <3>1. CASE t = s
      <4>1. CASE current = s /\ s \in 1..Len(sess)
        <5>1. Works(sess[s])
          BY <4>1 DEF SurfacesWork
        <5> QED
          BY <1>1, <1>7, <3>1, <4>1, <5>1 DEF Asks
      <4>2. CASE ~(current = s /\ s \in 1..Len(sess))
        BY <1>7, <3>1, <4>2 DEF Asks
      <4> QED
        BY <4>1, <4>2
    <3>2. CASE t # s
      <4>1. t \in 1..Len(sess)
        BY <1>1, <1>7, <3>2 DEF Asks
      <4>2. sess'[t].tail # <<>> /\ sess'[t].tail = sess[t].tail
        BY <1>7, <2>1, <3>2, <4>1 DEF Asks
      <4>3. sess'[t] = sess[t]
        BY <1>7, <3>2, <4>1, <4>2 DEF Asks
      <4> QED
        BY <4>1, <4>2, <4>3 DEF SurfacesWork
    <3> QED
      BY <3>1, <3>2
  <2>2. mode' = mode
    BY <1>7 DEF Asks
  <2> QED
    BY <1>2, <2>1, <2>2
<1>8. ASSUME (\E a : Lost(a)) \/ Asks2 \/ Rests PROVE SurfacesWork'
  BY <1>2, <1>8 DEF Lost, Asks2, Rests, SurfacesWork
<1> QED
  BY <1>4, <1>5, <1>6, <1>7, <1>8 DEF StepKind

-----------------------------------------------------------------------------
\* The request Codex waits for.
LiveLast(o) ==
  /\ codex.state = "asking" /\ obs[o].pc # "idle" /\ current \in {0, obs[o].on}
  /\ obs[o].results = UNION {CallsOf(codex, k) : k \in HeldOn(codex, obs[o].on)}
  /\ Of(o).tail[Len(Of(o).tail)] = o
  /\ obs[o].seen = IF obs[o].pc = "queued" THEN <<>> ELSE Of(o).journal[obs[o].key]
Gone(o) == obs[o].pc # "idle" => (obs[o].gone <=> o # codex.live)

\* The request Codex waits for, and the others.
LEMMA LiveParts ==
  /\ LiveIsLast <=> (\A o \in Observers : Gone(o)) /\ (codex.live # Nobody => LiveLast(codex.live))
  /\ LiveIsLast' <=> (\A o \in Observers : Gone(o)') /\ (codex'.live # Nobody => LiveLast(codex.live)')
BY DEF LiveIsLast, LiveLast, Gone, Of

\* Every step keeps the request Codex waits for last in its queue, its client told.
LEMMA LiveKept ==
  ASSUME RoundsTyped, RoundsQueued, LiveIsLast, HeldInOrder, StepKind
  PROVE  LiveIsLast'
<1>1. /\ codex \in Codexes /\ codex.live \in Observers \cup {Nobody} /\ Nobody \notin Observers
      /\ \A s \in 1..Len(sess) : sess[s] \in Surfaces /\ sess[s].tail \in Seq(Observers)
  <2>1. codex \in Codexes /\ sess \in Seq(Surfaces)
    BY DEF RoundsTyped
  <2>2. ASSUME NEW s \in 1..Len(sess) PROVE sess[s] \in Surfaces /\ sess[s].tail \in Seq(Observers)
    <3>1. sess[s] \in Surfaces
      BY <2>1
    <3> QED
      BY <3>1, SurfaceFields
  <2> QED
    BY <2>1, <2>2, RoundsAssumption DEF Codexes
<1>2. (\A o \in Observers : Gone(o)) /\ (codex.live # Nobody => LiveLast(codex.live))
  BY LiveParts
<1>3. ASSUME codex' = codex, codex.live # Nobody, NEW p \in Observers, p = codex.live,
             obs'[p] = obs[p], current' \in {current, 0},
             sess'[obs[p].on].tail[Len(sess'[obs[p].on].tail)] = p,
             obs[p].pc # "queued" => sess'[obs[p].on].journal = Of(p).journal
      PROVE  LiveLast(codex.live)'
  <2>1. LiveLast(p)
    BY <1>2, <1>3
  <2>2. LiveLast(p)'
    BY <1>3, <2>1 DEF LiveLast, Of, CallsOf, HeldOn
  <2> QED
    BY <1>3, <2>2
<1>4. codex.live # Nobody => obs[codex.live].on \in 1..Len(sess)
  BY <1>1, <1>2 DEF LiveLast, RoundsQueued
<1>5. ASSUME NEW s, NEW y, Browses(s, y) PROVE LiveIsLast'
  <2>1. /\ obs' = obs /\ codex' = codex /\ current' = current
        /\ \A t \in 1..Len(sess) : sess'[t].tail = sess[t].tail /\ sess'[t].journal = sess[t].journal
    BY <1>5 DEF Browses, Moved, BrowserStep, Kept
  <2>2. ASSUME NEW p \in Observers PROVE Gone(p)'
    BY <1>2, <2>1 DEF Gone
  <2>3. ASSUME codex.live # Nobody PROVE LiveLast(codex.live)'
    <3> DEFINE p == codex.live
    <3>1. p \in Observers /\ obs[p].on \in 1..Len(sess) /\ LiveLast(p)
      BY <1>1, <1>2, <1>4, <2>3
    <3>2. sess'[obs[p].on].tail[Len(sess'[obs[p].on].tail)] = p
      BY <2>1, <3>1 DEF LiveLast, Of
    <3> QED
      BY <1>3, <2>1, <2>3, <3>1, <3>2 DEF Of
  <2> QED
    BY <2>1, <2>2, <2>3, LiveParts
<1>6. ASSUME NEW o \in Observers, NEW y, NEW a, Went(o, y, a) PROVE LiveIsLast'
  <2>1. /\ obs'[o] = a /\ (\A p \in Observers : p # o => obs'[p] = obs[p]) /\ obs[o].pc # "idle"
        /\ a.gone = obs[o].gone /\ codex' = codex /\ current' = current
        /\ a.on = obs[o].on /\ a.results = obs[o].results /\ a.key = obs[o].key
        /\ obs[o].on \in 1..Len(sess) /\ sess'[obs[o].on] = y /\ y.tail = Of(o).tail
        /\ (\A t \in 1..Len(sess) : t # obs[o].on => sess'[t] = sess[t])
        /\ a.pc \in Busy /\ Of(o).tail[1] = o
        /\ (o = codex.live => a.seen = y.journal[a.key])
    BY <1>6 DEF Went, Answers, Moved, Proceeds
  <2>2. ASSUME NEW p \in Observers PROVE Gone(p)'
    BY <1>2, <2>1 DEF Gone
  <2>3. ASSUME codex.live # Nobody PROVE LiveLast(codex.live)'
    <3> DEFINE p == codex.live
    <3>1. p \in Observers /\ obs[p].on \in 1..Len(sess) /\ LiveLast(p)
      BY <1>1, <1>2, <1>4, <2>3
    <3>2. CASE p = o
      <4>1. a.pc # "idle" /\ a.pc # "queued"
        BY <2>1 DEF Busy
      <4>2. LiveLast(o)'
        BY <2>1, <3>1, <3>2, <4>1 DEF LiveLast, Of, CallsOf, HeldOn
      <4> QED
        BY <2>1, <3>2, <4>2
    <3>3. CASE p # o
      <4>1. obs'[p] = obs[p] /\ sess'[obs[p].on].tail = Of(p).tail
        BY <2>1, <3>1, <3>3 DEF Of
      <4>2. obs[p].pc # "queued" => sess'[obs[p].on].journal = Of(p).journal
        <5>1. ASSUME obs[p].pc # "queued" PROVE sess'[obs[p].on] = Of(p)
          <6>1. obs[p].pc \in Busy
            <7>1. obs[p] \in Asked
              BY <3>1 DEF RoundsTyped
            <7>2. obs[p].pc # "idle"
              BY <3>1 DEF LiveLast
            <7> QED
              BY <5>1, <7>1, <7>2 DEF Asked
          <6>2. obs[p].on # obs[o].on
            BY <2>1, <3>1, <3>3, <6>1, OneServed
          <6> QED
            BY <2>1, <3>1, <6>2 DEF Of
        <5> QED
          BY <5>1
      <4>3. sess'[obs[p].on].tail[Len(sess'[obs[p].on].tail)] = p
        BY <3>1, <4>1 DEF LiveLast
      <4> QED
        BY <1>3, <2>1, <2>3, <3>1, <4>1, <4>2, <4>3
    <3> QED
      BY <3>2, <3>3
  <2> QED
    BY <2>1, <2>2, <2>3, LiveParts
<1>7. ASSUME NEW o \in Observers, NEW y, NEW z, NEW heard, Ended(o, y, z, heard) PROVE LiveIsLast'
  <2>1. /\ obs'[o] = Unasked /\ (\A p \in Observers : p # o => obs'[p] = obs[p])
        /\ obs[o].pc # "idle" /\ current' \in {current, 0}
        /\ obs[o].on \in 1..Len(sess) /\ sess'[obs[o].on] = z /\ z.tail = Tail(Of(o).tail)
        /\ (\A t \in 1..Len(sess) : t # obs[o].on => sess'[t] = sess[t])
        /\ Of(o).tail \in Seq(Observers) /\ Of(o).tail # <<>> /\ Of(o).tail[1] = o
    BY <1>7 DEF Ended, Answers, Moved
  <2>2. IF o # codex.live THEN codex' = codex ELSE codex'.live = Nobody
    <3>1. CASE o = codex.live /\ Whole(heard)
      BY <1>7, <3>1, EndedCodex DEF HearsWhole
    <3>2. CASE o = codex.live /\ ~Whole(heard)
      BY <1>7, <3>2, EndedCodex DEF HearsNothing
    <3>3. CASE o # codex.live
      BY <1>7, <3>3, EndedCodex
    <3> QED
      BY <3>1, <3>2, <3>3
  <2>3. ASSUME NEW p \in Observers PROVE Gone(p)'
    <3>1. CASE p = o
      BY <2>1, <3>1 DEF Gone, Unasked
    <3>2. CASE p # o
      BY <1>1, <1>2, <2>1, <2>2, <3>2 DEF Gone
    <3> QED
      BY <3>1, <3>2
  <2>4. ASSUME codex'.live # Nobody PROVE LiveLast(codex.live)'
    <3> DEFINE p == codex.live
    <3>1. o # p /\ codex' = codex /\ p # Nobody
      BY <2>2, <2>4
    <3>2. p \in Observers /\ obs[p].on \in 1..Len(sess) /\ LiveLast(p)
      BY <1>1, <1>2, <1>4, <3>1
    <3>3. CASE obs[p].on = obs[o].on
      <4> DEFINE tail == Of(o).tail
      <4>1. tail \in Seq(Observers) /\ tail # <<>> /\ tail[1] = o /\ tail[Len(tail)] = p
        BY <2>1, <3>2, <3>3 DEF LiveLast, Of
      <4>2. sess'[obs[p].on].tail = Tail(tail)
        BY <2>1, <3>3
      <4> HIDE DEF tail
      <4>3. Len(tail) # 1 /\ Len(tail) \in Nat \ {0}
        BY <3>1, <4>1
      <4>4. /\ Len(Tail(tail)) = Len(tail) - 1
            /\ \A i \in 1..(Len(tail) - 1) : Tail(tail)[i] = tail[i + 1]
        BY <4>1, TailTyped
      <4>5. Len(tail) - 1 \in 1..(Len(tail) - 1) /\ (Len(tail) - 1) + 1 = Len(tail)
        <5> DEFINE n == Len(tail)
        <5>1. n # 1 /\ n \in Nat \ {0}
          BY <4>3
        <5> HIDE DEF n
        <5>2. n - 1 \in 1..(n - 1) /\ (n - 1) + 1 = n
          BY ONLY <5>1
        <5> QED
          BY <5>2 DEF n
      <4>6. Tail(tail)[Len(Tail(tail))] = p
        BY <4>1, <4>4, <4>5
      <4>7. obs[p].pc = "queued"
        <5>1. obs[p] \in Asked
          BY <3>2 DEF RoundsTyped
        <5>2. obs[p].pc \notin Busy
          BY <2>1, <3>1, <3>2, <3>3, OneServed
        <5>3. obs[p].pc # "idle"
          BY <3>2 DEF LiveLast
        <5> QED
          BY <5>1, <5>2, <5>3 DEF Asked
      <4> QED
        BY <1>3, <2>1, <3>1, <3>2, <4>2, <4>6, <4>7
    <3>4. CASE obs[p].on # obs[o].on
      <4>1. sess'[obs[p].on] = Of(p)
        BY <2>1, <3>2, <3>4 DEF Of
      <4>2. sess'[obs[p].on].tail[Len(sess'[obs[p].on].tail)] = p
        BY <3>2, <4>1 DEF LiveLast
      <4> QED
        BY <1>3, <2>1, <3>1, <3>2, <4>1, <4>2
    <3> QED
      BY <3>3, <3>4
  <2> QED
    BY <2>3, <2>4, LiveParts
<1>8. ASSUME NEW o \in Observers, NEW s, NEW y, NEW a, Asks(o, s, y, a) PROVE LiveIsLast'
  <2>1. /\ codex.state = "asking" /\ codex.live = Nobody /\ current' = s /\ sess'[s] = y
        /\ obs'[o] = a /\ (\A p \in Observers : p # o => obs'[p] = obs[p])
        /\ a.pc = "queued" /\ a.on = s /\ a.seen = <<>> /\ ~a.gone
        /\ a.results = UNION {CallsOf(codex, k) : k \in HeldOn(codex, s)}
        /\ codex' = [codex EXCEPT !.live = o]
    BY <1>8 DEF Asks, Answers
  <2>2. codex'.live = o /\ codex'.state = "asking" /\ codex'.round = codex.round
        /\ codex'.held = codex.held
    BY <1>1, <2>1 DEF Codexes
  <2>3. y.tail[Len(y.tail)] = o
    <3>1. CASE s \in 1..Len(sess) /\ y.tail = Append(sess[s].tail, o)
      <4> DEFINE tail == sess[s].tail
                 more == Append(tail, o)
      <4>1. tail \in Seq(Observers)
        BY <1>1, <3>1
      <4>2. more[Len(more)] = o
        BY <4>1
      <4> QED
        BY <3>1, <4>2
    <3>2. CASE y.tail = <<o>>
      BY <3>2
    <3> QED
      BY <1>8, <3>1, <3>2 DEF Asks
  <2>4. LiveLast(o)'
    <3>1. obs'[o].results = UNION {CallsOf(codex', k) : k \in HeldOn(codex', s)}
      BY <2>1, <2>2 DEF CallsOf, HeldOn
    <3> QED
      BY <2>1, <2>2, <2>3, <3>1 DEF LiveLast, Of, CallsOf, HeldOn
  <2>5. ASSUME NEW p \in Observers PROVE Gone(p)'
    BY <1>1, <1>2, <2>1, <2>2 DEF Gone
  <2> QED
    BY <2>2, <2>4, <2>5, LiveParts
<1>9. ASSUME NEW a, Lost(a) PROVE LiveIsLast'
  <2>1. /\ codex'.live = Nobody
        /\ \A p \in Observers : IF p = codex.live THEN obs'[p].gone ELSE obs'[p] = obs[p]
    BY <1>9 DEF Lost, Answers
  <2>2. ASSUME NEW p \in Observers PROVE Gone(p)'
    BY <1>1, <1>2, <2>1 DEF Gone
  <2> QED
    BY <2>1, <2>2, LiveParts
<1>10. ASSUME Asks2 PROVE LiveIsLast'
  <2>1. codex'.live = Nobody /\ codex.live = Nobody /\ obs' = obs
    BY <1>10 DEF Asks2
  <2>2. ASSUME NEW p \in Observers PROVE Gone(p)'
    BY <1>2, <2>1 DEF Gone
  <2> QED
    BY <2>1, <2>2, LiveParts
<1>11. ASSUME Rests PROVE LiveIsLast'
  <2>1. /\ codex'.live = codex.live /\ codex'.round = codex.round /\ codex'.held = codex.held
        /\ (codex'.state = codex.state \/ codex.live = Nobody)
        /\ obs' = obs /\ sess' = sess /\ current' = current
    BY <1>11 DEF Rests
  <2>2. ASSUME NEW p \in Observers PROVE Gone(p)'
    BY <1>2, <2>1 DEF Gone
  <2>3. ASSUME codex.live # Nobody PROVE LiveLast(codex.live)'
    <3>1. codex'.state = codex.state /\ LiveLast(codex.live)
      BY <1>2, <2>1, <2>3
    <3> QED
      BY <2>1, <3>1 DEF LiveLast, Of, CallsOf, HeldOn
  <2> QED
    BY <2>1, <2>2, <2>3, LiveParts
<1> QED
  BY <1>5, <1>6, <1>7, <1>8, <1>9, <1>10, <1>11 DEF StepKind

\* How much is shown is a count, of nothing while the answer is buffered.
LEMMA Shows ==
  ASSUME NEW x \in Surfaces
  PROVE  /\ Shown(buffered, x) \in Nat /\ x.drained \in Nat
         /\ buffered => Shown(buffered, x) = 0
         /\ ~buffered => Shown(buffered, x) = x.drained
BY SurfaceFields DEF Shown

\* What is drained joins what was shown.
LEMMA FreshJoins ==
  ASSUME NEW x \in Surfaces, x.drained <= x.pushed, NEW y \in Surfaces, y.drained = x.pushed,
         NEW m \in Nat, m <= Shown(buffered, x)
  PROVE  /\ m <= Shown(buffered, y)
         /\ Between(m, Shown(buffered, x)) \o FreshText(x) = Between(m, Shown(buffered, y))
<1>1. /\ x.drained \in Nat /\ x.pushed \in Nat
  BY SurfaceFields
<1>2. CASE buffered
  <2>1. Shown(buffered, x) = 0 /\ Shown(buffered, y) = 0 /\ FreshText(x) = <<>>
    BY <1>2 DEF Shown, FreshText
  <2>2. 0 \in Nat /\ 0 <= 0 /\ m = 0
    BY <2>1
  <2>3. Between(0, 0) = <<>>
    BY ONLY <2>2, BetweenFacts
  <2> QED
    BY <2>1, <2>2, <2>3
<1>3. CASE ~buffered
  <2>1. Shown(buffered, x) = x.drained /\ Shown(buffered, y) = x.pushed
    BY <1>3, Shows
  <2>2. FreshText(x) = Between(x.drained, x.pushed)
    BY <1>3 DEF FreshText
  <2>3. m \in Nat /\ m <= x.drained /\ x.drained <= x.pushed
    BY <2>1
  <2>4. Between(m, x.drained) \o Between(x.drained, x.pushed) = Between(m, x.pushed)
    BY ONLY <1>1, <2>3, BetweenJoins
  <2> QED
    BY <1>1, <2>1, <2>2, <2>3, <2>4
<1> QED
  BY <1>2, <1>3

\* What a session has told depends on its content, and on what Codex keeps.
LEMMA FollowsSame ==
  ASSUME NEW c, NEW d, NEW b, NEW x, NEW y, NEW s, Content(x, y),
         d.round = c.round, d.variant = c.variant, d.held = c.held, Follows(c, b, x, s)
  PROVE  Follows(d, b, y, s)
<1>1. \A k : /\ Fresh(x, k) => Fresh(y, k)
             /\ Broken(x, k) => Broken(y, k)
  BY DEF Content, Fresh, Untold, Broken
<1>2. /\ y.outcome = x.outcome /\ y.drained = x.drained /\ y.outstanding = x.outstanding
      /\ y.resolved = x.resolved /\ y.prelude = x.prelude /\ y.written = x.written
      /\ y.final = x.final /\ y.journal = x.journal /\ y.completed = x.completed
      /\ y.failed = x.failed /\ Shown(b, y) = Shown(b, x)
  BY DEF Content, Shown
<1>3. \A k, m : ToldTools(b, x, k, m) => ToldTools(b, y, k, m)
  BY <1>2 DEF ToldTools
<1>4. \A m : AllTold(b, x, m) => AllTold(b, y, m)
  BY <1>2 DEF AllTold
<1>5. \A k : ToldTwice(b, x, k) => ToldTwice(b, y, k)
  BY <1>2 DEF ToldTwice
<1>6. \A k, m : ToldDone(b, x, k, m) => ToldDone(b, y, k, m)
  BY <1>2, <1>4, <1>5 DEF ToldDone, ToldOnce
<1>7. \A k, m : Telling(b, x, k, m) => Telling(b, y, k, m)
  BY <1>2 DEF Telling
<1>8. /\ \A n : Length(d, s, n) = Length(c, s, n) /\ CallsOf(d, n) = CallsOf(c, n)
      /\ HeldOn(d, s) = HeldOn(c, s) /\ (IsAgain(d, s) <=> IsAgain(c, s))
      /\ \A k : Later(d, k) <=> Later(c, k)
  BY DEF Length, CallsOf, HeldOn, IsAgain, Later
<1>9. AwaitsResults(c, b, x, s) => AwaitsResults(d, b, y, s)
  BY <1>1, <1>2, <1>3, <1>8 DEF AwaitsResults
<1>10. Onward(c, b, x, s) => Onward(d, b, y, s)
  BY <1>1, <1>2, <1>6, <1>7, <1>8, <1>9 DEF Onward
<1>11. Again(c, b, x, s) => Again(d, b, y, s)
  BY <1>1, <1>2, <1>3, <1>4, <1>5, <1>6, <1>8 DEF Again
<1> QED
  BY <1>1, <1>8, <1>10, <1>11 DEF Follows

\* The answer is told whole, whatever was told of it before.
LEMMA AnswerTold ==
  ASSUME NEW c, NEW x \in Surfaces, Works(x), NEW y, NEW s, NEW k \in RoundKeys,
         k = <<c.round, c.variant>>, NEW q, NEW m \in Nat, m = Length(c, s, c.round - 1),
         buffered => m = 0, IsAgain(c, s) => q /\ c.variant = 2, Follows(c, buffered, x, s),
         TellsAnswer(x, y, k, q)
  PROVE  ToldDone(buffered, y, k, m) /\ m <= Shown(buffered, y)
<1> DEFINE j == x.journal[k]
           w == x.written
           f == Leftover(x, k, q)
           one == OnePiece(x)
           whole == f \o one
<1>1. /\ y \in Surfaces /\ y.outcome = "final" /\ y.written = w /\ x.outcome = "final"
      /\ k \notin x.completed /\ k \in y.completed \ y.failed
      /\ w \in Nat /\ x.drained \in Nat /\ x.pushed = w /\ x.drained <= w
      /\ y.journal[k] = Append(whole, DoneEvent)
      /\ y.final \in {whole, f} /\ (q => y.final = whole)
      /\ y.drained = IF q /\ NothingNew(x, k) THEN x.drained ELSE w
  <2>1. x.outcome = "final" /\ y.outcome = x.outcome /\ y.written = w /\ y \in Surfaces
    BY DEF TellsAnswer, Leaves, Served
  <2>2. /\ k \notin x.completed /\ y.completed = x.completed \cup {k} /\ y.failed = x.failed
        /\ y.journal[k] = Append(whole, DoneEvent) /\ y.final = (IF q THEN whole ELSE f)
        /\ y.drained = IF q /\ NothingNew(x, k) THEN x.drained ELSE x.pushed
    BY DEF TellsAnswer
  <2>3. x.failed \subseteq x.completed /\ x.pushed = w /\ x.drained <= x.pushed
    BY <2>1 DEF Works
  <2>4. w \in Nat /\ x.drained \in Nat
    BY SurfaceFields
  <2> HIDE DEF whole, f, w
  <2> QED
    BY <2>1, <2>2, <2>3, <2>4
<1>2. IF buffered THEN FreshText(x) = <<>> /\ one = Between(0, w)
      ELSE FreshText(x) = Between(x.drained, w) /\ one = <<>>
  BY <1>1 DEF FreshText, OnePiece
<1>3. f = IF q /\ NothingNew(x, k) THEN x.final ELSE j \o FreshText(x)
  BY DEF Leftover
<1>4. 0 \in Nat /\ 0 <= w
  BY <1>1
<1>5. Between(0, w) \in Seq(Events) /\ <<>> \o Between(0, w) = Between(0, w)
  <2>1. Between(0, w) \in Seq(Events)
    BY ONLY <1>1, <1>4, BetweenFacts
  <2> QED
    BY <2>1
<1>6. ASSUME m <= w PROVE Between(m, w) \in Seq(Events) /\ Between(m, w) \o <<>> = Between(m, w)
  <2>1. Between(m, w) \in Seq(Events)
    BY ONLY <1>1, <1>6, m \in Nat, BetweenFacts
  <2> QED
    BY <2>1
<1>7. whole = f \o one
  OBVIOUS
<1> HIDE DEF whole, one, f, w, j
<1>8. CASE ~IsAgain(c, s)
  <2>1. Telling(buffered, x, k, m)
    BY <1>1, <1>8 DEF Follows, Onward, Broken, ToldDone, ToldOnce, ToldTwice
  <2>2. x.final = <<>> /\ m <= Shown(buffered, x) /\ j = Between(m, Shown(buffered, x))
    BY <1>1, <2>1 DEF Telling, j
  <2>3. y.drained = x.pushed /\ f = j \o FreshText(x)
    BY <1>1, <1>3, <2>2 DEF NothingNew
  <2>4. m <= Shown(buffered, y) /\ f = Between(m, Shown(buffered, y))
    <3>1. x.drained <= x.pushed /\ y \in Surfaces
      BY <1>1
    <3> QED
      BY <2>2, <2>3, <3>1, FreshJoins
  <2>5. CASE buffered
    <3>1. Shown(buffered, y) = 0 /\ m = 0 /\ 0 <= 0
      BY <2>5 DEF Shown
    <3>2. Between(0, 0) = <<>>
      BY ONLY <1>4, <3>1, BetweenFacts
    <3>3. f = <<>> /\ whole = Between(m, w)
      BY <1>2, <1>5, <1>7, <2>4, <2>5, <3>1, <3>2
    <3>4. AllTold(buffered, y, m)
      BY <1>1, <1>4, <2>5, <3>1, <3>3 DEF AllTold
    <3> QED
      BY <1>1, <2>4, <3>3, <3>4 DEF ToldDone, ToldOnce
  <2>6. CASE ~buffered
    <3>1. Shown(buffered, y) = w
      BY <1>1, <2>3, <2>6, Shows
    <3>2. f = Between(m, w) /\ whole = Between(m, w) /\ m <= w
      BY <1>2, <1>6, <1>7, <2>4, <2>6, <3>1
    <3>3. AllTold(buffered, y, m)
      BY <1>1, <2>3, <2>6, <3>2 DEF AllTold
    <3> QED
      BY <1>1, <2>4, <3>2, <3>3 DEF ToldDone, ToldOnce
  <2> QED
    BY <2>5, <2>6
<1>9. CASE IsAgain(c, s)
  <2>1. q /\ c.variant = 2 /\ Again(c, buffered, x, s)
    BY <1>9 DEF Follows
  <2>2. Untold(x, k)
    BY <1>1, <2>1 DEF Again, Fresh, Broken, ToldTools, ToldDone, ToldOnce, ToldTwice
  <2>3. AllTold(buffered, x, m) /\ m <= Shown(buffered, x)
    BY <1>1, <2>1 DEF Again, ToldTwice
  <2>4. j = <<>> /\ m <= w
    BY <2>2, <2>3 DEF AllTold, Untold, j, w
  <2>5. CASE buffered
    <3>1. m = 0 /\ x.final \in {<<>>, Between(0, w)} /\ m <= Shown(buffered, y)
      BY <1>1, <2>3, <2>5, Shows DEF AllTold, w
    <3>2. CASE NothingNew(x, k)
      <4>1. whole = Twice(w)
        BY <1>2, <1>3, <1>7, <2>1, <2>5, <3>1, <3>2 DEF NothingNew, Twice
      <4>2. k[2] = 2
        BY <2>1
      <4>3. ToldTwice(buffered, y, k)
        BY <1>1, <2>5, <4>1, <4>2 DEF ToldTwice
      <4> QED
        BY <3>1, <4>3 DEF ToldDone
    <3>3. CASE ~NothingNew(x, k)
      <4>1. <<>> \o <<>> = <<>>
        OBVIOUS
      <4>2. f = <<>>
        BY <1>2, <1>3, <2>4, <2>5, <3>3, <4>1
      <4>3. whole = Between(m, w) /\ y.final = Between(0, w)
        BY <1>1, <1>2, <1>5, <1>7, <2>1, <2>5, <3>1, <4>2
      <4>4. AllTold(buffered, y, m)
        BY <1>1, <2>4, <2>5, <4>3 DEF AllTold
      <4> QED
        BY <1>1, <3>1, <4>3, <4>4 DEF ToldDone, ToldOnce
    <3> QED
      BY <3>2, <3>3
  <2>6. CASE ~buffered
    <3>1. x.drained = w /\ x.final = Between(m, w) /\ y.drained = w
      BY <1>1, <2>3, <2>6 DEF AllTold, w
    <3>2. f = Between(m, w)
      <4>1. CASE NothingNew(x, k)
        BY <1>3, <2>1, <3>1, <4>1
      <4>2. CASE ~NothingNew(x, k)
        <5>1. x.final = <<>>
          BY <1>1, <2>4, <3>1, <4>2 DEF NothingNew, j
        <5>2. Between(w, w) = <<>>
          <6>1. w <= w
            BY <1>1
          <6> QED
            BY ONLY <1>1, <6>1, BetweenFacts
        <5>4. <<>> \o <<>> = <<>>
          OBVIOUS
        <5>3. f = <<>>
          BY <1>2, <1>3, <2>4, <2>6, <3>1, <4>2, <5>2, <5>4
        <5> QED
          BY <3>1, <5>1, <5>3
      <4> QED
        BY <4>1, <4>2
    <3>3. whole = Between(m, w) /\ y.final = Between(m, w)
      BY <1>1, <1>2, <1>6, <1>7, <2>4, <2>6, <3>2
    <3>4. AllTold(buffered, y, m) /\ m <= Shown(buffered, y)
      BY <1>1, <2>4, <2>6, <3>1, <3>3, Shows DEF AllTold
    <3> QED
      BY <1>1, <3>3, <3>4 DEF ToldDone, ToldOnce
  <2> QED
    BY <2>5, <2>6
<1> QED
  BY <1>8, <1>9

\* Calls that are told, after the text that came before them.
CallsTold(b, y, k, m, calls) ==
  /\ k \in y.completed \ y.failed /\ y.outstanding # {} /\ calls \in SUBSET Tools
  /\ y.outstanding \subseteq calls /\ calls \subseteq y.outstanding \cup y.resolved
  /\ y.journal[k] = Append(Between(m, Shown(b, y)), Batch(calls))
  /\ m <= Shown(b, y) /\ y.prelude = Between(m, Shown(b, y))

\* The first time a batch is told, its text follows what Codex has kept.
LEMMA NewCalls ==
  ASSUME NEW c, NEW x \in Surfaces, Works(x), NEW y, NEW s, NEW k \in RoundKeys,
         k = <<c.round, c.variant>>, NEW m \in Nat, m = Length(c, s, c.round - 1),
         Onward(c, buffered, x, s), TellsCalls(x, y, k)
  PROVE  CallsTold(buffered, y, k, m, y.outstanding)
<1> DEFINE j == x.journal[k]
<1>1. /\ k \notin x.completed /\ y.completed = x.completed \cup {k} /\ y.failed = x.failed
      /\ y.outstanding # {} /\ y.drained = x.pushed /\ y.prelude = j \o FreshText(x)
      /\ y.journal[k] = Append(y.prelude, Batch(y.outstanding)) /\ y \in Surfaces
  BY DEF TellsCalls, Leaves
<1>2. x.failed \subseteq x.completed /\ x.drained <= x.pushed
  BY DEF Works
<1>3. y.outstanding \in SUBSET Tools
  BY <1>1, SurfaceFields
<1>4. Telling(buffered, x, k, m)
  BY <1>1 DEF Onward, Broken, ToldDone, ToldOnce, ToldTwice
<1>5. m <= Shown(buffered, x) /\ j = Between(m, Shown(buffered, x))
  BY <1>4 DEF Telling
<1>6. y.prelude = Between(m, Shown(buffered, y)) /\ m <= Shown(buffered, y)
  <2>1. y \in Surfaces /\ y.drained = x.pushed /\ x.drained <= x.pushed
    BY <1>1, <1>2
  <2>2. /\ m <= Shown(buffered, y)
        /\ Between(m, Shown(buffered, x)) \o FreshText(x) = Between(m, Shown(buffered, y))
    BY <1>5, <2>1, FreshJoins
  <2> QED
    BY <1>1, <1>5, <2>2
<1> QED
  BY <1>1, <1>2, <1>3, <1>6 DEF CallsTold

\* A batch that is given again comes with the text it came with before.
LEMMA SameCalls ==
  ASSUME NEW c, NEW x \in Surfaces, Works(x), NEW y, NEW s, NEW k \in RoundKeys,
         k = <<c.round, c.variant>>, NEW m, m = Length(c, s, c.round - 1),
         Again(c, buffered, x, s), TellsAgain(x, y, k)
  PROVE  CallsTold(buffered, y, k, m, y.outstanding)
<1>1. /\ k \notin x.completed /\ y.completed = x.completed \cup {k} /\ y.failed = x.failed
      /\ x.outstanding # {} /\ y.outstanding = x.outstanding /\ y.prelude = x.prelude
      /\ y.drained = x.drained /\ Shown(buffered, y) = Shown(buffered, x)
      /\ x.journal[k] = <<>> => y.journal[k] = Append(x.prelude, Batch(x.outstanding))
  BY DEF TellsAgain, Holds, Stays, Shown
<1>2. x.failed \subseteq x.completed /\ x.outcome # "final" /\ x.outstanding \in SUBSET Tools
  BY <1>1, SurfaceFields DEF Works, CallsIn
<1>3. x.journal[k] = <<>>
  BY <1>1 DEF Again, Fresh, Untold, Broken, ToldTools, ToldDone, ToldOnce, ToldTwice
<1>4. m <= Shown(buffered, x) /\ x.prelude = Between(m, Shown(buffered, x))
  BY <1>2 DEF Again
<1> QED
  BY <1>1, <1>2, <1>3, <1>4 DEF CallsTold

\* A round that is replayed tells what it told: an error, its batch or the answer.
LEMMA ReplayedCalls ==
  ASSUME NEW c, NEW x \in Surfaces, Works(x), NEW s, NEW k \in RoundKeys,
         k = <<c.round, c.variant>>, NEW m \in Nat, m = Length(c, s, c.round - 1),
         buffered => m = 0, Follows(c, buffered, x, s), k \in x.completed \ x.failed
  PROVE  \/ x.journal[k] # <<>> /\ LastOf(x.journal[k]) \in ErrorEvents
         \/ IsAgain(c, s) /\ \E calls : CallsTold(buffered, x, k, m, calls)
         \/ ToldDone(buffered, x, k, m) /\ m <= Shown(buffered, x)
<1>1. CASE ~IsAgain(c, s)
  <2>1. Broken(x, k) \/ ToldDone(buffered, x, k, m)
    BY <1>1 DEF Follows, Onward, Telling
  <2>2. ToldDone(buffered, x, k, m) => m <= Shown(buffered, x)
    <3>1. CASE buffered
      BY <3>1 DEF Shown
    <3>2. CASE ~buffered
      BY <3>2, Shows DEF ToldDone, ToldOnce, ToldTwice, AllTold
    <3> QED
      BY <3>1, <3>2
  <2> QED
    BY <2>1, <2>2 DEF Broken
<1>2. CASE IsAgain(c, s)
  <2>1. Again(c, buffered, x, s)
    BY <1>2 DEF Follows
  <2>2. /\ m <= Shown(buffered, x)
        /\ Broken(x, k) \/ ToldTools(buffered, x, k, m) \/ ToldDone(buffered, x, k, m)
    BY <2>1 DEF Again, Fresh, Untold
  <2>3. ASSUME ToldTools(buffered, x, k, m) PROVE \E calls : CallsTold(buffered, x, k, m, calls)
    <3>1. PICK calls \in SUBSET Tools :
            /\ x.outstanding \subseteq calls /\ calls \subseteq x.outstanding \cup x.resolved
            /\ x.journal[k] = Append(Between(m, Shown(buffered, x)), Batch(calls))
      BY <2>3 DEF ToldTools
    <3>2. x.outstanding # {}
      BY <2>3 DEF ToldTools
    <3>3. x.outcome # "final"
      BY <3>2 DEF Works, CallsIn
    <3>4. x.prelude = Between(m, Shown(buffered, x))
      BY <2>1, <3>3 DEF Again
    <3>5. CallsTold(buffered, x, k, m, calls)
      BY <2>2, <3>1, <3>2, <3>4 DEF CallsTold
    <3> QED
      BY <3>5
  <2> QED
    BY <1>2, <2>2, <2>3 DEF Broken
<1> QED
  BY <1>1, <1>2

\* What a request makes of its own round leaves the other rounds.
Elsewhere(x, y, k) ==
  /\ y.completed \in {x.completed, x.completed \cup {k}}
  /\ x.failed \subseteq y.failed /\ y.failed \subseteq x.failed \cup {k}
  /\ \A j \in RoundKeys \ {k} : y.journal[j] = x.journal[j]

\* A request leaves the rounds that are yet to come.
LEMMA FreshElsewhere ==
  ASSUME NEW x, NEW y, NEW k, Elsewhere(x, y, k), NEW j, j # k, Fresh(x, j)
  PROVE  Fresh(y, j)
BY DEF Elsewhere, Fresh, Untold, Broken

\* A request that leaves some results unanswered still awaits them.
LEMMA AwaitsElsewhere ==
  ASSUME NEW c, NEW x \in Surfaces, NEW y, NEW s, NEW k, k = <<c.round, c.variant>>,
         c.round \in Nat, Elsewhere(x, y, k), y.outstanding \subseteq x.outstanding,
         y.resolved = x.resolved \cup (x.outstanding \ y.outstanding), y.outstanding # {},
         y.prelude = x.prelude, y.drained = x.drained,
         Fresh(x, k) => Fresh(y, k), AwaitsResults(c, buffered, x, s)
  PROVE  AwaitsResults(c, buffered, y, s)
<1> DEFINE r == <<c.round - 1, 2>>
<1>1. r # k
  <2>1. r[1] # k[1]
    OBVIOUS
  <2> QED
    BY <2>1
<1> HIDE DEF r
<1>2. Fresh(x, r) => Fresh(y, r)
  BY <1>1, FreshElsewhere
<1>4. Shown(buffered, y) = Shown(buffered, x)
  BY DEF Shown
<1>3. ASSUME NEW m, ToldTools(buffered, x, r, m) PROVE ToldTools(buffered, y, r, m)
  <2>1. r \in RoundKeys
    BY <1>3, SurfaceFields DEF ToldTools
  <2>2. y.journal[r] = x.journal[r] /\ r \in y.completed \ y.failed
    BY <1>1, <1>3, <2>1 DEF Elsewhere, ToldTools
  <2>3. PICK calls \in SUBSET Tools :
           /\ x.outstanding \subseteq calls /\ calls \subseteq x.outstanding \cup x.resolved
           /\ x.journal[r] = Append(Between(m, Shown(buffered, x)), Batch(calls))
    BY <1>3 DEF ToldTools
  <2>4. y.outstanding \subseteq calls /\ calls \subseteq y.outstanding \cup y.resolved
    BY <2>3
  <2>5. y.journal[r] = Append(Between(m, Shown(buffered, y)), Batch(calls))
    BY <1>4, <2>2, <2>3
  <2> QED
    BY <2>2, <2>4, <2>5 DEF ToldTools
<1> QED
  BY <1>2, <1>3, <1>4 DEF AwaitsResults, r

\* A request that ends, Codex not having heard a whole response of it, leaves what
\* its session has to tell.
Quiet(x, y, k, pc) ==
  \/ Quits(x, y, k) \/ y = x
  \/ /\ k \notin x.completed /\ (Stays(x, y) \/ pc \in {"race", "finish"})
     /\ \E thrown : Breaks(x, y, k, thrown)
  \/ pc \notin {"token", "deliver"} /\ TellsAnswer(x, y, k, pc = "queued")

\* A round that Codex does not hear whole leaves it in step with the browser.
LEMMA FollowsQuietly ==
  ASSUME NEW c, c.round \in Nat, c.variant \in {1, 2}, NEW x \in Surfaces, Works(x), NEW y, NEW s,
         NEW k \in RoundKeys,
         k = <<c.round, c.variant>>, NEW m \in Nat, m = Length(c, s, c.round - 1),
         buffered => m = 0, NEW pc, pc \in {"race", "finish"} => x.outstanding = {},
         IsAgain(c, s) => /\ c.variant = 2
                          /\ pc = "queued" \/ (pc = "token" /\ x.outcome # "final"),
         Follows(c, buffered, x, s), Quiet(x, y, k, pc)
  PROVE  Follows(c, buffered, y, s)
<1>1. CASE y = x
  BY <1>1
<1>2. CASE Quits(x, y, k)
  <2>1. \A j \in RoundKeys : y.journal[j] = x.journal[j]
    BY <1>2 DEF Quits, Leaves
  <2>2. y.journal \in [RoundKeys -> Seq(Events)] /\ x.journal \in [RoundKeys -> Seq(Events)]
    <3>1. y \in Surfaces
      BY <1>2 DEF Quits, Leaves
    <3> QED
      BY <3>1, SurfaceFields
  <2>3. y.journal = x.journal
    BY <2>1, <2>2
  <2>4. Content(x, y)
    BY <1>2, <2>3 DEF Quits, Leaves, Served, Holds, Stays, Content
  <2> QED
    BY <2>4, FollowsSame
<1>3. ASSUME k \notin x.completed, Stays(x, y) \/ pc \in {"race", "finish"},
             NEW thrown, Breaks(x, y, k, thrown)
      PROVE  Follows(c, buffered, y, s)
  <2>1. /\ Broken(y, k) /\ Fresh(y, k) /\ Elsewhere(x, y, k)
        /\ y.outcome = x.outcome /\ y.written = x.written /\ y.resolved = x.resolved
        /\ y.outstanding = x.outstanding /\ y.prelude = x.prelude
    BY <1>3 DEF Breaks, Leaves, Served, Holds, Fresh, Elsewhere
  <2>2. \A j \in RoundKeys : Later(c, j) => Fresh(y, j)
    <3>1. ~Later(c, k)
      <4>1. k[1] = c.round /\ k[2] = c.variant
        OBVIOUS
      <4> QED
        BY <4>1 DEF Later
    <3> QED
      BY <2>1, <3>1, FreshElsewhere DEF Follows
  <2>3. x.outstanding # {} => y.drained = x.drained
    BY <1>3 DEF Stays
  <2>4. CASE ~IsAgain(c, s)
    <3>1. Onward(c, buffered, x, s)
      BY <2>4 DEF Follows
    <3>2. y.outstanding # {} => AwaitsResults(c, buffered, y, s)
      <4>1. ASSUME y.outstanding # {} PROVE AwaitsResults(c, buffered, y, s)
        <5>1. AwaitsResults(c, buffered, x, s)
          BY <2>1, <3>1, <4>1 DEF Onward
        <5>2. y.resolved = x.resolved \cup (x.outstanding \ y.outstanding) /\ y.drained = x.drained
          BY <2>1, <2>3, <4>1
        <5> QED
          BY <2>1, <4>1, <5>1, <5>2, AwaitsElsewhere
      <4> QED
        BY <4>1
    <3>3. Onward(c, buffered, y, s)
      BY <2>1, <3>1, <3>2 DEF Onward
    <3> QED
      BY <2>2, <2>4, <3>3 DEF Follows
  <2>5. CASE IsAgain(c, s)
    <3>1. Again(c, buffered, x, s)
      BY <2>5 DEF Follows
    <3>2. y.final = x.final /\ y.drained = x.drained /\ Shown(buffered, y) = Shown(buffered, x)
      BY <1>3, <2>5 DEF Stays, Shown
    <3>3. /\ AllTold(buffered, x, m) => AllTold(buffered, y, m)
          /\ ~ToldTwice(buffered, x, k)
      BY <1>3, <2>1, <3>2 DEF AllTold, ToldTwice
    <3>4. Again(c, buffered, y, s)
      BY <2>1, <3>1, <3>2, <3>3 DEF Again
    <3> QED
      BY <2>2, <2>5, <3>1, <3>4 DEF Follows
  <2> QED
    BY <2>4, <2>5
<1>4. CASE pc \notin {"token", "deliver"} /\ TellsAnswer(x, y, k, pc = "queued")
  <2>1. /\ y.outcome = "final" /\ x.outcome = "final" /\ y.resolved = x.resolved
        /\ y.outstanding = x.outstanding /\ x.outstanding = {}
        /\ Elsewhere(x, y, k)
    <3>1. x.outstanding = {}
      BY <1>4 DEF TellsAnswer, Works, CallsIn
    <3> QED
      BY <1>4, <3>1 DEF TellsAnswer, Leaves, Served, Holds, Elsewhere
  <2>2. \A j \in RoundKeys : Later(c, j) => Fresh(y, j)
    <3>1. ~Later(c, k)
      <4>1. k[1] = c.round /\ k[2] = c.variant
        OBVIOUS
      <4> QED
        BY <4>1 DEF Later
    <3> QED
      BY <2>1, <3>1, FreshElsewhere DEF Follows
  <2> DEFINE q == pc = "queued"
  <2>3. IsAgain(c, s) => q /\ c.variant = 2
    BY <1>4, <2>1
  <2>4. TellsAnswer(x, y, k, q)
    BY <1>4
  <2> HIDE DEF q
  <2>5. ToldDone(buffered, y, k, m) /\ m <= Shown(buffered, y)
    BY <2>3, <2>4, AnswerTold
  <2>6. CASE ~IsAgain(c, s)
    <3>1. Onward(c, buffered, x, s)
      BY <2>6 DEF Follows
    <3>2. Onward(c, buffered, y, s)
      BY <2>1, <2>5, <3>1 DEF Onward
    <3> QED
      BY <2>2, <2>6, <3>2 DEF Follows
  <2>7. CASE IsAgain(c, s)
    <3>1. Again(c, buffered, x, s)
      BY <2>7 DEF Follows
    <3>2. AllTold(buffered, y, m) \/ ToldTwice(buffered, y, k)
      BY <2>5 DEF ToldDone, ToldOnce
    <3>3. Again(c, buffered, y, s)
      BY <2>1, <2>5, <3>1, <3>2 DEF Again
    <3> QED
      BY <2>2, <2>7, <3>3 DEF Follows
  <2> QED
    BY <2>6, <2>7
<1> QED
  BY <1>1, <1>2, <1>3, <1>4 DEF Quiet

-----------------------------------------------------------------------------
(* A request of the session that counts.                                     *)

\* The request of the browser Codex is with is for the round Codex is in.
LEMMA HereFacts ==
  ASSUME RoundsIInv, NEW o \in Observers, obs[o].pc # "idle", IsHere(obs[o].on),
         codex.state # "refused"
  PROVE  LET s == obs[o].on
             m == Length(codex, s, codex.round - 1)
         IN  /\ s \in 1..Len(sess) /\ Of(o) = sess[s] /\ Of(o) \in Surfaces /\ Works(Of(o))
             /\ Follows(codex, buffered, Of(o), s)
             /\ obs[o].key \in RoundKeys /\ obs[o].key = <<codex.round, codex.variant>>
             /\ IsAgain(codex, s) =>
                  /\ codex.variant = 2
                  /\ obs[o].pc = "queued" \/ (obs[o].pc = "token" /\ Of(o).outcome # "final")
             /\ codex.round \in Nat \ {0} /\ codex.variant \in {1, 2} /\ m \in Nat
             /\ (buffered => m = 0)
             /\ obs[o].pc \in {"race", "finish"} => Of(o).outstanding = {}
<1>1. RoundsTyped /\ RoundsQueued /\ SurfacesWork /\ HeldInOrder /\ RoundsFollow /\ ResultsAwaited
  BY DEF RoundsIInv
<1> DEFINE s == obs[o].on
           m == Length(codex, s, codex.round - 1)
<1>2. /\ s \in 1..Len(sess) /\ Of(o) = sess[s] /\ Of(o) \in Surfaces /\ Works(Of(o))
      /\ obs[o].key \in RoundKeys /\ obs[o] \in Asked
  BY <1>1, RequestFacts
<1>3. Follows(codex, buffered, Of(o), s) /\ RequestsHere(s)
  BY <1>1, <1>2 DEF RoundsFollow
<1>4. /\ obs[o].key = <<codex.round, codex.variant>>
      /\ IsAgain(codex, s) =>
           /\ codex.variant = 2
           /\ obs[o].pc = "queued" \/ (obs[o].pc = "token" /\ Of(o).outcome # "final")
  BY <1>2, <1>3 DEF RequestsHere
<1>5. codex.round \in Nat \ {0} /\ codex.variant \in {1, 2} /\ codex.round - 1 \in 0..Len(codex.held)
      /\ codex.round - 1 < codex.round /\ s \in Nat
  <2>1. codex.round \in Nat \ {0} /\ codex.variant \in {1, 2} /\ codex.held \in Seq(Responses)
    BY <1>1 DEF RoundsTyped, Codexes
  <2>2. Len(codex.held) = codex.round - 1 \/ Len(codex.held) = codex.round
    BY <1>1 DEF HeldInOrder
  <2>3. obs[o].on \in Nat
    BY <1>2 DEF Asked
  <2> HIDE DEF m
  <2>4. codex.round - 1 \in 0..Len(codex.held) /\ codex.round - 1 < codex.round
    BY <2>1, <2>2
  <2> QED
    BY <2>1, <2>3, <2>4
<1>6. m \in Nat /\ (buffered => m = 0)
  BY <1>1, <1>5 DEF HeldInOrder
<1>7. obs[o].pc \in {"race", "finish"} => Of(o).outstanding = {}
  BY <1>1 DEF ResultsAwaited
<1> QED
  BY <1>2, <1>3, <1>4, <1>5, <1>6, <1>7

\* What Codex hears of the request it waits for.
HearsCalls(o, y, m) ==
  /\ Elsewhere(Of(o), y, obs[o].key) /\ (IsAgain(codex, obs[o].on) \/ Of(o).outstanding = {})
  /\ \E calls : CallsTold(buffered, y, obs[o].key, m, calls)
HearsAnswer(o, y, m) ==
  /\ Elsewhere(Of(o), y, obs[o].key)
  /\ ToldDone(buffered, y, obs[o].key, m) /\ m <= Shown(buffered, y)

\* What Codex hears of the request it waits for: nothing whole, a batch or the answer.
LEMMA WhatIsHeard ==
  ASSUME RoundsIInv, NEW o \in Observers, o = codex.live, NEW y, NEW z, NEW heard, Ended(o, y, z, heard)
  PROVE  LET k == obs[o].key
             m == Length(codex, obs[o].on, codex.round - 1)
         IN  \/ ~Whole(heard) /\ Quiet(Of(o), y, k, obs[o].pc)
             \/ heard = y.journal[k] /\ (HearsCalls(o, y, m) \/ HearsAnswer(o, y, m))
<1> DEFINE x == Of(o)
           k == obs[o].key
           s == obs[o].on
           m == Length(codex, s, codex.round - 1)
           pc == obs[o].pc
<1>1. o # Nobody /\ codex.state = "asking" /\ pc # "idle" /\ IsHere(s)
      /\ obs[o].results = UNION {CallsOf(codex, j) : j \in HeldOn(codex, s)}
  <2>1. o # Nobody
    BY RoundsAssumption
  <2> QED
    BY <2>1 DEF RoundsIInv, LiveIsLast, IsHere
<1>2. /\ s \in 1..Len(sess) /\ x \in Surfaces /\ Works(x)
      /\ Follows(codex, buffered, x, s)
      /\ k \in RoundKeys /\ k = <<codex.round, codex.variant>>
      /\ IsAgain(codex, s) => /\ codex.variant = 2
                              /\ pc = "queued" \/ (pc = "token" /\ x.outcome # "final")
      /\ codex.round \in Nat \ {0} /\ m \in Nat /\ (buffered => m = 0)
      /\ pc \in {"race", "finish"} => x.outstanding = {}
  BY <1>1, HereFacts
<1>3. Closes(o, x, y, k, heard)
  BY DEF Ended
<1> HIDE DEF x, k, s, m, pc
<1>4. CASE heard = <<>> /\ Quits(x, y, k)
  BY <1>4 DEF Whole, Quiet, x, k, pc, s, m
<1>5. CASE /\ k \notin x.completed /\ (Stays(x, y) \/ pc \in {"race", "finish"})
           /\ \/ heard = <<>> /\ Breaks(x, y, k, TRUE)
              \/ heard = y.journal[k] /\ Breaks(x, y, k, FALSE)
  <2>1. Quiet(x, y, k, pc)
    BY <1>5 DEF Quiet
  <2>2. ~Whole(heard)
    BY <1>5, Kinds DEF Whole, Breaks
  <2> QED
    BY <2>1, <2>2 DEF x, k, pc, s, m
<1>6. CASE heard = y.journal[k] /\ pc = "race" /\ TellsCalls(x, y, k)
  <2>1. Onward(codex, buffered, x, s)
    BY <1>2, <1>6 DEF Follows
  <2>2. CallsTold(buffered, y, k, m, y.outstanding)
    BY <1>2, <1>6, <2>1, NewCalls DEF m
  <2>3. Elsewhere(x, y, k) /\ x.outstanding = {}
    BY <1>6 DEF TellsCalls, Leaves, Elsewhere
  <2> QED
    BY <1>6, <2>2, <2>3 DEF HearsCalls, x, k, s, m
<1>7. CASE heard = y.journal[k] /\ pc = "token" /\ obs[o].results \cap x.outstanding = {}
           /\ TellsAgain(x, y, k)
  <2>1. IsAgain(codex, s)
    <3> SUFFICES ASSUME ~IsAgain(codex, s) PROVE FALSE
      OBVIOUS
    <3>1. x.outstanding # {} /\ Onward(codex, buffered, x, s)
      BY <1>2, <1>7 DEF TellsAgain, Follows
    <3>2. /\ codex.round > 1 /\ codex.held[codex.round - 1].on = s
          /\ x.outstanding \subseteq CallsOf(codex, codex.round - 1)
      BY <3>1 DEF Onward, AwaitsResults
    <3>3. codex.round - 1 \in HeldOn(codex, s)
      BY <1>2, <3>2 DEF HeldOn
    <3>4. CallsOf(codex, codex.round - 1) \subseteq obs[o].results
      BY <1>1, <3>3 DEF s
    <3> QED
      BY <1>7, <3>1, <3>2, <3>4
  <2>2. Again(codex, buffered, x, s)
    BY <1>2, <2>1 DEF Follows
  <2>3. CallsTold(buffered, y, k, m, y.outstanding)
    BY <1>2, <1>7, <2>2, SameCalls DEF m
  <2>4. Elsewhere(x, y, k)
    BY <1>7 DEF TellsAgain, Leaves, Elsewhere
  <2> QED
    BY <1>7, <2>1, <2>3, <2>4 DEF HearsCalls, x, k, s, m
<1>8. CASE heard = y.journal[k] /\ pc \notin {"token", "deliver"} /\ TellsAnswer(x, y, k, pc = "queued")
  <2> DEFINE q == pc = "queued"
  <2>1. IsAgain(codex, s) => q /\ codex.variant = 2
    BY <1>2, <1>8
  <2>2. TellsAnswer(x, y, k, q)
    BY <1>8
  <2> HIDE DEF q
  <2>3. ToldDone(buffered, y, k, m) /\ m <= Shown(buffered, y)
    BY <1>2, <2>1, <2>2, AnswerTold DEF m
  <2>4. Elsewhere(x, y, k)
    BY <2>2 DEF TellsAnswer, Leaves, Elsewhere
  <2> QED
    BY <1>8, <2>3, <2>4 DEF HearsAnswer, x, k, s, m
<1>9. CASE heard = y.journal[k] /\ y = x /\ k \in x.completed \ x.failed
  <2>1. \/ x.journal[k] # <<>> /\ LastOf(x.journal[k]) \in ErrorEvents
        \/ IsAgain(codex, s) /\ \E calls : CallsTold(buffered, x, k, m, calls)
        \/ ToldDone(buffered, x, k, m) /\ m <= Shown(buffered, x)
    BY <1>2, <1>9, ReplayedCalls DEF m
  <2>0. Elsewhere(x, y, k)
    BY <1>9 DEF Elsewhere
  <2>2. CASE x.journal[k] # <<>> /\ LastOf(x.journal[k]) \in ErrorEvents
    <3>1. ~Whole(heard)
      BY <1>9, <2>2, Kinds DEF Whole
    <3>2. Quiet(x, y, k, pc)
      BY <1>9 DEF Quiet
    <3> QED
      BY <3>1, <3>2 DEF x, k, s, m, pc
  <2>3. CASE IsAgain(codex, s) /\ \E calls : CallsTold(buffered, x, k, m, calls)
    BY <1>9, <2>0, <2>3 DEF HearsCalls, x, k, s, m
  <2>4. CASE ToldDone(buffered, x, k, m) /\ m <= Shown(buffered, x)
    BY <1>9, <2>0, <2>4 DEF HearsAnswer, x, k, s, m
  <2> QED
    BY <2>1, <2>2, <2>3, <2>4
<1> QED
  BY <1>3, <1>4, <1>5, <1>6, <1>7, <1>8, <1>9 DEF Closes, x, k, pc

-----------------------------------------------------------------------------
(* What Codex has kept stays in order.                                       *)

Finished ==
  /\ Len(codex.held) = codex.round
  /\ LET s == codex.held[codex.round].on
         heard == HeardIn(codex.held, s)[codex.round]
         n == sess[s].written
     IN  /\ sess[s].outcome = "final" /\ current \in {0, s}
         /\ heard = Between(0, n) \/ ReadTwice(codex, buffered, heard, n)
KeptFine(c, n) ==
  \A k \in 1..Len(c.held) :
       /\ c.held[k].on \in 1..n /\ c.held[k].events # <<>>
       /\ k < c.round => LastOf(c.held[k].events) \in ToolEvents
HeardFine(c, b, n) ==
  \A s \in Nat, k \in 0..Len(c.held) :
       /\ Length(c, s, k) \in Nat
       /\ IsAnswer(c, s, k) \/ HeardIn(c.held, s)[k] = Between(0, Length(c, s, k))
       /\ s \notin 1..n => Length(c, s, k) = 0
       /\ b /\ k < c.round => Length(c, s, k) = 0
RoundFine(c) ==
  /\ Len(c.held) = c.round - 1 \/ Len(c.held) = c.round
  /\ c.state = "asking" /\ Len(c.held) = c.round => c.variant = 2

\* What Codex keeps: its round, its responses, their text, and the answer.
LEMMA HeldParts ==
  /\ HeldInOrder <=> /\ RoundFine(codex) /\ KeptFine(codex, Len(sess))
                     /\ HeardFine(codex, buffered, Len(sess))
                     /\ codex.state = "finished" => Finished
  /\ HeldInOrder' <=> /\ RoundFine(codex') /\ KeptFine(codex', Len(sess'))
                      /\ HeardFine(codex', buffered', Len(sess'))
                      /\ codex'.state = "finished" => Finished'
<1>1. HeldInOrder => RoundFine(codex)
  BY Zenon DEF HeldInOrder, RoundFine
<1>2. HeldInOrder => KeptFine(codex, Len(sess))
  BY Zenon DEF HeldInOrder, KeptFine
<1>3. HeldInOrder => HeardFine(codex, buffered, Len(sess))
  BY Zenon DEF HeldInOrder, HeardFine
<1>4. HeldInOrder => (codex.state = "finished" => Finished)
  BY Zenon DEF HeldInOrder, Finished
<1>5. ASSUME RoundFine(codex), KeptFine(codex, Len(sess)),
             HeardFine(codex, buffered, Len(sess)), codex.state = "finished" => Finished
      PROVE  HeldInOrder
  BY <1>5, Zenon DEF HeldInOrder, RoundFine, KeptFine, HeardFine, Finished
<1>6. ASSUME RoundFine(codex'), KeptFine(codex', Len(sess')),
             HeardFine(codex', buffered', Len(sess')), codex'.state = "finished" => Finished'
      PROVE  HeldInOrder'
  BY <1>6, Zenon DEF HeldInOrder, RoundFine, KeptFine, HeardFine, Finished
<1>7. HeldInOrder' => /\ RoundFine(codex') /\ KeptFine(codex', Len(sess'))
                      /\ HeardFine(codex', buffered', Len(sess'))
                      /\ codex'.state = "finished" => Finished'
  BY DEF HeldInOrder, RoundFine, KeptFine, HeardFine, Finished
<1> QED
  BY <1>1, <1>2, <1>3, <1>4, <1>5, <1>6, <1>7, Zenon

\* What Codex keeps stays in order when it takes nothing.
LEMMA HeldSame ==
  ASSUME HeldInOrder, codex'.round = codex.round, codex'.variant = codex.variant,
         codex'.held = codex.held, codex'.state \in {codex.state, "refused"},
         codex.state = "finished" => codex'.state = "finished",
         buffered' = buffered, Len(sess) \in Nat, Len(sess') \in Nat, Len(sess) <= Len(sess'),
         codex.state = "finished" => codex.round \in 1..Len(codex.held),
         \A t \in 1..Len(sess) : sess[t].outcome = "final" =>
           sess'[t].outcome = "final" /\ sess'[t].written = sess[t].written,
         codex.state = "finished" => current' \in {0, current}
  PROVE  HeldInOrder'
<1>1. /\ RoundFine(codex) /\ KeptFine(codex, Len(sess))
      /\ HeardFine(codex, buffered, Len(sess)) /\ (codex.state = "finished" => Finished)
  BY HeldParts
<1>2. RoundFine(codex')
  BY <1>1 DEF RoundFine
<1>3. KeptFine(codex', Len(sess'))
  BY <1>1 DEF KeptFine
<1>4. HeardFine(codex', buffered', Len(sess'))
  <2>1. \A s \in Nat : \A k : /\ Length(codex', s, k) = Length(codex, s, k)
                              /\ IsAnswer(codex, s, k) => IsAnswer(codex', s, k)
    BY DEF Length, IsAnswer
  <2>2. ASSUME NEW s \in Nat, NEW k \in 0..Len(codex'.held)
        PROVE  /\ Length(codex', s, k) \in Nat
               /\ IsAnswer(codex', s, k) \/ HeardIn(codex'.held, s)[k] = Between(0, Length(codex', s, k))
               /\ s \notin 1..Len(sess') => Length(codex', s, k) = 0
               /\ buffered' /\ k < codex'.round => Length(codex', s, k) = 0
    <3>1. /\ Length(codex, s, k) \in Nat
          /\ IsAnswer(codex, s, k) \/ HeardIn(codex.held, s)[k] = Between(0, Length(codex, s, k))
          /\ s \notin 1..Len(sess) => Length(codex, s, k) = 0
          /\ buffered /\ k < codex.round => Length(codex, s, k) = 0
      BY <1>1 DEF HeardFine
    <3>2. s \in 1..Len(sess) => s \in 1..Len(sess')
      OBVIOUS
    <3> QED
      BY <2>1, <3>1, <3>2
  <2> QED
    BY <2>2 DEF HeardFine
<1>5. ASSUME codex'.state = "finished" PROVE Finished'
  <2>1. codex.state = "finished" /\ Finished
    BY <1>1, <1>5
  <2> DEFINE s == codex.held[codex.round].on
  <2>2. s \in 1..Len(sess)
    BY <1>1, <2>1 DEF KeptFine
  <2> DEFINE heard == HeardIn(codex.held, s)[codex.round]
             n == sess[s].written
  <2>3. /\ s = codex'.held[codex'.round].on
        /\ heard = HeardIn(codex'.held, s)[codex'.round]
    OBVIOUS
  <2>4. /\ sess[s].outcome = "final" /\ current \in {0, s} /\ Len(codex.held) = codex.round
        /\ heard = Between(0, n) \/ ReadTwice(codex, buffered, heard, n)
    BY <2>1 DEF Finished
  <2>7. ReadTwice(codex, buffered, heard, n) => ReadTwice(codex', buffered', heard, n)
    BY DEF ReadTwice
  <2>5. current' \in {0, s}
    BY <2>1, <2>4
  <2>6. Len(codex'.held) = codex'.round /\ sess'[s].outcome = "final" /\ sess'[s].written = n
    BY <2>2, <2>4
  <2>8. heard = Between(0, n) \/ ReadTwice(codex', buffered', heard, n)
    BY <2>4, <2>7
  <2> HIDE DEF s, heard, n
  <2> QED
    BY <2>3, <2>5, <2>6, <2>8 DEF Finished
<1> QED
  BY <1>2, <1>3, <1>4, <1>5, HeldParts

\* Codex keeps a response of session s, a list of events and the one that closes it,
\* in the place of round r.
Keeps(held, r, s, list, e, next) ==
  /\ held \in Seq(Responses) /\ r \in 1..(Len(held) + 1) /\ s \in Nat
  /\ list \in Seq(Events) /\ e \in Events
  /\ next = Append(SubSeq(held, 1, r - 1), [on |-> s, events |-> Append(list, e)])

\* The response that is kept, and what Codex has heard then.
LEMMA KeepsFacts ==
  ASSUME NEW held, NEW r, NEW s, NEW list, NEW e, NEW next, Keeps(held, r, s, list, e, next)
  PROVE  /\ next \in Seq(Responses) /\ Len(next) = r /\ next[r].on = s
         /\ next[r].events = Append(list, e) /\ \A k \in 1..(r - 1) : next[k] = held[k]
         /\ \A t : \A k \in 0..(r - 1) : HeardIn(next, t)[k] = HeardIn(held, t)[k]
         /\ HeardIn(next, s)[r] = HeardIn(held, s)[r - 1] \o list
         /\ \A t : t # s => HeardIn(next, t)[r] = HeardIn(held, t)[r - 1] \o <<>>
<1> DEFINE heard == Append(list, e)
           h == [on |-> s, events |-> heard]
<1>1. /\ held \in Seq(Responses) /\ r \in 1..(Len(held) + 1) /\ s \in Nat
      /\ list \in Seq(Events) /\ e \in Events /\ next = Append(SubSeq(held, 1, r - 1), h)
  BY DEF Keeps
<1>2. heard \in Seq(Events) /\ SubSeq(heard, 1, Len(heard) - 1) = list
  BY <1>1, ClosedList
<1> HIDE DEF heard
<1>3. h \in Responses /\ h.on = s /\ h.events = heard
  BY <1>1, <1>2 DEF Responses
<1> HIDE DEF h
<1>4. /\ next \in Seq(Responses) /\ Len(next) = r /\ next[r] = h
      /\ \A k \in 1..(r - 1) : next[k] = held[k]
  BY ONLY <1>1, <1>3, KeptNext
<1>5. ASSUME NEW t PROVE \A k \in 0..(r - 1) : HeardIn(next, t)[k] = HeardIn(held, t)[k]
  BY ONLY <1>1, <1>3, HeardBefore, Zenon
<1>6. ASSUME NEW t PROVE HeardIn(next, t)[r] = HeardIn(held, t)[r - 1] \o Tells(h, t)
  BY ONLY <1>1, <1>3, HeardGrows
<1>7. Tells(h, s) = list /\ \A t : t # s => Tells(h, t) = <<>>
  BY <1>2, <1>3 DEF Tells
<1>8. HeardIn(next, s)[r] = HeardIn(held, s)[r - 1] \o list
  BY ONLY <1>6, <1>7
<1>9. \A t : t # s => HeardIn(next, t)[r] = HeardIn(held, t)[r - 1] \o <<>>
  BY ONLY <1>6, <1>7
<1>10. next[r].on = s /\ next[r].events = heard
  BY <1>3, <1>4
<1> QED
  BY ONLY <1>4, <1>5, <1>8, <1>9, <1>10 DEF heard

\* The text Codex has heard of each session once it hears this response: of its
\* session up to n, of the others what it had.
Reads(held, t, k, n) == n \in Nat /\ HeardIn(held, t)[k] = Between(0, n)

\* Codex reads on where it had stopped.
LEMMA ReadsOn ==
  ASSUME NEW held, NEW r, NEW s, NEW list, NEW e, NEW next, Keeps(held, r, s, list, e, next),
         NEW m \in Nat, NEW n \in Nat, m <= n, list = Between(m, n), Reads(held, s, r - 1, m)
  PROVE  Reads(next, s, r, n)
<1>1. HeardIn(next, s)[r] = HeardIn(held, s)[r - 1] \o list
  BY KeepsFacts
<1>2. HeardIn(next, s)[r] = HeardIn(held, s)[r - 1] \o Between(m, n)
  BY ONLY <1>1, list = Between(m, n)
<1>3. 0 \in Nat /\ 0 <= m
  OBVIOUS
<1>4. Between(0, m) \o Between(m, n) = Between(0, n)
  BY ONLY m \in Nat, n \in Nat, m <= n, <1>3, BetweenJoins
<1> QED
  BY <1>2, <1>4 DEF Reads

\* What Codex has read of the other sessions stays.
LEMMA OthersRead ==
  ASSUME NEW held, NEW r, NEW s, NEW list, NEW e, NEW next, Keeps(held, r, s, list, e, next),
         NEW t, NEW l, t # s, Reads(held, t, r - 1, l)
  PROVE  Reads(next, t, r, l)
<1>1. l \in Nat /\ 0 \in Nat /\ 0 <= l /\ HeardIn(held, t)[r - 1] = Between(0, l)
  BY DEF Reads
<1>2. Between(0, l) \in Seq(Events)
  BY ONLY <1>1, BetweenFacts
<1>3. HeardIn(next, t)[r] = HeardIn(held, t)[r - 1] \o <<>>
  <2>1. \A u : u # s => HeardIn(next, u)[r] = HeardIn(held, u)[r - 1] \o <<>>
    BY KeepsFacts
  <2> QED
    BY ONLY <2>1, t # s
<1>4. Between(0, l) \o <<>> = Between(0, l)
  BY <1>2
<1> QED
  BY <1>1, <1>3, <1>4 DEF Reads

\* A structured answer that came twice is all Codex has heard.
LEMMA TwiceRead ==
  ASSUME NEW held, NEW r, NEW s, NEW n \in Nat, NEW e, NEW next,
         Keeps(held, r, s, Twice(n), e, next), Reads(held, s, r - 1, 0)
  PROVE  HeardIn(next, s)[r] = Twice(n)
<1>1. HeardIn(next, s)[r] = HeardIn(held, s)[r - 1] \o Twice(n)
  BY KeepsFacts
<1>2. HeardIn(held, s)[r - 1] = <<>>
  <2>1. 0 \in Nat /\ 0 <= 0
    OBVIOUS
  <2>2. Between(0, 0) = <<>>
    BY ONLY <2>1, BetweenFacts
  <2> QED
    BY <2>2 DEF Reads
<1>3. Twice(n) \in Seq(Events)
  BY DEF Keeps
<1>4. <<>> \o Twice(n) = Twice(n)
  BY <1>3
<1> QED
  BY <1>1, <1>2, <1>4

\* What is read is as long as its text.
LEMMA ReadsLength ==
  ASSUME NEW c, NEW t, NEW k, NEW n, Reads(c.held, t, k, n)
  PROVE  Length(c, t, k) = n
<1>1. n \in Nat /\ 0 \in Nat /\ 0 <= n
  BY DEF Reads
<1>2. Len(Between(0, n)) = n - 0
  BY ONLY <1>1, BetweenFacts
<1> QED
  BY <1>1, <1>2 DEF Reads, Length

\* A whole response: what Codex keeps of it, and the round it is in then.
TakesCalls(y, k, m, n, list, e) ==
  /\ codex'.round = codex.round + 1 /\ codex'.variant = 1 /\ codex'.state = "asking"
  /\ e \in ToolEvents /\ n = Shown(buffered, y) /\ m <= n /\ list = Between(m, n)
  /\ CallsTold(buffered, y, k, m, e.calls) /\ e = Batch(e.calls)
TakesAnswer(y, k, m, n, list, e) ==
  /\ codex'.round = codex.round /\ codex'.variant = codex.variant /\ codex'.state = "finished"
  /\ e = DoneEvent /\ n = y.written /\ m <= Shown(buffered, y) /\ m <= n
  /\ \/ ToldOnce(buffered, y, k, m) /\ list = Between(m, n)
     \/ ToldTwice(buffered, y, k) /\ list = Twice(n)
Takes(o, y, m, n, list, e) ==
  /\ m \in Nat /\ n \in Nat /\ (buffered => m = 0)
  /\ Keeps(codex.held, codex.round, obs[o].on, list, e, codex'.held)
  /\ Reads(codex.held, obs[o].on, codex.round - 1, m)
  /\ m = Length(codex, obs[o].on, codex.round - 1)
  /\ obs[o].key = <<codex.round, codex.variant>>
  /\ codex'.live = Nobody /\ codex' \in Codexes /\ Elsewhere(Of(o), y, obs[o].key)
  /\ e \in ToolEvents => IsAgain(codex, obs[o].on) \/ Of(o).outstanding = {}
  /\ \/ TakesCalls(y, obs[o].key, m, n, list, e)
     \/ TakesAnswer(y, obs[o].key, m, n, list, e)

\* A response Codex takes continues what it has kept.
LEMMA TakesFacts ==
  ASSUME RoundsIInv, NEW o \in Observers, o = codex.live, NEW y, NEW z, NEW heard, Ended(o, y, z, heard)
  PROVE  \/ ~Whole(heard) /\ Quiet(Of(o), y, obs[o].key, obs[o].pc)
         \/ \E m, n, list, e : Takes(o, y, m, n, list, e)
<1> DEFINE s == obs[o].on
           k == obs[o].key
           r == codex.round
           m == Length(codex, s, r - 1)
<1>1. RoundsTyped /\ HeldInOrder /\ LiveIsLast
  BY DEF RoundsIInv
<1>2. codex.state = "asking" /\ obs[o].pc # "idle" /\ IsHere(s)
  <2>1. o # Nobody
    BY RoundsAssumption
  <2> QED
    BY <1>1, <2>1 DEF LiveIsLast, IsHere
<1>3. /\ s \in Nat /\ m \in Nat /\ (buffered => m = 0) /\ r \in Nat \ {0}
      /\ k = <<r, codex.variant>>
  <2>1. /\ s \in 1..Len(sess) /\ m \in Nat /\ (buffered => m = 0) /\ r \in Nat \ {0}
        /\ k = <<r, codex.variant>>
    BY <1>2, HereFacts
  <2> HIDE DEF m, r, s
  <2> QED
    BY <2>1
<1>4. r \in 1..(Len(codex.held) + 1) /\ r - 1 \in 0..Len(codex.held) /\ codex.held \in Seq(Responses)
  <2>1. codex.held \in Seq(Responses)
    BY <1>1 DEF RoundsTyped, Codexes
  <2>2. Len(codex.held) = r - 1 \/ Len(codex.held) = r
    BY <1>1 DEF HeldInOrder
  <2> HIDE DEF m, r, s
  <2> QED
    BY <1>3, <2>1, <2>2
<1>5. Reads(codex.held, s, r - 1, m)
  <2>1. ~IsAnswer(codex, s, r - 1)
    BY <1>2 DEF IsAnswer
  <2> QED
    BY <1>1, <1>3, <1>4, <2>1 DEF HeldInOrder, Reads
<1>6. Whole(heard) => HearsWhole(codex, codex', s, heard)
  BY <1>1, EndedCodex
<1>7. \/ ~Whole(heard) /\ Quiet(Of(o), y, k, obs[o].pc)
      \/ heard = y.journal[k] /\ (HearsCalls(o, y, m) \/ HearsAnswer(o, y, m))
  BY WhatIsHeard
<1>8. y \in Surfaces
  BY DEF Ended, Leaves
<1> HIDE DEF m, r, s, k
<1>9. CASE heard = y.journal[k] /\ HearsCalls(o, y, m)
  <2>1. PICK calls : CallsTold(buffered, y, k, m, calls)
    BY <1>9 DEF HearsCalls, k
  <2> DEFINE e == Batch(calls)
             n == Shown(buffered, y)
             list == Between(m, n)
  <2>2. calls \in SUBSET Tools /\ y.journal[k] = Append(list, e) /\ m <= n
    BY <2>1 DEF CallsTold
  <2>3. n \in Nat
    BY <1>8, Shows
  <2>4. e \in ToolEvents /\ e \in Events /\ e.calls = calls /\ e \notin {DoneEvent}
    BY <2>2, Kinds
  <2> HIDE DEF e, n
  <2>12. list \in Seq(Events)
    BY ONLY <1>3, <2>2, <2>3, BetweenFacts
  <2>13. list = Between(m, n)
    OBVIOUS
  <2> HIDE DEF list
  <2>5. heard = Append(list, e)
    BY <1>9, <2>2
  <2>6. LastOf(heard) = e /\ Whole(heard)
    BY <2>4, <2>5, <2>12, ClosedList DEF Whole
  <2>7. /\ codex'.round = r + 1 /\ codex'.variant = 1 /\ codex'.state = "asking"
        /\ codex'.held = Append(SubSeq(codex.held, 1, r - 1), [on |-> s, events |-> heard])
        /\ codex'.live = Nobody /\ codex' \in Codexes
    BY <1>2, <1>6, <2>4, <2>6 DEF HearsWhole, r
  <2>8. Keeps(codex.held, r, s, list, e, codex'.held)
    BY <1>3, <1>4, <2>4, <2>5, <2>7, <2>12 DEF Keeps
  <2>9. TakesCalls(y, k, m, n, list, e)
    BY <2>1, <2>2, <2>4, <2>7, <2>13 DEF TakesCalls, r, e, n
  <2>10. Takes(o, y, m, n, list, e)
    BY <1>3, <1>5, <1>9, <2>3, <2>7, <2>8, <2>9 DEF HearsCalls, Takes, m, r, s, k
  <2> QED
    BY <2>10
<1>10. CASE heard = y.journal[k] /\ HearsAnswer(o, y, m)
  <2> DEFINE n == y.written
  <2>8. n \in Nat /\ m <= Shown(buffered, y)
    BY <1>8, <1>10, SurfaceFields DEF HearsAnswer
  <2>9. m <= n
    <3>1. CASE ToldOnce(buffered, y, k, m)
      BY <3>1 DEF ToldOnce, AllTold
    <3>2. CASE ToldTwice(buffered, y, k)
      <4>1. m = 0
        BY <1>3, <3>2 DEF ToldTwice
      <4> QED
        BY <2>8, <4>1
    <3> QED
      BY <1>10, <3>1, <3>2 DEF HearsAnswer, ToldDone, k
  <2>10. PICK list : /\ y.journal[k] = Append(list, DoneEvent)
                     /\ \/ ToldOnce(buffered, y, k, m) /\ list = Between(m, n)
                        \/ ToldTwice(buffered, y, k) /\ list = Twice(n)
    BY <1>10 DEF HearsAnswer, ToldDone, ToldOnce, ToldTwice, k
  <2> HIDE DEF n
  <2>1. heard = Append(list, DoneEvent)
    BY <1>10, <2>10
  <2>2. list \in Seq(Events)
    <3>1. 0 \in Nat /\ 0 <= n
      BY <2>8
    <3>2. Between(m, n) \in Seq(Events)
      BY ONLY <1>3, <2>8, <2>9, BetweenFacts
    <3>3. Between(0, n) \in Seq(Events)
      BY ONLY <2>8, <3>1, BetweenFacts
    <3>4. Twice(n) \in Seq(Events)
      BY <3>3 DEF Twice
    <3> QED
      BY <2>10, <3>2, <3>4
  <2>3. /\ LastOf(heard) = DoneEvent /\ DoneEvent \notin ToolEvents /\ DoneEvent \in Events
        /\ Whole(heard)
    BY <2>1, <2>2, Kinds, ClosedList DEF Whole
  <2>4. /\ codex'.round = r /\ codex'.variant = codex.variant /\ codex'.state = "finished"
        /\ codex'.held = Append(SubSeq(codex.held, 1, r - 1), [on |-> s, events |-> heard])
        /\ codex'.live = Nobody /\ codex' \in Codexes
    BY <1>6, <2>3 DEF HearsWhole, r
  <2>5. Keeps(codex.held, r, s, list, DoneEvent, codex'.held)
    BY <1>3, <1>4, <2>1, <2>2, <2>3, <2>4 DEF Keeps
  <2>6. TakesAnswer(y, k, m, n, list, DoneEvent)
    BY <2>4, <2>8, <2>9, <2>10 DEF TakesAnswer, r, n
  <2>7. Takes(o, y, m, n, list, DoneEvent)
    BY <1>3, <1>5, <1>10, <2>3, <2>4, <2>5, <2>6, <2>8 DEF HearsAnswer, Takes, m, r, s, k
  <2> QED
    BY <2>7
<1> QED
  BY <1>7, <1>9, <1>10 DEF k

\* What Codex keeps of a whole response is in order.
LEMMA TakesInOrder ==
  ASSUME RoundsIInv, NEW o \in Observers, o = codex.live, NEW y, NEW z, NEW heard, Ended(o, y, z, heard),
         NEW m, NEW n, NEW list, NEW e, Takes(o, y, m, n, list, e)
  PROVE  HeldInOrder'
<1> DEFINE s == obs[o].on
           r == codex.round
           c == codex
           d == codex'
<1>1. RoundsTyped /\ HeldInOrder /\ LiveIsLast
  BY DEF RoundsIInv
<1>2. /\ s \in 1..Len(sess) /\ Len(sess') = Len(sess) /\ sess'[s] = z /\ Content(y, z)
      /\ current' \in {current, 0} /\ buffered' = buffered
  BY DEF Ended, Moved
<1>3. /\ m \in Nat /\ n \in Nat /\ (buffered => m = 0)
      /\ Keeps(c.held, r, s, list, e, d.held) /\ Reads(c.held, s, r - 1, m)
  BY DEF Takes
<1> HIDE DEF c, d, r, s
<1>4. r \in Nat \ {0} /\ r - 1 \in 0..Len(c.held) /\ Len(sess) \in Nat /\ Len(c.held) \in Nat
  <2>1. r \in Nat \ {0} /\ c.held \in Seq(Responses) /\ sess \in Seq(Surfaces)
    BY <1>1 DEF RoundsTyped, Codexes, c, r
  <2>2. Len(c.held) = r - 1 \/ Len(c.held) = r
    BY <1>1 DEF HeldInOrder, c, r
  <2> QED
    BY <2>1, <2>2
<1>5. /\ Len(d.held) = r /\ d.held[r].on = s /\ d.held[r].events = Append(list, e)
      /\ \A k \in 1..(r - 1) : d.held[k] = c.held[k]
      /\ \A t : \A k \in 0..(r - 1) : HeardIn(d.held, t)[k] = HeardIn(c.held, t)[k]
  BY <1>3, KeepsFacts
<1>6. /\ d.held[r].events # <<>> /\ LastOf(d.held[r].events) = e
  <2>1. list \in Seq(Events) /\ e \in Events
    BY <1>3 DEF Keeps
  <2> QED
    BY <1>5, <2>1, ClosedList
<1>8. KeptFine(c, Len(sess)) /\ HeardFine(c, buffered, Len(sess))
  BY <1>1, HeldParts DEF c
<1>7. \A t, k : ~IsAnswer(c, t, k)
  <2>1. o # Nobody
    BY RoundsAssumption
  <2>2. c.state = "asking"
    BY <1>1, <2>1 DEF LiveIsLast, c
  <2> QED
    BY <2>2 DEF IsAnswer
<1>9. ASSUME NEW t \in Nat, t # s PROVE Reads(d.held, t, r, Length(c, t, r - 1))
  <2>2. Reads(c.held, t, r - 1, Length(c, t, r - 1))
    BY <1>4, <1>7, <1>8 DEF HeardFine, Reads
  <2> QED
    BY <1>3, <1>9, <2>2, OthersRead
<1>10. ASSUME NEW t \in Nat, t # s
       PROVE  /\ Length(d, t, r) = Length(c, t, r - 1)
              /\ HeardIn(d.held, t)[r] = Between(0, Length(d, t, r))
  BY <1>9, <1>10, ReadsLength DEF Reads
<1>11. \A t \in Nat : \A k \in 0..(r - 1) : Length(d, t, k) = Length(c, t, k)
  BY <1>5 DEF Length
<1>12. ASSUME NEW q \in Nat, d.round = q, q <= r + 1, Length(d, s, r) \in Nat,
              IsAnswer(d, s, r) \/ Reads(d.held, s, r, n),
              buffered /\ q = r + 1 => n = 0 /\ ~IsAnswer(d, s, r)
       PROVE  HeardFine(d, buffered, Len(sess))
  <2>1. ASSUME NEW t \in Nat, NEW k \in 0..Len(d.held)
        PROVE  /\ Length(d, t, k) \in Nat
               /\ IsAnswer(d, t, k) \/ HeardIn(d.held, t)[k] = Between(0, Length(d, t, k))
               /\ t \notin 1..Len(sess) => Length(d, t, k) = 0
               /\ buffered /\ k < q => Length(d, t, k) = 0
    <3>1. CASE k = r /\ t # s
      <4>1. r - 1 \in 0..Len(c.held) /\ r - 1 < r
        BY <1>4
      <4>2. /\ Length(c, t, r - 1) \in Nat /\ (t \notin 1..Len(sess) => Length(c, t, r - 1) = 0)
            /\ buffered => Length(c, t, r - 1) = 0
        BY <1>8, <4>1 DEF HeardFine, c, r
      <4> QED
        BY <1>10, <3>1, <4>2
    <3>2. CASE k = r /\ t = s
      <4>1. Reads(d.held, s, r, n) => /\ Length(d, s, r) = n
                                      /\ HeardIn(d.held, s)[r] = Between(0, Length(d, s, r))
        BY ReadsLength DEF Reads
      <4>2. buffered /\ k < q => Length(d, s, r) = 0
        BY <1>4, <1>12, <3>2, <4>1
      <4> QED
        BY <1>2, <1>12, <3>2, <4>1, <4>2
    <3>3. CASE k # r
      <4>1. k \in 0..(r - 1) /\ k \in 0..Len(c.held) /\ k < r
        BY <1>4, <1>5, <3>3
      <4>2. /\ Length(c, t, k) \in Nat /\ HeardIn(c.held, t)[k] = Between(0, Length(c, t, k))
            /\ t \notin 1..Len(sess) => Length(c, t, k) = 0
            /\ buffered => Length(c, t, k) = 0
        BY <1>7, <1>8, <4>1 DEF HeardFine, c, r
      <4> QED
        BY <1>5, <1>11, <4>1, <4>2
    <3> QED
      BY <3>1, <3>2, <3>3
  <2> QED
    BY <1>12, <2>1 DEF HeardFine
<1>13. CASE TakesCalls(y, obs[o].key, m, n, list, e)
  <2>1. /\ d.round = r + 1 /\ d.variant = 1 /\ d.state = "asking" /\ e \in ToolEvents
        /\ (buffered => n = 0) /\ m <= n /\ list = Between(m, n)
    BY <1>13 DEF TakesCalls, d, r, Shown
  <2>2. RoundFine(d)
    BY <1>4, <1>5, <2>1 DEF RoundFine
  <2>3. KeptFine(d, Len(sess))
    <3>1. ASSUME NEW k \in 1..Len(d.held)
          PROVE  /\ d.held[k].on \in 1..Len(sess) /\ d.held[k].events # <<>>
                 /\ LastOf(d.held[k].events) \in ToolEvents
      <4>1. CASE k = r
        BY <1>2, <1>5, <1>6, <2>1, <4>1
      <4>2. CASE k # r
        <5>1. k \in 1..(r - 1) /\ k \in 1..Len(c.held) /\ k < c.round
          BY <1>4, <1>5, <4>2 DEF r, c
        <5> QED
          BY <1>5, <1>8, <5>1 DEF KeptFine
      <4> QED
        BY <4>1, <4>2
    <3> QED
      BY <3>1 DEF KeptFine
  <2>4. HeardFine(d, buffered, Len(sess))
    <3>1. r + 1 \in Nat /\ r + 1 <= r + 1
      BY <1>4
    <3>2. Reads(d.held, s, r, n)
      BY <1>3, <2>1, ReadsOn
    <3>3. Length(d, s, r) \in Nat
      BY <1>3, <3>2, ReadsLength
    <3>4. ~IsAnswer(d, s, r)
      BY <2>1 DEF IsAnswer
    <3> QED
      BY <1>12, <2>1, <3>1, <3>2, <3>3, <3>4
  <2> QED
    BY <1>2, <2>1, <2>2, <2>3, <2>4, HeldParts DEF d
<1>14. CASE TakesAnswer(y, obs[o].key, m, n, list, e)
  <2>1. /\ d.round = r /\ d.state = "finished" /\ n = y.written /\ y.outcome = "final"
        /\ d.variant = c.variant /\ m <= n
        /\ \/ list = Between(m, n)
           \/ buffered /\ obs[o].key[2] = 2 /\ list = Twice(n)
    BY <1>14 DEF TakesAnswer, ToldOnce, ToldTwice, AllTold, c, d, r
  <2>6. \/ Reads(d.held, s, r, n)
        \/ ReadTwice(d, buffered, HeardIn(d.held, s)[r], n)
    <3>1. CASE list = Between(m, n)
      BY <1>3, <2>1, <3>1, ReadsOn
    <3>2. CASE buffered /\ obs[o].key[2] = 2 /\ list = Twice(n)
      <4>1. c.variant = 2
        BY <3>2 DEF Takes, c
      <4>2. HeardIn(d.held, s)[r] = Twice(n)
        BY <1>3, <3>2, TwiceRead
      <4> QED
        BY <2>1, <3>2, <4>1, <4>2 DEF ReadTwice
    <3> QED
      BY <2>1, <3>1, <3>2
  <2>7. Length(d, s, r) \in Nat
    <3>1. CASE Reads(d.held, s, r, n)
      BY <1>3, <3>1, ReadsLength
    <3>2. CASE ReadTwice(d, buffered, HeardIn(d.held, s)[r], n)
      <4>1. n \in Nat /\ 0 \in Nat /\ 0 <= n
        BY <1>3
      <4>2. Between(0, n) \in Seq(Events)
        BY ONLY <4>1, BetweenFacts
      <4>3. Len(Twice(n)) \in Nat
        BY <4>2 DEF Twice
      <4> QED
        BY <3>2, <4>3 DEF ReadTwice, Length
    <3> QED
      BY <2>6, <3>1, <3>2
  <2>2. RoundFine(d)
    BY <1>4, <1>5, <2>1 DEF RoundFine
  <2>3. KeptFine(d, Len(sess))
    <3>1. ASSUME NEW k \in 1..Len(d.held)
          PROVE  /\ d.held[k].on \in 1..Len(sess) /\ d.held[k].events # <<>>
                 /\ k < r => LastOf(d.held[k].events) \in ToolEvents
      <4>1. CASE k = r
        BY <1>2, <1>4, <1>5, <1>6, <4>1
      <4>2. CASE k # r
        <5>1. k \in 1..(r - 1) /\ k \in 1..Len(c.held) /\ k < c.round
          BY <1>4, <1>5, <4>2 DEF r, c
        <5> QED
          BY <1>5, <1>8, <5>1 DEF KeptFine
      <4> QED
        BY <4>1, <4>2
    <3> QED
      BY <2>1, <3>1 DEF KeptFine
  <2>4. HeardFine(d, buffered, Len(sess))
    <3>1. r \in Nat /\ r <= r + 1 /\ r # r + 1
      BY <1>4
    <3>2. IsAnswer(d, s, r)
      BY <1>5, <2>1 DEF IsAnswer
    <3> QED
      BY <1>12, <2>1, <2>7, <3>1, <3>2
  <2>5. Finished'
    <3>1. \/ HeardIn(d.held, s)[r] = Between(0, n)
          \/ ReadTwice(d, buffered', HeardIn(d.held, s)[r], n)
      BY <1>2, <2>6 DEF Reads, ReadTwice
    <3>2. current \in {0, s}
      <4>1. o # Nobody
        BY RoundsAssumption
      <4> QED
        BY <1>1, <4>1 DEF LiveIsLast, s
    <3>3. z.outcome = "final" /\ z.written = n /\ current' \in {0, s}
      BY <1>2, <2>1, <3>2 DEF Content
    <3> QED
      BY <1>2, <1>5, <2>1, <3>1, <3>3 DEF Finished, d
  <2> QED
    BY <1>2, <2>2, <2>3, <2>4, <2>5, HeldParts DEF d
<1> QED
  BY <1>13, <1>14 DEF Takes

\* Codex takes nothing, and the answers stay as they are.
LEMMA SameHeld ==
  ASSUME RoundsIInv, codex'.round = codex.round, codex'.variant = codex.variant,
         codex'.held = codex.held, codex'.state \in {codex.state, "refused"},
         codex.state = "finished" => codex'.state = "finished",
         buffered' = buffered, sess' \in Seq(Surfaces), Len(sess) <= Len(sess'),
         \A t \in 1..Len(sess) : sess[t].outcome = "final" =>
           sess'[t].outcome = "final" /\ sess'[t].written = sess[t].written,
         codex.state = "finished" => current' \in {0, current}
  PROVE  HeldInOrder'
<1>1. RoundsTyped /\ HeldInOrder
  BY DEF RoundsIInv
<1>2. sess \in Seq(Surfaces) /\ codex.round \in Nat \ {0}
  BY <1>1 DEF RoundsTyped, Codexes
<1>3. Len(sess) \in Nat /\ Len(sess') \in Nat
  BY <1>2
<1>4. codex.state = "finished" => codex.round \in 1..Len(codex.held)
  <2>1. codex.state = "finished" => Len(codex.held) = codex.round
    BY <1>1 DEF HeldInOrder
  <2> QED
    BY <1>2, <2>1
<1> QED
  BY <1>1, <1>3, <1>4, HeldSame

\* Every step keeps what Codex has taken in order.
LEMMA HeldKept ==
  ASSUME RoundsIInv, StepKind
  PROVE  HeldInOrder'
<1>1. RoundsTyped /\ HeldInOrder /\ LiveIsLast
  BY DEF RoundsIInv
<1>2. Len(sess) \in Nat
  BY <1>1 DEF RoundsTyped
<1>3. ASSUME NEW s \in 1..Len(sess), NEW y, Moved(s, y),
             sess[s].outcome = "final" => y.outcome = "final" /\ y.written = sess[s].written
      PROVE  /\ sess' \in Seq(Surfaces) /\ Len(sess) <= Len(sess')
             /\ \A t \in 1..Len(sess) : sess[t].outcome = "final" =>
                  sess'[t].outcome = "final" /\ sess'[t].written = sess[t].written
  <2>1. ASSUME NEW t \in 1..Len(sess), sess[t].outcome = "final"
        PROVE  sess'[t].outcome = "final" /\ sess'[t].written = sess[t].written
    <3>1. CASE t = s
      BY <1>3, <2>1, <3>1 DEF Moved
    <3>2. CASE t # s
      BY <1>3, <2>1, <3>2 DEF Moved
    <3> QED
      BY <3>1, <3>2
  <2> QED
    BY <1>2, <1>3, <2>1 DEF Moved
<1>4. ASSUME NEW s, NEW y, Browses(s, y) PROVE HeldInOrder'
  <2>1. s \in 1..Len(sess) /\ Moved(s, y) /\ sess[s].outcome # "final"
    BY <1>4 DEF Browses, BrowserStep
  <2> QED
    BY <1>3, <1>4, <2>1, SameHeld DEF Browses
<1>5. ASSUME NEW o \in Observers, NEW y, NEW a, Went(o, y, a) PROVE HeldInOrder'
  <2>1. /\ obs[o].on \in 1..Len(sess) /\ Moved(obs[o].on, y)
        /\ y.outcome = sess[obs[o].on].outcome /\ y.written = sess[obs[o].on].written
    BY <1>5 DEF Went, Proceeds, Served, Of
  <2> QED
    BY <1>3, <1>5, <2>1, SameHeld DEF Went
<1>6. ASSUME NEW o \in Observers, NEW y, NEW z, NEW heard, Ended(o, y, z, heard) PROVE HeldInOrder'
  <2>1. /\ obs[o].on \in 1..Len(sess) /\ Moved(obs[o].on, z)
        /\ z.outcome = sess[obs[o].on].outcome /\ z.written = sess[obs[o].on].written
        /\ buffered' = buffered /\ current' \in {current, 0}
    BY <1>6 DEF Ended, Leaves, Content, Served, Of
  <2>2. CASE o = codex.live /\ Whole(heard)
    <3>1. PICK m, n, list, e : Takes(o, y, m, n, list, e)
      <4>1. \E m, n, list, e : Takes(o, y, m, n, list, e)
        BY <1>6, <2>2, TakesFacts
      <4> QED
        BY <4>1
    <3> QED
      BY <1>6, <2>2, <3>1, TakesInOrder
  <2>3. CASE ~(o = codex.live /\ Whole(heard))
    <3>1. /\ codex'.round = codex.round /\ codex'.variant = codex.variant
          /\ codex'.held = codex.held /\ codex'.state \in {codex.state, "refused"}
          /\ codex.state = "finished" => codex'.state = "finished"
      <4>1. CASE o = codex.live
        <5>1. codex.state = "asking"
          <6>1. o # Nobody
            BY RoundsAssumption
          <6> QED
            BY <1>1, <4>1, <6>1 DEF LiveIsLast
        <5> QED
          BY <1>1, <1>6, <2>3, <5>1, EndedCodex DEF HearsNothing
      <4>2. CASE o # codex.live
        BY <1>6, <4>2 DEF Ended
      <4> QED
        BY <4>1, <4>2
    <3> QED
      BY <1>3, <2>1, <3>1, SameHeld
  <2> QED
    BY <2>2, <2>3
<1>7. ASSUME NEW o \in Observers, NEW s, NEW y, NEW a, Asks(o, s, y, a) PROVE HeldInOrder'
  <2>1. /\ codex'.round = codex.round /\ codex'.variant = codex.variant
        /\ codex'.held = codex.held /\ codex'.state = codex.state
    BY <1>1, <1>7 DEF Asks, RoundsTyped, Codexes
  <2>2. /\ sess' \in Seq(Surfaces) /\ Len(sess) <= Len(sess') /\ buffered' = buffered
        /\ codex.state = "asking"
        /\ \A t \in 1..Len(sess) :
             sess'[t].outcome = sess[t].outcome /\ sess'[t].written = sess[t].written
    BY <1>7 DEF Asks
  <2> QED
    BY <2>1, <2>2, SameHeld
<1>8. ASSUME NEW a, Lost(a) PROVE HeldInOrder'
  BY <1>1, <1>2, <1>8, SameHeld DEF Lost, RoundsTyped
<1>9. ASSUME Asks2 PROVE HeldInOrder'
  <2> DEFINE c == codex
             d == codex'
  <2>1. /\ c.live = Nobody /\ c.held # <<>> /\ c.variant = 1 /\ c.held \in Seq(Responses)
        /\ d.held = c.held /\ d.round = Len(c.held) /\ d.variant = 2 /\ d.state = "asking"
        /\ buffered' = buffered /\ sess' = sess /\ c.round \in Nat
    BY <1>1, <1>9 DEF Asks2, RoundsTyped, Codexes
  <2>6. c.round \in Nat \ {0}
    BY <1>1 DEF RoundsTyped, Codexes
  <2>2. KeptFine(c, Len(sess)) /\ HeardFine(c, buffered, Len(sess)) /\ RoundFine(c)
    BY <1>1, HeldParts
  <2> HIDE DEF c, d
  <2>3. RoundFine(d)
    BY <2>1 DEF RoundFine
  <2>4. KeptFine(d, Len(sess))
    <3>1. Len(c.held) <= c.round
      BY <2>1, <2>2 DEF RoundFine
    <3> QED
      BY <2>1, <2>2, <3>1 DEF KeptFine
  <2>5. HeardFine(d, buffered, Len(sess))
    <3>1. \A t \in Nat : \A k : Length(d, t, k) = Length(c, t, k)
      BY <2>1 DEF Length
    <3>2. ASSUME NEW t \in Nat, NEW k \in 0..Len(c.held), IsAnswer(c, t, k)
          PROVE  HeardIn(c.held, t)[k] = Between(0, Length(c, t, k))
      <4>1. /\ c.state = "finished" /\ k = c.round /\ t = c.held[c.round].on
            /\ HeardIn(c.held, t)[k] = Between(0, sess[t].written)
        BY <1>1, <2>1, <3>2 DEF IsAnswer, HeldInOrder, ReadTwice, c
      <4>2. t \in 1..Len(sess)
        <5>1. k \in 1..Len(c.held)
          BY <2>1, <2>6, <4>1
        <5> QED
          BY <2>2, <4>1, <5>1 DEF KeptFine
      <4>3. sess[t].written \in Nat
        <5>1. sess[t] \in Surfaces
          BY <1>1, <4>2 DEF RoundsTyped
        <5> QED
          BY <5>1, SurfaceFields
      <4>4. Reads(c.held, t, k, sess[t].written)
        BY <4>1, <4>3 DEF Reads
      <4>5. Length(c, t, k) = sess[t].written
        BY <4>4, ReadsLength
      <4> QED
        BY <4>1, <4>5
    <3>3. Len(c.held) <= c.round /\ Len(c.held) \in Nat
      BY <2>1, <2>2 DEF RoundFine
    <3>4. ASSUME NEW t \in Nat, NEW k \in 0..Len(d.held)
          PROVE  /\ Length(d, t, k) \in Nat
                 /\ HeardIn(d.held, t)[k] = Between(0, Length(d, t, k))
                 /\ t \notin 1..Len(sess) => Length(d, t, k) = 0
                 /\ buffered /\ k < d.round => Length(d, t, k) = 0
      <4>1. k \in 0..Len(c.held) /\ (k < d.round => k < c.round)
        BY <2>1, <3>3
      <4>2. /\ Length(c, t, k) \in Nat
            /\ IsAnswer(c, t, k) \/ HeardIn(c.held, t)[k] = Between(0, Length(c, t, k))
            /\ t \notin 1..Len(sess) => Length(c, t, k) = 0
            /\ buffered /\ k < c.round => Length(c, t, k) = 0
        BY <2>2, <4>1 DEF HeardFine
      <4>3. HeardIn(c.held, t)[k] = Between(0, Length(c, t, k))
        BY <3>2, <4>1, <4>2
      <4>4. d.held = c.held
        BY <2>1
      <4> QED
        BY <3>1, <4>1, <4>2, <4>3, <4>4
    <3> QED
      BY <3>4 DEF HeardFine
  <2> QED
    BY <2>1, <2>3, <2>4, <2>5, HeldParts DEF d
<1>10. ASSUME Rests PROVE HeldInOrder'
  BY <1>1, <1>2, <1>10, SameHeld DEF Rests, RoundsTyped
<1> QED
  BY <1>4, <1>5, <1>6, <1>7, <1>8, <1>9, <1>10 DEF StepKind

-----------------------------------------------------------------------------
(* The browser and Codex stay in step.                                       *)

\* The browser Codex is with may be asked.
LEMMA HereWorks ==
  ASSUME RoundsIInv, NEW s \in 1..Len(sess), IsHere(s)
  PROVE  sess[s] \in Surfaces /\ Works(sess[s])
<1>1. RoundsTyped /\ RoundsQueued /\ SurfacesWork /\ LiveIsLast
  BY DEF RoundsIInv
<1>2. sess[s] \in Surfaces
  BY <1>1 DEF RoundsTyped
<1>3. CASE s = current
  BY <1>1, <1>2, <1>3 DEF SurfacesWork
<1>4. CASE codex.live # Nobody /\ s = obs[codex.live].on
  <2>1. codex.live \in Observers /\ obs[codex.live].pc # "idle"
    BY <1>1, <1>4 DEF LiveIsLast, RoundsTyped, Codexes
  <2> QED
    BY <1>1, <1>2, <1>4, <2>1, RequestFacts
<1> QED
  BY <1>3, <1>4 DEF IsHere

\* A request that has not moved is still for the round Codex is in.
LEMMA RequestsSame ==
  ASSUME NEW s, RequestsHere(s), codex'.round = codex.round, codex'.variant = codex.variant,
         codex'.held = codex.held,
         \A o \in Observers : obs'[o].pc # "idle" /\ obs'[o].on = s =>
           obs'[o].pc = obs[o].pc /\ obs'[o].on = obs[o].on /\ obs'[o].key = obs[o].key,
         sess'[s].outcome = sess[s].outcome \/ (IsAgain(codex, s) => sess'[s].outcome # "final")
  PROVE  RequestsHere(s)'
<1>1. IsAgain(codex', s) <=> IsAgain(codex, s)
  BY DEF IsAgain
<1>2. ASSUME NEW o \in Observers, obs'[o].pc # "idle", obs'[o].on = s
      PROVE  /\ obs'[o].key = <<codex'.round, codex'.variant>>
             /\ IsAgain(codex', s) =>
                  /\ codex'.variant = 2
                  /\ obs'[o].pc = "queued" \/ (obs'[o].pc = "token" /\ sess'[s].outcome # "final")
  <2>1. obs'[o].pc = obs[o].pc /\ obs'[o].on = obs[o].on /\ obs'[o].key = obs[o].key
    BY <1>2
  <2>2. /\ obs[o].key = <<codex.round, codex.variant>>
        /\ IsAgain(codex, s) =>
             /\ codex.variant = 2
             /\ obs[o].pc = "queued" \/ (obs[o].pc = "token" /\ sess[s].outcome # "final")
    BY <1>2, <2>1 DEF RequestsHere
  <2> QED
    BY <1>1, <2>1, <2>2
<1> QED
  BY <1>2 DEF RequestsHere

\* The browser of a request that is answered again has not got its answer, and waits
\* for results.
LEMMA AgainWaits ==
  ASSUME RoundsIInv, NEW s \in 1..Len(sess), IsHere(s), IsAgain(codex, s), codex.state # "refused",
         sess[s].outcome # "final"
  PROVE  Again(codex, buffered, sess[s], s) /\ sess[s].outstanding # {}
<1>1. Again(codex, buffered, sess[s], s)
  BY DEF RoundsIInv, RoundsFollow, Follows
<1> QED
  BY <1>1 DEF Again

\* What a browser does with its page leaves what it has told.
LEMMA BrowsesFollows ==
  ASSUME RoundsIInv, codex.state # "refused", NEW s, NEW y, Browses(s, y), IsHere(s)
  PROVE  /\ Follows(codex, buffered, y, s)
         /\ IsAgain(codex, s) => y.outcome # "final"
<1> DEFINE x == sess[s]
<1>1. s \in 1..Len(sess) /\ y \in Surfaces /\ Kept(x, y) /\ x.outcome = "running"
  BY DEF Browses, BrowserStep
<1>2. x \in Surfaces /\ Works(x) /\ Works(y)
  BY <1>1, HereWorks DEF Browses, BrowserStep
<1>3. Follows(codex, buffered, x, s)
  BY <1>1 DEF RoundsIInv, RoundsFollow
<1>4. x.final = <<>>
  BY <1>1, <1>2 DEF Works
<1>5. IsAgain(codex, s) => Again(codex, buffered, x, s) /\ x.outstanding # {}
  BY <1>1, AgainWaits
<1> HIDE DEF x
<1>10. Shown(buffered, y) = Shown(buffered, x)
  BY <1>1 DEF Kept, Shown
<1>6. y.outstanding # {} => y.outcome # "final"
  BY <1>2 DEF Works, CallsIn
<1>7. \A k \in RoundKeys : Later(codex, k) => Fresh(y, k)
  BY <1>1, <1>3 DEF Follows, Kept, Fresh, Untold, Broken
<1>8. CASE IsAgain(codex, s)
  <2>1. Again(codex, buffered, x, s) /\ y.outstanding # {} /\ y.outcome # "final"
    BY <1>1, <1>5, <1>6, <1>8 DEF Kept
  <2>2. \A k, m : /\ Fresh(x, k) => Fresh(y, k)
                  /\ ToldTools(buffered, x, k, m) => ToldTools(buffered, y, k, m)
                  /\ ~ToldDone(buffered, x, k, m)
    BY <1>1, <1>10 DEF Kept, Fresh, Untold, Broken, ToldTools, ToldDone, ToldOnce, ToldTwice, AllTold
  <2>3. Again(codex, buffered, y, s)
    BY <1>1, <1>10, <2>1, <2>2 DEF Again, Kept
  <2> QED
    BY <1>7, <1>8, <2>1, <2>3 DEF Follows
<1>9. CASE ~IsAgain(codex, s)
  <2>1. Onward(codex, buffered, x, s)
    BY <1>3, <1>9 DEF Follows
  <2>2. \A k, m : /\ Fresh(x, k) => Fresh(y, k)
                  /\ ToldTools(buffered, x, k, m) => ToldTools(buffered, y, k, m)
                  /\ Broken(x, k) => Broken(y, k)
                  /\ Telling(buffered, x, k, m) => Telling(buffered, y, k, m)
                  /\ ~ToldDone(buffered, x, k, m)
    BY <1>1, <1>4, <1>10
       DEF Kept, Fresh, Untold, Broken, ToldTools, ToldDone, ToldOnce, ToldTwice, AllTold, Telling
  <2>3. AwaitsResults(codex, buffered, x, s) => AwaitsResults(codex, buffered, y, s)
    BY <1>1, <1>10, <2>2 DEF AwaitsResults, Kept
  <2>4. Onward(codex, buffered, y, s)
    BY <1>1, <2>1, <2>2, <2>3 DEF Onward, Kept
  <2> QED
    BY <1>7, <1>9, <2>4 DEF Follows
<1> QED
  BY <1>8, <1>9

\* A request that goes on.
LEMMA WentFollows ==
  ASSUME RoundsIInv, codex.state # "refused", NEW o \in Observers, NEW y, NEW a, Went(o, y, a),
         IsHere(obs[o].on)
  PROVE  /\ Follows(codex, buffered, y, obs[o].on)
         /\ IsAgain(codex, obs[o].on) => a.pc = "token" /\ y.outcome # "final"
<1> DEFINE s == obs[o].on
           x == Of(o)
           k == obs[o].key
           m == Length(codex, s, codex.round - 1)
<1>1. obs[o].pc # "idle" /\ Proceeds(x, y, k) /\ k \notin x.completed
  BY DEF Went
<1>2. /\ s \in 1..Len(sess) /\ x = sess[s] /\ x \in Surfaces /\ Works(x)
      /\ Follows(codex, buffered, x, s) /\ k \in RoundKeys /\ k = <<codex.round, codex.variant>>
      /\ IsAgain(codex, s) => obs[o].pc = "queued" \/ (obs[o].pc = "token" /\ x.outcome # "final")
      /\ codex.round \in Nat \ {0} /\ codex.variant \in {1, 2} /\ m \in Nat
  BY <1>1, HereFacts
<1>3. IsAgain(codex, s) => a.pc = "token" /\ y = x /\ x.outcome # "final"
  <2> SUFFICES ASSUME IsAgain(codex, s) PROVE a.pc = "token" /\ y = x /\ x.outcome # "final"
    OBVIOUS
  <2>1. x.outcome # "final"
    BY <1>2 DEF Went
  <2>2. Again(codex, buffered, x, s) /\ x.outstanding # {}
    BY <1>2, <2>1, AgainWaits
  <2>3. a.pc # "token" => o = codex.live /\ x.outstanding \subseteq obs[o].results
    BY <1>2, <2>2 DEF Went
  <2>4. o = codex.live => obs[o].results \subseteq x.resolved
    <3>1. o # Nobody
      BY RoundsAssumption
    <3>2. o = codex.live => obs[o].results = UNION {CallsOf(codex, j) : j \in HeldOn(codex, s)}
      BY <3>1 DEF RoundsIInv, LiveIsLast
    <3>3. \A j \in HeldOn(codex, s) : CallsOf(codex, j) \subseteq x.resolved
      BY <2>2 DEF Again
    <3> HIDE DEF s, x
    <3> QED
      BY <3>2, <3>3
  <2>5. x.outstanding \cap x.resolved = {}
    BY <1>2 DEF Works
  <2>6. a.pc = "token"
    BY <2>2, <2>3, <2>4, <2>5
  <2> QED
    BY <2>1, <2>6 DEF Went
<1> HIDE DEF x, m, s, k
<1>4. CASE IsAgain(codex, s)
  BY <1>2, <1>3, <1>4 DEF s
<1>5. CASE ~IsAgain(codex, s)
  <2>1. Onward(codex, buffered, x, s) /\ y \in Surfaces
    BY <1>1, <1>2, <1>5 DEF Follows, Proceeds
  <2>2. Elsewhere(x, y, k) /\ (Fresh(x, k) /\ y.outstanding # {} => Fresh(y, k))
    BY <1>1 DEF Proceeds, Elsewhere, Fresh, Untold, Broken
  <2>3. \A j \in RoundKeys : Later(codex, j) => Fresh(y, j)
    <3>1. ~Later(codex, k)
      <4>1. k[1] = codex.round /\ k[2] = codex.variant
        BY <1>2
      <4> QED
        BY <1>2, <4>1 DEF Later
    <3> QED
      BY <1>2, <2>2, <3>1, FreshElsewhere DEF Follows
  <2>4. Telling(buffered, x, k, m)
    BY <1>1, <1>2, <2>1 DEF Onward, Broken, ToldDone, ToldOnce, ToldTwice, m
  <2>5. Telling(buffered, y, k, m)
    <3>1. k \notin y.completed /\ (y.outcome = "final" => y.final = <<>>)
      BY <1>1, <2>4 DEF Telling, Proceeds, Served
    <3>2. CASE y.drained = x.drained /\ y.journal[k] = x.journal[k]
      BY <2>4, <3>1, <3>2 DEF Telling, Shown
    <3>3. CASE y.drained = x.pushed /\ y.journal[k] = x.journal[k] \o FreshText(x)
      <4>1. m <= Shown(buffered, x) /\ x.journal[k] = Between(m, Shown(buffered, x))
        BY <2>4 DEF Telling
      <4>2. x.drained <= x.pushed /\ y.drained = x.pushed
        BY <1>2, <3>3 DEF Works
      <4>3. /\ m <= Shown(buffered, y)
            /\ Between(m, Shown(buffered, x)) \o FreshText(x) = Between(m, Shown(buffered, y))
        BY <1>2, <2>1, <4>1, <4>2, FreshJoins
      <4> QED
        BY <3>1, <3>3, <4>1, <4>3 DEF Telling
    <3> QED
      BY <1>1, <3>2, <3>3 DEF Proceeds
  <2>6. ASSUME y.outstanding # {} PROVE AwaitsResults(codex, buffered, y, s)
    <3>1. /\ y.drained = x.drained /\ y.prelude = x.prelude /\ y.outstanding \subseteq x.outstanding
          /\ y.resolved = x.resolved \cup (x.outstanding \ y.outstanding)
      BY <1>1, <2>6 DEF Proceeds
    <3>2. AwaitsResults(codex, buffered, x, s)
      BY <2>1, <2>6, <3>1 DEF Onward
    <3> QED
      BY <1>2, <2>2, <2>6, <3>1, <3>2, AwaitsElsewhere
  <2>7. \A j \in HeldOn(codex, s) :
           /\ CallsOf(codex, j) \subseteq y.resolved \cup y.outstanding
           /\ j < codex.round - 1 => CallsOf(codex, j) \subseteq y.resolved
    <3>1. y.resolved = x.resolved \cup (x.outstanding \ y.outstanding)
      BY <1>1 DEF Proceeds
    <3>2. x.resolved \subseteq y.resolved
          /\ x.resolved \cup x.outstanding \subseteq y.resolved \cup y.outstanding
      BY <3>1
    <3> QED
      BY <2>1, <3>2 DEF Onward
  <2>8. Onward(codex, buffered, y, s)
    BY <1>2, <2>5, <2>6, <2>7 DEF Onward, m
  <2> QED
    BY <1>5, <2>3, <2>8 DEF Follows, s
<1> QED
  BY <1>4, <1>5

\* A session and its requests, after a step.
InStep(s) == Follows(codex, buffered, sess[s], s) /\ RequestsHere(s)

\* The browser Codex is with, and what it has told of the round.
LEMMA InStepParts ==
  /\ RoundsFollow <=> (codex.state # "refused" => \A s \in 1..Len(sess) : IsHere(s) => InStep(s))
  /\ RoundsFollow' <=> (codex'.state # "refused" => \A s \in 1..Len(sess') : IsHere(s)' => InStep(s)')
<1>1. RoundsFollow <=> (codex.state # "refused" => \A s \in 1..Len(sess) : IsHere(s) => InStep(s))
  BY Zenon DEF RoundsFollow, InStep
<1>2. RoundsFollow' <=> (codex'.state # "refused" => \A s \in 1..Len(sess') : IsHere(s)' => InStep(s)')
  BY Zenon DEF RoundsFollow, InStep
<1> QED
  BY <1>1, <1>2

\* A browser that moves stays in step with Codex.
LEMMA BrowsesInStep ==
  ASSUME RoundsIInv, NEW s, NEW y, Browses(s, y)
  PROVE  RoundsFollow'
<1>1. /\ s \in 1..Len(sess) /\ sess'[s] = y /\ Len(sess') = Len(sess)
      /\ \A t \in 1..Len(sess) : t # s => sess'[t] = sess[t]
      /\ codex' = codex /\ current' = current /\ obs' = obs /\ buffered' = buffered
  BY DEF Browses, Moved
<1>2. ASSUME codex.state # "refused", NEW t \in 1..Len(sess), IsHere(t)'
      PROVE  InStep(t)'
  <2>1. IsHere(t)
    BY <1>1, <1>2 DEF IsHere
  <2>2. InStep(t)
    BY <1>2, <2>1, InStepParts DEF RoundsIInv
  <2>3. CASE t = s
    <3>1. Follows(codex, buffered, y, s) /\ (IsAgain(codex, s) => y.outcome # "final")
      BY <1>2, <2>1, <2>3, BrowsesFollows
    <3>2. RequestsHere(s)'
      BY <1>1, <2>2, <2>3, <3>1, RequestsSame DEF InStep
    <3> QED
      BY <1>1, <2>3, <3>1, <3>2 DEF InStep
  <2>4. CASE t # s
    <3>1. sess'[t] = sess[t]
      BY <1>1, <2>4
    <3>2. RequestsHere(t)'
      BY <1>1, <2>2, <3>1, RequestsSame DEF InStep
    <3> QED
      BY <1>1, <2>2, <3>1, <3>2 DEF InStep
  <2> QED
    BY <2>3, <2>4
<1> QED
  BY <1>1, <1>2, InStepParts

\* A request that goes on keeps its browser in step.
LEMMA WentInStep ==
  ASSUME RoundsIInv, NEW o \in Observers, NEW y, NEW a, Went(o, y, a)
  PROVE  RoundsFollow'
<1> DEFINE s == obs[o].on
<1>1. /\ s \in 1..Len(sess) /\ sess'[s] = y /\ Len(sess') = Len(sess)
      /\ \A t \in 1..Len(sess) : t # s => sess'[t] = sess[t]
      /\ codex' = codex /\ current' = current /\ buffered' = buffered
      /\ obs'[o] = a /\ a.on = s /\ a.key = obs[o].key /\ obs[o].pc # "idle"
      /\ \A p \in Observers : p # o => obs'[p] = obs[p]
  BY DEF Went, Moved, Answers
<1>2. ASSUME codex.state # "refused", NEW t \in 1..Len(sess), IsHere(t)'
      PROVE  InStep(t)'
  <2>1. IsHere(t)
    <3>1. codex.live # Nobody => obs'[codex.live].on = obs[codex.live].on
      <4>1. codex.live # Nobody => codex.live \in Observers
        BY DEF RoundsIInv, RoundsTyped, Codexes
      <4> QED
        BY <1>1, <4>1
    <3> HIDE DEF s
    <3> QED
      BY <1>1, <1>2, <3>1 DEF IsHere
  <2>2. InStep(t)
    BY <1>2, <2>1, InStepParts DEF RoundsIInv
  <2>3. CASE t = s
    <3>1. Follows(codex, buffered, y, s) /\ (IsAgain(codex, s) => a.pc = "token" /\ y.outcome # "final")
      BY <1>2, <2>1, <2>3, WentFollows
    <3>2. RequestsHere(t)'
      <4>1. ASSUME NEW p \in Observers, obs'[p].pc # "idle", obs'[p].on = t
            PROVE  /\ obs'[p].key = <<codex'.round, codex'.variant>>
                   /\ IsAgain(codex', t) =>
                        /\ codex'.variant = 2
                        /\ obs'[p].pc = "queued" \/ (obs'[p].pc = "token" /\ sess'[t].outcome # "final")
        <5>1. obs[p].pc # "idle" /\ obs[p].on = s /\ obs'[p].key = obs[p].key
          BY <1>1, <2>3, <4>1
        <5>2. obs[p].key = <<codex.round, codex.variant>> /\ (IsAgain(codex, s) => codex.variant = 2)
          BY <2>2, <2>3, <5>1 DEF InStep, RequestsHere
        <5>3. IsAgain(codex, s) => obs'[p].pc \in {"queued", "token"} /\ sess'[s].outcome # "final"
          <6>1. CASE p = o
            BY <1>1, <3>1, <6>1
          <6>2. CASE p # o
            <7>1. IsAgain(codex, s) => obs[p].pc \in {"queued", "token"}
              BY <2>2, <2>3, <5>1 DEF InStep, RequestsHere
            <7> QED
              BY <1>1, <3>1, <6>2, <7>1
          <6> QED
            BY <6>1, <6>2
        <5> QED
          BY <1>1, <2>3, <5>1, <5>2, <5>3
      <4> QED
        BY <4>1 DEF RequestsHere
    <3> QED
      BY <1>1, <2>3, <3>1, <3>2 DEF InStep
  <2>4. CASE t # s
    <3>1. sess'[t] = sess[t]
      BY <1>1, <2>4
    <3>2. \A p \in Observers : obs'[p].on = t => obs'[p] = obs[p]
      BY <1>1, <2>4
    <3>3. RequestsHere(t)'
      BY <1>1, <2>2, <3>1, <3>2, RequestsSame DEF InStep
    <3> QED
      BY <1>1, <2>2, <3>1, <3>3 DEF InStep
  <2> QED
    BY <2>3, <2>4
<1> QED
  BY <1>1, <1>2, InStepParts

\* A request that ends, Codex not hearing a whole response of it.
LEMMA QuietInStep ==
  ASSUME RoundsIInv, NEW o \in Observers, NEW y, NEW z, NEW heard, Ended(o, y, z, heard),
         ~(o = codex.live /\ Whole(heard)), Quiet(Of(o), y, obs[o].key, obs[o].pc)
  PROVE  RoundsFollow'
<1> DEFINE s == obs[o].on
           x == Of(o)
           k == obs[o].key
           m == Length(codex, s, codex.round - 1)
<1>1. RoundsTyped /\ HeldInOrder /\ LiveIsLast
  BY DEF RoundsIInv
<1>2. /\ s \in 1..Len(sess) /\ sess'[s] = z /\ Len(sess') = Len(sess) /\ x = sess[s]
      /\ \A t \in 1..Len(sess) : t # s => sess'[t] = sess[t]
      /\ current' \in {current, 0} /\ buffered' = buffered /\ obs[o].pc # "idle"
      /\ obs'[o] = Unasked /\ \A p \in Observers : p # o => obs'[p] = obs[p]
      /\ Content(y, z) /\ y.outcome = x.outcome
  BY DEF Ended, Moved, Answers, Leaves, Served, Of
<1>3. /\ codex'.round = codex.round /\ codex'.variant = codex.variant /\ codex'.held = codex.held
      /\ (codex'.state = codex.state \/ codex'.state = "refused")
      /\ codex'.live = (IF o = codex.live THEN Nobody ELSE codex.live)
  BY <1>1, EndedCodex DEF HearsNothing
<1>4. ASSUME codex'.state # "refused", NEW t \in 1..Len(sess), IsHere(t)'
      PROVE  InStep(t)'
  <2>0. codex.state # "refused"
    BY <1>3, <1>4
  <2>1. IsHere(t)
    <3>1. CASE t = current'
      <4>1. t = current
        BY <1>2, <1>4, <3>1
      <4> QED
        BY <4>1 DEF IsHere
    <3>2. CASE codex'.live # Nobody /\ t = obs'[codex'.live].on
      <4>1. codex.live # Nobody /\ codex'.live = codex.live /\ codex.live # o
        BY <1>3, <3>2
      <4>2. codex.live \in Observers
        BY <1>1, <4>1 DEF RoundsTyped, Codexes
      <4> QED
        BY <1>2, <3>2, <4>1, <4>2 DEF IsHere
    <3> QED
      BY <1>4, <3>1, <3>2 DEF IsHere
  <2>2. InStep(t)
    BY <2>0, <2>1, InStepParts DEF RoundsIInv
  <2>3. ASSUME NEW p \in Observers, obs'[p].pc # "idle" PROVE obs'[p] = obs[p]
    <3>1. p # o
      BY <1>2, <2>3 DEF Unasked
    <3> QED
      BY <1>2, <3>1
  <2>4. CASE t = s
    <3>1. /\ x \in Surfaces /\ Works(x) /\ Follows(codex, buffered, x, s)
          /\ k \in RoundKeys /\ k = <<codex.round, codex.variant>>
          /\ IsAgain(codex, s) => /\ codex.variant = 2
                                  /\ obs[o].pc = "queued" \/ (obs[o].pc = "token" /\ x.outcome # "final")
          /\ codex.round \in Nat \ {0} /\ codex.variant \in {1, 2} /\ m \in Nat /\ (buffered => m = 0)
          /\ obs[o].pc \in {"race", "finish"} => x.outstanding = {}
      BY <1>2, <2>0, <2>1, <2>4, HereFacts
    <3>2. Quiet(x, y, k, obs[o].pc)
      OBVIOUS
    <3>3. Follows(codex, buffered, y, s)
      <4> DEFINE pc == obs[o].pc
      <4> HIDE DEF x, k, s, m, pc
      <4>1. /\ x \in Surfaces /\ Works(x) /\ Follows(codex, buffered, x, s)
            /\ k \in RoundKeys /\ k = <<codex.round, codex.variant>>
            /\ IsAgain(codex, s) => /\ codex.variant = 2
                                    /\ pc = "queued" \/ (pc = "token" /\ x.outcome # "final")
            /\ codex.round \in Nat /\ codex.variant \in {1, 2} /\ m \in Nat /\ (buffered => m = 0)
            /\ pc \in {"race", "finish"} => x.outstanding = {}
            /\ Quiet(x, y, k, pc) /\ m = Length(codex, s, codex.round - 1)
        BY <3>1, <3>2 DEF pc, m
      <4> QED
        BY ONLY <4>1, FollowsQuietly
    <3>4. Follows(codex', buffered, z, s)
      BY <1>2, <1>3, <3>3, FollowsSame
    <3>5. RequestsHere(t)'
      <4>1. sess'[t].outcome = sess[t].outcome
        BY <1>2, <2>4 DEF Content
      <4> QED
        BY <1>3, <2>2, <2>3, <4>1, RequestsSame DEF InStep
    <3> QED
      <4>1. Follows(codex', buffered', sess'[t], t)
        BY <1>2, <2>4, <3>4
      <4> QED
        BY <3>5, <4>1 DEF InStep
  <2>5. CASE t # s
    <3>1. sess'[t] = sess[t]
      BY <1>2, <2>5
    <3>2. RequestsHere(t)'
      BY <1>3, <2>2, <2>3, <3>1, RequestsSame DEF InStep
    <3>3. Follows(codex', buffered, sess[t], t)
      <4>1. Content(sess[t], sess[t])
        BY DEF Content
      <4> QED
        BY <1>3, <2>2, <4>1, FollowsSame DEF InStep
    <3> QED
      BY <1>2, <3>1, <3>2, <3>3 DEF InStep
  <2> QED
    BY <2>4, <2>5
<1> QED
  BY <1>2, <1>4, InStepParts

\* Once the request that Codex waits for has ended, its session has no other one.
LEMMA LastLeaves ==
  ASSUME RoundsIInv, NEW o \in Observers, o = codex.live, NEW y, NEW z, NEW heard, Ended(o, y, z, heard),
         NEW p \in Observers, obs'[p].pc # "idle"
  PROVE  obs'[p].on # obs[o].on
<1>1. RoundsTyped /\ RoundsQueued /\ LiveIsLast
  BY DEF RoundsIInv
<1>2. /\ obs'[o] = Unasked /\ \A q \in Observers : q # o => obs'[q] = obs[q]
      /\ Of(o).tail \in Seq(Observers) /\ Of(o).tail # <<>> /\ Of(o).tail[1] = o
      /\ obs[o].on \in 1..Len(sess)
  BY DEF Ended, Answers
<1>3. p # o /\ obs'[p] = obs[p] /\ obs[p].pc # "idle"
  BY <1>2 DEF Unasked
<1> SUFFICES ASSUME obs[p].on = obs[o].on PROVE FALSE
  BY <1>3
<1>4. Of(o).tail[Len(Of(o).tail)] = o
  <2>1. o # Nobody
    BY RoundsAssumption
  <2> QED
    BY <1>1, <2>1 DEF LiveIsLast, Of
<1>5. PICK i \in 1..Len(Of(p).tail) : Of(p).tail[i] = p
  BY <1>1, <1>3 DEF RoundsQueued
<1> DEFINE list == Of(o).tail
<1>6. Of(p).tail = list
  BY DEF Of
<1>7. \A j, l \in 1..Len(list) : list[j] = list[l] => j = l
  BY <1>1, <1>2 DEF RoundsQueued, Of
<1> HIDE DEF list
<1>8. Len(list) \in Nat \ {0} /\ list[1] = o /\ list[Len(list)] = o
  BY <1>2, <1>4 DEF list
<1>9. 1 \in 1..Len(list) /\ Len(list) \in 1..Len(list)
  BY <1>8
<1>10. Len(list) = 1
  BY <1>7, <1>8, <1>9
<1>11. i = 1
  BY <1>5, <1>6, <1>10
<1> QED
  BY <1>3, <1>5, <1>6, <1>8, <1>11

\* A response that is heard whole.
LEMMA TakesFollows ==
  ASSUME RoundsIInv, NEW o \in Observers, o = codex.live, NEW y, NEW z, NEW heard, Ended(o, y, z, heard),
         NEW m, NEW n, NEW list, NEW e, Takes(o, y, m, n, list, e)
  PROVE  Follows(codex', buffered, z, obs[o].on)
<1> DEFINE s == obs[o].on
           x == Of(o)
           k == obs[o].key
           r == codex.round
           c == codex
           d == codex'
<1>1. c.state = "asking" /\ obs[o].pc # "idle" /\ IsHere(s)
  <2>1. o # Nobody
    BY RoundsAssumption
  <2> QED
    BY <2>1 DEF RoundsIInv, LiveIsLast, IsHere
<1>2. /\ s \in 1..Len(sess) /\ x = sess[s] /\ x \in Surfaces /\ Works(x)
      /\ Follows(c, buffered, x, s) /\ k \in RoundKeys /\ k = <<r, c.variant>>
      /\ r \in Nat \ {0} /\ c.variant \in {1, 2}
  BY <1>1, HereFacts
<1>3. /\ z \in Surfaces /\ Works(z) /\ Content(y, z) /\ y.resolved = x.resolved /\ y.outcome = x.outcome
      /\ y \in Surfaces /\ Works(y)
  <2>1. z \in Surfaces
    BY DEF Ended, Moved
  <2> QED
    BY <2>1 DEF Ended, Leaves, Served
<1>4. /\ m \in Nat /\ n \in Nat /\ (buffered => m = 0) /\ Elsewhere(x, y, k)
      /\ Keeps(c.held, r, s, list, e, d.held) /\ Reads(c.held, s, r - 1, m)
      /\ m = Length(c, s, r - 1)
      /\ e \in ToolEvents => IsAgain(c, s) \/ x.outstanding = {}
  BY DEF Takes
<1>c. c.round = r
  OBVIOUS
<1> HIDE DEF s, x, k, r, c, d
<1>5. /\ Len(d.held) = r /\ d.held[r].on = s /\ d.held[r].events = Append(list, e)
      /\ \A j \in 1..(r - 1) : d.held[j] = c.held[j]
      /\ \A j \in 0..(r - 1) : HeardIn(d.held, s)[j] = HeardIn(c.held, s)[j]
  <2> DEFINE held == c.held
             next == d.held
  <2>1. Keeps(held, r, s, list, e, next)
    BY <1>4
  <2> HIDE DEF held, next
  <2>2. /\ Len(next) = r /\ next[r].on = s /\ next[r].events = Append(list, e)
        /\ \A j \in 1..(r - 1) : next[j] = held[j]
    BY ONLY <2>1, KeepsFacts
  <2>3. \A t : \A j \in 0..(r - 1) : HeardIn(next, t)[j] = HeardIn(held, t)[j]
    BY ONLY <2>1, KeepsFacts
  <2>4. \A j \in 0..(r - 1) : HeardIn(next, s)[j] = HeardIn(held, s)[j]
    BY <2>3
  <2> QED
    BY <2>2, <2>4 DEF held, next
<1>6. LastOf(d.held[r].events) = e
  <2>1. list \in Seq(Events) /\ e \in Events
    BY <1>4 DEF Keeps
  <2> QED
    BY <1>5, <2>1, ClosedList
<1>7. Length(d, s, r - 1) = m
  <2>1. r - 1 \in 0..(r - 1)
    BY <1>2
  <2> QED
    BY <1>4, <1>5, <2>1 DEF Length
<1>8. \A j \in RoundKeys : Later(c, j) => Fresh(y, j)
  <2>1. ~Later(c, k)
    <3>1. k[1] = c.round /\ k[2] = c.variant
      BY <1>2, <1>c
    <3> QED
      BY <1>2, <1>c, <3>1 DEF Later
  <2> QED
    BY <1>2, <1>4, <2>1, FreshElsewhere DEF Follows
<1>9. \A j \in 1..(r - 1) : CallsOf(d, j) = CallsOf(c, j)
  BY <1>5 DEF CallsOf
<1>10. \A j \in 1..(r - 1) : d.held[j].on = s => j \in HeldOn(c, s)
  BY <1>5, <1>c DEF HeldOn
<1>11. IsAgain(c, s) \/ x.outstanding = {} => \A j \in HeldOn(c, s) : CallsOf(c, j) \subseteq y.resolved
  BY <1>2, <1>3 DEF Follows, Again, Onward
<1>12. CASE TakesCalls(y, k, m, n, list, e)
  <2>1. /\ d.round = r + 1 /\ d.variant = 1 /\ e \in ToolEvents /\ n = Shown(buffered, y)
        /\ m <= n /\ list = Between(m, n) /\ CallsTold(buffered, y, k, m, e.calls)
    BY <1>12 DEF TakesCalls, d, r
  <2>2. /\ k \in y.completed \ y.failed /\ y.outstanding # {} /\ e.calls \in SUBSET Tools
        /\ y.outstanding \subseteq e.calls /\ e.calls \subseteq y.outstanding \cup y.resolved
        /\ y.journal[k] = Append(Between(m, Shown(buffered, y)), Batch(e.calls))
        /\ y.prelude = Between(m, Shown(buffered, y))
    BY <2>1 DEF CallsTold
  <2>5. Length(d, s, r) = n
    <3>1. Reads(d.held, s, r, n)
      BY <1>4, <2>1, ReadsOn
    <3> QED
      BY <3>1, ReadsLength
  <2>3. y.outcome # "final"
    BY <1>3, <2>2 DEF Works, CallsIn
  <2>4. CallsOf(d, r) = e.calls
    BY <1>6 DEF CallsOf
  <2>6. \A j \in HeldOn(c, s) : CallsOf(c, j) \subseteq y.resolved
    <3>1. CASE IsAgain(c, s)
      BY <1>11, <3>1
    <3>2. CASE ~IsAgain(c, s)
      <4>1. Onward(c, buffered, x, s) /\ x.outstanding = {}
        BY <1>2, <1>4, <2>1, <3>2 DEF Follows
      <4> QED
        BY <1>3, <4>1 DEF Onward
    <3> QED
      BY <3>1, <3>2
  <2>7. ~IsAgain(d, s)
    BY <1>2, <1>5, <2>1 DEF IsAgain
  <2>8. /\ d.round - 1 = r /\ d.round > 1 /\ d.round - 2 = r - 1 /\ r + 1 > r /\ r + 1 # r
    BY <1>2, <2>1
  <2> DEFINE q == <<d.round, d.variant>>
             w == <<r, 2>>
  <2>9. \A j \in RoundKeys : Later(d, j) \/ j = q => Later(c, j)
    <3>1. ASSUME NEW j \in RoundKeys, Later(d, j) PROVE Later(c, j)
      <4>1. j[1] \in Nat
        BY DEF RoundKeys
      <4>2. j[1] > r
        BY <1>2, <2>1, <3>1, <4>1 DEF Later
      <4> QED
        BY <1>c, <4>2 DEF Later
    <3>2. q[1] > r
      BY <1>2, <2>1
    <3> QED
      BY <1>c, <3>1, <3>2 DEF Later
  <2>10. Fresh(y, q)
    BY <1>8, <2>9 DEF Fresh
  <2>11. y.journal[q] = <<>> /\ q \notin y.completed => Telling(buffered, y, q, n)
    <3>1. n <= n
      BY <1>4
    <3>2. Between(n, n) = <<>>
      BY ONLY <1>4, <3>1, BetweenFacts
    <3> HIDE DEF q
    <3> QED
      BY <2>1, <2>3, <3>1, <3>2 DEF Telling
  <2>12. q \in RoundKeys => Telling(buffered, y, q, n) \/ Broken(y, q)
    BY <2>10, <2>11 DEF Fresh, Untold
  <2>13. Fresh(y, w) \/ ToldTools(buffered, y, w, m)
    <3>1. CASE c.variant = 1
      <4>1. w[1] = r /\ w[2] = 2
        OBVIOUS
      <4>2. Later(c, w)
        BY <1>c, <1>2, <3>1, <4>1 DEF Later
      <4> HIDE DEF w
      <4> QED
        BY <1>8, <4>2 DEF Fresh
    <3>2. CASE c.variant = 2
      <4>1. k = w
        BY <1>2, <3>2
      <4> HIDE DEF w
      <4> QED
        BY <2>2, <4>1 DEF ToldTools
    <3> QED
      BY <1>2, <3>1, <3>2
  <2>14. AwaitsResults(d, buffered, y, s)
    <3>1. d.round > 1 /\ d.held[d.round - 1].on = s /\ y.outstanding \subseteq CallsOf(d, d.round - 1)
      BY <1>5, <2>2, <2>4, <2>8
    <3>2. /\ Length(d, s, d.round - 1) = Shown(buffered, y) /\ m <= Shown(buffered, y)
          /\ Length(d, s, d.round - 2) = m
          /\ Fresh(y, <<d.round - 1, 2>>) \/ ToldTools(buffered, y, <<d.round - 1, 2>>, m)
      BY <1>7, <2>1, <2>5, <2>8, <2>13
    <3> QED
      BY <2>2, <2>10, <3>1, <3>2 DEF AwaitsResults
  <2>15. ASSUME NEW j \in HeldOn(d, s)
         PROVE  /\ CallsOf(d, j) \subseteq y.resolved \cup y.outstanding
                /\ j < d.round - 1 => CallsOf(d, j) \subseteq y.resolved
    <3>1. j \in 1..r /\ d.held[j].on = s
      BY <2>8 DEF HeldOn
    <3>2. CASE j = r
      BY <1>2, <2>2, <2>4, <2>8, <3>2
    <3>3. CASE j # r
      <4>1. j \in 1..(r - 1)
        BY <1>2, <3>1, <3>3
      <4> QED
        BY <1>9, <1>10, <2>6, <3>1, <4>1
    <3> QED
      BY <3>2, <3>3
  <2>16. Onward(d, buffered, y, s)
    <3>1. Length(d, s, d.round - 1) = n
      BY <2>5, <2>8
    <3> HIDE DEF q
    <3>2. q = <<d.round, d.variant>>
      BY DEF q
    <3> QED
      BY <2>12, <2>14, <2>15, <3>1, <3>2 DEF Onward
  <2>17. Follows(d, buffered, y, s)
    BY <1>8, <2>7, <2>9, <2>16 DEF Follows
  <2> QED
    BY <1>3, <2>17, FollowsSame DEF d, s
<1>13. CASE TakesAnswer(y, k, m, n, list, e)
  <2>1. /\ d.round = r /\ d.variant = c.variant /\ ToldDone(buffered, y, k, m)
        /\ m <= Shown(buffered, y)
    BY <1>13 DEF TakesAnswer, ToldDone, d, r, c
  <2>2. \A j \in RoundKeys : Later(d, j) => Fresh(y, j)
    BY <1>8, <1>c, <2>1 DEF Later
  <2>3. IsAgain(d, s)
    BY <1>5, <2>1 DEF IsAgain
  <2>4. y.outcome = "final" /\ (AllTold(buffered, y, m) \/ ToldTwice(buffered, y, k))
    BY <2>1 DEF ToldDone, ToldOnce, ToldTwice, AllTold
  <2>5. x.outstanding = {}
    BY <1>2, <1>3, <2>4 DEF Works, CallsIn
  <2>6. \A j \in HeldOn(d, s) : CallsOf(d, j) \subseteq y.resolved
    BY <1>9, <1>10, <1>11, <2>1, <2>5 DEF HeldOn
  <2>7. Again(d, buffered, y, s)
    BY <1>2, <1>7, <2>1, <2>4, <2>6 DEF Again
  <2>8. Follows(d, buffered, y, s)
    BY <2>2, <2>3, <2>7 DEF Follows
  <2> QED
    BY <1>3, <2>8, FollowsSame DEF d, s
<1> QED
  BY <1>12, <1>13 DEF Takes, k

\* A response that is taken whole keeps its browser in step.
LEMMA TakesInStep ==
  ASSUME RoundsIInv, NEW o \in Observers, o = codex.live, NEW y, NEW z, NEW heard, Ended(o, y, z, heard),
         NEW m, NEW n, NEW list, NEW e, Takes(o, y, m, n, list, e)
  PROVE  RoundsFollow'
<1>1. /\ obs[o].on \in 1..Len(sess) /\ sess'[obs[o].on] = z /\ Len(sess') = Len(sess)
      /\ current' \in {current, 0} /\ buffered' = buffered
  BY DEF Ended, Moved
<1>2. current \in {0, obs[o].on} /\ codex'.live = Nobody
  <2>1. o # Nobody
    BY RoundsAssumption
  <2> QED
    BY <2>1 DEF RoundsIInv, LiveIsLast, Takes
<1>3. ASSUME NEW t \in 1..Len(sess), IsHere(t)' PROVE InStep(t)'
  <2>1. t = obs[o].on
    BY <1>1, <1>2, <1>3 DEF IsHere
  <2>2. \A p \in Observers : ~(obs'[p].pc # "idle" /\ obs'[p].on = t)
    BY <2>1, LastLeaves
  <2>3. RequestsHere(t)'
    BY <2>2 DEF RequestsHere
  <2>4. Follows(codex', buffered', sess'[t], t)
    BY <1>1, <2>1, TakesFollows
  <2> QED
    BY <2>3, <2>4 DEF InStep
<1> QED
  BY <1>1, <1>3, InStepParts

\* A request that ends keeps its browser in step.
LEMMA EndedInStep ==
  ASSUME RoundsIInv, NEW o \in Observers, NEW y, NEW z, NEW heard, Ended(o, y, z, heard)
  PROVE  RoundsFollow'
<1>1. CASE o = codex.live
  <2>1. CASE ~Whole(heard) /\ Quiet(Of(o), y, obs[o].key, obs[o].pc)
    BY <2>1, QuietInStep
  <2>2. CASE \E m, n, list, e : Takes(o, y, m, n, list, e)
    <3>1. PICK m, n, list, e : Takes(o, y, m, n, list, e)
      BY <2>2
    <3> QED
      BY <1>1, <3>1, TakesInStep
  <2> QED
    BY <1>1, <2>1, <2>2, TakesFacts
<1>2. CASE o # codex.live
  <2>1. Closes(o, Of(o), y, obs[o].key, heard)
    BY DEF Ended
  <2>2. Quiet(Of(o), y, obs[o].key, obs[o].pc)
    BY <1>2, <2>1 DEF Closes, Quiet
  <2> QED
    BY <1>2, <2>2, QuietInStep
<1> QED
  BY <1>1, <1>2

\* A lost connection keeps the browser in step: its request runs on unheard.
LEMMA LostInStep ==
  ASSUME RoundsIInv, NEW a, Lost(a)
  PROVE  RoundsFollow'
<1> DEFINE o == codex.live
<1>1. /\ o \in Observers /\ o # Nobody /\ obs'[o] = a /\ a.pc = obs[o].pc /\ a.on = obs[o].on
      /\ a.key = obs[o].key /\ \A p \in Observers : p # o => obs'[p] = obs[p]
      /\ codex'.live = Nobody /\ codex'.round = codex.round /\ codex'.variant = codex.variant
      /\ codex'.held = codex.held /\ codex'.state = codex.state
      /\ buffered' = buffered /\ current' = current /\ sess' = sess
  BY RoundsAssumption DEF Lost, Answers
<1>2. \A p \in Observers : obs'[p].pc = obs[p].pc /\ obs'[p].on = obs[p].on /\ obs'[p].key = obs[p].key
  BY <1>1
<1>3. ASSUME codex.state # "refused", NEW t \in 1..Len(sess), IsHere(t)'
      PROVE  InStep(t)'
  <2>1. IsHere(t)
    BY <1>1, <1>3 DEF IsHere
  <2>2. InStep(t)
    BY <1>3, <2>1, InStepParts DEF RoundsIInv
  <2>3. RequestsHere(t)'
    BY <1>1, <1>2, <2>2, RequestsSame DEF InStep
  <2>4. Follows(codex', buffered, sess[t], t)
    <3>1. Content(sess[t], sess[t])
      BY DEF Content
    <3> QED
      BY <1>1, <2>2, <3>1, FollowsSame DEF InStep
  <2> QED
    BY <1>1, <2>3, <2>4 DEF InStep
<1> QED
  BY <1>1, <1>3, InStepParts

\* Nothing of the rounds changes.
LEMMA RestsInStep ==
  ASSUME RoundsIInv, Rests
  PROVE  RoundsFollow'
<1>1. /\ codex'.live = codex.live /\ codex'.round = codex.round /\ codex'.variant = codex.variant
      /\ codex'.held = codex.held /\ codex'.state \in {codex.state, "refused"}
      /\ buffered' = buffered /\ current' = current /\ sess' = sess /\ obs' = obs
  BY DEF Rests
<1>2. ASSUME codex'.state # "refused", NEW t \in 1..Len(sess), IsHere(t)'
      PROVE  InStep(t)'
  <2>1. IsHere(t)
    BY <1>1, <1>2 DEF IsHere
  <2>2. InStep(t)
    BY <1>1, <1>2, <2>1, InStepParts DEF RoundsIInv
  <2>3. RequestsHere(t)'
    BY <1>1, <2>2, RequestsSame DEF InStep
  <2>4. Follows(codex', buffered, sess[t], t)
    <3>1. Content(sess[t], sess[t])
      BY DEF Content
    <3> QED
      BY <1>1, <2>2, <3>1, FollowsSame DEF InStep
  <2> QED
    BY <1>1, <2>3, <2>4 DEF InStep
<1> QED
  BY <1>1, <1>2, InStepParts

\* A session that has just started has told nothing, and Codex has heard nothing of it.
LEMMA NewFollows ==
  ASSUME RoundsIInv, NEW d, d.round = codex.round, d.variant = codex.variant, d.held = codex.held,
         NEW y, NewSurface(y), <<codex.round, codex.variant>> \in RoundKeys
  PROVE  Follows(d, buffered, y, Len(sess) + 1)
<1> DEFINE s == Len(sess) + 1
           r == codex.round
           k == <<r, codex.variant>>
<1>1. /\ codex.held \in Seq(Responses) /\ r \in Nat \ {0} /\ Len(sess) \in Nat
  BY DEF RoundsIInv, RoundsTyped, Codexes
<1>2. /\ RoundFine(codex) /\ KeptFine(codex, Len(sess)) /\ HeardFine(codex, buffered, Len(sess))
  BY HeldParts DEF RoundsIInv
<1>3. /\ r - 1 \in 0..Len(codex.held) /\ r \in 1..(Len(codex.held) + 1)
      /\ \A j \in 1..(r - 1) : j \in 1..Len(codex.held)
  <2>1. Len(codex.held) \in Nat /\ (Len(codex.held) = r - 1 \/ Len(codex.held) = r)
    BY <1>1, <1>2 DEF RoundFine
  <2> QED
    BY <1>1, <2>1
<1>4. s \in Nat /\ s \notin 1..Len(sess)
  BY <1>1
<1>5. \A j \in 1..Len(codex.held) : codex.held[j].on # s
  BY <1>2, <1>4 DEF KeptFine
<1> HIDE DEF s, k
<1>6. Length(codex, s, r - 1) = 0
  BY <1>2, <1>3, <1>4 DEF HeardFine
<1>7. ~IsAgain(d, s)
  <2>1. Len(codex.held) = r => r \in 1..Len(codex.held)
    BY <1>1
  <2> QED
    BY <1>5, <2>1 DEF IsAgain
<1>8. HeldOn(d, s) = {}
  BY <1>3, <1>5 DEF HeldOn
<1>9. \A j \in RoundKeys : Fresh(y, j)
  BY DEF NewSurface, Fresh, Untold
<1>10. Telling(buffered, y, k, 0)
  <2>1. 0 \in Nat /\ 0 <= 0
    OBVIOUS
  <2>2. Between(0, 0) = <<>>
    BY ONLY <2>1, BetweenFacts
  <2>3. k \in RoundKeys
    BY DEF k
  <2>4. y.journal[k] = <<>> /\ k \notin y.completed /\ y.outcome # "final" /\ Shown(buffered, y) = 0
    BY <2>3 DEF NewSurface, Shown
  <2> QED
    BY <2>1, <2>2, <2>4 DEF Telling
<1>11. Onward(d, buffered, y, s)
  <2>1. y.outstanding = {}
    BY DEF NewSurface
  <2>2. k = <<d.round, d.variant>> /\ Length(d, s, d.round - 1) = 0
    BY <1>6 DEF k, Length
  <2> QED
    BY <1>8, <1>10, <2>1, <2>2 DEF Onward
<1> QED
  BY <1>7, <1>9, <1>11 DEF Follows, s

\* A request that is asked finds its browser in step, or a new one.
LEMMA AsksInStep ==
  ASSUME RoundsIInv, NEW o \in Observers, NEW s, NEW y, NEW a, Asks(o, s, y, a)
  PROVE  RoundsFollow'
<1>1. /\ codex.state = "asking" /\ codex.live = Nobody /\ current' = s /\ sess'[s] = y
      /\ <<codex.round, codex.variant>> \in RoundKeys /\ buffered' = buffered
      /\ obs'[o] = a /\ a.on = s /\ a.key = <<codex.round, codex.variant>> /\ a.pc = "queued"
      /\ \A p \in Observers : p # o => obs'[p] = obs[p]
  BY DEF Asks, Answers
<1>2. /\ codex'.round = codex.round /\ codex'.variant = codex.variant
      /\ codex'.held = codex.held /\ codex'.state = codex.state /\ codex'.live = o
  BY DEF RoundsIInv, RoundsTyped, Codexes, Asks
<1>3. \A t : IsHere(t)' => t = s
  BY <1>1, <1>2 DEF IsHere
<1>4. CASE current = s /\ s \in 1..Len(sess) /\ Content(sess[s], y)
  <2>1. InStep(s)
    <3>1. IsHere(s)
      BY <1>4 DEF IsHere
    <3> QED
      BY <1>1, <1>4, <3>1, InStepParts DEF RoundsIInv
  <2>2. Follows(codex', buffered, y, s)
    BY <1>2, <1>4, <2>1, FollowsSame DEF InStep
  <2>3. RequestsHere(s)'
    <3>1. ASSUME NEW p \in Observers, obs'[p].pc # "idle", obs'[p].on = s
          PROVE  /\ obs'[p].key = <<codex'.round, codex'.variant>>
                 /\ IsAgain(codex', s) =>
                      /\ codex'.variant = 2
                      /\ obs'[p].pc = "queued" \/ (obs'[p].pc = "token" /\ sess'[s].outcome # "final")
      <4>1. CASE p = o
        <5>1. IsAgain(codex', s) => codex.variant = 2
          BY <1>1, <1>2 DEF RoundsIInv, HeldInOrder, IsAgain
        <5> QED
          BY <1>1, <1>2, <4>1, <5>1
      <4>2. CASE p # o
        <5>1. obs'[p] = obs[p] /\ y.outcome = sess[s].outcome
          BY <1>1, <1>4, <4>2 DEF Content
        <5>2. IsAgain(codex', s) => IsAgain(codex, s)
          BY <1>2 DEF IsAgain
        <5> QED
          BY <1>1, <1>2, <2>1, <3>1, <5>1, <5>2 DEF InStep, RequestsHere
      <4> QED
        BY <4>1, <4>2
    <3> QED
      BY <3>1 DEF RequestsHere
  <2>5. ASSUME NEW t \in 1..Len(sess'), IsHere(t)' PROVE InStep(t)'
    <3>1. t = s
      BY <1>3, <2>5
    <3>2. Follows(codex', buffered', sess'[t], t)
      BY <1>1, <2>2, <3>1
    <3>3. RequestsHere(t)'
      BY <2>3, <3>1 DEF RequestsHere
    <3> QED
      BY <3>2, <3>3 DEF InStep
  <2> QED
    BY <2>5, InStepParts
<1>5. CASE s = Len(sess) + 1 /\ NewSurface(y)
  <2>1. Follows(codex', buffered, y, s)
    BY <1>1, <1>2, <1>5, NewFollows
  <2>2. ASSUME NEW p \in Observers, obs'[p].pc # "idle", obs'[p].on = s PROVE p = o
    <3> SUFFICES ASSUME p # o PROVE FALSE
      OBVIOUS
    <3>1. obs[p].pc # "idle" /\ obs[p].on = s
      BY <1>1, <2>2
    <3>2. s \in 1..Len(sess) /\ Len(sess) \in Nat
      BY <3>1 DEF RoundsIInv, RoundsQueued, RoundsTyped
    <3> QED
      BY <1>5, <3>2
  <2>3. RequestsHere(s)'
    <3>1. IsAgain(codex', s) => codex.variant = 2
      BY <1>1, <1>2 DEF RoundsIInv, HeldInOrder, IsAgain
    <3>2. ASSUME NEW p \in Observers, obs'[p].pc # "idle", obs'[p].on = s
          PROVE  /\ obs'[p].key = <<codex'.round, codex'.variant>>
                 /\ IsAgain(codex', s) =>
                      /\ codex'.variant = 2
                      /\ obs'[p].pc = "queued" \/ (obs'[p].pc = "token" /\ sess'[s].outcome # "final")
      <4>1. p = o
        BY <2>2, <3>2
      <4> QED
        BY <1>1, <1>2, <3>1, <4>1
    <3> QED
      BY <3>2 DEF RequestsHere
  <2>4. ASSUME NEW t \in 1..Len(sess'), IsHere(t)' PROVE InStep(t)'
    <3>1. t = s
      BY <1>3, <2>4
    <3>2. Follows(codex', buffered', sess'[t], t)
      BY <1>1, <2>1, <3>1
    <3>3. RequestsHere(t)'
      BY <2>3, <3>1 DEF RequestsHere
    <3> QED
      BY <3>2, <3>3 DEF InStep
  <2> QED
    BY <2>4, InStepParts
<1> QED
  BY <1>4, <1>5 DEF Asks

\* Codex asks once more for the answer it had received.
LEMMA FinishedAgain ==
  ASSUME NEW b, NEW c, NEW d, NEW x, NEW t, Follows(c, b, x, t), IsAgain(c, t),
         d.held = c.held, d.round = c.round, c.round \in Nat, c.variant = 1, d.variant = 2
  PROVE  Follows(d, b, x, t)
<1> DEFINE k == <<c.round, 2>>
<1>1. k[1] = c.round /\ k[2] = 2
  OBVIOUS
<1>2. k = <<d.round, d.variant>>
  OBVIOUS
<1> HIDE DEF k
<1>3. Again(c, b, x, t) /\ \A j \in RoundKeys : Later(c, j) => Fresh(x, j)
  BY DEF Follows
<1>4. \A j \in RoundKeys : Later(d, j) => Later(c, j)
  <2>1. \A j \in RoundKeys : j[1] \in Nat /\ j[2] \in {1, 2}
    BY DEF RoundKeys
  <2> QED
    BY <2>1 DEF Later
<1>5. Fresh(x, k)
  <2>1. Later(c, k)
    BY <1>1 DEF Later
  <2> QED
    BY <1>3, <2>1 DEF Fresh
<1>6. /\ \A n : Length(d, t, n) = Length(c, t, n) /\ CallsOf(d, n) = CallsOf(c, n)
      /\ HeldOn(d, t) = HeldOn(c, t) /\ IsAgain(d, t)
  BY DEF Length, CallsOf, HeldOn, IsAgain
<1>8. ~ToldTwice(b, x, <<c.round, c.variant>>)
  BY DEF ToldTwice
<1>7. Again(d, b, x, t)
  BY <1>2, <1>3, <1>5, <1>6, <1>8 DEF Again
<1> QED
  BY <1>3, <1>4, <1>6, <1>7 DEF Follows

\* Codex asks once more for the batch whose results the browser awaits.
LEMMA BatchAgain ==
  ASSUME NEW b, NEW c, NEW d, NEW x, NEW t, Follows(c, b, x, t), ~IsAgain(c, t), Works(x),
         x.outstanding # {}, d.held = c.held, c.round \in Nat, Len(c.held) = c.round - 1,
         d.round = c.round - 1, c.variant = 1, d.variant = 2
  PROVE  Follows(d, b, x, t)
<1> DEFINE n == d.round
           k == <<n, 2>>
           m == Length(c, t, n - 1)
<1>1. AwaitsResults(c, b, x, t) /\ \A j \in RoundKeys : Later(c, j) => Fresh(x, j)
  BY DEF Follows, Onward
<1>2. n \in Nat /\ c.round = n + 1 /\ c.round - 1 = n /\ c.round - 2 = n - 1
  BY <1>1 DEF AwaitsResults
<1>3. /\ c.held[n].on = t /\ x.outstanding \subseteq CallsOf(c, n) /\ Fresh(x, <<c.round, 1>>)
      /\ m <= Shown(b, x) /\ x.prelude = Between(m, Shown(b, x))
      /\ Fresh(x, k) \/ ToldTools(b, x, k, m)
  BY <1>1, <1>2 DEF AwaitsResults
<1>4. \A j \in RoundKeys : Later(d, j) => Fresh(x, j)
  <2>1. ASSUME NEW j \in RoundKeys, Later(d, j) PROVE Fresh(x, j)
    <3>1. j[1] \in Nat /\ j[2] \in {1, 2} /\ j = <<j[1], j[2]>>
      BY DEF RoundKeys
    <3>2. j[1] > n
      BY <2>1, <3>1 DEF Later
    <3>3. CASE j[1] = c.round /\ j[2] = 1
      BY <1>3, <3>1, <3>3
    <3>4. CASE ~(j[1] = c.round /\ j[2] = 1)
      <4>1. Later(c, j)
        BY <1>2, <3>1, <3>2, <3>4 DEF Later
      <4> QED
        BY <1>1, <4>1
    <3> QED
      BY <3>3, <3>4
  <2> QED
    BY <2>1
<1>5. x.outcome # "final"
  BY DEF Works, CallsIn
<1>6. IsAgain(d, t) /\ CallsOf(d, n) = CallsOf(c, n) /\ Length(d, t, n - 1) = m
  BY <1>2, <1>3 DEF IsAgain, CallsOf, Length
<1>7. \A j \in HeldOn(d, t) : CallsOf(d, j) \subseteq x.resolved
  <2>1. \A j \in HeldOn(c, t) : j < n => CallsOf(c, j) \subseteq x.resolved
    BY <1>2 DEF Follows, Onward
  <2>2. ASSUME NEW j \in HeldOn(d, t) PROVE j \in HeldOn(c, t) /\ j < n
    BY <1>2 DEF HeldOn
  <2>3. \A j : CallsOf(d, j) = CallsOf(c, j)
    BY DEF CallsOf
  <2> QED
    BY <2>1, <2>2, <2>3
<1>8. Again(d, b, x, t)
  <2>1. k = <<d.round, d.variant>>
    OBVIOUS
  <2> HIDE DEF k, m, n
  <2>2. n = d.round
    BY DEF n
  <2> QED
    BY <1>3, <1>5, <1>6, <1>7, <2>1, <2>2 DEF Again
<1> QED
  BY <1>4, <1>6, <1>8 DEF Follows

\* A round that is asked anew is the last one that Codex received.
LEMMA Asks2InStep ==
  ASSUME RoundsIInv, Asks2
  PROVE  RoundsFollow'
<1>1. /\ codex.live = Nobody /\ codex.variant = 1
      /\ \A p \in Observers : obs[p].pc = "idle"
      /\ codex'.live = Nobody /\ codex'.held = codex.held /\ codex'.round = Len(codex.held)
      /\ codex'.variant = 2 /\ codex'.state = "asking"
      /\ buffered' = buffered /\ current' = current /\ sess' = sess /\ obs' = obs
  BY DEF Asks2, RoundsIInv, RoundsTyped
<1>2. codex.round \in Nat \ {0} /\ RoundFine(codex) /\ (codex.state = "finished" => Finished)
  BY HeldParts DEF RoundsIInv, RoundsTyped, Codexes
<1>3. ASSUME NEW t \in 1..Len(sess), IsHere(t)'
      PROVE  InStep(t)'
  <2>1. t = current /\ IsHere(t)
    BY <1>1, <1>3 DEF IsHere
  <2>2. Works(sess[t]) /\ codex.state # "refused"
    BY <2>1, HereWorks DEF Asks2
  <2>3. Follows(codex, buffered, sess[t], t)
    BY <1>1, <2>1, <2>2, InStepParts DEF RoundsIInv, InStep
  <2>4. RequestsHere(t)'
    BY <1>1 DEF RequestsHere
  <2>5. Follows(codex', buffered, sess[t], t)
    <3>1. CASE codex.state = "finished"
      <4>1. Len(codex.held) = codex.round /\ IsAgain(codex, t)
        BY <1>2, <2>1, <3>1 DEF Finished, IsAgain
      <4> QED
        BY <1>1, <1>2, <2>3, <4>1, FinishedAgain
    <3>2. CASE codex.state = "asking" /\ sess[current].outstanding # {}
      <4>1. Len(codex.held) = codex.round - 1
        BY <1>1, <1>2, <3>2 DEF RoundFine
      <4>2. ~IsAgain(codex, t)
        BY <1>2, <4>1 DEF IsAgain
      <4> QED
        BY <1>1, <1>2, <2>1, <2>2, <2>3, <3>2, <4>1, <4>2, BatchAgain
    <3> QED
      BY <3>1, <3>2 DEF Asks2
  <2> QED
    BY <1>1, <2>4, <2>5 DEF InStep
<1> QED
  BY <1>1, <1>3, InStepParts

\* Every step keeps the browser Codex is with in step with it.
LEMMA FollowKept ==
  ASSUME RoundsIInv, StepKind
  PROVE  RoundsFollow'
BY BrowsesInStep, WentInStep, EndedInStep, AsksInStep, LostInStep, Asks2InStep, RestsInStep DEF StepKind

\* The rounds start that way.
LEMMA RoundsStarts ==
  ASSUME RoundsInit
  PROVE  RoundsIInv
<1>1. /\ mode \in {"tools", "manual", "readonly"} /\ buffered \in BOOLEAN
      /\ current = 0 /\ sess = <<>> /\ Len(sess) = 0
      /\ codex = [round |-> 1, variant |-> 1, held |-> <<>>, live |-> Nobody,
                  state |-> "asking", lost |-> 0]
      /\ obs = [o \in Observers |-> Unasked]
  BY RoundsAssumption DEF RoundsInit
<1>2. codex \in Codexes /\ codex.held = <<>> /\ codex.round = 1 /\ codex.live = Nobody
      /\ codex.state = "asking"
  <2>1. <<>> \in Seq(Responses)
    OBVIOUS
  <2> QED
    BY <1>1, <2>1 DEF Codexes
<1>3. \A o \in Observers : obs[o] = Unasked /\ obs[o].pc = "idle" /\ obs[o].gone = FALSE /\ obs[o].batch = {}
  BY <1>1 DEF Unasked
<1>4. RoundsTyped
  <2>1. Unasked \in Asked
    <3> DEFINE n == MaxSurfaces * Cardinality(Tools)
    <3>1. MaxSurfaces \in Nat /\ Cardinality(Tools) \in Nat
      BY RoundsAssumption, FS_CardinalityType
    <3>2. n \in Nat
      BY <3>1
    <3> HIDE DEF n
    <3>3. 1 \in 1..(n + 1)
      BY <3>2
    <3>4. <<1, 1>> \in RoundKeys
      BY <3>3 DEF RoundKeys, n
    <3> QED
      BY <3>4, UnaskedTyped
  <2>2. sess \in Seq(Surfaces) /\ current \in 0..Len(sess)
    BY <1>1
  <2>3. obs \in [Observers -> Asked]
    BY <1>1, <2>1
  <2> QED
    BY <1>1, <1>2, <2>2, <2>3 DEF RoundsTyped
<1>5. RoundsQueued /\ ResultsAwaited /\ SurfacesWork /\ RoundsFollow
  <2>1. 1..Len(sess) = {} /\ current \notin 1..Len(sess)
    BY <1>1
  <2>2. RoundsQueued
    BY <1>3, <2>1 DEF RoundsQueued
  <2>3. ResultsAwaited
    BY <1>3 DEF ResultsAwaited
  <2>4. SurfacesWork
    BY <2>1 DEF SurfacesWork
  <2>5. RoundsFollow
    BY <2>1 DEF RoundsFollow
  <2> QED
    BY <2>2, <2>3, <2>4, <2>5
<1>6. LiveIsLast
  BY <1>2, <1>3 DEF LiveIsLast
<1>7. HeldInOrder
  <2>1. RoundFine(codex) /\ KeptFine(codex, Len(sess))
    BY <1>2 DEF RoundFine, KeptFine
  <2>2. HeardFine(codex, buffered, Len(sess))
    <3>1. 0 \in Nat /\ 0 <= 0
      OBVIOUS
    <3>2. Between(0, 0) = <<>>
      BY ONLY <3>1, BetweenFacts
    <3>3. ASSUME NEW s PROVE HeardIn(codex.held, s)[0] = <<>>
      <4>1. Len(codex.held) \in Nat
        BY <1>2
      <4> QED
        BY ONLY <4>1, HeardStep
    <3>4. ASSUME NEW s PROVE Length(codex, s, 0) = 0
      BY <3>3 DEF Length
    <3>5. 0..Len(codex.held) = {0}
      BY <1>2
    <3> QED
      BY <3>2, <3>3, <3>4, <3>5 DEF HeardFine
  <2> QED
    BY <1>2, <2>1, <2>2, HeldParts
<1> QED
  BY <1>4, <1>5, <1>6, <1>7 DEF RoundsIInv

\* The inductive invariant of the rounds: requests are served in order, what a
\* browser has told of the round Codex is in is what Codex will hear of it, and
\* what Codex has kept is the text of each browser from its start.
THEOREM RoundsFollowed == RoundsSpec => []RoundsIInv
<1>1. RoundsInit => RoundsIInv
  BY RoundsStarts
<1>2. RoundsIInv /\ [RoundsNext]_roundsVars => RoundsIInv'
  <2> SUFFICES ASSUME RoundsIInv, [RoundsNext]_roundsVars PROVE RoundsIInv'
    OBVIOUS
  <2>1. StepKind
    BY StepIsKind
  <2>2. /\ RoundsTyped /\ RoundsQueued /\ ResultsAwaited /\ LiveIsLast /\ SurfacesWork /\ HeldInOrder
    BY DEF RoundsIInv
  <2>3. RoundsTyped' /\ RoundsQueued' /\ ResultsAwaited' /\ SurfacesWork'
    BY <2>1, <2>2, TypedKept, QueuedKept, AwaitedKept, SurfacesWorkKept
  <2>4. LiveIsLast' /\ HeldInOrder' /\ RoundsFollow'
    BY <2>1, <2>2, LiveKept, HeldKept, FollowKept
  <2> QED
    BY <2>3, <2>4 DEF RoundsIInv
<1> QED
  BY <1>1, <1>2, PTL DEF RoundsSpec

\* However often connections break and whatever is replayed, Codex reads the text of
\* a browser once and in order, and all of it with the answer (Drain, Replay, Hears);
\* but a structured answer that Codex lost and asked for in other words may come
\* twice, then whole both times (Settled, AskAgain).
THEOREM AnswersReachClient == RoundsSpec => []AnswerReachesClient
<1>1. RoundsIInv => AnswerReachesClient
  <2> SUFFICES ASSUME RoundsIInv, NEW s \in DOMAIN sess
               PROVE  LET heard == Heard(s, Len(codex.held))
                          answer == Between(0, sess[s].written)
                          answered == /\ codex.state = "finished"
                                      /\ codex.held[Len(codex.held)].on = s
                      IN  \/ heard = Between(0, Len(heard)) /\ (answered => heard = answer)
                          \/ /\ buffered /\ codex.variant = 2 /\ answered
                             /\ heard = answer \o answer
    BY DEF AnswerReachesClient
  <2> DEFINE n == Len(codex.held)
             w == sess[s].written
             heard == Heard(s, n)
             answered == codex.state = "finished" /\ codex.held[n].on = s
  <2>1. n \in 0..Len(codex.held) /\ s \in Nat
    BY DEF RoundsIInv, RoundsTyped, Codexes
  <2>2. HeardFine(codex, buffered, Len(sess)) /\ (codex.state = "finished" => Finished)
    BY HeldParts DEF RoundsIInv
  <2>3. heard = HeardIn(codex.held, s)[n]
    BY DEF Heard
  <2>4. CASE ~answered
    <3>1. ~IsAnswer(codex, s, n)
      BY <2>4 DEF IsAnswer
    <3> QED
      BY <2>1, <2>2, <2>3, <2>4, <3>1 DEF HeardFine, Length
  <2>5. CASE answered
    <3>1. heard = Between(0, w) \/ ReadTwice(codex, buffered, heard, w)
      BY <2>2, <2>3, <2>5 DEF Finished
    <3>2. heard = Between(0, w) => heard = Between(0, Len(heard))
      <4>1. w \in Nat
        <5>1. sess[s] \in Surfaces
          BY DEF RoundsIInv, RoundsTyped
        <5> QED
          BY <5>1, SurfaceFields
      <4>2. 0 \in Nat /\ 0 <= w
        BY <4>1
      <4>3. Len(Between(0, w)) = w - 0
        BY ONLY <4>1, <4>2, BetweenFacts
      <4> QED
        BY <4>1, <4>3
    <3> QED
      BY <2>5, <3>1, <3>2 DEF ReadTwice, Twice
  <2> QED
    BY <2>4, <2>5
<1> QED
  BY <1>1, RoundsFollowed, PTL
===============================================================================
