--------------------------- MODULE LlmRelay_proofs --------------------------
(***************************************************************************)
(* Theorems about LlmRelay, for any history, any size of a line, any       *)
(* chunks and any number of messages and events.                           *)
(***************************************************************************)
EXTENDS LlmRelay, FiniteSetTheorems, SequenceTheorems, TLAPS

---------------------------------------------------------------------------
(* The inductive invariant.                                                *)

\* Every chunk on its way completes further events, the last one all of the n
\* that were served; without chunks all have come in.
Coming(read, chunks, n) ==
  /\ IF chunks = <<>> THEN read = n ELSE chunks[Len(chunks)] = n
  /\ \A a \in DOMAIN chunks : read <= chunks[a] /\ chunks[a] <= n
  /\ \A a, b \in DOMAIN chunks : a < b => chunks[a] <= chunks[b]

\* The events are taken out of what has come in; before the server answers
\* there are none.
FlowInv(g) ==
  /\ g.parsed <= g.read /\ g.read <= Len(g.served) /\ Len(g.served) <= MaxEvents
  /\ Coming(g.read, g.chunks, Len(g.served))
  /\ g.phase = "calling" =>
       /\ g.read = 0 /\ g.parsed = 0
       /\ g.served = <<>> /\ g.chunks = <<>> /\ g.acc = <<>> /\ g.sends = <<>>

TextInv(g) ==
  /\ Ascending(Lines(g))
  /\ TextsOf(Lines(g)) = {n \in 1..g.parsed : Kind(g, n) = "text"}

\* The answer has been read to its end, after which no more is served, or to
\* [DONE].
Settled(g, streamed) ==
  \/ g.parsed = Len(g.served) /\ (g.body # "open" \/ ~streamed)
  \/ g.parsed \in DOMAIN g.served /\ Kind(g, g.parsed) = "[DONE]"

EndInv(g, streamed) ==
  /\ g.outcome = "done" => g.phase = "ended"
  /\ g.outcome = "done" \/ (g.phase = "sending" /\ g.final) =>
       g.acc = <<>> /\ Settled(g, streamed)

GenInv(g, streamed) == FlowInv(g) /\ TextInv(g) /\ EndInv(g, streamed)

\* There are as many replies as messages of others have been heard, and
\* history has the last messages heard.
ReplyInv ==
  /\ OneReplyPerMessage
  /\ history = Window(heard)
  /\ Cardinality(OfOthers(heard \o inbox)) <= MaxOthers

RelayInv ==
  /\ TypeOK
  /\ \A i \in DOMAIN gen : GenInv(gen[i], stream)
  /\ ReplyInv

---------------------------------------------------------------------------
(* The events and the lines of a reply.                                    *)

\* A chunk is put behind those on their way.
LEMMA ComingAppend ==
  ASSUME NEW read \in Nat, NEW chunks \in Seq(Nat), NEW n \in Nat, NEW more \in Nat,
         Coming(read, chunks, n), read <= n, n <= more
  PROVE  Coming(read, Append(chunks, more), more)
<1> DEFINE q == Append(chunks, more)
           k == Len(chunks) + 1
<1>1. /\ q \in Seq(Nat) /\ q # <<>> /\ Len(q) = k /\ q[k] = more
      /\ DOMAIN q = DOMAIN chunks \cup {k}
      /\ \A a \in DOMAIN chunks : q[a] = chunks[a] /\ chunks[a] \in Nat /\ a \in Nat /\ a < k
      /\ k \in Nat
  <2>1. Len(chunks) \in Nat /\ DOMAIN chunks = 1..Len(chunks)
    OBVIOUS
  <2>2. q \in Seq(Nat) /\ Len(q) = k /\ DOMAIN q = 1..k
    OBVIOUS
  <2>3. q[k] = more /\ \A a \in 1..Len(chunks) : q[a] = chunks[a]
    OBVIOUS
  <2>4. 1..k = 1..Len(chunks) \cup {k} /\ k \in Nat /\ k # 0
    BY <2>1
  <2>5. q # <<>>
    BY <2>2, <2>4
  <2>6. \A a \in 1..Len(chunks) : chunks[a] \in Nat /\ a \in Nat /\ a < k
    BY <2>1
  <2> QED
    BY <2>1, <2>2, <2>3, <2>4, <2>5, <2>6
<1> HIDE DEF q, k
<1>2. \A a \in DOMAIN q : read <= q[a] /\ q[a] <= more
  <2>1. \A a \in DOMAIN chunks : read <= chunks[a] /\ chunks[a] <= n
    BY DEF Coming
  <2>2. /\ read \in Nat /\ n \in Nat /\ more \in Nat /\ read <= n /\ n <= more
        /\ \A a \in DOMAIN chunks : q[a] = chunks[a] /\ chunks[a] \in Nat
        /\ \A a \in DOMAIN q : a \in DOMAIN chunks \/ a = k
        /\ q[k] = more
    BY <1>1
  <2> QED
    BY ONLY <2>1, <2>2
<1>3. ASSUME NEW a \in DOMAIN q, NEW b \in DOMAIN q, a < b
      PROVE  q[a] <= q[b]
  <2>1. CASE b = k
    BY <1>1, <1>2, <2>1
  <2>2. CASE b # k
    <3>1. a \in DOMAIN chunks /\ b \in DOMAIN chunks
      BY <1>1, <1>3, <2>2
    <3>2. chunks[a] <= chunks[b]
      BY <1>3, <3>1 DEF Coming
    <3> QED
      BY <1>1, <3>1, <3>2
  <2> QED
    BY <2>1, <2>2
<1> QED
  BY <1>1, <1>2, <1>3 DEF Coming, q

\* The first chunk comes in.
LEMMA ComingTail ==
  ASSUME NEW read \in Nat, NEW chunks \in Seq(Nat), NEW n \in Nat,
         Coming(read, chunks, n), chunks # <<>>
  PROVE  /\ Coming(Head(chunks), Tail(chunks), n)
         /\ Head(chunks) \in Nat /\ read <= Head(chunks) /\ Head(chunks) <= n
<1> DEFINE q == Tail(chunks)
           first == Head(chunks)
<1>1. /\ q \in Seq(Nat) /\ first \in Nat /\ first = chunks[1] /\ 1 \in DOMAIN chunks
      /\ \A a \in DOMAIN q : q[a] = chunks[a + 1] /\ a + 1 \in DOMAIN chunks /\ 1 < a + 1
      /\ \A a, b \in DOMAIN q : a < b => a + 1 < b + 1
  OBVIOUS
<1>2. Len(q) + 1 = Len(chunks)
  OBVIOUS
<1> HIDE DEF q, first
<1>3. /\ q # <<>> => Len(q) \in DOMAIN q
      /\ q = <<>> => Len(chunks) = 1
  BY <1>1, <1>2
<1>4. read <= first /\ first <= n
  BY <1>1 DEF Coming
<1>5. \A a \in DOMAIN q : first <= q[a] /\ q[a] <= n
  BY <1>1 DEF Coming
<1>6. \A a, b \in DOMAIN q : a < b => q[a] <= q[b]
  BY <1>1 DEF Coming
<1>7. IF q = <<>> THEN first = n ELSE q[Len(q)] = n
  BY <1>1, <1>2, <1>3 DEF Coming
<1> QED
  BY <1>1, <1>4, <1>5, <1>6, <1>7 DEF Coming, q, first

\* What Append does, with the last place by its number.
LEMMA AppendPlaces ==
  ASSUME NEW S, NEW s \in Seq(S), NEW x \in S
  PROVE  /\ Append(s, x) \in Seq(S)
         /\ DOMAIN Append(s, x) = DOMAIN s \cup {Len(s) + 1}
         /\ Append(s, x)[Len(s) + 1] = x
         /\ \A a \in DOMAIN s : Append(s, x)[a] = s[a] /\ a \in Nat /\ a < Len(s) + 1
         /\ Len(s) + 1 \in Nat
  OBVIOUS

\* The text held is given to chat.send: the lines keep their texts.
LEMMA LinesSent ==
  ASSUME NEW sends \in Seq(Seq(Nat)), NEW acc \in Seq(Nat),
         Ascending(Append(sends, acc))
  PROVE  /\ Ascending(Append(Append(sends, acc), <<>>))
         /\ TextsOf(Append(Append(sends, acc), <<>>)) = TextsOf(Append(sends, acc))
<1> DEFINE old == Append(sends, acc)
           none == <<>>
           new == Append(old, none)
           k == Len(old) + 1
<1>1. none \in Seq(Nat) /\ old \in Seq(Seq(Nat))
  OBVIOUS
<1> HIDE DEF old, none
<1>2. /\ DOMAIN new = DOMAIN old \cup {k} /\ new[k] = none
      /\ \A a \in DOMAIN old : new[a] = old[a] /\ a \in Nat /\ a < k
      /\ k \in Nat
  BY ONLY <1>1, AppendPlaces
<1>3. ToSet(none) = {} /\ DOMAIN none = {}
  BY DEF ToSet, none
<1> HIDE DEF new, k
<1>4. TextsOf(new) = TextsOf(old)
  BY <1>2, <1>3 DEF TextsOf
<1>5. Ascending(old)
  BY DEF old
<1>6. ASSUME NEW a \in DOMAIN new, NEW b \in DOMAIN new[a], NEW c \in DOMAIN new[a], b < c
      PROVE  new[a][b] < new[a][c]
  BY <1>2, <1>3, <1>5, <1>6 DEF Ascending
<1>7. ASSUME NEW a \in DOMAIN new, NEW b \in DOMAIN new, a < b,
             NEW n \in ToSet(new[a]), NEW m \in ToSet(new[b])
      PROVE  n < m
  <2>1. a \in DOMAIN old /\ b \in DOMAIN old
    BY <1>2, <1>3, <1>7
  <2> QED
    BY <1>2, <1>5, <1>7, <2>1 DEF Ascending
<1> QED
  BY <1>4, <1>6, <1>7 DEF Ascending, new, old, none

\* A text joins those that are held.
LEMMA LinesGrow ==
  ASSUME NEW sends \in Seq(Seq(Nat)), NEW acc \in Seq(Nat), NEW n \in Nat,
         Ascending(Append(sends, acc)),
         \A m \in TextsOf(Append(sends, acc)) : m < n
  PROVE  /\ Ascending(Append(sends, Append(acc, n)))
         /\ TextsOf(Append(sends, Append(acc, n))) = TextsOf(Append(sends, acc)) \cup {n}
<1> DEFINE old == Append(sends, acc)
           text == Append(acc, n)
           new == Append(sends, text)
           k == Len(sends) + 1
           l == Len(acc) + 1
<1>1. /\ text \in Seq(Nat) /\ DOMAIN text = DOMAIN acc \cup {l} /\ text[l] = n
      /\ \A b \in DOMAIN acc : text[b] = acc[b] /\ b \in Nat /\ b < l
      /\ l \in Nat
  BY ONLY acc \in Seq(Nat), n \in Nat, AppendPlaces
<1>2. /\ DOMAIN old = DOMAIN sends \cup {k} /\ old[k] = acc
      /\ \A a \in DOMAIN sends : old[a] = sends[a] /\ a \in Nat /\ a < k
      /\ k \in Nat
  BY ONLY sends \in Seq(Seq(Nat)), acc \in Seq(Nat), AppendPlaces
<1>3. /\ DOMAIN new = DOMAIN sends \cup {k} /\ new[k] = text
      /\ \A a \in DOMAIN sends : new[a] = sends[a]
  BY ONLY sends \in Seq(Seq(Nat)), <1>1, AppendPlaces
<1>4. Ascending(old) /\ \A m \in TextsOf(old) : m < n
  OBVIOUS
<1> HIDE DEF old, new, k, l, text
<1>5. ToSet(text) = ToSet(acc) \cup {n}
  BY <1>1 DEF ToSet
<1>6. TextsOf(new) = TextsOf(old) \cup {n}
  BY <1>2, <1>3, <1>5 DEF TextsOf
<1>7. \A a \in DOMAIN old : \A m \in ToSet(old[a]) : m < n
  BY <1>4 DEF TextsOf
<1>8. ASSUME NEW a \in DOMAIN new, NEW b \in DOMAIN new[a], NEW c \in DOMAIN new[a], b < c
      PROVE  new[a][b] < new[a][c]
  <2>1. CASE a \in DOMAIN sends /\ a # k
    BY <1>2, <1>3, <1>4, <1>8, <2>1 DEF Ascending
  <2>2. CASE a = k
    <3>1. b \in DOMAIN acc /\ text[b] = acc[b]
      BY <1>1, <1>3, <1>8, <2>2
    <3>2. CASE c = l
      <4>1. acc[b] \in ToSet(acc)
        BY <3>1 DEF ToSet
      <4> QED
        BY <1>1, <1>2, <1>3, <1>7, <2>2, <3>1, <3>2, <4>1
    <3>3. CASE c \in DOMAIN acc
      BY <1>1, <1>2, <1>3, <1>4, <1>8, <2>2, <3>1, <3>3 DEF Ascending
    <3> QED
      BY <1>1, <1>3, <1>8, <2>2, <3>2, <3>3
  <2> QED
    BY <1>3, <2>1, <2>2
<1>9. ASSUME NEW a \in DOMAIN new, NEW b \in DOMAIN new, a < b,
             NEW p \in ToSet(new[a]), NEW m \in ToSet(new[b])
      PROVE  p < m
  <2>1. a \in DOMAIN sends /\ a # k /\ a \in DOMAIN old /\ new[a] = old[a]
    BY <1>2, <1>3, <1>9
  <2>2. CASE b \in DOMAIN sends
    BY <1>2, <1>3, <1>4, <1>9, <2>1, <2>2 DEF Ascending
  <2>3. CASE b = k
    <3>1. m \in ToSet(acc) \/ m = n
      BY <1>3, <1>5, <1>9, <2>3
    <3>2. CASE m = n
      BY <1>7, <1>9, <2>1, <3>2
    <3>3. CASE m \in ToSet(acc)
      BY <1>2, <1>4, <1>9, <2>1, <2>3, <3>3 DEF Ascending
    <3> QED
      BY <3>1, <3>2, <3>3
  <2> QED
    BY <1>3, <2>2, <2>3
<1> QED
  BY <1>6, <1>8, <1>9 DEF Ascending, new, old, text

---------------------------------------------------------------------------
(* What the steps make of a generation.                                    *)

\* Such a generation may take the place of g.
Follows(h, g, streamed) ==
  h \in Generation /\ h.snapshot = g.snapshot /\ GenInv(h, streamed)

\* A step that leaves the events and the texts alone.
LEMMA Keeps ==
  ASSUME NEW g \in Generation, NEW h \in Generation, NEW s \in BOOLEAN, GenInv(g, s),
         h.snapshot = g.snapshot, h.served = g.served, h.chunks = g.chunks,
         h.read = g.read, h.parsed = g.parsed, h.acc = g.acc, h.sends = g.sends,
         h.phase = "calling" => g.phase = "calling",
         EndInv(h, s)
  PROVE  Follows(h, g, s)
<1>1. FlowInv(h)
  BY DEF GenInv, FlowInv
<1>2. TextInv(h)
  BY DEF GenInv, TextInv, Lines, Kind
<1> QED
  BY <1>1, <1>2 DEF GenInv, Follows

\* An error, or an abort.
LEMMA EndsEarly ==
  ASSUME NEW g \in Generation, NEW s \in BOOLEAN, GenInv(g, s),
         NEW how \in {"error", "aborted"}
  PROVE  /\ Follows(Ended(g, how), g, s)
         /\ Follows([Ended(g, how) EXCEPT !.aborted = TRUE], g, s)
<1> DEFINE h == Ended(g, how)
           k == [h EXCEPT !.aborted = TRUE]
<1>1. /\ h \in Generation /\ k \in Generation
      /\ h.phase = "ended" /\ h.outcome = how /\ k.phase = "ended" /\ k.outcome = how
      /\ h.snapshot = g.snapshot /\ h.served = g.served /\ h.chunks = g.chunks
      /\ h.read = g.read /\ h.parsed = g.parsed /\ h.acc = g.acc /\ h.sends = g.sends
      /\ k.snapshot = g.snapshot /\ k.served = g.served /\ k.chunks = g.chunks
      /\ k.read = g.read /\ k.parsed = g.parsed /\ k.acc = g.acc /\ k.sends = g.sends
  BY DEF Ended, Generation
<1> HIDE DEF h, k
<1>2. EndInv(h, s) /\ EndInv(k, s)
  BY <1>1 DEF EndInv
<1>3. Follows(h, g, s)
  BY ONLY g \in Generation, s \in BOOLEAN, GenInv(g, s), <1>1, <1>2, Keeps
<1>4. Follows(k, g, s)
  BY ONLY g \in Generation, s \in BOOLEAN, GenInv(g, s), <1>1, <1>2, Keeps
<1> QED
  BY <1>3, <1>4 DEF h, k

\* The generation before is told that it is aborted, or dropped.
LEMMA Aborted ==
  ASSUME NEW g \in Generation, NEW s \in BOOLEAN, GenInv(g, s)
  PROVE  Follows(Abort(g), g, s)
<1>1. CASE g.phase = "ended"
  BY <1>1 DEF Abort, Follows
<1>2. CASE g.phase # "ended" /\ g.awake
  <2> DEFINE h == [g EXCEPT !.aborted = TRUE]
  <2>1. /\ h \in Generation /\ h.phase = g.phase /\ h.outcome = g.outcome
        /\ h.body = g.body /\ h.final = g.final
        /\ h.snapshot = g.snapshot /\ h.served = g.served /\ h.chunks = g.chunks
        /\ h.read = g.read /\ h.parsed = g.parsed /\ h.acc = g.acc /\ h.sends = g.sends
    BY DEF Generation
  <2>2. Abort(g) = h
    BY <1>2 DEF Abort
  <2> HIDE DEF h
  <2>3. EndInv(h, s)
    BY <2>1 DEF GenInv, EndInv, Settled, Kind
  <2>4. Follows(h, g, s)
    BY ONLY g \in Generation, s \in BOOLEAN, GenInv(g, s), <2>1, <2>3, Keeps
  <2> QED
    BY <2>2, <2>4
<1>3. CASE g.phase # "ended" /\ ~g.awake
  <2>1. Abort(g) = [Ended(g, "aborted") EXCEPT !.aborted = TRUE]
    BY <1>3 DEF Abort
  <2> QED
    BY <2>1, EndsEarly
<1> QED
  BY <1>1, <1>2, <1>3

\* The server answers; a reply that waited for the model reads on.
LEMMA Responded ==
  ASSUME NEW g \in Generation, NEW s \in BOOLEAN, GenInv(g, s), g.phase = "calling"
  PROVE  Follows([g EXCEPT !.phase = "reading", !.awake = TRUE], g, s)
<1> DEFINE h == [g EXCEPT !.phase = "reading", !.awake = TRUE]
<1>1. /\ h \in Generation /\ h.phase = "reading" /\ h.outcome = g.outcome
      /\ h.snapshot = g.snapshot /\ h.served = g.served /\ h.chunks = g.chunks
      /\ h.read = g.read /\ h.parsed = g.parsed /\ h.acc = g.acc /\ h.sends = g.sends
  BY DEF Generation
<1> HIDE DEF h
<1>2. EndInv(h, s)
  BY <1>1 DEF GenInv, EndInv
<1>3. Follows(h, g, s)
  BY ONLY g \in Generation, s \in BOOLEAN, GenInv(g, s), <1>1, <1>2, Keeps
<1> QED
  BY <1>3 DEF h

\* The server is done with its answer.
LEMMA BodyOver ==
  ASSUME NEW g \in Generation, NEW s \in BOOLEAN, GenInv(g, s),
         g.phase \in {"reading", "sending"}, g.body = "open", s,
         NEW how \in {"ended", "broken"}
  PROVE  Follows([Woken(g) EXCEPT !.body = how], g, s)
<1> DEFINE h == [Woken(g) EXCEPT !.body = how]
<1>1. /\ h \in Generation /\ h.phase = g.phase /\ h.outcome = g.outcome
      /\ h.body = how /\ h.final = g.final
      /\ h.snapshot = g.snapshot /\ h.served = g.served /\ h.chunks = g.chunks
      /\ h.read = g.read /\ h.parsed = g.parsed /\ h.acc = g.acc /\ h.sends = g.sends
  BY DEF Generation, Woken
<1> HIDE DEF h
<1>2. EndInv(h, s)
  BY <1>1 DEF GenInv, EndInv, Settled, Kind
<1>3. Follows(h, g, s)
  BY ONLY g \in Generation, s \in BOOLEAN, GenInv(g, s), <1>1, <1>2, Keeps
<1> QED
  BY <1>3 DEF h

\* The reply sleeps, with a waker left.
LEMMA Sleeps ==
  ASSUME NEW g \in Generation, NEW s \in BOOLEAN, GenInv(g, s)
  PROVE  Follows([g EXCEPT !.awake = FALSE, !.waker = TRUE], g, s)
<1> DEFINE h == [g EXCEPT !.awake = FALSE, !.waker = TRUE]
<1>1. /\ h \in Generation /\ h.phase = g.phase /\ h.outcome = g.outcome
      /\ h.body = g.body /\ h.final = g.final
      /\ h.snapshot = g.snapshot /\ h.served = g.served /\ h.chunks = g.chunks
      /\ h.read = g.read /\ h.parsed = g.parsed /\ h.acc = g.acc /\ h.sends = g.sends
  BY DEF Generation
<1> HIDE DEF h
<1>2. EndInv(h, s)
  BY <1>1 DEF GenInv, EndInv, Settled, Kind
<1>3. Follows(h, g, s)
  BY ONLY g \in Generation, s \in BOOLEAN, GenInv(g, s), <1>1, <1>2, Keeps
<1> QED
  BY <1>3 DEF h

\* chat.send returns, for a line that is the last or not.
LEMMA SendOver ==
  ASSUME NEW g \in Generation, NEW s \in BOOLEAN, GenInv(g, s), g.phase = "sending"
  PROVE  Follows(IF g.final THEN Ended(g, "done") ELSE [g EXCEPT !.phase = "reading"], g, s)
<1>1. CASE g.final
  <2> DEFINE h == Ended(g, "done")
  <2>1. /\ h \in Generation /\ h.phase = "ended" /\ h.outcome = "done"
        /\ h.body = g.body
        /\ h.snapshot = g.snapshot /\ h.served = g.served /\ h.chunks = g.chunks
        /\ h.read = g.read /\ h.parsed = g.parsed /\ h.acc = g.acc /\ h.sends = g.sends
    BY DEF Generation, Ended
  <2> HIDE DEF h
  <2>2. EndInv(h, s)
    BY <1>1, <2>1 DEF GenInv, EndInv, Settled, Kind
  <2>3. Follows(h, g, s)
    BY ONLY g \in Generation, s \in BOOLEAN, GenInv(g, s), <2>1, <2>2, Keeps
  <2> QED
    BY <1>1, <2>3 DEF h
<1>2. CASE ~g.final
  <2> DEFINE h == [g EXCEPT !.phase = "reading"]
  <2>1. /\ h \in Generation /\ h.phase = "reading" /\ h.outcome = g.outcome
        /\ h.snapshot = g.snapshot /\ h.served = g.served /\ h.chunks = g.chunks
        /\ h.read = g.read /\ h.parsed = g.parsed /\ h.acc = g.acc /\ h.sends = g.sends
    BY DEF Generation
  <2> HIDE DEF h
  <2>2. EndInv(h, s)
    BY <2>1 DEF GenInv, EndInv
  <2>3. Follows(h, g, s)
    BY ONLY g \in Generation, s \in BOOLEAN, GenInv(g, s), <2>1, <2>2, Keeps
  <2> QED
    BY <1>2, <2>3 DEF h
<1> QED
  BY <1>1, <1>2

\* The held text is given to chat.send, the last line only when the answer has
\* been read.
LEMMA Sent ==
  ASSUME NEW g \in Generation, NEW s \in BOOLEAN, GenInv(g, s), g.outcome # "done",
         NEW final \in BOOLEAN, final => Settled(g, s)
  PROVE  Follows(Sending(g, final), g, s)
<1> DEFINE h == Sending(g, final)
<1>1. /\ h.phase = "sending" /\ h.outcome = g.outcome /\ h.final = final
      /\ h.body = g.body /\ h.acc = <<>> /\ h.sends = Append(g.sends, g.acc)
      /\ h.snapshot = g.snapshot /\ h.served = g.served /\ h.chunks = g.chunks
      /\ h.read = g.read /\ h.parsed = g.parsed
  BY DEF Generation, Sending
<1>2. h \in Generation
  <2>1. Append(g.sends, g.acc) \in Seq(Texts) /\ <<>> \in Texts
    BY DEF Generation, Texts
  <2> QED
    BY <2>1 DEF Generation, Sending
<1> HIDE DEF h
<1>3. FlowInv(h)
  BY <1>1 DEF GenInv, FlowInv
<1>4. TextInv(h)
  <2>1. g.sends \in Seq(Seq(Nat)) /\ g.acc \in Seq(Nat)
    <3>1. g.sends \in Seq(Texts) /\ g.acc \in Texts
      BY DEF Generation
    <3>2. Texts \subseteq Seq(Nat)
      BY RelayAssumption DEF Texts
    <3> QED
      BY ONLY <3>1, <3>2
  <2>2. Ascending(Append(g.sends, g.acc))
    BY DEF GenInv, TextInv, Lines
  <2>3. /\ Ascending(Append(Append(g.sends, g.acc), <<>>))
        /\ TextsOf(Append(Append(g.sends, g.acc), <<>>)) = TextsOf(Append(g.sends, g.acc))
    BY ONLY <2>1, <2>2, LinesSent
  <2> QED
    BY <1>1, <2>3 DEF GenInv, TextInv, Lines, Kind
<1>5. EndInv(h, s)
  BY <1>1 DEF EndInv, Settled, Kind
<1> QED
  BY <1>1, <1>2, <1>3, <1>4, <1>5 DEF Follows, GenInv, h

\* The answer has been read: what is held is sent, or the reply is done.
LEMMA Flushed ==
  ASSUME NEW g \in Generation, NEW s \in BOOLEAN, GenInv(g, s), g.outcome # "done",
         Settled(g, s)
  PROVE  Follows(Flush(g), g, s)
<1>1. CASE g.acc = <<>>
  <2> DEFINE h == Ended(g, "done")
  <2>1. /\ h \in Generation /\ h.phase = "ended" /\ h.outcome = "done"
        /\ h.body = g.body
        /\ h.snapshot = g.snapshot /\ h.served = g.served /\ h.chunks = g.chunks
        /\ h.read = g.read /\ h.parsed = g.parsed /\ h.acc = g.acc /\ h.sends = g.sends
    BY DEF Generation, Ended
  <2> HIDE DEF h
  <2>2. EndInv(h, s)
    BY <1>1, <2>1 DEF EndInv, Settled, Kind
  <2>3. Follows(h, g, s)
    BY ONLY g \in Generation, s \in BOOLEAN, GenInv(g, s), <2>1, <2>2, Keeps
  <2> QED
    BY <1>1, <2>3 DEF h, Flush
<1>2. CASE g.acc # <<>>
  BY <1>2, Sent DEF Flush
<1> QED
  BY <1>1, <1>2

\* A chunk is on its way.
LEMMA ChunkServed ==
  ASSUME NEW g \in Generation, NEW s \in BOOLEAN, GenInv(g, s),
         g.phase \in {"reading", "sending"}, g.body = "open", s,
         NEW chunk \in Seq(Seq(DataLines)), Len(g.served \o chunk) <= MaxEvents
  PROVE  Follows([Woken(g) EXCEPT !.served = @ \o chunk,
                                  !.chunks = Append(@, Len(g.served \o chunk))], g, s)
<1> DEFINE events == g.served \o chunk
           marks == Append(g.chunks, Len(events))
           h == [Woken(g) EXCEPT !.served = @ \o chunk,
                                 !.chunks = Append(@, Len(g.served \o chunk))]
<1>1. /\ g.served \in Seq(Seq(DataLines)) /\ g.chunks \in Seq(0..MaxEvents)
      /\ g.read \in Nat /\ g.parsed \in Nat /\ g.read <= Len(g.served)
      /\ g.parsed <= g.read
  BY RelayAssumption DEF Generation, GenInv, FlowInv
<1>2. /\ events \in Seq(Seq(DataLines)) /\ Len(events) \in Nat
      /\ Len(g.served) \in Nat /\ Len(g.served) <= Len(events)
      /\ \A n \in 1..Len(g.served) : events[n] = g.served[n]
      /\ DOMAIN g.served = 1..Len(g.served) /\ DOMAIN events = 1..Len(events)
  BY <1>1
<1>3. Len(events) <= MaxEvents
  OBVIOUS
<1> HIDE DEF events
<1>4. marks \in Seq(0..MaxEvents)
  <2>1. Len(events) \in 0..MaxEvents
    BY <1>2, <1>3, RelayAssumption
  <2> QED
    BY ONLY <1>1, <2>1, AppendPlaces
<1>5. h = [g EXCEPT !.awake = @ \/ g.waker, !.waker = FALSE, !.served = events,
                    !.chunks = marks]
  BY DEF Woken, events, Generation
<1> HIDE DEF h, marks
<1>6. /\ h \in Generation /\ h.phase = g.phase /\ h.outcome = g.outcome
      /\ h.body = g.body /\ h.final = g.final
      /\ h.snapshot = g.snapshot /\ h.served = events /\ h.chunks = marks
      /\ h.read = g.read /\ h.parsed = g.parsed /\ h.acc = g.acc /\ h.sends = g.sends
  BY <1>2, <1>4, <1>5 DEF Generation
<1>7. Coming(h.read, h.chunks, Len(h.served))
  <2>1. g.chunks \in Seq(Nat)
    BY <1>1, RelayAssumption
  <2>2. Coming(g.read, g.chunks, Len(g.served))
    BY DEF GenInv, FlowInv
  <2>3. Coming(g.read, marks, Len(events))
    BY ONLY <1>1, <1>2, <2>1, <2>2, ComingAppend DEF marks
  <2> QED
    BY <1>6, <2>3
<1>8. FlowInv(h)
  BY <1>1, <1>2, <1>3, <1>6, <1>7 DEF FlowInv
<1>9. \A n \in 1..g.parsed : Kind(h, n) = Kind(g, n)
  <2> SUFFICES ASSUME NEW n \in 1..g.parsed
               PROVE  Kind(h, n) = Kind(g, n)
    OBVIOUS
  <2>1. n \in 1..Len(g.served)
    BY <1>1, <1>2
  <2>2. h.served[n] = g.served[n]
    BY ONLY <1>2, <1>6, <2>1, Zenon
  <2> QED
    BY ONLY <2>2, Zenon DEF Kind
<1>10. TextInv(h)
  BY <1>6, <1>9 DEF GenInv, TextInv, Lines
<1>11. EndInv(h, s)
  <2>1. ASSUME g.outcome = "done" \/ (g.phase = "sending" /\ g.final)
        PROVE  g.acc = <<>> /\ Settled(h, s)
    <3>1. g.acc = <<>> /\ Settled(g, s)
      BY <2>1 DEF GenInv, EndInv
    <3>2. g.parsed \in 1..Len(g.served) /\ Kind(g, g.parsed) = "[DONE]"
      BY <1>2, <3>1 DEF Settled
    <3>3. g.parsed \in DOMAIN events /\ Kind(h, g.parsed) = "[DONE]"
      <4>1. g.parsed \in 1..g.parsed
        BY <1>1, <3>2
      <4>2. g.parsed \in 1..Len(events)
        BY <1>1, <1>2, <3>2
      <4> QED
        BY <1>2, <1>9, <3>2, <4>1, <4>2
    <3> QED
      BY <1>6, <3>1, <3>3 DEF Settled
  <2> QED
    BY <1>6, <2>1 DEF GenInv, EndInv
<1> QED
  BY <1>6, <1>8, <1>10, <1>11 DEF Follows, GenInv, h

\* A chunk comes in.
LEMMA ChunkRead ==
  ASSUME NEW g \in Generation, NEW s \in BOOLEAN, GenInv(g, s), g.phase = "reading",
         g.chunks # <<>>
  PROVE  Follows([g EXCEPT !.read = Head(g.chunks), !.chunks = Tail(@),
                           !.awake = Head(g.chunks) > g.read], g, s)
<1> DEFINE read == Head(g.chunks)
           rest == Tail(g.chunks)
           more == read > g.read
           h == [g EXCEPT !.read = read, !.chunks = Tail(@), !.awake = more]
<1>1. /\ g.chunks \in Seq(0..MaxEvents) /\ Len(g.served) \in Nat /\ g.served \in Seq(Seq(DataLines))
      /\ g.read \in Nat /\ g.parsed \in Nat /\ g.parsed <= g.read /\ Len(g.served) <= MaxEvents
  BY RelayAssumption DEF Generation, GenInv, FlowInv
<1>2. read \in 0..MaxEvents /\ rest \in Seq(0..MaxEvents)
  BY ONLY <1>1, g.chunks # <<>>, HeadTailProperties
<1>3. /\ Coming(read, rest, Len(g.served))
      /\ read \in Nat /\ g.read <= read /\ read <= Len(g.served)
  <2>1. g.chunks \in Seq(Nat)
    BY <1>1, RelayAssumption
  <2>2. Coming(g.read, g.chunks, Len(g.served))
    BY DEF GenInv, FlowInv
  <2> QED
    BY ONLY <1>1, <2>1, <2>2, g.chunks # <<>>, ComingTail
<1>4. h = [g EXCEPT !.read = read, !.chunks = rest, !.awake = more] /\ more \in BOOLEAN
  OBVIOUS
<1> HIDE DEF h, read, rest, more
<1>5. /\ h \in Generation /\ h.phase = g.phase /\ h.outcome = g.outcome
      /\ h.snapshot = g.snapshot /\ h.served = g.served /\ h.chunks = rest
      /\ h.read = read /\ h.parsed = g.parsed /\ h.acc = g.acc /\ h.sends = g.sends
  BY <1>2, <1>4 DEF Generation
<1>6. FlowInv(h)
  BY <1>1, <1>3, <1>5 DEF FlowInv
<1>7. TextInv(h)
  BY <1>5 DEF GenInv, TextInv, Lines, Kind
<1>8. EndInv(h, s)
  BY <1>5 DEF GenInv, EndInv
<1> QED
  BY <1>5, <1>6, <1>7, <1>8 DEF Follows, GenInv, h, read, more

\* The next event is taken, which is no text.
LEMMA OtherTaken ==
  ASSUME NEW g \in Generation, NEW s \in BOOLEAN, GenInv(g, s), g.phase = "reading",
         g.parsed < g.read, Kind(g, g.parsed + 1) # "text"
  PROVE  Follows(Taken(g), g, s) /\ Taken(g).phase = "reading"
<1> DEFINE h == Taken(g)
           n == g.parsed + 1
<1>1. /\ g.read \in 0..MaxEvents /\ g.parsed \in 0..MaxEvents /\ MaxEvents \in Nat
  BY RelayAssumption DEF Generation
<1>2. n \in 0..MaxEvents /\ n <= g.read /\ 1..n = (1..g.parsed) \cup {n} /\ n = g.parsed + 1
  BY <1>1
<1>3. h = [g EXCEPT !.parsed = n]
  BY DEF Taken
<1> HIDE DEF h, n
<1>4. /\ h \in Generation /\ h.phase = g.phase /\ h.outcome = g.outcome
      /\ h.snapshot = g.snapshot /\ h.served = g.served /\ h.chunks = g.chunks
      /\ h.read = g.read /\ h.parsed = n /\ h.acc = g.acc /\ h.sends = g.sends
  BY <1>2, <1>3 DEF Generation
<1>5. FlowInv(h)
  BY <1>2, <1>4 DEF GenInv, FlowInv
<1>6. TextInv(h)
  <2>1. \A m : Kind(h, m) = Kind(g, m)
    BY <1>4 DEF Kind
  <2>2. {m \in 1..n : Kind(h, m) = "text"} = {m \in 1..g.parsed : Kind(g, m) = "text"}
    BY <1>2, <2>1
  <2> QED
    BY <1>4, <2>2 DEF GenInv, TextInv, Lines
<1>7. EndInv(h, s)
  BY <1>4 DEF GenInv, EndInv
<1> QED
  BY <1>4, <1>5, <1>6, <1>7 DEF Follows, GenInv, h

\* The next event is a text.
LEMMA TextTaken ==
  ASSUME NEW g \in Generation, NEW s \in BOOLEAN, GenInv(g, s), g.phase = "reading",
         g.parsed < g.read, Kind(g, g.parsed + 1) = "text"
  PROVE  LET h == [Taken(g) EXCEPT !.acc = Append(@, Taken(g).parsed)]
         IN  Follows(h, g, s) /\ h.phase = "reading"
<1> DEFINE h == [Taken(g) EXCEPT !.acc = Append(@, Taken(g).parsed)]
           n == g.parsed + 1
           text == Append(g.acc, n)
<1>1. /\ g.read \in 0..MaxEvents /\ g.parsed \in 0..MaxEvents /\ MaxEvents \in Nat
      /\ g.acc \in Seq(1..MaxEvents) /\ g.sends \in Seq(Texts)
  BY RelayAssumption DEF Generation, Texts
<1>2. /\ n \in 1..MaxEvents /\ n <= g.read /\ 1..n = (1..g.parsed) \cup {n}
      /\ n = g.parsed + 1 /\ \A m \in 1..g.parsed : m < n
      /\ n \in 0..MaxEvents /\ n \in Nat
  BY <1>1
<1>3. h = [g EXCEPT !.parsed = n, !.acc = text]
  BY DEF Taken, Generation
<1> HIDE DEF n
<1>4. text \in Texts
  BY <1>1, <1>2 DEF Texts
<1> HIDE DEF h, text
<1>5. /\ h \in Generation /\ h.phase = g.phase /\ h.outcome = g.outcome
      /\ h.snapshot = g.snapshot /\ h.served = g.served /\ h.chunks = g.chunks
      /\ h.read = g.read /\ h.parsed = n /\ h.acc = text /\ h.sends = g.sends
  BY <1>2, <1>3, <1>4 DEF Generation
<1>6. FlowInv(h)
  BY <1>2, <1>5 DEF GenInv, FlowInv
<1>7. TextInv(h)
  <2>1. \A m : Kind(h, m) = Kind(g, m)
    BY <1>5 DEF Kind
  <2>2. Kind(g, n) = "text"
    BY DEF n
  <2>3. {m \in 1..n : Kind(h, m) = "text"} = {m \in 1..g.parsed : Kind(g, m) = "text"} \cup {n}
    BY <1>2, <2>1, <2>2
  <2>4. /\ Ascending(Append(g.sends, g.acc))
        /\ TextsOf(Append(g.sends, g.acc)) = {m \in 1..g.parsed : Kind(g, m) = "text"}
    BY DEF GenInv, TextInv, Lines
  <2>5. \A m \in TextsOf(Append(g.sends, g.acc)) : m < n
    BY <1>2, <2>4
  <2>6. g.sends \in Seq(Seq(Nat)) /\ g.acc \in Seq(Nat)
    BY <1>1 DEF Texts
  <2>7. /\ Ascending(Append(g.sends, text))
        /\ TextsOf(Append(g.sends, text)) = TextsOf(Append(g.sends, g.acc)) \cup {n}
    BY ONLY <1>2, <2>4, <2>5, <2>6, LinesGrow DEF text
  <2> QED
    BY <1>5, <2>3, <2>4, <2>7 DEF TextInv, Lines
<1>8. EndInv(h, s)
  BY <1>5 DEF GenInv, EndInv
<1> QED
  BY <1>5, <1>6, <1>7, <1>8 DEF Follows, GenInv, h

\* An event with one data line is what that line says.
LEMMA OneLine ==
  ASSUME NEW line \in {"text", "no_content"}
  PROVE  Deciding(<<line>>) = line
<1> DEFINE others == {i \in 1..Len(<<line>>) : <<line>>[i] # "no_content"}
           first == IF others # {} THEN Min(others) ELSE 0
<1>1. Deciding(<<line>>) = IF first = 0 THEN "no_content" ELSE <<line>>[first]
  BY DEF Deciding, SelectInSeq
<1>2. CASE line = "no_content"
  <2>1. others = {}
    BY <1>2
  <2> QED
    BY <1>1, <1>2, <2>1
<1>3. CASE line = "text"
  <2>1. others = {1}
    BY <1>3
  <2> HIDE DEF others
  <2>2. first = 1
    BY <2>1 DEF Min
  <2> HIDE DEF first
  <2>3. <<line>>[1] = line
    OBVIOUS
  <2> QED
    BY <1>1, <2>2, <2>3
<1> QED
  BY <1>2, <1>3

\* Where a reply is when it flushes makes no difference.
LEMMA FlushForgets ==
  ASSUME NEW h \in Generation
  PROVE  Flush(h) = Flush([h EXCEPT !.phase = "reading"])
<1> DEFINE k == [h EXCEPT !.phase = "reading"]
<1>1. k.acc = h.acc
  BY DEF Generation
<1>2. Ended(h, "done") = Ended(k, "done")
  BY DEF Ended, Generation
<1>3. Sending(h, TRUE) = Sending(k, TRUE)
  BY <1>1 DEF Sending, Generation
<1> QED
  BY <1>1, <1>2, <1>3 DEF Flush

\* The answer comes in one piece.
LEMMA WholeRead ==
  ASSUME NEW g \in Generation, NEW s \in BOOLEAN, GenInv(g, s), g.phase = "calling", ~s,
         NEW text \in {"text", "no_content"}
  PROVE  LET h == [g EXCEPT !.awake = TRUE, !.served = <<<<text>>>>, !.read = 1,
                            !.parsed = 1, !.acc = IF text = "text" THEN <<1>> ELSE <<>>]
         IN  LET k == Flush(h) IN Follows(k, g, s)
<1> DEFINE acc == IF text = "text" THEN <<1>> ELSE <<>>
           events == <<<<text>>>>
           h == [g EXCEPT !.awake = TRUE, !.served = events, !.read = 1,
                          !.parsed = 1, !.acc = acc]
           k == [g EXCEPT !.awake = TRUE, !.served = events, !.read = 1,
                          !.parsed = 1, !.acc = acc, !.phase = "reading"]
<1>1. /\ g.chunks = <<>> /\ g.sends = <<>> /\ g.acc = <<>> /\ g.outcome # "done"
  BY DEF GenInv, FlowInv, EndInv
<1>2. /\ events \in Seq(Seq(DataLines)) /\ Len(events) = 1 /\ events[1] = <<text>>
  BY DEF DataLines
<1>3. acc \in Texts
  <2>1. 1 \in 1..MaxEvents
    BY RelayAssumption
  <2>2. <<>> \in Texts /\ <<1>> \in Texts
    BY <2>1 DEF Texts
  <2> QED
    BY <2>2
<1>4. 1 \in 0..MaxEvents /\ 1 <= MaxEvents /\ 1..1 = {1}
  BY RelayAssumption
<1>5. Deciding(<<text>>) = text
  BY OneLine
<1>6. /\ IF text = "text" THEN ToSet(acc) = {1} ELSE ToSet(acc) = {}
      /\ \A b, c \in DOMAIN acc : ~(b < c)
  BY DEF ToSet
<1>7. Append(<<>>, acc) = <<acc>> /\ DOMAIN <<acc>> = {1} /\ <<acc>>[1] = acc
  OBVIOUS
<1> HIDE DEF events, acc
<1>8. Flush(h) = Flush(k)
  <2>1. h \in Generation
    BY <1>2, <1>3, <1>4 DEF Generation
  <2>2. k = [h EXCEPT !.phase = "reading"]
    OBVIOUS
  <2> HIDE DEF h, k
  <2> QED
    BY <2>1, <2>2, FlushForgets
<1>9. /\ k \in Generation /\ k.phase = "reading" /\ k.outcome = g.outcome
      /\ k.snapshot = g.snapshot /\ k.served = events /\ k.chunks = <<>>
      /\ k.read = 1 /\ k.parsed = 1 /\ k.acc = acc /\ k.sends = <<>>
  BY <1>1, <1>2, <1>3, <1>4 DEF Generation
<1> HIDE DEF k
<1>10. FlowInv(k)
  <2> DEFINE none == <<>>
  <2>1. none = <<>> /\ DOMAIN none = {}
    OBVIOUS
  <2> HIDE DEF none
  <2>2. Coming(1, none, 1)
    BY <2>1 DEF Coming
  <2> QED
    <3>1. Coming(k.read, k.chunks, Len(k.served))
      BY ONLY <1>2, <1>9, <2>1, <2>2
    <3>2. Len(k.served) = 1 /\ k.parsed = 1 /\ k.read = 1
      BY ONLY <1>2, <1>9, Zenon
    <3>3. k.parsed <= k.read /\ k.read <= Len(k.served) /\ Len(k.served) <= MaxEvents
      BY ONLY <1>4, <3>2
    <3>4. k.phase # "calling"
      BY ONLY <1>9
    <3> QED
      BY ONLY <3>1, <3>3, <3>4 DEF FlowInv
<1>11. Ascending(Lines(k)) /\ TextsOf(Lines(k)) = ToSet(acc)
  <2>1. Lines(k) = <<acc>>
    BY <1>7, <1>9 DEF Lines
  <2>2. Ascending(<<acc>>)
    BY <1>6, <1>7 DEF Ascending
  <2>3. TextsOf(<<acc>>) = ToSet(acc)
    BY <1>7 DEF TextsOf
  <2> QED
    BY <2>1, <2>2, <2>3
<1>12. Kind(k, 1) = text
  BY <1>2, <1>5, <1>9 DEF Kind
<1>13. TextInv(k)
  BY <1>4, <1>6, <1>9, <1>11, <1>12 DEF TextInv
<1>14. EndInv(k, s)
  BY <1>1, <1>9 DEF EndInv
<1>15. Settled(k, s)
  BY <1>2, <1>9 DEF Settled
<1>16. GenInv(k, s) /\ k.outcome # "done"
  BY <1>1, <1>9, <1>10, <1>13, <1>14 DEF GenInv
<1>17. Follows(Flush(k), k, s)
  BY ONLY <1>9, <1>15, <1>16, s \in BOOLEAN, Flushed
<1>18. Follows(Flush(k), g, s)
  BY <1>9, <1>17 DEF Follows
<1> QED
  BY <1>8, <1>18 DEF events, acc

---------------------------------------------------------------------------
(* The messages heard.                                                     *)

\* The window is no longer than the configuration says.
LEMMA WindowTyped ==
  ASSUME NEW h \in Messages
  PROVE  Window(h) \in Messages /\ Len(Window(h)) <= context
<1>1. context \in Nat /\ Len(h) \in Nat /\ \A i \in 1..Len(h) : h[i] \in 0..MaxOthers
  BY RelayAssumption DEF Messages
<1>2. CASE Len(h) > context
  <2> DEFINE first == Len(h) - context + 1
  <2>1. first \in Int /\ Len(h) \in Int /\ \A i \in first..Len(h) : h[i] \in 0..MaxOthers
    BY <1>1, <1>2
  <2>2. Window(h) = SubSeq(h, first, Len(h))
    BY <1>2 DEF Window
  <2>3. IF first <= Len(h) THEN Len(h) - first + 1 = context ELSE context = 0
    BY <1>1, <1>2
  <2> HIDE DEF first
  <2>4. /\ SubSeq(h, first, Len(h)) \in Seq(0..MaxOthers)
        /\ Len(SubSeq(h, first, Len(h))) = IF first <= Len(h) THEN Len(h) - first + 1 ELSE 0
    BY ONLY <2>1, SubSeqProperties
  <2> QED
    BY <1>1, <2>2, <2>3, <2>4 DEF Messages
<1>3. CASE ~(Len(h) > context)
  <2>1. Window(h) = h
    BY <1>3, SubSeqFull DEF Window, Messages
  <2> QED
    BY <1>1, <1>3, <2>1
<1> QED
  BY <1>2, <1>3

\* It is enough to keep the window: what is older never comes back.
LEMMA WindowAppend ==
  ASSUME NEW h \in Messages, NEW x \in 0..MaxOthers
  PROVE  Window(Append(Window(h), x)) = Window(Append(h, x))
<1> DEFINE l == Len(h)
           c == context
           w == Window(h)
           a == Append(w, x)
           b == Append(h, x)
<1>1. c \in Nat /\ l \in Nat /\ h \in Seq(0..MaxOthers) /\ \A i \in 1..l : h[i] \in 0..MaxOthers
  BY RelayAssumption DEF Messages
<1>2. CASE ~(l > c)
  <2>1. Window(h) = h
    BY <1>1, <1>2, SubSeqFull DEF Window
  <2> QED
    BY <2>1
<1>3. CASE l > c
  <2>1. w \in Seq(0..MaxOthers)
    BY WindowTyped DEF Messages
  <2>2. Len(w) = c /\ \A i \in 1..c : w[i] = h[l - c + i]
    <3> DEFINE first == l - c + 1
    <3>1. /\ first \in Int /\ l \in Int /\ \A i \in first..l : h[i] \in 0..MaxOthers
          /\ l - first + 1 = c /\ (first <= l \/ c = 0)
          /\ \A i \in 1..c : first + i - 1 = l - c + i
      BY <1>1, <1>3
    <3>2. w = SubSeq(h, first, l)
      BY <1>3 DEF Window
    <3> HIDE DEF first, w, l, c
    <3>3. /\ Len(SubSeq(h, first, l)) = IF first <= l THEN l - first + 1 ELSE 0
          /\ \A i \in 1..l - first + 1 : SubSeq(h, first, l)[i] = h[first + i - 1]
      BY ONLY <3>1, SubSeqProperties
    <3> QED
      BY <3>1, <3>2, <3>3
  <2> HIDE DEF w
  <2>3. /\ a \in Seq(0..MaxOthers) /\ Len(a) = c + 1
        /\ \A i \in 1..c : a[i] = w[i]
        /\ a[c + 1] = x
    BY <1>1, <2>1, <2>2
  <2>4. /\ b \in Seq(0..MaxOthers) /\ Len(b) = l + 1
        /\ \A i \in 1..l : b[i] = h[i]
        /\ b[l + 1] = x
    BY <1>1
  <2> HIDE DEF a, b, c, l
  <2>5. \A i \in 1..l + 1 : b[i] \in 0..MaxOthers
    BY ONLY <2>4, ElementOfSeq
  <2>6. \A i \in 1..c + 1 : a[i] \in 0..MaxOthers
    BY ONLY <2>3, ElementOfSeq
  <2> DEFINE p == SubSeq(a, 2, c + 1)
             q == SubSeq(b, l - c + 2, l + 1)
  <2>7. Window(a) = p /\ Window(b) = q
    <3>1. Len(a) - c + 1 = 2 /\ Len(a) > c /\ Len(b) - c + 1 = l - c + 2 /\ Len(b) > c
      BY ONLY <1>1, <1>3, <2>3, <2>4
    <3> QED
      BY ONLY <2>3, <2>4, <3>1 DEF Window, c
  <2>8. /\ p \in Seq(0..MaxOthers) /\ Len(p) = c
        /\ \A i \in 1..c : p[i] = a[i + 1]
    <3>1. /\ 2 \in Int /\ c + 1 \in Int /\ \A i \in 2..c + 1 : a[i] \in 0..MaxOthers
          /\ (c + 1) - 2 + 1 = c /\ (2 <= c + 1 \/ c = 0)
          /\ \A i \in 1..c : 2 + i - 1 = i + 1
      BY <1>1, <2>6
    <3>2. /\ p \in Seq(0..MaxOthers)
          /\ Len(p) = IF 2 <= c + 1 THEN (c + 1) - 2 + 1 ELSE 0
          /\ \A i \in 1..(c + 1) - 2 + 1 : p[i] = a[2 + i - 1]
      BY ONLY <3>1, SubSeqProperties
    <3> HIDE DEF p
    <3> QED
      BY <3>1, <3>2
  <2>9. /\ q \in Seq(0..MaxOthers) /\ Len(q) = c
        /\ \A i \in 1..c : q[i] = b[l - c + 1 + i]
    <3> DEFINE first == l - c + 2
               last == l + 1
    <3>1. /\ first \in Int /\ last \in Int /\ \A i \in first..last : b[i] \in 0..MaxOthers
          /\ last - first + 1 = c /\ (first <= last \/ c = 0)
          /\ \A i \in 1..c : first + i - 1 = l - c + 1 + i
      BY <1>1, <1>3, <2>5
    <3>2. q = SubSeq(b, first, last)
      OBVIOUS
    <3> HIDE DEF q, first, last
    <3>3. /\ SubSeq(b, first, last) \in Seq(0..MaxOthers)
          /\ Len(SubSeq(b, first, last)) = IF first <= last THEN last - first + 1 ELSE 0
          /\ \A i \in 1..last - first + 1 : SubSeq(b, first, last)[i] = b[first + i - 1]
      BY ONLY <3>1, SubSeqProperties
    <3> QED
      BY <3>1, <3>2, <3>3
  <2> HIDE DEF p, q
  <2>10. ASSUME NEW i \in 1..c
         PROVE  p[i] = q[i]
    <3>1. p[i] = a[i + 1] /\ q[i] = b[l - c + 1 + i]
      BY <2>8, <2>9
    <3>2. CASE i = c
      BY <1>1, <2>3, <2>4, <3>1, <3>2
    <3>3. CASE i # c
      <4>1. /\ i + 1 \in 1..c /\ l - c + 1 + i \in 1..l /\ l - c + 1 + i = l - c + (i + 1)
        BY <1>1, <1>3, <3>3
      <4>2. a[i + 1] = w[i + 1] /\ b[l - c + 1 + i] = h[l - c + 1 + i]
        BY <2>3, <2>4, <4>1
      <4>3. w[i + 1] = h[l - c + (i + 1)]
        BY <2>2, <4>1
      <4> QED
        BY <3>1, <4>1, <4>2, <4>3
    <3> QED
      BY <3>2, <3>3
  <2>11. p = q
    BY ONLY <2>8, <2>9, <2>10, SeqEqual
  <2> QED
    BY <2>7, <2>11 DEF a, b, w
<1> QED
  BY <1>2, <1>3

\* The beginning of what was heard stays.
LEMMA BeginningStays ==
  ASSUME NEW h \in Messages, NEW x \in 0..MaxOthers
  PROVE  /\ \A n \in 1..Len(h) : SubSeq(Append(h, x), 1, n) = SubSeq(h, 1, n)
         /\ SubSeq(Append(h, x), 1, Len(h) + 1) = Append(h, x)
<1> DEFINE b == Append(h, x)
<1>1. h \in Seq(0..MaxOthers) /\ Len(h) \in Nat
  BY DEF Messages
<1>2. \A i \in 1..Len(h) : h[i] \in 0..MaxOthers
  BY ONLY <1>1, ElementOfSeq
<1>3. /\ b \in Seq(0..MaxOthers) /\ Len(b) = Len(h) + 1
      /\ \A i \in 1..Len(h) : b[i] = h[i]
  BY ONLY <1>1, x \in 0..MaxOthers
<1>4. /\ b \in Seq(0..MaxOthers) /\ Len(b) = Len(h) + 1
      /\ \A i \in 1..Len(h) : b[i] = h[i] /\ h[i] \in 0..MaxOthers
      /\ h \in Seq(0..MaxOthers) /\ Len(h) \in Nat
  BY <1>1, <1>2, <1>3
<1> HIDE DEF b
<1>5. ASSUME NEW n \in 1..Len(h)
      PROVE  SubSeq(b, 1, n) = SubSeq(h, 1, n)
  <2>1. /\ 1 \in Int /\ n \in Int /\ 1 <= n /\ n - 1 + 1 = n
        /\ \A i \in 1..n : b[i] = h[i] /\ b[i] \in 0..MaxOthers /\ h[i] \in 0..MaxOthers
        /\ \A i \in 1..n : 1 + i - 1 = i
    BY <1>4
  <2> DEFINE p == SubSeq(b, 1, n)
             q == SubSeq(h, 1, n)
  <2>2. /\ p \in Seq(0..MaxOthers) /\ Len(p) = IF 1 <= n THEN n - 1 + 1 ELSE 0
        /\ \A i \in 1..n - 1 + 1 : p[i] = b[1 + i - 1]
    BY ONLY <2>1, SubSeqProperties
  <2>3. /\ q \in Seq(0..MaxOthers) /\ Len(q) = IF 1 <= n THEN n - 1 + 1 ELSE 0
        /\ \A i \in 1..n - 1 + 1 : q[i] = h[1 + i - 1]
    BY ONLY <2>1, SubSeqProperties
  <2> HIDE DEF p, q
  <2>4. Len(p) = n /\ Len(q) = n /\ \A i \in 1..n : p[i] = q[i]
    BY <2>1, <2>2, <2>3
  <2>5. p = q
    BY ONLY <2>2, <2>3, <2>4, SeqEqual
  <2> QED
    BY <2>5 DEF p, q
<1>6. SubSeq(b, 1, Len(b)) = b
  BY <1>4, SubSeqFull
<1> QED
  BY <1>4, <1>5, <1>6 DEF b

\* The messages of others, with one more message.
LEMMA OthersAppend ==
  ASSUME NEW h \in Messages, NEW x \in 0..MaxOthers
  PROVE  /\ OfOthers(h) \subseteq 1..Len(h) /\ IsFiniteSet(OfOthers(h))
         /\ Cardinality(OfOthers(h)) \in Nat
         /\ Append(h, x) \in Messages
         /\ x = Other => OfOthers(Append(h, x)) = OfOthers(h) \cup {Len(h) + 1}
         /\ x # Other => OfOthers(Append(h, x)) = OfOthers(h)
<1>1. OfOthers(h) \subseteq 1..Len(h) /\ Len(h) \in Nat
  BY DEF OfOthers, Messages
<1>2. IsFiniteSet(OfOthers(h)) /\ Cardinality(OfOthers(h)) \in Nat
  <2>1. IsFiniteSet(1..Len(h))
    BY ONLY <1>1, FS_Interval
  <2>2. IsFiniteSet(OfOthers(h))
    BY ONLY <1>1, <2>1, FS_Subset
  <2> QED
    BY ONLY <2>2, FS_CardinalityType
<1> DEFINE b == Append(h, x)
<1>3. /\ b \in Messages /\ DOMAIN b = DOMAIN h \cup {Len(h) + 1}
      /\ \A n \in DOMAIN h : b[n] = h[n] /\ n # Len(h) + 1
      /\ b[Len(h) + 1] = x
  BY DEF Messages
<1> HIDE DEF b
<1>4. /\ x = Other => OfOthers(b) = OfOthers(h) \cup {Len(h) + 1}
      /\ x # Other => OfOthers(b) = OfOthers(h)
  BY <1>3 DEF OfOthers
<1> QED
  BY <1>1, <1>2, <1>3, <1>4 DEF b

\* What has been heard and is to be heard is the same when a message is heard.
LEMMA HeardAndInbox ==
  ASSUME NEW h \in Messages, NEW q \in Messages
  PROVE  /\ h \o q \in Messages
         /\ q # <<>> => /\ Append(h, Head(q)) \o Tail(q) = h \o q
                        /\ Head(q) \in 0..MaxOthers /\ Tail(q) \in Messages
         /\ \A x \in 0..MaxOthers : h \o Append(q, x) = Append(h \o q, x)
         /\ OfOthers(h) \subseteq OfOthers(h \o q)
<1> USE DEF Messages
<1> DEFINE S == 0..MaxOthers
<1>1. h \in Seq(S) /\ q \in Seq(S)
  OBVIOUS
<1> HIDE DEF S
<1>2. h \o q \in Seq(S)
  BY <1>1
<1>3. ASSUME q # <<>>
      PROVE  /\ Append(h, Head(q)) \o Tail(q) = h \o q
             /\ Head(q) \in S /\ Tail(q) \in Seq(S)
  <2> DEFINE first == Head(q)
             one == <<first>>
             rest == Tail(q)
  <2>1. first \in S /\ rest \in Seq(S)
    BY ONLY <1>3, <1>1, HeadTailProperties
  <2>2. one \in Seq(S) /\ q = one \o rest
    BY <1>3, <2>1
  <2> HIDE DEF rest, first
  <2>3. Append(h, first) = h \o one
    BY ONLY <1>1, <2>1, AppendIsConcat DEF one
  <2> HIDE DEF one
  <2>4. (h \o one) \o rest = h \o (one \o rest)
    <3>1. h \in Seq(S) /\ one \in Seq(S) /\ rest \in Seq(S)
      BY <1>1, <2>1, <2>2
    <3> QED
      BY ONLY <3>1, ConcatAssociative
  <2> QED
    BY <2>1, <2>2, <2>3, <2>4 DEF first, rest
<1>4. ASSUME NEW x \in S
      PROVE  h \o Append(q, x) = Append(h \o q, x)
  <2> DEFINE one == <<x>>
             both == h \o q
  <2>1. one \in Seq(S) /\ both \in Seq(S)
    BY <1>2
  <2>2. Append(q, x) = q \o one
    BY ONLY <1>1, x \in S, AppendIsConcat
  <2>3. (h \o q) \o one = h \o (q \o one)
    BY ONLY <1>1, <2>1, ConcatAssociative
  <2> HIDE DEF both
  <2>4. Append(both, x) = both \o one
    BY ONLY x \in S, <2>1, AppendIsConcat
  <2> QED
    BY <2>2, <2>3, <2>4 DEF both
<1>5. OfOthers(h) \subseteq OfOthers(h \o q)
  BY <1>1 DEF OfOthers
<1> QED
  BY <1>2, <1>3, <1>4, <1>5 DEF S

---------------------------------------------------------------------------
(* One reply for every message of others.                                  *)

\* The messages of others up to the n-th message.
UpTo(h, n) == {m \in OfOthers(h) : m <= n}

Answered(gens, h) ==
  /\ Len(gens) = Cardinality(OfOthers(h))
  /\ \A n \in OfOthers(h) :
       gens[Cardinality(UpTo(h, n))].snapshot = Window(SubSeq(h, 1, n))

\* A message of others is the first, the second... of them.
LEMMA Place ==
  ASSUME NEW h \in Messages, NEW n \in OfOthers(h)
  PROVE  Cardinality(UpTo(h, n)) \in 1..Cardinality(OfOthers(h))
<1>1. IsFiniteSet(OfOthers(h)) /\ Cardinality(OfOthers(h)) \in Nat
      /\ OfOthers(h) \subseteq 1..Len(h)
  <2>1. 0 \in 0..MaxOthers
    BY RelayAssumption
  <2> QED
    BY <2>1, OthersAppend
<1>2. n \in UpTo(h, n) /\ UpTo(h, n) \subseteq OfOthers(h)
  BY <1>1 DEF UpTo
<1>3. IsFiniteSet(UpTo(h, n)) /\ Cardinality(UpTo(h, n)) <= Cardinality(OfOthers(h))
  BY ONLY <1>1, <1>2, FS_Subset
<1>4. Cardinality(UpTo(h, n)) \in Nat /\ Cardinality(UpTo(h, n)) # 0
  <2>1. UpTo(h, n) # {}
    BY <1>2
  <2> QED
    BY ONLY <1>3, <2>1, FS_CardinalityType, FS_EmptySet
<1> QED
  BY <1>1, <1>3, <1>4

\* The replies may go on.
LEMMA AnsweredStill ==
  ASSUME NEW h \in Messages, NEW gens, NEW new, Answered(gens, h),
         Len(new) = Len(gens),
         \A i \in 1..Len(gens) : new[i].snapshot = gens[i].snapshot
  PROVE  Answered(new, h)
BY Place DEF Answered

\* A message of the assistant starts no reply, one of others starts the next.
LEMMA AnsweredNext ==
  ASSUME NEW h \in Messages, NEW x \in 0..MaxOthers, NEW gens, NEW new, Answered(gens, h),
         \A i \in 1..Len(gens) : new[i].snapshot = gens[i].snapshot,
         IF x # Other THEN Len(new) = Len(gens)
         ELSE /\ Len(new) = Len(gens) + 1
              /\ new[Len(gens) + 1].snapshot = Window(Append(h, x))
  PROVE  Answered(new, Append(h, x))
<1> DEFINE b == Append(h, x)
           l == Len(h) + 1
<1>1. /\ OfOthers(h) \subseteq 1..Len(h) /\ IsFiniteSet(OfOthers(h))
      /\ Cardinality(OfOthers(h)) \in Nat /\ Len(h) \in Nat
      /\ x = Other => OfOthers(b) = OfOthers(h) \cup {l}
      /\ x # Other => OfOthers(b) = OfOthers(h)
  <2>1. Len(h) \in Nat
    BY DEF Messages
  <2> QED
    BY <2>1, OthersAppend
<1>2. /\ \A n \in 1..Len(h) : SubSeq(b, 1, n) = SubSeq(h, 1, n)
      /\ SubSeq(b, 1, l) = b
  BY BeginningStays
<1>3. Len(gens) = Cardinality(OfOthers(h))
  BY DEF Answered
<1>4. l = Len(h) + 1
  OBVIOUS
<1> HIDE DEF b, l
<1>5. ASSUME NEW n \in OfOthers(h)
      PROVE  /\ UpTo(b, n) = UpTo(h, n)
             /\ new[Cardinality(UpTo(b, n))].snapshot = Window(SubSeq(b, 1, n))
  <2>1. n \in 1..Len(h) /\ ~(l <= n)
    BY <1>1, <1>4
  <2>2. UpTo(b, n) = UpTo(h, n)
    BY <1>1, <2>1 DEF UpTo
  <2>3. Cardinality(UpTo(h, n)) \in 1..Len(gens)
    BY <1>3, Place
  <2> QED
    BY <1>2, <2>1, <2>2, <2>3 DEF Answered
<1>6. CASE x # Other
  BY <1>1, <1>3, <1>5, <1>6 DEF Answered, b
<1>7. CASE x = Other
  <2>1. l \notin OfOthers(h) /\ OfOthers(b) = OfOthers(h) \cup {l}
    BY <1>1, <1>4, <1>7
  <2>2. Cardinality(OfOthers(b)) = Len(gens) + 1
    <3>1. IsFiniteSet(OfOthers(h)) /\ l \notin OfOthers(h)
      BY <1>1, <2>1
    <3>2. Cardinality(OfOthers(h) \cup {l}) = Cardinality(OfOthers(h)) + 1
      BY ONLY <3>1, FS_AddElement
    <3> QED
      BY <1>3, <2>1, <3>2
  <2>3. UpTo(b, l) = OfOthers(b)
    BY <1>1, <1>4, <2>1 DEF UpTo
  <2>4. Len(new) = Len(gens) + 1 /\ new[Len(gens) + 1].snapshot = Window(b)
    BY <1>7 DEF b
  <2>5. new[Cardinality(UpTo(b, l))].snapshot = Window(SubSeq(b, 1, l))
    BY <1>2, <2>2, <2>3, <2>4
  <2>6. \A n \in OfOthers(b) :
          new[Cardinality(UpTo(b, n))].snapshot = Window(SubSeq(b, 1, n))
    BY <1>5, <2>1, <2>5
  <2>7. Answered(new, b)
    BY <2>2, <2>4, <2>6 DEF Answered
  <2> QED
    BY <2>7 DEF b
<1> QED
  BY <1>6, <1>7

---------------------------------------------------------------------------
(* The steps.                                                              *)

\* A generation takes a step and nobody else.
LEMMA GenStep ==
  ASSUME RelayInv, NEW i \in DOMAIN gen, NEW g, Follows(g, gen[i], stream), Change(i, g),
         \/ inbox' = Append(inbox, i)
         \/ UNCHANGED inbox
  PROVE  RelayInv'
<1>1. /\ TypeOK /\ ReplyInv /\ \A j \in DOMAIN gen : GenInv(gen[j], stream)
      /\ gen \in Seq(Generation) /\ {inbox, heard, history} \subseteq Messages
  BY DEF RelayInv, TypeOK
<1>2. /\ gen' = [gen EXCEPT ![i] = g] /\ UNCHANGED <<stream, heard, history>>
      /\ g \in Generation /\ g.snapshot = gen[i].snapshot /\ GenInv(g, stream)
  BY DEF Change, Follows
<1>3. /\ gen' \in Seq(Generation) /\ Len(gen') = Len(gen) /\ DOMAIN gen' = DOMAIN gen
      /\ DOMAIN gen = 1..Len(gen) /\ Len(gen) \in Nat
      /\ \A j \in DOMAIN gen : gen'[j] = IF j = i THEN g ELSE gen[j]
  BY <1>1, <1>2
<1>4. \A j \in DOMAIN gen' : GenInv(gen'[j], stream')
  BY <1>1, <1>2, <1>3
<1>5. Answered(gen', heard)
  <2>1. Answered(gen, heard)
    BY <1>1 DEF ReplyInv, OneReplyPerMessage, Answered, UpTo
  <2>2. \A j \in 1..Len(gen) : gen'[j].snapshot = gen[j].snapshot
    BY <1>2, <1>3
  <2> QED
    BY ONLY <1>1, <1>3, <2>1, <2>2, AnsweredStill
<1>6. /\ inbox' \in Messages
      /\ Cardinality(OfOthers(heard \o inbox')) <= MaxOthers
  <2>1. Cardinality(OfOthers(heard \o inbox)) <= MaxOthers
    BY <1>1 DEF ReplyInv
  <2>2. CASE UNCHANGED inbox
    BY <1>1, <2>1, <2>2
  <2>3. CASE inbox' = Append(inbox, i)
    <3>1. i \in 0..MaxOthers /\ i # Other
      <4>1. Cardinality(OfOthers(heard)) <= MaxOthers
        <5>1. OfOthers(heard) \subseteq OfOthers(heard \o inbox) /\ heard \o inbox \in Messages
          BY <1>1, HeardAndInbox
        <5>2. 0 \in 0..MaxOthers
          BY RelayAssumption
        <5>3. /\ IsFiniteSet(OfOthers(heard \o inbox))
              /\ Cardinality(OfOthers(heard \o inbox)) \in Nat
              /\ Cardinality(OfOthers(heard)) \in Nat
          BY ONLY <1>1, <5>1, <5>2, OthersAppend
        <5>4. Cardinality(OfOthers(heard)) <= Cardinality(OfOthers(heard \o inbox))
          BY ONLY <5>1, <5>3, FS_Subset
        <5> QED
          BY <2>1, <5>3, <5>4, RelayAssumption
      <4>2. Len(gen) = Cardinality(OfOthers(heard))
        BY <1>1 DEF ReplyInv, OneReplyPerMessage
      <4>3. i \in 1..Len(gen) /\ Len(gen) \in Nat /\ MaxOthers \in Nat
        BY <1>3, RelayAssumption
      <4>4. Len(gen) <= MaxOthers
        BY ONLY <4>1, <4>2
      <4> QED
        BY ONLY <4>3, <4>4 DEF Other
    <3>2. heard \o inbox' = Append(heard \o inbox, i) /\ heard \o inbox \in Messages
      <4>1. heard \in Messages /\ inbox \in Messages
        BY <1>1
      <4>2. /\ heard \o inbox \in Messages
            /\ heard \o Append(inbox, i) = Append(heard \o inbox, i)
        BY ONLY <3>1, <4>1, HeardAndInbox
      <4> QED
        BY <2>3, <4>2
    <3>3. OfOthers(heard \o inbox') = OfOthers(heard \o inbox)
      BY ONLY <3>1, <3>2, OthersAppend
    <3>4. inbox' \in Messages
      BY <1>1, <2>3, <3>1, OthersAppend
    <3> QED
      BY <2>1, <3>3, <3>4
  <2> QED
    BY <2>2, <2>3
<1>7. TypeOK'
  BY <1>1, <1>2, <1>3, <1>6 DEF TypeOK
<1>8. ReplyInv'
  BY <1>1, <1>2, <1>5, <1>6 DEF ReplyInv, OneReplyPerMessage, Answered, UpTo
<1> QED
  BY <1>4, <1>7, <1>8 DEF RelayInv

\* incoming_loop takes the next message, and perhaps starts a reply.
LEMMA HearStep ==
  ASSUME RelayInv, NextMessage,
         Head(inbox) # Other => UNCHANGED gen,
         Head(inbox) = Other =>
           gen' = Append([i \in DOMAIN gen |->
                            IF i = Len(gen) THEN Abort(gen[i]) ELSE gen[i]],
                         NewGeneration(history'))
  PROVE  RelayInv'
<1> DEFINE x == Head(inbox)
<1>1. /\ TypeOK /\ ReplyInv /\ \A j \in DOMAIN gen : GenInv(gen[j], stream)
      /\ gen \in Seq(Generation) /\ inbox \in Messages /\ heard \in Messages
      /\ history \in Messages /\ stream \in BOOLEAN
  BY DEF RelayInv, TypeOK
<1>2. /\ inbox # <<>> /\ inbox' = Tail(inbox) /\ heard' = Append(heard, x)
      /\ history' = Window(Append(history, x)) /\ stream' = stream
  BY DEF NextMessage
<1>3. /\ x \in 0..MaxOthers /\ Tail(inbox) \in Messages
      /\ Append(heard, x) \o Tail(inbox) = heard \o inbox
  BY <1>1, <1>2, HeardAndInbox
<1>4. /\ Append(heard, x) \in Messages /\ Append(history, x) \in Messages
  BY <1>1, <1>3, OthersAppend
<1>5. history' = Window(Append(heard, x))
  BY <1>1, <1>2, <1>3, WindowAppend DEF ReplyInv
<1>6. history' \in Messages /\ Len(history') <= context
  BY <1>4, <1>5, WindowTyped
<1>7. x # Other => UNCHANGED gen
  OBVIOUS
<1>8. Answered(gen, heard)
  BY <1>1 DEF ReplyInv, OneReplyPerMessage, Answered, UpTo
<1> DEFINE before == [i \in DOMAIN gen |-> IF i = Len(gen) THEN Abort(gen[i]) ELSE gen[i]]
           fresh == NewGeneration(history')
<1>9. x = Other => gen' = Append(before, fresh)
  OBVIOUS
<1> HIDE DEF x
<1>10. /\ before \in Seq(Generation) /\ Len(before) = Len(gen) /\ Len(gen) \in Nat
       /\ DOMAIN gen = 1..Len(gen) /\ DOMAIN before = 1..Len(gen)
       /\ \A i \in 1..Len(gen) : /\ GenInv(before[i], stream)
                                 /\ before[i].snapshot = gen[i].snapshot
  <2>1. \A i \in DOMAIN gen : Follows(Abort(gen[i]), gen[i], stream)
    BY <1>1, Aborted
  <2>2. \A i \in DOMAIN gen : Follows(before[i], gen[i], stream)
    <3>1. \A i \in DOMAIN gen : Follows(gen[i], gen[i], stream)
      BY <1>1 DEF Follows
    <3> QED
      BY <2>1, <3>1
  <2>3. DOMAIN gen = 1..Len(gen) /\ Len(gen) \in Nat /\ DOMAIN before = 1..Len(gen)
    BY <1>1
  <2> HIDE DEF before
  <2>4. \A i \in 1..Len(gen) : /\ before[i] \in Generation /\ GenInv(before[i], stream)
                               /\ before[i].snapshot = gen[i].snapshot
    BY <2>2, <2>3 DEF Follows
  <2>5. before = [i \in 1..Len(gen) |-> before[i]]
    BY <2>3 DEF before
  <2>6. before \in Seq(Generation) /\ Len(before) = Len(gen)
    BY <2>3, <2>4, <2>5
  <2> QED
    BY <2>3, <2>4, <2>6
<1>11. /\ fresh \in Generation /\ GenInv(fresh, stream) /\ fresh.snapshot = history'
  <2> DEFINE h == history'
             none == <<>>
  <2>1. /\ none \in Seq(Seq(DataLines)) /\ none \in Seq(0..MaxEvents) /\ none \in Texts
        /\ none \in Seq(Texts) /\ Len(none) = 0 /\ DOMAIN none = {}
    <3>1. \A S : <<>> \in Seq(S)
      OBVIOUS
    <3>2. Len(none) = 0 /\ DOMAIN none = {}
      OBVIOUS
    <3> QED
      BY ONLY <3>1, <3>2, Zenon DEF Texts, none
  <2>2. 0 \in 0..MaxEvents /\ 0 <= MaxEvents
    BY RelayAssumption
  <2>3. h \in Messages
    BY <1>6
  <2>4. Append(none, none) = <<none>> /\ DOMAIN <<none>> = {1} /\ <<none>>[1] = none
    OBVIOUS
  <2>5. none = <<>>
    OBVIOUS
  <2> HIDE DEF h, none
  <2> DEFINE g == NewGeneration(h)
  <2>6. /\ g \in Generation /\ g.snapshot = h /\ g.phase = "calling" /\ g.outcome = "none"
        /\ g.read = 0 /\ g.parsed = 0 /\ g.served = none /\ g.chunks = none
        /\ g.acc = none /\ g.sends = none
    BY <2>1, <2>2, <2>3, <2>5 DEF NewGeneration, Generation
  <2> HIDE DEF g
  <2>7. FlowInv(g)
    <3>1. Coming(0, none, 0)
      BY <2>1, <2>5 DEF Coming
    <3> QED
      BY <2>1, <2>2, <2>5, <2>6, <3>1 DEF FlowInv
  <2>8. TextInv(g)
    <3>1. Lines(g) = <<none>>
      BY <2>4, <2>6 DEF Lines
    <3>2. ToSet(none) = {}
      BY <2>1 DEF ToSet
    <3>3. Ascending(<<none>>) /\ TextsOf(<<none>>) = {}
      BY <2>1, <2>4, <3>2 DEF Ascending, TextsOf
    <3>4. 1..g.parsed = {}
      BY <2>6
    <3> QED
      BY <3>1, <3>3, <3>4 DEF TextInv
  <2>9. EndInv(g, stream)
    BY <2>6 DEF EndInv
  <2> QED
    BY <2>6, <2>7, <2>8, <2>9 DEF GenInv, g, h
<1> HIDE DEF before, fresh
<1>12. /\ gen' \in Seq(Generation) /\ \A j \in DOMAIN gen' : GenInv(gen'[j], stream)
       /\ Answered(gen', Append(heard, x))
  <2>1. CASE x # Other
    <3>1. Answered(gen, Append(heard, x))
      BY <1>1, <1>3, <1>8, <2>1, AnsweredNext
    <3> QED
      BY <1>1, <1>7, <2>1, <3>1
  <2>2. CASE x = Other
    <3> DEFINE new == Append(before, fresh)
    <3>1. /\ new \in Seq(Generation) /\ Len(new) = Len(gen) + 1
          /\ DOMAIN new = 1..Len(gen) \cup {Len(gen) + 1}
          /\ new[Len(gen) + 1] = fresh
          /\ \A i \in 1..Len(gen) : new[i] = before[i]
      BY ONLY <1>10, <1>11
    <3> HIDE DEF new
    <3>2. \A j \in DOMAIN new : GenInv(new[j], stream)
      BY ONLY <1>10, <1>11, <3>1
    <3>3. \A i \in 1..Len(gen) : new[i].snapshot = gen[i].snapshot
      BY ONLY <1>10, <3>1
    <3>4. new[Len(gen) + 1].snapshot = Window(Append(heard, x))
      BY ONLY <1>5, <1>11, <3>1
    <3>5. Answered(new, Append(heard, x))
      BY ONLY <1>1, <1>3, <1>8, <2>2, <3>1, <3>3, <3>4, AnsweredNext
    <3>6. gen' = new
      BY <1>9, <2>2 DEF new
    <3> QED
      BY ONLY <3>1, <3>2, <3>5, <3>6
  <2> QED
    BY <2>1, <2>2
<1>13. TypeOK'
  BY <1>1, <1>2, <1>3, <1>4, <1>6, <1>12 DEF TypeOK
<1>14. ReplyInv'
  <2>1. OneReplyPerMessage'
    BY <1>2, <1>12 DEF OneReplyPerMessage, Answered, UpTo
  <2>2. (history = Window(heard))'
    BY <1>2, <1>5
  <2>3. Cardinality(OfOthers(heard' \o inbox')) <= MaxOthers
    BY <1>1, <1>2, <1>3 DEF ReplyInv
  <2> QED
    BY <2>1, <2>2, <2>3 DEF ReplyInv
<1> QED
  BY <1>2, <1>12, <1>13, <1>14 DEF RelayInv

\* Another member speaks.
LEMMA OtherStep ==
  ASSUME RelayInv, OtherSpeaks
  PROVE  RelayInv'
<1>1. /\ TypeOK /\ ReplyInv /\ \A j \in DOMAIN gen : GenInv(gen[j], stream)
      /\ inbox \in Messages /\ heard \in Messages
  BY DEF RelayInv, TypeOK
<1>2. /\ inbox' = Append(inbox, Other) /\ UNCHANGED <<stream, heard, history, gen>>
      /\ Cardinality(OfOthers(heard \o inbox)) < MaxOthers
  BY DEF OtherSpeaks
<1>3. Other \in 0..MaxOthers /\ MaxOthers \in Nat
  BY RelayAssumption DEF Other
<1>4. heard \o inbox' = Append(heard \o inbox, Other) /\ heard \o inbox \in Messages
  BY <1>1, <1>2, <1>3, HeardAndInbox
<1>5. Cardinality(OfOthers(heard \o inbox')) <= MaxOthers
  <2> DEFINE all == heard \o inbox
             l == Len(all) + 1
  <2>1. /\ OfOthers(Append(all, Other)) = OfOthers(all) \cup {l}
        /\ OfOthers(all) \subseteq 1..Len(all) /\ IsFiniteSet(OfOthers(all))
        /\ Cardinality(OfOthers(all)) \in Nat
    BY <1>3, <1>4, OthersAppend
  <2>2. l \notin OfOthers(all)
    <3>1. Len(all) \in Nat
      BY <1>4 DEF Messages
    <3> HIDE DEF all
    <3> QED
      BY <2>1, <3>1
  <2> HIDE DEF all, l
  <2>3. Cardinality(OfOthers(all) \cup {l}) = Cardinality(OfOthers(all)) + 1
    BY ONLY <2>1, <2>2, FS_AddElement
  <2>4. Cardinality(OfOthers(all)) < MaxOthers /\ OfOthers(heard \o inbox') = OfOthers(all) \cup {l}
    BY <1>2, <1>4, <2>1 DEF all
  <2> QED
    BY <1>3, <2>1, <2>3, <2>4
<1>6. inbox' \in Messages
  BY <1>1, <1>2, <1>3, OthersAppend
<1>7. TypeOK'
  BY <1>1, <1>2, <1>6 DEF TypeOK
<1>8. ReplyInv'
  BY <1>1, <1>2, <1>5 DEF ReplyInv, OneReplyPerMessage
<1> QED
  BY <1>1, <1>2, <1>7, <1>8 DEF RelayInv

\* The event was taken, and perhaps a line is sent.
LEMMA ThrottledStep ==
  ASSUME RelayInv, NEW i \in DOMAIN gen, NEW g, Follows(g, gen[i], stream),
         g.phase = "reading", Throttled(i, g), UNCHANGED inbox
  PROVE  RelayInv'
<1>1. CASE Change(i, g)
  BY ONLY RelayInv, i \in DOMAIN gen, Follows(g, gen[i], stream), <1>1, UNCHANGED inbox, GenStep
<1>2. CASE Change(i, Sending(g, FALSE))
  <2>1. stream \in BOOLEAN
    BY DEF RelayInv, TypeOK
  <2>2. g \in Generation /\ GenInv(g, stream) /\ g.outcome # "done"
    BY DEF Follows, GenInv, EndInv
  <2>3. Follows(Sending(g, FALSE), g, stream)
    BY ONLY <2>1, <2>2, Sent
  <2>4. Follows(Sending(g, FALSE), gen[i], stream)
    BY <2>3 DEF Follows
  <2> QED
    BY ONLY RelayInv, i \in DOMAIN gen, <1>2, <2>4, UNCHANGED inbox, GenStep
<1> QED
  BY <1>1, <1>2 DEF Throttled

\* What a reply does with the next event, or with none.
LEMMA PollStep ==
  ASSUME RelayInv, NEW i \in DOMAIN gen, poll_next(i)
  PROVE  RelayInv'
<1> DEFINE g == gen[i]
<1>1. /\ g \in Generation /\ GenInv(g, stream) /\ stream \in BOOLEAN
      /\ g.parsed \in Nat /\ g.read \in Nat
  <2>1. gen \in Seq(Generation) /\ GenInv(g, stream) /\ stream \in BOOLEAN
    BY DEF RelayInv, TypeOK
  <2>2. g \in Generation
    BY <2>1
  <2> HIDE DEF g
  <2>3. g.parsed \in 0..MaxEvents /\ g.read \in 0..MaxEvents
    BY <2>2 DEF Generation
  <2> QED
    BY <2>1, <2>2, <2>3
<1>2. g.phase = "reading" /\ UNCHANGED inbox
  BY DEF poll_next, DeltaText, EmptyDelta, Done, BadJson, ReadChunk, ReadEnd, ReadFails,
    ReadPending, Event, ReadsOn, NoChunk, Polled
<1>3. g.outcome # "done"
  BY <1>1, <1>2 DEF GenInv, EndInv
<1>4. ASSUME NEW kind, Event(i, kind)
      PROVE  g.parsed < g.read /\ Kind(g, g.parsed + 1) = kind
  BY <1>4 DEF Event, Kind
<1>5. CASE DeltaText(i)
  <2> DEFINE h == [Taken(g) EXCEPT !.acc = Append(@, Taken(g).parsed)]
  <2>1. Event(i, "text") /\ Throttled(i, h)
    BY <1>5 DEF DeltaText
  <2> HIDE DEF g
  <2>2. Follows(h, g, stream) /\ h.phase = "reading"
    BY <1>1, <1>2, <1>4, <2>1, TextTaken
  <2> HIDE DEF h
  <2> QED
    BY <1>2, <2>1, <2>2, ThrottledStep DEF g
<1>6. CASE EmptyDelta(i)
  <2>1. Event(i, "no_content") /\ Throttled(i, Taken(g))
    BY <1>6 DEF EmptyDelta
  <2> HIDE DEF g
  <2>2. Follows(Taken(g), g, stream) /\ Taken(g).phase = "reading"
    BY <1>1, <1>2, <1>4, <2>1, OtherTaken
  <2> QED
    BY <1>2, <2>1, <2>2, ThrottledStep DEF g
<1>7. CASE Done(i) \/ BadJson(i)
  <2>1. \/ Event(i, "[DONE]") /\ Change(i, Flush(Taken(g)))
        \/ Event(i, "bad_json") /\ Change(i, Ended(Taken(g), "error"))
    BY <1>7 DEF Done, BadJson
  <2> HIDE DEF g
  <2>2. Follows(Taken(g), g, stream) /\ Taken(g).phase = "reading"
    BY <1>1, <1>2, <1>4, <2>1, OtherTaken
  <2>3. /\ Taken(g) \in Generation /\ GenInv(Taken(g), stream) /\ Taken(g).outcome # "done"
        /\ Taken(g).snapshot = g.snapshot
    BY <2>2 DEF Follows, GenInv, EndInv
  <2>4. ASSUME Event(i, "[DONE]")
        PROVE  Follows(Flush(Taken(g)), g, stream)
    <3>1. g.parsed < g.read /\ Kind(g, g.parsed + 1) = "[DONE]"
      BY <1>4, <2>4
    <3>2. Taken(g).parsed = g.parsed + 1 /\ Taken(g).served = g.served
      BY <1>1 DEF Taken, Generation
    <3>3. g.parsed + 1 \in DOMAIN g.served
      <4>1. g.read <= Len(g.served) /\ g.served \in Seq(Seq(DataLines))
        BY <1>1 DEF GenInv, FlowInv, Generation
      <4> QED
        BY <1>1, <3>1, <4>1
    <3>4. Settled(Taken(g), stream)
      BY <3>1, <3>2, <3>3 DEF Settled, Kind
    <3>5. Follows(Flush(Taken(g)), Taken(g), stream)
      BY ONLY <1>1, <2>3, <3>4, Flushed
    <3> QED
      BY <2>3, <3>5 DEF Follows
  <2>5. Follows(Ended(Taken(g), "error"), g, stream)
    <3>1. Follows(Ended(Taken(g), "error"), Taken(g), stream)
      BY <1>1, <2>3, EndsEarly
    <3> QED
      BY <2>3, <3>1 DEF Follows
  <2> QED
    BY <1>2, <2>1, <2>4, <2>5, GenStep DEF g
<1>8. CASE ReadChunk(i)
  <2> DEFINE h == [g EXCEPT !.read = Head(g.chunks), !.chunks = Tail(@),
                            !.awake = Head(g.chunks) > g.read]
  <2>1. g.chunks # <<>> /\ Change(i, h)
    BY <1>8 DEF ReadChunk
  <2> HIDE DEF g
  <2>2. Follows(h, g, stream)
    BY <1>1, <1>2, <2>1, ChunkRead
  <2> HIDE DEF h
  <2> QED
    BY <1>2, <2>1, <2>2, GenStep DEF g
<1>9. CASE ReadEnd(i)
  <2>1. g.chunks = <<>> /\ g.body = "ended" /\ g.parsed = g.read /\ Change(i, Flush(g))
    BY <1>9 DEF ReadEnd, NoChunk, ReadsOn
  <2> HIDE DEF g
  <2>2. g.parsed = Len(g.served)
    BY <1>1, <2>1 DEF GenInv, FlowInv, Coming
  <2>3. Settled(g, stream)
    BY <2>1, <2>2 DEF Settled
  <2>4. Follows(Flush(g), g, stream)
    BY ONLY <1>1, <1>3, <2>3, Flushed
  <2> QED
    BY <1>2, <2>1, <2>4, GenStep DEF g
<1>10. CASE ReadFails(i)
  <2>1. Change(i, Ended(g, "error"))
    BY <1>10 DEF ReadFails
  <2> HIDE DEF g
  <2>2. Follows(Ended(g, "error"), g, stream)
    BY <1>1, EndsEarly
  <2> QED
    BY <1>2, <2>1, <2>2, GenStep DEF g
<1>11. CASE ReadPending(i)
  <2>1. Change(i, [g EXCEPT !.awake = FALSE, !.waker = TRUE])
    BY <1>11 DEF ReadPending
  <2> HIDE DEF g
  <2>2. Follows([g EXCEPT !.awake = FALSE, !.waker = TRUE], g, stream)
    BY <1>1, Sleeps
  <2> QED
    BY <1>2, <2>1, <2>2, GenStep DEF g
<1> QED
  BY <1>5, <1>6, <1>7, <1>8, <1>9, <1>10, <1>11 DEF poll_next

\* What the server, chat.send and the runtime do to a reply.
LEMMA OutsideStep ==
  ASSUME RelayInv, NEW i \in DOMAIN gen,
         \/ SendReturns(i) \/ Dropped(i) \/ Responds(i) \/ CallFails(i)
         \/ \E text \in {"text", "no_content"} : AnswerWhole(i, text)
         \/ \E chunk \in Chunks : ServeChunk(i, chunk)
         \/ \E how \in {"ended", "broken"} : EndBody(i, how)
  PROVE  RelayInv'
<1> DEFINE g == gen[i]
<1>1. g \in Generation /\ GenInv(g, stream) /\ stream \in BOOLEAN
  BY DEF RelayInv, TypeOK
<1>2. CASE SendReturns(i)
  <2> DEFINE h == IF g.final THEN Ended(g, "done") ELSE [g EXCEPT !.phase = "reading"]
  <2>1. /\ g.phase = "sending" /\ Change(i, h)
        /\ inbox' = Append(inbox, i) \/ UNCHANGED inbox
    BY <1>2 DEF SendReturns
  <2> HIDE DEF g
  <2>2. Follows(h, g, stream)
    BY <1>1, <2>1, SendOver
  <2> HIDE DEF h
  <2> QED
    BY <2>1, <2>2, GenStep DEF g
<1>3. CASE Dropped(i) \/ CallFails(i)
  <2>1. PICK how \in {"aborted", "error"} : Change(i, Ended(g, how)) /\ UNCHANGED inbox
    BY <1>3 DEF Dropped, CallFails
  <2> HIDE DEF g
  <2>2. Follows(Ended(g, how), g, stream)
    BY <1>1, EndsEarly
  <2> QED
    BY <2>1, <2>2, GenStep DEF g
<1>4. CASE Responds(i)
  <2> DEFINE h == [g EXCEPT !.phase = "reading", !.awake = TRUE]
  <2>1. g.phase = "calling" /\ Change(i, h) /\ UNCHANGED inbox
    BY <1>4 DEF Responds
  <2> HIDE DEF g
  <2>2. Follows(h, g, stream)
    BY <1>1, <2>1, Responded
  <2> HIDE DEF h
  <2> QED
    BY <2>1, <2>2, GenStep DEF g
<1>5. ASSUME NEW text \in {"text", "no_content"}, AnswerWhole(i, text)
      PROVE  RelayInv'
  <2> DEFINE h == [g EXCEPT !.awake = TRUE, !.served = <<<<text>>>>, !.read = 1,
                            !.parsed = 1, !.acc = IF text = "text" THEN <<1>> ELSE <<>>]
  <2>1. g.phase = "calling" /\ ~stream /\ Change(i, Flush(h)) /\ UNCHANGED inbox
    BY <1>5 DEF AnswerWhole
  <2> HIDE DEF g
  <2>2. Follows(Flush(h), g, stream)
    BY <1>1, <2>1, WholeRead
  <2> HIDE DEF h
  <2> QED
    BY <2>1, <2>2, GenStep DEF g
<1>6. ASSUME NEW chunk \in Chunks, ServeChunk(i, chunk)
      PROVE  RelayInv'
  <2> DEFINE h == [Woken(g) EXCEPT !.served = @ \o chunk,
                                   !.chunks = Append(@, Len(g.served \o chunk))]
  <2>1. /\ g.phase \in {"reading", "sending"} /\ g.body = "open" /\ stream
        /\ Len(g.served \o chunk) <= MaxEvents
        /\ Change(i, h) /\ UNCHANGED inbox
    BY <1>6 DEF ServeChunk, Serving
  <2>2. chunk \in Seq(Seq(DataLines))
    BY RelayAssumption
  <2> HIDE DEF g
  <2>3. Follows(h, g, stream)
    BY <1>1, <2>1, <2>2, ChunkServed
  <2> HIDE DEF h
  <2> QED
    BY <2>1, <2>3, GenStep DEF g
<1>7. ASSUME NEW how \in {"ended", "broken"}, EndBody(i, how)
      PROVE  RelayInv'
  <2> DEFINE h == [Woken(g) EXCEPT !.body = how]
  <2>1. /\ g.phase \in {"reading", "sending"} /\ g.body = "open" /\ stream
        /\ Change(i, h) /\ UNCHANGED inbox
    BY <1>7 DEF EndBody, Serving
  <2> HIDE DEF g
  <2>2. Follows(h, g, stream)
    BY <1>1, <2>1, BodyOver
  <2> HIDE DEF h
  <2> QED
    BY <2>1, <2>2, GenStep DEF g
<1> QED
  BY <1>2, <1>3, <1>4, <1>5, <1>6, <1>7

---------------------------------------------------------------------------
(* The theorems.                                                           *)

\* Nothing has been heard and nobody answers.
LEMMA InitInv == Init => RelayInv
<1> SUFFICES ASSUME Init
             PROVE  RelayInv
  OBVIOUS
<1> DEFINE none == <<>>
<1>1. /\ stream \in BOOLEAN /\ inbox = none /\ heard = none /\ history = none /\ gen = none
  BY DEF Init
<1>2. /\ none \in Messages /\ none \in Seq(Generation) /\ Len(none) = 0 /\ DOMAIN none = {}
  <2>1. \A S : <<>> \in Seq(S)
    OBVIOUS
  <2>2. Len(none) = 0 /\ DOMAIN none = {}
    OBVIOUS
  <2> QED
    BY ONLY <2>1, <2>2, Zenon DEF Messages, none
<1>3. none \o none = none /\ SubSeq(none, 1, 0) = none
  BY SubSeqEmpty
<1> HIDE DEF none
<1>4. OfOthers(none) = {} /\ Cardinality({}) = 0
  BY <1>2, FS_EmptySet DEF OfOthers
<1>5. Window(none) = none
  <2>1. ~(Len(none) > context)
    BY <1>2, RelayAssumption
  <2> QED
    BY <1>2, <1>3, <2>1 DEF Window
<1>6. TypeOK
  BY <1>1, <1>2, RelayAssumption DEF TypeOK
<1>7. ReplyInv
  BY <1>1, <1>2, <1>3, <1>4, <1>5, RelayAssumption DEF ReplyInv, OneReplyPerMessage
<1> QED
  BY <1>1, <1>2, <1>6, <1>7 DEF RelayInv

\* Wherever incoming_loop, the replies, the server and chat.send are, history
\* has the last messages heard, and of every reply the events it has taken are
\* among those that have come in and their texts are in its lines or held.
THEOREM RelayInvariant == Spec => []RelayInv
<1>1. RelayInv /\ [Next]_vars => RelayInv'
  <2> SUFFICES ASSUME RelayInv, [Next]_vars
               PROVE  RelayInv'
    OBVIOUS
  <2>1. CASE OtherSpeaks
    BY <2>1, OtherStep
  <2>2. CASE HearAssistant
    BY <2>2, HearStep DEF HearAssistant
  <2>3. CASE HearOther
    BY <2>3, HearStep DEF HearOther
  <2>4. ASSUME NEW i \in DOMAIN gen, poll_next(i)
        PROVE  RelayInv'
    BY <2>4, PollStep
  <2>5. ASSUME NEW i \in DOMAIN gen,
               \/ SendReturns(i) \/ Dropped(i) \/ Responds(i) \/ CallFails(i)
               \/ \E text \in {"text", "no_content"} : AnswerWhole(i, text)
               \/ \E chunk \in Chunks : ServeChunk(i, chunk)
               \/ \E how \in {"ended", "broken"} : EndBody(i, how)
        PROVE  RelayInv'
    BY <2>5, OutsideStep
  <2>6. CASE UNCHANGED vars
    BY <2>6 DEF vars, RelayInv, TypeOK, ReplyInv, OneReplyPerMessage
  <2> QED
    BY <2>1, <2>2, <2>3, <2>4, <2>5, <2>6 DEF Next
<1> QED
  BY InitInv, <1>1, PTL DEF Spec

\* incoming_loop keeps no more history than the configuration says, and every
\* generation is in one of the states of run_streaming_reply.
THEOREM TypeCorrect == Spec => []TypeOK
BY RelayInvariant, PTL DEF RelayInv

\* Every message of others starts one reply and no other message does, and the
\* model is given the last messages up to that one (main.rs, incoming_loop).
THEOREM RepliesToMessages == Spec => []OneReplyPerMessage
BY RelayInvariant, PTL DEF RelayInv, ReplyInv

\* No text of an answer is left out, sent twice or out of order, however the
\* server cuts it and wherever the interval falls; a reply that is done has
\* sent all of it (run_streaming_reply and SseStream::poll_next of llm.rs).
THEOREM AllTextKept == Spec => []TextKept
<1>1. RelayInv => TextKept
  <2> SUFFICES ASSUME RelayInv, NEW i \in DOMAIN gen
               PROVE  LET g == gen[i]
                      IN  /\ Ascending(Lines(g))
                          /\ TextsOf(Lines(g)) = {n \in 1..g.parsed : Kind(g, n) = "text"}
                          /\ g.outcome = "done" =>
                               /\ g.acc = <<>>
                               /\ g.parsed = Len(g.served) \/ Kind(g, g.parsed) = "[DONE]"
    BY DEF TextKept
  <2>1. GenInv(gen[i], stream)
    BY DEF RelayInv
  <2> QED
    BY <2>1 DEF GenInv, TextInv, EndInv, Settled
<1> QED
  BY RelayInvariant, <1>1, PTL
=============================================================================
