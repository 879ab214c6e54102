------------------------ MODULE TerminalClient_proofs -----------------------
(***************************************************************************)
(* Theorems about TerminalClient, for any capacity of the channel and any  *)
(* number of lines typed, lines of others and replies.                     *)
(***************************************************************************)
EXTENDS TerminalClient, SequenceTheorems, TLAPS

---------------------------------------------------------------------------
(* The inductive invariant.                                                *)

Ops == {"idle", "spawned", "open", "join", "send", "echo"}

\* The thread is spawned after the start; a text is on its way only while main
\* sends it, or where main ended in it.
MainInv ==
  /\ main \in {"starting", "awaiting", "started"} => stdin = "unread"
  /\ text # <<>> => main \in {"sending", "ended"}

CallInv == calls \in [Port!Task -> Ops]

\* The lines in line_rx and in the buffer of input_loop.
Words(texts) == UNION {ToSet(texts[i]) : i \in DOMAIN texts}

\* Every line is behind those that are further on their way: shown, held,
\* in the channel, in a send, in line_rx, in the buffer.
Chain(S, H, C, T, R, B) ==
  /\ Before(S, H \cup C \cup T \cup R \cup B)
  /\ Before(H, C \cup T \cup R \cup B)
  /\ Before(C, T \cup R \cup B)
  /\ Before(T, R \cup B)
  /\ Before(R, B)

OrderInv ==
  /\ \A i, j \in DOMAIN shown : i < j => shown[i] < shown[j]
  /\ InOrder(channel)
  /\ Chain(ToSet(shown), Lines(hand), Lines(channel), ToSet(text), Words(line_rx),
           Words(buffer))

\* Every line read before the end of stdin is somewhere on its way, or lost.
OnTheWay == Back \cup ToSet(text) \cup Words(line_rx) \cup Words(buffer)

PlaceInv ==
  /\ OnTheWay \cap lost = {}
  /\ \E k \in 0..typed : /\ OnTheWay \cup lost = 1..k
                         /\ stdin \in {"unread", "open"} => k = typed

TerminalInv == TypeOK /\ CallInv /\ MainInv /\ OrderInv /\ PlaceInv

---------------------------------------------------------------------------
(* Lines and texts.                                                        *)

\* A text is no line or one.
LEMMA TextLines ==
  /\ ToSet(<<>>) = {}
  /\ \A n : ToSet(<<n>>) = {n}
  /\ \A words \in Texts : ToSet(words) \subseteq 1..MaxTyped
  /\ \A words \in Texts : words = <<>> \/ \E n \in 1..MaxTyped : words = <<n>>
<1>1. ToSet(<<>>) = {} /\ \A n : ToSet(<<n>>) = {n}
  BY DEF ToSet
<1>2. \A words \in Texts : words = <<>> \/ \E n \in 1..MaxTyped : words = <<n>>
  BY DEF Texts
<1> QED
  BY <1>1, <1>2

\* What there is in a place that holds one thing or none.
LEMMA OneOrNone ==
  /\ Lines(<<>>) = {} /\ Words(<<>>) = {}
  /\ \A m : Lines(<<m>>) = ToSet(m.text)
  /\ \A w : Words(<<w>>) = ToSet(w)
  BY DEF Lines, Words

\* The texts of the messages.
LEMMA MessageTexts ==
  ASSUME NEW m \in Messages
  PROVE  /\ m.text \in Texts
         /\ m.from # "own" => m.text = <<>>
  BY DEF Messages, Message, Texts

\* A message joins the others at the end.
LEMMA LinesAppend ==
  ASSUME NEW q \in Seq(Messages), NEW m \in Messages
  PROVE  /\ Append(q, m) \in Seq(Messages)
         /\ Lines(Append(q, m)) = Lines(q) \cup ToSet(m.text)
         /\ InOrder(q) /\ Before(Lines(q), ToSet(m.text)) => InOrder(Append(q, m))
<1> DEFINE new == Append(q, m)
           k == Len(q) + 1
<1>1. /\ new \in Seq(Messages)
      /\ DOMAIN new = DOMAIN q \cup {k}
      /\ new[k] = m
      /\ \A i \in DOMAIN q : new[i] = q[i] /\ i \in Nat /\ i < k
      /\ k \in Nat
  OBVIOUS
<1> HIDE DEF new, k
<1>2. Lines(new) = Lines(q) \cup ToSet(m.text)
  BY <1>1 DEF Lines
<1>3. ASSUME InOrder(q), Before(Lines(q), ToSet(m.text)),
             NEW i \in DOMAIN new, NEW j \in DOMAIN new, i < j
      PROVE  Before(ToSet(new[i].text), ToSet(new[j].text))
  <2>1. i \in DOMAIN q
    BY <1>1, <1>3
  <2>2. CASE j = k
    <3>1. ToSet(q[i].text) \subseteq Lines(q)
      BY <2>1 DEF Lines
    <3> QED
      BY <1>1, <1>3, <2>1, <2>2, <3>1 DEF Before
  <2>3. CASE j \in DOMAIN q
    BY <1>1, <1>3, <2>1, <2>3 DEF InOrder
  <2> QED
    BY <1>1, <2>2, <2>3
<1> QED
  BY <1>1, <1>2, <1>3 DEF InOrder, new

\* The first message leaves the others.
LEMMA LinesTail ==
  ASSUME NEW q \in Seq(Messages), q # <<>>
  PROVE  /\ Tail(q) \in Seq(Messages) /\ Head(q) \in Messages
         /\ Lines(q) = ToSet(Head(q).text) \cup Lines(Tail(q))
         /\ InOrder(q) => /\ InOrder(Tail(q))
                          /\ Before(ToSet(Head(q).text), Lines(Tail(q)))
<1> DEFINE rest == Tail(q)
           first == Head(q)
<1>1. /\ rest \in Seq(Messages) /\ first \in Messages
      /\ first = q[1] /\ 1 \in DOMAIN q
      /\ \A i \in DOMAIN rest : rest[i] = q[i + 1] /\ i + 1 \in DOMAIN q /\ 1 < i + 1
      /\ \A i \in DOMAIN q : i # 1 => i - 1 \in DOMAIN rest /\ rest[i - 1] = q[i]
      /\ \A i, j \in DOMAIN rest : i < j => i + 1 < j + 1
  OBVIOUS
<1> HIDE DEF rest, first
<1>2. Lines(q) = ToSet(first.text) \cup Lines(rest)
  <2>1. ASSUME NEW n \in Lines(q)
        PROVE  n \in ToSet(first.text) \cup Lines(rest)
    <3>1. PICK i \in DOMAIN q : n \in ToSet(q[i].text)
      BY DEF Lines
    <3>2. CASE i = 1
      BY <1>1, <3>1, <3>2
    <3>3. CASE i # 1
      <4>1. i - 1 \in DOMAIN rest /\ n \in ToSet(rest[i - 1].text)
        BY <1>1, <3>1, <3>3
      <4> QED
        BY <4>1 DEF Lines
    <3> QED
      BY <3>2, <3>3
  <2>2. ASSUME NEW n \in ToSet(first.text) \cup Lines(rest)
        PROVE  n \in Lines(q)
    <3>1. CASE n \in ToSet(first.text)
      BY <1>1, <3>1 DEF Lines
    <3>2. CASE n \in Lines(rest)
      <4>1. PICK i \in DOMAIN rest : n \in ToSet(rest[i].text)
        BY <3>2 DEF Lines
      <4>2. i + 1 \in DOMAIN q /\ n \in ToSet(q[i + 1].text)
        BY <1>1, <4>1
      <4> QED
        BY <4>2 DEF Lines
    <3> QED
      BY <3>1, <3>2
  <2> QED
    BY <2>1, <2>2
<1>3. ASSUME InOrder(q)
      PROVE  InOrder(rest)
  BY <1>1, <1>3 DEF InOrder
<1>4. ASSUME InOrder(q)
      PROVE  Before(ToSet(first.text), Lines(rest))
  <2>1. \A j \in DOMAIN rest : Before(ToSet(first.text), ToSet(rest[j].text))
    BY <1>1, <1>4 DEF InOrder
  <2> QED
    BY <2>1 DEF Before, Lines
<1> QED
  BY <1>1, <1>2, <1>3, <1>4 DEF rest, first

\* What incoming_loop holds comes before what is in the channel.
LEMMA InOrderHand ==
  ASSUME NEW h \in {<<>>} \cup {<<m>> : m \in Messages}, NEW q \in Seq(Messages),
         InOrder(q), Before(Lines(h), Lines(q))
  PROVE  InOrder(h \o q) /\ Lines(h \o q) = Lines(h) \cup Lines(q)
<1>1. CASE h = <<>>
  <2>1. h \o q = q
    BY <1>1
  <2> QED
    BY <1>1, <2>1, OneOrNone
<1>2. ASSUME NEW m \in Messages, h = <<m>>
      PROVE  InOrder(h \o q) /\ Lines(h \o q) = Lines(h) \cup Lines(q)
  <2> DEFINE all == <<m>> \o q
  <2>1. /\ all \in Seq(Messages) /\ all[1] = m /\ 1 \in DOMAIN all
        /\ \A i \in DOMAIN all : i # 1 => i - 1 \in DOMAIN q /\ all[i] = q[i - 1]
        /\ \A i \in DOMAIN q : i + 1 \in DOMAIN all /\ all[i + 1] = q[i]
        /\ \A i, j \in DOMAIN all : i < j => j # 1 /\ i - 1 < j - 1
    OBVIOUS
  <2>2. Lines(h) = ToSet(m.text)
    BY <1>2, OneOrNone
  <2> HIDE DEF all
  <2>3. Lines(all) = ToSet(m.text) \cup Lines(q)
    <3>1. Lines(all) \subseteq ToSet(m.text) \cup Lines(q)
      BY <2>1 DEF Lines
    <3>2. ToSet(m.text) \cup Lines(q) \subseteq Lines(all)
      BY <2>1 DEF Lines
    <3> QED
      BY <3>1, <3>2
  <2>4. ASSUME NEW i \in DOMAIN all, NEW j \in DOMAIN all, i < j
        PROVE  Before(ToSet(all[i].text), ToSet(all[j].text))
    <3>1. j # 1 /\ j - 1 \in DOMAIN q /\ all[j] = q[j - 1]
      BY <2>1, <2>4
    <3>2. CASE i = 1
      <4>1. ToSet(q[j - 1].text) \subseteq Lines(q)
        BY <3>1 DEF Lines
      <4> QED
        BY <2>1, <2>2, <3>1, <3>2, <4>1 DEF Before
    <3>3. CASE i # 1
      BY <2>1, <2>4, <3>1, <3>3 DEF InOrder
    <3> QED
      BY <3>2, <3>3
  <2> QED
    BY <1>2, <2>2, <2>3, <2>4 DEF InOrder, all
<1> QED
  BY <1>1, <1>2

---------------------------------------------------------------------------
(* The way of a line.                                                      *)

\* The lines move on, one place at a time, and stay in order.
LEMMA MoveOn ==
  ASSUME NEW S, NEW H, NEW C, NEW T, NEW R, NEW B, Chain(S, H, C, T, R, B)
  PROVE  /\ R = {} => Chain(S, H, C, T, B, {})
         /\ T = {} => Chain(S, H, C, R, {}, B)
         /\ Chain(S, H, C \cup T, {}, R, B)
         /\ Chain(S, H, C, {}, R, B)
         /\ \A first, rest : H = {} /\ C = first \cup rest /\ Before(first, rest) =>
              Chain(S, first, rest, T, R, B)
         /\ Chain(S \cup H, {}, C, T, R, B)
         /\ \A m : B = {} /\ (\A n \in S \cup H \cup C \cup T \cup R : n < m) =>
              Chain(S, H, C, T, R, {m})
  BY DEF Chain, Before

\* What the places hold when the lines of the channel move or stay.
Moved(S, H, C, T, R, B, gone) ==
  /\ ToSet(shown)' = S /\ Lines(hand)' = H /\ Lines(channel)' = C
  /\ ToSet(text)' = T /\ Words(line_rx)' = R /\ Words(buffer)' = B
  /\ lost' = gone

\* When no line is read and none vanishes, the places hold the same lines.
LEMMA SameLines ==
  ASSUME PlaceInv, NEW S, NEW H, NEW C, NEW T, NEW R, NEW B, NEW gone,
         Moved(S, H, C, T, R, B, gone), UNCHANGED <<typed, stdin>>,
         LET all == S \cup H \cup C \cup T \cup R \cup B
         IN  all \cup gone = OnTheWay \cup lost /\ all \cap gone = {}
  PROVE  PlaceInv'
<1>1. OnTheWay' = S \cup H \cup C \cup T \cup R \cup B /\ lost' = gone
  BY DEF OnTheWay, Back, Moved
<1> QED
  BY <1>1 DEF PlaceInv

\* No line moves.
LEMMA Stays ==
  ASSUME OrderInv, PlaceInv,
         UNCHANGED <<shown, text, line_rx, buffer, lost, typed>>,
         Lines(hand)' = Lines(hand), Lines(channel)' = Lines(channel), InOrder(channel)',
         stdin' = stdin \/ stdin = "unread" \/ stdin' \notin {"unread", "open"}
  PROVE  OrderInv' /\ PlaceInv'
<1>1. OnTheWay' = OnTheWay
  BY DEF OnTheWay, Back
<1>2. PlaceInv'
  BY <1>1 DEF PlaceInv
<1>3. OrderInv'
  BY DEF OrderInv
<1> QED
  BY <1>2, <1>3

\* Input: a line is read, or the end of stdin, which is no line.
LEMMA ReadOrder ==
  ASSUME TypeOK, OrderInv, PlaceInv, ReadLine
  PROVE  OrderInv' /\ PlaceInv'
<1> DEFINE m == typed + 1
<1>1. /\ UNCHANGED <<shown, hand, channel, text, line_rx, lost>>
      /\ buffer = <<>> /\ typed' = m /\ typed \in Nat
      /\ stdin \in {"open", "eof"} /\ stdin' \in {stdin, "eof"}
  BY DEF ReadLine, chat, history, TypeOK
<1>2. /\ Words(buffer) = {}
      /\ stdin' = "eof" => Words(buffer') = {}
      /\ stdin' # "eof" => Words(buffer') = {m}
  <2>1. /\ stdin' = "eof" => buffer' = <<<<>>>>
        /\ stdin' # "eof" => buffer' = <<<<m>>>>
    BY <1>1 DEF ReadLine
  <2> QED
    BY <1>1, <2>1, OneOrNone, TextLines
<1> HIDE DEF m
<1>3. PICK k \in 0..typed : /\ OnTheWay \cup lost = 1..k
                            /\ stdin \in {"unread", "open"} => k = typed
  BY DEF PlaceInv
<1>4. /\ Lines(hand)' = Lines(hand) /\ Lines(channel)' = Lines(channel)
      /\ InOrder(channel)' /\ ToSet(shown)' = ToSet(shown) /\ ToSet(text)' = ToSet(text)
      /\ Words(line_rx)' = Words(line_rx) /\ Words(buffer)' = Words(buffer')
      /\ Back' = Back
  BY <1>1 DEF OrderInv, Back
<1>5. CASE stdin' = "eof"
  <2>1. Words(buffer') = Words(buffer)
    BY <1>2, <1>5
  <2>2. OrderInv'
    BY <1>1, <1>4, <2>1 DEF OrderInv
  <2>3. OnTheWay' = OnTheWay
    BY <1>4, <2>1 DEF OnTheWay
  <2>4. k \in 0..typed'
    BY <1>1, <1>3 DEF m
  <2> QED
    BY <1>1, <1>3, <1>5, <2>2, <2>3, <2>4 DEF PlaceInv
<1>6. CASE stdin' # "eof"
  <2>1. stdin = "open" /\ k = typed /\ stdin' = "open"
    BY <1>1, <1>3, <1>6
  <2>2. \A n \in OnTheWay \cup lost : n < m
    BY <1>1, <1>3, <2>1 DEF m
  <2>3. Words(buffer') = {m}
    BY <1>2, <1>6
  <2>4. OrderInv'
    <3> DEFINE way == ToSet(shown) \cup Lines(hand) \cup Lines(channel) \cup ToSet(text)
                        \cup Words(line_rx)
    <3>1. \A n \in way : n < m
      BY <2>2 DEF OnTheWay, Back
    <3>2. Chain(ToSet(shown), Lines(hand), Lines(channel), ToSet(text), Words(line_rx),
                Words(buffer))
      BY DEF OrderInv
    <3>3. Chain(ToSet(shown), Lines(hand), Lines(channel), ToSet(text), Words(line_rx), {m})
      BY <1>2, <3>1, <3>2, MoveOn
    <3> QED
      BY <1>1, <1>4, <2>3, <3>3 DEF OrderInv
  <2>5. OnTheWay' = OnTheWay \cup {m}
    BY <1>2, <1>4, <2>3 DEF OnTheWay
  <2>6. OnTheWay' \cup lost' = 1..m
    <3>1. 1..m = (1..typed) \cup {m}
      BY <1>1 DEF m
    <3> QED
      BY <1>1, <1>3, <2>1, <2>5, <3>1
  <2>7. OnTheWay' \cap lost' = {}
    <3>1. m \notin lost
      BY <1>1, <1>3, <2>2 DEF m
    <3> QED
      BY <1>1, <2>5, <3>1 DEF PlaceInv
  <2>8. m \in 0..typed' /\ m = typed'
    BY <1>1 DEF m
  <2> QED
    BY <2>4, <2>6, <2>7, <2>8 DEF PlaceInv
<1> QED
  BY <1>5, <1>6

\* input_loop hands the line it has read to main.
LEMMA HandOrder ==
  ASSUME TypeOK, OrderInv, PlaceInv, HandLine
  PROVE  OrderInv' /\ PlaceInv'
<1>1. /\ UNCHANGED <<shown, hand, channel, text, lost, typed, stdin>>
      /\ line_rx = <<>> /\ line_rx' = buffer /\ buffer' = <<>>
  BY DEF HandLine, chat, history
<1>2. /\ Words(line_rx) = {} /\ Words(buffer)' = {} /\ Words(line_rx)' = Words(buffer)
  BY <1>1, OneOrNone
<1>3. Chain(ToSet(shown), Lines(hand), Lines(channel), ToSet(text), Words(buffer), {})
  BY <1>2, MoveOn DEF OrderInv
<1>4. Moved(ToSet(shown), Lines(hand), Lines(channel), ToSet(text), Words(buffer), {}, lost)
  BY <1>1, <1>2 DEF Moved
<1>5. OrderInv'
  BY <1>1, <1>3, <1>4 DEF OrderInv, Moved
<1>6. ToSet(shown) \cup Lines(hand) \cup Lines(channel) \cup ToSet(text) \cup Words(buffer)
        \cup {} = OnTheWay
  BY <1>2 DEF OnTheWay, Back
<1>7. PlaceInv'
  BY <1>1, <1>4, <1>6, SameLines DEF PlaceInv
<1> QED
  BY <1>5, <1>7

\* main takes the line it is handed.
LEMMA SendsOrder ==
  ASSUME TypeOK, MainInv, OrderInv, PlaceInv, Sends
  PROVE  OrderInv' /\ PlaceInv'
<1>1. /\ UNCHANGED <<shown, hand, channel, buffer, lost, typed, stdin>>
      /\ line_rx # <<>> /\ text' = line_rx[1] /\ line_rx' = <<>> /\ text = <<>>
  BY DEF Sends, Port!Call, history, input, MainInv
<1>2. /\ ToSet(text) = {} /\ Words(line_rx)' = {} /\ ToSet(text)' = Words(line_rx)
  <2>1. PICK w \in Texts : line_rx = <<w>>
    BY <1>1 DEF TypeOK
  <2>2. text' = w
    BY <1>1, <2>1
  <2> QED
    BY <1>1, <2>1, <2>2, OneOrNone, TextLines
<1>3. Chain(ToSet(shown), Lines(hand), Lines(channel), Words(line_rx), {}, Words(buffer))
  BY <1>2, MoveOn DEF OrderInv
<1>4. Moved(ToSet(shown), Lines(hand), Lines(channel), Words(line_rx), {}, Words(buffer), lost)
  BY <1>1, <1>2 DEF Moved
<1>5. OrderInv'
  BY <1>1, <1>3, <1>4 DEF OrderInv, Moved
<1>6. ToSet(shown) \cup Lines(hand) \cup Lines(channel) \cup Words(line_rx) \cup {}
        \cup Words(buffer) = OnTheWay
  BY <1>2 DEF OnTheWay, Back
<1>7. PlaceInv'
  BY <1>1, <1>4, <1>6, SameLines DEF PlaceInv
<1> QED
  BY <1>5, <1>7

\* The line main sends is put into the channel, or there is no room for it.
LEMMA SentOrder ==
  ASSUME TypeOK, OrderInv, PlaceInv, Echoed \/ SentNowhere
  PROVE  OrderInv' /\ PlaceInv'
<1>1. /\ UNCHANGED <<shown, hand, line_rx, buffer, typed, stdin>> /\ text' = <<>>
  BY DEF Echoed, SentNowhere, Sent, history, input
<1>2. ToSet(text)' = {}
  BY <1>1, TextLines
<1>3. Chain(ToSet(shown), Lines(hand), Lines(channel), ToSet(text), Words(line_rx),
            Words(buffer))
      /\ InOrder(channel)
  BY DEF OrderInv
<1>4. CASE Echoed
  <2> DEFINE m == Message("own", text)
             C == Lines(channel) \cup ToSet(text)
  <2>1. m \in Messages /\ m.text = text
    BY DEF Messages, Message, TypeOK
  <2>2. channel' = Append(channel, m) /\ lost' = lost /\ channel \in Seq(Messages)
    BY <1>4 DEF Echoed, Port!Echo, Port!Put, TypeOK
  <2> HIDE DEF m
  <2>3. Lines(channel)' = C /\ InOrder(channel)'
    <3>1. Before(Lines(channel), ToSet(text))
      BY <1>3 DEF Chain, Before
    <3>2. /\ Lines(channel') = C
          /\ InOrder(channel')
      BY <1>3, <2>1, <2>2, <3>1, LinesAppend
    <3> QED
      BY <3>2
  <2> HIDE DEF C
  <2>4. Chain(ToSet(shown), Lines(hand), C, {}, Words(line_rx), Words(buffer))
    BY <1>3, MoveOn DEF C
  <2>5. Moved(ToSet(shown), Lines(hand), C, {}, Words(line_rx), Words(buffer), lost)
    BY <1>1, <1>2, <2>2, <2>3 DEF Moved
  <2>6. OrderInv'
    BY <1>1, <1>3, <2>3, <2>4, <2>5 DEF OrderInv, Moved
  <2>7. ToSet(shown) \cup Lines(hand) \cup C \cup {} \cup Words(line_rx)
          \cup Words(buffer) = OnTheWay
    BY DEF OnTheWay, Back, C
  <2>8. PlaceInv'
    BY <1>1, <2>5, <2>7, SameLines DEF PlaceInv
  <2> QED
    BY <2>6, <2>8
<1>5. CASE SentNowhere
  <2> DEFINE gone == lost \cup ToSet(text)
             way == ToSet(shown) \cup Lines(hand) \cup Lines(channel) \cup Words(line_rx)
                      \cup Words(buffer)
  <2>1. UNCHANGED channel /\ lost' = gone
    BY <1>5 DEF SentNowhere, Port!Returns
  <2>2. Chain(ToSet(shown), Lines(hand), Lines(channel), {}, Words(line_rx), Words(buffer))
    BY <1>3, MoveOn
  <2>3. Moved(ToSet(shown), Lines(hand), Lines(channel), {}, Words(line_rx), Words(buffer),
              gone)
    BY <1>1, <1>2, <2>1 DEF Moved
  <2>4. OrderInv'
    BY <1>1, <1>3, <2>1, <2>2, <2>3 DEF OrderInv, Moved
  <2>5. way \cap ToSet(text) = {}
    <3>1. /\ \A n \in OnTheWay : n \in Nat
      BY DEF PlaceInv, TypeOK
    <3>2. /\ Before(ToSet(shown), ToSet(text)) /\ Before(Lines(hand), ToSet(text))
          /\ Before(Lines(channel), ToSet(text)) /\ Before(ToSet(text), Words(line_rx))
          /\ Before(ToSet(text), Words(buffer))
      BY <1>3 DEF Chain, Before
    <3>3. \A n \in ToSet(text) : n \in Nat
      BY <3>1 DEF OnTheWay
    <3>4. \A n \in ToSet(text) : ~(n < n)
      BY <3>3
    <3> QED
      BY <3>2, <3>4 DEF Before
  <2>6. way \cup gone = OnTheWay \cup lost
    BY DEF OnTheWay, Back
  <2>7. way \cap gone = {}
    BY <2>5 DEF PlaceInv, OnTheWay, Back
  <2>8. ToSet(shown) \cup Lines(hand) \cup Lines(channel) \cup {} \cup Words(line_rx)
          \cup Words(buffer) = way
    OBVIOUS
  <2> HIDE DEF way, gone
  <2>9. PlaceInv'
    BY <1>1, <2>3, <2>6, <2>7, <2>8, SameLines
  <2> QED
    BY <2>4, <2>9
<1> QED
  BY <1>4, <1>5

\* incoming_loop takes the oldest message.
LEMMA ReceivesOrder ==
  ASSUME TypeOK, OrderInv, PlaceInv, Receives
  PROVE  OrderInv' /\ PlaceInv'
<1> DEFINE first == ToSet(Head(channel).text)
           rest == Lines(Tail(channel))
<1>1. /\ UNCHANGED <<shown, text, line_rx, buffer, lost, typed, stdin>>
      /\ hand = <<>> /\ hand' = <<Head(channel)>>
      /\ channel # <<>> /\ channel' = Tail(channel) /\ channel \in Seq(Messages)
  BY DEF Receives, Port!NextMessage, history, input, TypeOK
<1>2. /\ InOrder(channel)
      /\ Chain(ToSet(shown), Lines(hand), Lines(channel), ToSet(text), Words(line_rx),
            Words(buffer))
  BY DEF OrderInv
<1>3. /\ Lines(channel) = first \cup rest
      /\ InOrder(Tail(channel)) /\ Before(first, rest)
  BY <1>1, <1>2, LinesTail
<1>4. Lines(hand) = {} /\ Lines(hand)' = first /\ Lines(channel)' = rest
  BY <1>1, OneOrNone
<1> HIDE DEF first, rest
<1>5. Chain(ToSet(shown), first, rest, ToSet(text), Words(line_rx), Words(buffer))
  BY <1>2, <1>3, <1>4, MoveOn
<1>6. Moved(ToSet(shown), first, rest, ToSet(text), Words(line_rx), Words(buffer), lost)
  BY <1>1, <1>4 DEF Moved
<1>7. OrderInv'
  BY <1>1, <1>2, <1>3, <1>5, <1>6 DEF OrderInv, Moved
<1>8. ToSet(shown) \cup first \cup rest \cup ToSet(text) \cup Words(line_rx)
        \cup Words(buffer) = OnTheWay
  BY <1>3, <1>4 DEF OnTheWay, Back
<1>9. PlaceInv'
  BY <1>1, <1>6, <1>8, SameLines DEF PlaceInv
<1> QED
  BY <1>7, <1>9

\* incoming_loop prints what it holds.
LEMMA ShowsOrder ==
  ASSUME TypeOK, OrderInv, PlaceInv, Shows
  PROVE  /\ OrderInv' /\ PlaceInv'
         /\ shown' \in Seq(1..MaxTyped)
<1>1. /\ UNCHANGED <<channel, text, line_rx, buffer, lost, typed, stdin>>
      /\ hand # <<>> /\ hand' = <<>> /\ shown' = shown \o hand[1].text
      /\ shown \in Seq(1..MaxTyped)
  BY DEF Shows, chat, input, TypeOK
<1>2. PICK w \in Texts : hand[1].text = w /\ Lines(hand) = ToSet(w)
  <2>1. PICK m \in Messages : hand = <<m>>
    BY <1>1 DEF TypeOK
  <2>2. m.text \in Texts
    BY MessageTexts
  <2> QED
    BY <2>1, <2>2, OneOrNone
<1>3. /\ \A i, j \in DOMAIN shown : i < j => shown[i] < shown[j]
      /\ Chain(ToSet(shown), Lines(hand), Lines(channel), ToSet(text), Words(line_rx),
            Words(buffer))
      /\ Before(ToSet(shown), Lines(hand))
  BY DEF OrderInv, Chain, Before
<1>4. /\ shown' \in Seq(1..MaxTyped)
      /\ ToSet(shown') = ToSet(shown) \cup ToSet(w)
      /\ \A i, j \in DOMAIN shown' : i < j => shown'[i] < shown'[j]
  <2>1. CASE w = <<>>
    <3>1. shown' = shown
      BY <1>1, <1>2, <2>1
    <3> QED
      BY <1>1, <1>3, <2>1, <3>1, TextLines
  <2>2. ASSUME NEW n \in 1..MaxTyped, w = <<n>>
        PROVE  <1>4!:
    <3> DEFINE k == Len(shown) + 1
    <3>1. /\ shown' = Append(shown, n)
      BY <1>1, <1>2, <2>2
    <3>2. /\ shown' \in Seq(1..MaxTyped)
          /\ DOMAIN shown' = DOMAIN shown \cup {k}
          /\ shown'[k] = n
          /\ \A i \in DOMAIN shown : shown'[i] = shown[i] /\ i \in Nat /\ i < k
          /\ k \in Nat
      BY <1>1, <3>1
    <3> HIDE DEF k
    <3>3. ToSet(w) = {n}
      BY <2>2, TextLines
    <3>4. ToSet(shown') = ToSet(shown) \cup {n}
      BY <3>2 DEF ToSet
    <3>5. \A i \in DOMAIN shown : shown[i] < n
      BY <1>2, <1>3, <3>3 DEF Before, ToSet
    <3>6. \A i, j \in DOMAIN shown' : i < j => shown'[i] < shown'[j]
      BY <1>3, <3>2, <3>5
    <3> QED
      BY <3>2, <3>3, <3>4, <3>6
  <2> QED
    BY <2>1, <2>2, TextLines
<1>5. Lines(hand)' = {}
  BY <1>1, OneOrNone
<1> DEFINE S == ToSet(shown) \cup Lines(hand)
<1>6. Chain(S, {}, Lines(channel), ToSet(text), Words(line_rx), Words(buffer))
  BY <1>3, MoveOn
<1>7. Moved(S, {}, Lines(channel), ToSet(text), Words(line_rx), Words(buffer), lost)
  BY <1>1, <1>2, <1>4, <1>5 DEF Moved
<1>8. S \cup {} \cup Lines(channel) \cup ToSet(text) \cup Words(line_rx)
        \cup Words(buffer) = OnTheWay
  BY DEF OnTheWay, Back
<1> HIDE DEF S
<1>9. OrderInv'
  BY <1>1, <1>4, <1>6, <1>7 DEF OrderInv, Moved
<1>10. PlaceInv'
  BY <1>1, <1>7, <1>8, SameLines DEF PlaceInv
<1> QED
  BY <1>4, <1>9, <1>10

\* The steps in which no own line moves: those of the start, of the
\* generations and of the HubClientSession, and the ends of main and stdin.
Quiet ==
  Starts \/ StartReturns \/ ConfigFails \/ Runs \/ SendFails \/ Listens \/
  ReadFails \/ Restarts \/ Generation \/ Broadcasts \/ Finishes \/ LineArrives \/
  UNCHANGED vars

\* A quiet step leaves every own line where it is, in order.
LEMMA QuietOrder ==
  ASSUME TypeOK, MainInv, OrderInv, PlaceInv, Quiet
  PROVE  OrderInv' /\ PlaceInv'
<1> USE DEF Quiet, Starts, StartReturns, ConfigFails, Runs, SendFails, Listens, ReadFails,
            Restarts, Generation, GenSends, GenSent, GenEnds, Broadcasts, Finishes, LineArrives
<1>1. UNCHANGED <<shown, text, line_rx, buffer, lost, typed>>
  BY DEF vars, input, history
<1>2. stdin' = stdin \/ stdin = "unread" \/ stdin' \notin {"unread", "open"}
  <2>1. CASE Runs
    BY <2>1 DEF MainInv
  <2> QED
    BY <2>1 DEF vars, input
<1>3. Lines(hand)' = Lines(hand)
  <2>1. CASE Restarts
    <3>1. PICK m \in Messages : hand = <<m>>
      BY <2>1 DEF TypeOK
    <3>2. m.from = "other"
      BY <2>1, <3>1
    <3>3. m.text = <<>>
      BY <3>2, MessageTexts
    <3>4. Lines(hand) = {}
      BY <3>1, <3>3, OneOrNone, TextLines
    <3>5. hand' = <<>>
      BY <2>1
    <3> QED
      BY <3>4, <3>5, OneOrNone
  <2>2. CASE ~Restarts
    BY <2>2 DEF vars
  <2> QED
    BY <2>1, <2>2
<1>4. \/ UNCHANGED channel
      \/ \E m \in Messages : m.from # "own" /\ channel' = Append(channel, m)
  <2>1. /\ Message("assistant", <<>>) \in Messages /\ Message("assistant", <<>>).from # "own"
        /\ Message("other", <<>>) \in Messages /\ Message("other", <<>>).from # "own"
    BY DEF Messages, Message
  <2>2. CASE LineArrives
    BY <2>1, <2>2 DEF Port!LineArrives, Port!Put
  <2>3. CASE GenSent
    BY <2>1, <2>3 DEF Port!Echo, Port!Put, Port!Returns
  <2>4. CASE ~LineArrives /\ ~GenSent
    BY <2>4 DEF vars, chat, Port!Call, Port!OpenReturns, Port!JoinReturns, Port!Returns,
                Port!Dropped, Port!Broadcasts, Port!FinishStarts
  <2> QED
    BY <2>2, <2>3, <2>4
<1>5. Lines(channel)' = Lines(channel) /\ InOrder(channel)'
  <2>1. InOrder(channel) /\ channel \in Seq(Messages)
    BY DEF OrderInv, TypeOK
  <2>2. ASSUME NEW m \in Messages, m.from # "own", channel' = Append(channel, m)
        PROVE  Lines(channel)' = Lines(channel) /\ InOrder(channel)'
    <3>1. ToSet(m.text) = {}
      BY <2>2, MessageTexts, TextLines
    <3>2. Before(Lines(channel), ToSet(m.text))
      BY <3>1 DEF Before
    <3>3. Lines(Append(channel, m)) = Lines(channel) /\ InOrder(Append(channel, m))
      BY <2>1, <3>1, <3>2, LinesAppend
    <3> QED
      BY <2>2, <3>3
  <2> QED
    BY <1>4, <2>1, <2>2
<1> QED
  BY ONLY OrderInv, PlaceInv, <1>1, <1>2, <1>3, <1>5, Stays

\* Every step keeps the lines in order, and each in its place.
LEMMA NextOrder ==
  ASSUME TypeOK, MainInv, OrderInv, PlaceInv, [Next]_vars
  PROVE  OrderInv' /\ PlaceInv'
BY ReadOrder, HandOrder, SendsOrder, SentOrder, ReceivesOrder, ShowsOrder, QuietOrder
DEF Next, Main, input_loop, incoming_loop, Quiet

---------------------------------------------------------------------------
(* The calls.                                                              *)

\* The calls of the others stay as they are.
Moves(t, to) == t \in Port!Task /\ calls' = [calls EXCEPT ![t] = to]

\* What a step of the HubClientSession does to the calls.
LEMMA CallSteps ==
  ASSUME NEW t \in Port!Task
  PROVE  /\ \A what : Port!Call(t, what) => Moves(t, what)
         /\ Port!JoinReturns(t) => Moves(t, "idle")
         /\ Port!Returns(t) => Moves(t, "idle")
         /\ Port!Dropped(t) => Moves(t, "idle")
         /\ \A m : Port!Echo(t, m) => Moves(t, "idle")
         /\ Port!Broadcasts(t) => Moves(t, "echo") /\ calls[t] = "send"
         /\ Port!FinishStarts(t) => Moves(t, "join")
BY DEF Moves, Port!Call, Port!JoinReturns, Port!Returns, Port!Dropped, Port!Echo,
       Port!Broadcasts, Port!FinishStarts, Port!Waits, Port!Ends

\* The generation calls exactly while it sends.
GenCalls == gen = "sending" <=> calls["gen"] # "idle"

\* Every step keeps the calls in order.
LEMMA NextCalls ==
  ASSUME TypeOK, CallInv, [Next]_vars
  PROVE  CallInv' /\ GenCalls'
<1>1. Port!Task = {"main", "gen", "finish"}
  BY DEF Port!Task
<1>2. calls \in [Port!Task -> Ops] /\ GenCalls
  BY DEF CallInv, TypeOK, GenCalls
<1>3. ASSUME NEW t \in Port!Task, NEW to \in Ops, Moves(t, to),
             t = "gen" => (gen' = "sending" <=> to # "idle"),
             t # "gen" => gen' = gen
      PROVE  calls' \in [Port!Task -> Ops] /\ GenCalls'
  <2>1. calls' = [calls EXCEPT ![t] = to]
    BY <1>3 DEF Moves
  <2>2. calls' \in [Port!Task -> Ops]
    BY <1>2, <1>3, <2>1
  <2>3. calls'["gen"] = IF t = "gen" THEN to ELSE calls["gen"]
    BY <1>1, <1>2, <2>1
  <2>4. GenCalls'
    BY <1>2, <1>3, <2>3 DEF GenCalls
  <2> QED
    BY <2>2, <2>4
<1>4. ASSUME UNCHANGED calls, gen # "sending", gen' # "sending"
      PROVE  GenCalls'
  BY <1>2, <1>4 DEF GenCalls
<1>5. calls' \in [Port!Task -> Ops] /\ GenCalls'
  <2> USE DEF Ops
  <2>1. CASE Starts
    <3>1. Moves("main", mode) /\ gen' = gen /\ mode \in Ops
      BY <1>1, <2>1, CallSteps DEF Starts, TypeOK
    <3> QED
      BY <1>1, <1>3, <3>1
  <2>2. CASE StartReturns
    <3>1. gen' = gen
      BY <2>2 DEF StartReturns
    <3>2. CASE Port!OpenReturns("main", "finish")
      <4>1. calls' = [calls EXCEPT !["main"] = "idle", !["finish"] = "spawned"]
        BY <3>2 DEF Port!OpenReturns
      <4>2. calls' \in [Port!Task -> Ops] /\ calls'["gen"] = calls["gen"]
        BY <1>1, <1>2, <4>1
      <4> QED
        BY <1>2, <3>1, <4>2 DEF GenCalls
    <3>3. CASE ~Port!OpenReturns("main", "finish")
      <4>1. Moves("main", "idle")
        BY <1>1, <2>2, <3>3, CallSteps DEF StartReturns
      <4> QED
        BY <1>1, <1>3, <3>1, <4>1
    <3> QED
      BY <3>2, <3>3
  <2>3. CASE Sends
    <3>1. Moves("main", "send") /\ gen' = gen
      BY <1>1, <2>3, CallSteps DEF Sends
    <3> QED
      BY <1>1, <1>3, <3>1
  <2>4. CASE Echoed \/ SentNowhere \/ SendFails
    <3>1. Moves("main", "idle") /\ gen' = gen
      BY <1>1, <2>4, CallSteps DEF Echoed, SentNowhere, SendFails
    <3> QED
      BY <1>1, <1>3, <3>1
  <2>5. CASE Receives \/ Shows \/ LineArrives
    <3>1. UNCHANGED <<calls, gen>>
      BY <2>5 DEF Receives, Shows, LineArrives, Port!NextMessage, Port!LineArrives, chat
    <3> QED
      BY <1>2, <3>1 DEF GenCalls
  <2>6. CASE Restarts
    <3>1. gen' = "asking"
      BY <2>6 DEF Restarts
    <3>2. CASE gen = "sending"
      <4>1. Moves("gen", "idle")
        BY <1>1, <2>6, <3>2, CallSteps DEF Restarts
      <4> QED
        BY <1>1, <1>3, <3>1, <4>1
    <3>3. CASE gen # "sending"
      <4>1. UNCHANGED calls
        BY <2>6, <3>3 DEF Restarts, chat
      <4> QED
        BY <1>2, <1>4, <3>1, <3>3, <4>1
    <3> QED
      BY <3>2, <3>3
  <2>7. CASE GenSends
    <3>1. Moves("gen", "send") /\ gen' = "sending"
      BY <1>1, <2>7, CallSteps DEF GenSends
    <3> QED
      BY <1>1, <1>3, <3>1
  <2>8. CASE GenSent
    <3>1. Moves("gen", "idle") /\ gen' = "asking"
      BY <1>1, <2>8, CallSteps DEF GenSent
    <3> QED
      BY <1>1, <1>3, <3>1
  <2>9. CASE GenEnds
    <3>1. gen' = "ended"
      BY <2>9 DEF GenEnds
    <3>2. CASE gen = "asking" /\ UNCHANGED chat
      <4>1. UNCHANGED calls
        BY <3>2 DEF chat
      <4> QED
        BY <1>2, <1>4, <3>1, <3>2, <4>1
    <3>3. CASE Port!Returns("gen")
      <4>1. Moves("gen", "idle")
        BY <1>1, <3>3, CallSteps
      <4> QED
        BY <1>1, <1>3, <3>1, <4>1
    <3> QED
      BY <2>9, <3>2, <3>3 DEF GenEnds
  <2>10. CASE Broadcasts
    <3>1. gen' = gen
      BY <2>10 DEF Broadcasts
    <3>2. CASE Port!Broadcasts("main")
      <4>1. Moves("main", "echo")
        BY <1>1, <3>2, CallSteps
      <4> QED
        BY <1>1, <1>3, <3>1, <4>1
    <3>3. CASE Port!Broadcasts("gen")
      <4>1. Moves("gen", "echo") /\ calls["gen"] = "send"
        BY <1>1, <3>3, CallSteps
      <4>2. gen' = "sending"
        BY <1>2, <3>1, <4>1 DEF GenCalls
      <4> QED
        BY <1>1, <1>3, <4>1, <4>2
    <3> QED
      BY <2>10, <3>2, <3>3 DEF Broadcasts
  <2>11. CASE Finishes
    <3>1. (Moves("finish", "join") \/ Moves("finish", "idle")) /\ gen' = gen
      BY <1>1, <2>11, CallSteps DEF Finishes
    <3> QED
      BY <1>1, <1>3, <3>1
  <2>12. CASE ConfigFails \/ Runs \/ Listens \/ input_loop \/ UNCHANGED vars
    <3>1. UNCHANGED <<calls, gen>>
      BY <2>12 DEF ConfigFails, Runs, Listens, input_loop, ReadLine, ReadFails, HandLine,
                   vars, chat
    <3> QED
      BY <1>2, <3>1 DEF GenCalls
  <2> QED
    BY <2>1, <2>2, <2>3, <2>4, <2>5, <2>6, <2>7, <2>8, <2>9, <2>10, <2>11, <2>12
    DEF Next, Main, incoming_loop, Generation
<1> QED
  BY <1>5 DEF CallInv

\* Every step leaves main, the thread and the text where they belong.
LEMMA NextMain ==
  ASSUME TypeOK, MainInv, [Next]_vars
  PROVE  MainInv'
<1> USE DEF MainInv
<1>1. CASE Main
  BY <1>1 DEF Main, Starts, StartReturns, ConfigFails, Runs, Sends, Echoed, SentNowhere,
              Sent, SendFails, Listens, input
<1>2. CASE input_loop
  BY <1>2 DEF input_loop, ReadLine, ReadFails, HandLine, Running
<1>3. CASE ~Main /\ ~input_loop
  <2>1. UNCHANGED <<main, stdin, text>>
    BY <1>3 DEF Next, incoming_loop, Generation, Receives, Shows, Restarts, GenSends,
                GenSent, GenEnds, Broadcasts, Finishes, LineArrives, vars, input
  <2> QED
    BY <2>1
<1> QED
  BY <1>1, <1>2, <1>3

---------------------------------------------------------------------------
(* The types.                                                              *)

\* The texts, while lines are read, handed over and sent.
LEMMA InputTyped ==
  ASSUME TypeOK, [Next]_vars
  PROVE  /\ typed' \in 0..MaxTyped /\ stdin' \in {"unread", "open", "eof", "failed"}
         /\ buffer' \in {<<>>} \cup {<<words>> : words \in Texts}
         /\ line_rx' \in {<<>>} \cup {<<words>> : words \in Texts}
         /\ text' \in Texts
<1> USE DEF TypeOK
<1>1. CASE ReadLine
  <2>1. typed' \in 1..MaxTyped
    BY <1>1, TerminalAssumption DEF ReadLine
  <2>2. <<>> \in Texts /\ <<typed'>> \in Texts
    BY <2>1 DEF Texts
  <2> QED
    BY <1>1, <2>1, <2>2 DEF ReadLine
<1>2. CASE HandLine
  BY <1>2 DEF HandLine
<1>3. CASE Sends
  <2>1. PICK w \in Texts : line_rx = <<w>>
    BY <1>3 DEF Sends
  <2> QED
    BY <1>3, <2>1 DEF Sends, input
<1>4. CASE Echoed \/ SentNowhere
  <2>1. <<>> \in Texts
    BY DEF Texts
  <2> QED
    BY <1>4, <2>1 DEF Echoed, SentNowhere, Sent, input
<1>5. CASE ~ReadLine /\ ~HandLine /\ ~Sends /\ ~Echoed /\ ~SentNowhere
  <2>1. UNCHANGED <<typed, buffer, line_rx, text>>
        /\ stdin' \in {stdin, "open", "failed"}
    BY <1>5 DEF Next, Main, input_loop, incoming_loop, Generation, Starts, StartReturns,
      ConfigFails, Runs, SendFails, Listens, ReadFails, Receives, Shows, Restarts, GenSends,
      GenSent, GenEnds, Broadcasts, Finishes, LineArrives, vars, input
  <2> QED
    BY <2>1
<1> QED
  BY <1>1, <1>2, <1>3, <1>4, <1>5

\* The messages, in the channel and in incoming_loop.
LEMMA MessagesTyped ==
  ASSUME TypeOK, [Next]_vars
  PROVE  /\ channel' \in Seq(Messages)
         /\ hand' \in {<<>>} \cup {<<message>> : message \in Messages}
<1> USE DEF TypeOK
<1>1. CASE Receives
  <2>1. channel \in Seq(Messages) /\ channel # <<>> /\ channel' = Tail(channel)
        /\ hand' = <<Head(channel)>>
    BY <1>1 DEF Receives, Port!NextMessage
  <2>2. Head(channel) \in Messages /\ Tail(channel) \in Seq(Messages)
    BY <2>1, LinesTail
  <2> QED
    BY <2>1, <2>2
<1>2. CASE Shows \/ Restarts
  <2>1. hand' = <<>> /\ UNCHANGED channel
    BY <1>2 DEF Shows, Restarts, Port!Dropped, chat
  <2> QED
    BY <2>1
<1>3. ASSUME NEW m \in Messages, channel' = Append(channel, m)
      PROVE  channel' \in Seq(Messages)
  BY <1>3, LinesAppend
<1>4. CASE Echoed \/ GenSent \/ LineArrives
  <2>1. /\ Message("own", text) \in Messages /\ Message("assistant", <<>>) \in Messages
        /\ Message("other", <<>>) \in Messages
    BY DEF Messages, Message
  <2>2. hand' = hand
    BY <1>4 DEF Echoed, GenSent, LineArrives
  <2>3. CASE Echoed
    BY <1>3, <2>1, <2>2, <2>3 DEF Echoed, Port!Echo, Port!Put
  <2>4. CASE GenSent
    <3>1. channel' = Append(channel, Message("assistant", <<>>)) \/ channel' = channel
      BY <2>4 DEF GenSent, Port!Echo, Port!Put, Port!Returns
    <3> QED
      BY <1>3, <2>1, <2>2, <3>1
  <2>5. CASE LineArrives
    BY <1>3, <2>1, <2>2, <2>5 DEF LineArrives, Port!LineArrives, Port!Put
  <2> QED
    BY <1>4, <2>3, <2>4, <2>5
<1>5. CASE ~Receives /\ ~Shows /\ ~Restarts /\ ~Echoed /\ ~GenSent /\ ~LineArrives
  <2>1. UNCHANGED <<hand, channel>>
    BY <1>5 DEF Next, Main, input_loop, incoming_loop, Generation, Starts, StartReturns,
      ConfigFails, Runs, Sends, SentNowhere, SendFails, Listens, ReadLine, ReadFails,
      HandLine, GenSends, GenEnds, Broadcasts, Finishes, vars, chat, Port!Call,
      Port!OpenReturns, Port!JoinReturns, Port!Returns, Port!Broadcasts, Port!FinishStarts
  <2> QED
    BY <2>1
<1> QED
  BY <1>1, <1>2, <1>4, <1>5

\* The lines shown, sent and lost.
LEMMA HistoryTyped ==
  ASSUME TypeOK, OrderInv, PlaceInv, [Next]_vars
  PROVE  /\ shown' \in Seq(1..MaxTyped)
         /\ lost' \subseteq sent' /\ sent' \subseteq 1..MaxTyped
<1> USE DEF TypeOK
<1>1. ToSet(text) \subseteq 1..MaxTyped
  BY TextLines
<1>2. CASE Shows
  BY <1>2, ShowsOrder DEF Shows
<1>3. CASE Echoed \/ SentNowhere
  BY <1>1, <1>3 DEF Echoed, SentNowhere, Sent
<1>4. CASE ~Shows /\ ~Echoed /\ ~SentNowhere
  <2>1. UNCHANGED <<shown, sent, lost>>
    BY <1>4 DEF Next, Main, input_loop, incoming_loop, Generation, Starts, StartReturns,
      ConfigFails, Runs, Sends, SendFails, Listens, ReadLine, ReadFails, HandLine, Receives,
      Restarts, GenSends, GenSent, GenEnds, Broadcasts, Finishes, LineArrives, vars, history
  <2> QED
    BY <2>1
<1> QED
  BY <1>2, <1>3, <1>4

\* The places of main and of the generation, and the counters.
LEMMA StagesTyped ==
  ASSUME TypeOK, [Next]_vars
  PROVE  /\ mode' \in {"open", "join"} /\ llm' \in BOOLEAN
         /\ main' \in {"starting", "awaiting", "started", "receiving", "sending",
                       "listening", "ended"}
         /\ gen' \in {"none", "asking", "sending", "ended"}
         /\ others' \in 0..MaxOthers /\ replies' \in 0..MaxReplies
<1>1. /\ UNCHANGED <<mode, llm>>
      /\ main' \in {main, "awaiting", "started", "receiving", "sending", "listening",
                    "ended"}
      /\ gen' \in {gen, "asking", "sending", "ended"}
      /\ others' = others \/ (others < MaxOthers /\ others' = others + 1)
      /\ replies' = replies \/ (replies < MaxReplies /\ replies' = replies + 1)
  BY DEF Next, Main, input_loop, incoming_loop, Generation, Starts, StartReturns,
    ConfigFails, Runs, Sends, Echoed, SentNowhere, Sent, SendFails, Listens, ReadLine,
    ReadFails, HandLine, Receives, Shows, Restarts, GenSends, GenSent, GenEnds, Broadcasts,
    Finishes, LineArrives, vars, config
<1> QED
  BY <1>1, TerminalAssumption DEF TypeOK

---------------------------------------------------------------------------
(* The theorems.                                                           *)

\* The program starts with nothing on its way.
LEMMA InitInv == Init => TerminalInv
<1> SUFFICES ASSUME Init
             PROVE  TerminalInv
  OBVIOUS
<1>1. /\ shown = <<>> /\ hand = <<>> /\ channel = <<>> /\ text = <<>> /\ line_rx = <<>>
      /\ buffer = <<>> /\ lost = {} /\ sent = {} /\ typed = 0 /\ stdin = "unread"
      /\ main = "starting" /\ gen = "none" /\ others = 0 /\ replies = 0
      /\ mode \in {"open", "join"} /\ llm \in BOOLEAN
      /\ calls = [t \in Port!Task |-> "idle"]
  BY DEF Init, Port!Init
<1>2. CallInv /\ calls["gen"] = "idle"
  BY <1>1 DEF CallInv, Ops, Port!Task
<1>3. MainInv
  BY <1>1 DEF MainInv
<1>4. <<>> \in Seq(Messages) /\ <<>> \in Seq(1..MaxTyped) /\ <<>> \in Texts
  <2>1. \A S : <<>> \in Seq(S)
    OBVIOUS
  <2>2. <<>> \in Texts
    BY DEF Texts
  <2> QED
    BY ONLY <2>1, <2>2, Zenon
<1>5. TypeOK
  BY <1>1, <1>2, <1>4, TerminalAssumption DEF TypeOK
<1>6. /\ ToSet(shown) = {} /\ Lines(hand) = {} /\ Lines(channel) = {} /\ ToSet(text) = {}
      /\ Words(line_rx) = {} /\ Words(buffer) = {}
  BY <1>1, TextLines, OneOrNone
<1>7. OrderInv
  BY <1>1, <1>6 DEF OrderInv, InOrder, Chain, Before
<1>8. OnTheWay = {} /\ 1..0 = {} /\ 0 \in 0..typed
  BY <1>1, <1>6 DEF OnTheWay, Back
<1>9. PlaceInv
  BY <1>1, <1>8 DEF PlaceInv
<1> QED
  BY <1>2, <1>3, <1>5, <1>7, <1>9 DEF TerminalInv

\* Wherever main, the thread, incoming_loop and a generation are, every line
\* that was typed is in exactly one place of its way, behind the lines typed
\* before it: main.rs hands lines on through line_tx, send and the channel of
\* messages, and no generation comes between them.
THEOREM TerminalInvariant == Spec => []TerminalInv
<1>1. TerminalInv /\ [Next]_vars => TerminalInv'
  <2> SUFFICES ASSUME TerminalInv, [Next]_vars
               PROVE  TerminalInv'
    OBVIOUS
  <2>1. TypeOK /\ CallInv /\ MainInv /\ OrderInv /\ PlaceInv
    BY DEF TerminalInv
  <2>2. CallInv' /\ GenCalls'
    BY <2>1, NextCalls
  <2>3. MainInv'
    BY <2>1, NextMain
  <2>4. OrderInv' /\ PlaceInv'
    BY <2>1, NextOrder
  <2>5. TypeOK'
    BY <2>1, <2>2, InputTyped, MessagesTyped, HistoryTyped, StagesTyped DEF TypeOK, GenCalls
  <2> QED
    BY <2>2, <2>3, <2>4, <2>5 DEF TerminalInv
<1> QED
  BY InitInv, <1>1, PTL DEF Spec

\* Main, the thread and the task agree on who exists: the generation calls
\* exactly while it sends, and at most one line waits in line_rx.
THEOREM TypeCorrect == Spec => []TypeOK
BY TerminalInvariant, PTL DEF TerminalInv

\* The own lines come back in the order they were typed, each once and none
\* left out but those sent before there was a room (input_loop, main and
\* incoming_loop of main.rs, next to generations that are aborted).
THEOREM LinesInOrder == Spec => []TypedInOrder
<1>1. TerminalInv => TypedInOrder
  <2> SUFFICES ASSUME TerminalInv
               PROVE  TypedInOrder
    OBVIOUS
  <2>1. TypeOK /\ OrderInv /\ PlaceInv
    BY DEF TerminalInv
  <2>2. /\ \A i, j \in DOMAIN shown : i < j => shown[i] < shown[j]
        /\ InOrder(channel)
        /\ Chain(ToSet(shown), Lines(hand), Lines(channel), ToSet(text), Words(line_rx),
                 Words(buffer))
    BY <2>1 DEF OrderInv
  <2>3. InOrder(hand \o channel) /\ Lines(hand \o channel) = Lines(hand) \cup Lines(channel)
    <3>1. /\ hand \in {<<>>} \cup {<<m>> : m \in Messages} /\ channel \in Seq(Messages)
      BY <2>1 DEF TypeOK
    <3>2. Before(Lines(hand), Lines(channel))
      BY <2>2 DEF Chain, Before
    <3> QED
      BY <2>2, <3>1, <3>2, InOrderHand
  <2>4. Before(ToSet(shown), Lines(hand \o channel))
    BY <2>2, <2>3 DEF Chain, Before
  <2>5. PICK k \in 0..typed : OnTheWay \cup lost = 1..k
    BY <2>1 DEF PlaceInv
  <2>6. OnTheWay \cap lost = {} /\ typed \in Nat
    BY <2>1 DEF PlaceInv, TypeOK
  <2>7. Back \subseteq (1..typed) \ lost
    BY <2>5, <2>6 DEF OnTheWay
  <2>8. ASSUME NEW n \in Back
        PROVE  1..n \subseteq Back \cup lost
    <3>1. n \in 1..k
      BY <2>5, <2>8 DEF OnTheWay
    <3>2. \A m \in ToSet(text) \cup Words(line_rx) \cup Words(buffer) : n < m
      BY <2>2, <2>8 DEF Chain, Before, Back
    <3>3. ASSUME NEW m \in 1..n
          PROVE  m \in Back \cup lost
      <4>1. m \in 1..k /\ ~(n < m)
        BY <2>5, <3>1
      <4> QED
        BY <2>5, <3>2, <4>1 DEF OnTheWay
    <3> QED
      BY <3>3
  <2> QED
    BY <2>2, <2>3, <2>4, <2>7, <2>8 DEF TypedInOrder
<1> QED
  BY TerminalInvariant, <1>1, PTL
=============================================================================
