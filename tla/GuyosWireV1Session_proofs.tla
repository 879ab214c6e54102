--------------------- MODULE GuyosWireV1Session_proofs ---------------------
(***************************************************************************)
(* Theorems about GuyosWireV1Session, for any limit, any body lengths, any *)
(* capacity of the channel and any way to cut the bytes into chunks.       *)
(***************************************************************************)
EXTENDS GuyosWireV1Session, SequenceTheorems, TLAPS

---------------------------------------------------------------------------
(* The stream of a peer.  off[k] bytes come before frame k, so a byte has  *)
(* a position in the stream, and the bytes between the decoder and the     *)
(* peer stand at the positions that follow one another: first those of the *)
(* buffer, from the frame to be read on, then those of the chunks, chunk i *)
(* from marks[i] on, and then those not sent.                              *)

FrameLength(fs, k) == PREFIX + fs[k].bytes

Layout(fs, off) ==
  /\ off \in [1..(Len(fs) + 1) -> Nat] /\ off[1] = 0
  /\ \A k \in DOMAIN fs : off[k + 1] = off[k] + FrameLength(fs, k)
  /\ \A j, k \in 1..(Len(fs) + 1) : j < k => off[j] < off[k]

IsByte(fs, b) ==
  b \in Nat \X Nat /\ b[1] \in DOMAIN fs /\ b[2] \in 1..FrameLength(fs, b[1])

\* The bytes of s stand behind the first p bytes of the stream.
At(fs, off, s, p) ==
  \A i \in DOMAIN s : IsByte(fs, s[i]) /\ off[s[i][1]] + s[i][2] = p + i

Chain(fs, off, marks, from, chunks, to) ==
  LET last == Len(chunks) + 1
  IN  /\ marks \in [1..last -> Nat] /\ marks[1] = from /\ marks[last] = to
      /\ \A i \in DOMAIN chunks :
           /\ At(fs, off, chunks[i], marks[i])
           /\ marks[i + 1] = marks[i] + Len(chunks[i])
      /\ \A i \in 1..last : marks[i] <= to

Flow(fs, off, marks, first, held, chunks, rest, sent) ==
  /\ Layout(fs, off)
  /\ first \in 1..(Len(fs) + 1)
  /\ At(fs, off, held, off[first])
  /\ Chain(fs, off, marks, off[first] + Len(held), chunks, sent)
  /\ At(fs, off, rest, sent)
  /\ sent + Len(rest) = off[Len(fs) + 1]

\* A frame whose body is no UTF-8 has left the buffer without being returned.
First == Len(got) + (IF verdict = "InvalidUtf8" THEN 2 ELSE 1)

FlowInv ==
  /\ \E off, marks, sent : Flow(frames, off, marks, First, buf, rx, outbox, sent)
  /\ Len(frames) <= MaxFrames
  /\ \A i \in DOMAIN rx : Len(rx[i]) <= MaxChunk

SessionInv ==
  TypeOK /\ FlowInv /\ FramesInOrder /\ VerdictIsRight /\ BufferBounded

Frames == [bytes : Sizes, utf8 : BOOLEAN]

\* The length of a frame is a number, and not zero.
LEMMA Lengths ==
  ASSUME NEW fs \in Seq(Frames)
  PROVE  /\ Len(fs) \in Nat /\ DOMAIN fs = 1..Len(fs)
         /\ \A k \in 1..Len(fs) :
              /\ fs[k] \in Frames /\ fs[k].bytes \in Nat
              /\ FrameLength(fs, k) \in Nat /\ FrameLength(fs, k) >= PREFIX
<1>1. Len(fs) \in Nat /\ DOMAIN fs = 1..Len(fs)
  OBVIOUS
<1>2. ASSUME NEW k \in 1..Len(fs)
      PROVE  /\ fs[k] \in Frames /\ fs[k].bytes \in Nat
             /\ FrameLength(fs, k) \in Nat /\ FrameLength(fs, k) >= PREFIX
  <2>1. fs[k] \in Frames
    BY <1>1
  <2>2. fs[k].bytes \in Nat
    BY <2>1, SessionAssumption DEF Frames
  <2> QED
    BY <2>1, <2>2 DEF FrameLength, PREFIX
<1> QED
  BY <1>1, <1>2

\* A byte has one position: where two bytes stand in the same place they are
\* the same.
LEMMA OnePlace ==
  ASSUME NEW fs \in Seq(Frames), NEW off, Layout(fs, off),
         NEW b, IsByte(fs, b), NEW c, IsByte(fs, c),
         off[b[1]] + b[2] = off[c[1]] + c[2]
  PROVE  b = c
<1>1. /\ Len(fs) \in Nat /\ DOMAIN fs = 1..Len(fs)
      /\ \A k \in 1..Len(fs) : FrameLength(fs, k) \in Nat
  BY Lengths
<1>2. ASSUME NEW x, IsByte(fs, x), NEW y, IsByte(fs, y), x[1] < y[1]
      PROVE  off[x[1]] + x[2] < off[y[1]] + y[2]
  <2>1. /\ x[1] \in 1..Len(fs) /\ y[1] \in 1..Len(fs)
        /\ x[2] \in 1..FrameLength(fs, x[1]) /\ y[2] \in 1..FrameLength(fs, y[1])
    BY <1>1, <1>2 DEF IsByte
  <2>2. off[x[1] + 1] = off[x[1]] + FrameLength(fs, x[1])
    BY <1>1, <2>1 DEF Layout
  <2>3. off[x[1]] \in Nat /\ off[y[1]] \in Nat /\ off[x[1] + 1] \in Nat
    <3>1. \A k \in 1..Len(fs) : k \in 1..(Len(fs) + 1) /\ k + 1 \in 1..(Len(fs) + 1)
      BY <1>1
    <3>2. \A k \in 1..(Len(fs) + 1) : off[k] \in Nat
      BY DEF Layout
    <3> QED
      BY <2>1, <3>1, <3>2
  <2>4. off[x[1] + 1] <= off[y[1]]
    <3>1. x[1] + 1 \in 1..(Len(fs) + 1) /\ y[1] \in 1..(Len(fs) + 1)
      BY <1>1, <2>1
    <3>2. x[1] + 1 = y[1] \/ x[1] + 1 < y[1]
      BY <1>1, <1>2, <2>1
    <3> QED
      BY <2>3, <3>1, <3>2 DEF Layout
  <2>5. x[2] \in Nat /\ x[2] <= FrameLength(fs, x[1]) /\ y[2] \in Nat /\ y[2] > 0
    BY <1>1, <2>1
  <2>6. FrameLength(fs, x[1]) \in Nat
    BY <1>1, <2>1
  <2>7. off[x[1]] + x[2] <= off[x[1] + 1]
    BY ONLY <2>2, <2>3, <2>5, <2>6
  <2>8. off[y[1]] < off[y[1]] + y[2]
    BY ONLY <2>3, <2>5
  <2> QED
    BY ONLY <2>3, <2>4, <2>5, <2>7, <2>8
<1>3. b[1] \in Nat /\ c[1] \in Nat /\ b[2] \in Nat /\ c[2] \in Nat
  BY DEF IsByte
<1>4. b[1] \in 1..Len(fs) /\ c[1] \in 1..Len(fs)
  BY <1>1 DEF IsByte
<1>5. off[b[1]] \in Nat /\ off[c[1]] \in Nat
  BY <1>1, <1>4 DEF Layout
<1>6. ~(b[1] < c[1]) /\ ~(c[1] < b[1])
  BY <1>2, <1>3, <1>5
<1>7. b[1] = c[1]
  BY ONLY <1>3, <1>6
<1>8. b[2] = c[2]
  <2>1. off[b[1]] + b[2] = off[b[1]] + c[2]
    BY <1>7
  <2> QED
    BY ONLY <1>3, <1>5, <2>1
<1> QED
  BY <1>7, <1>8 DEF IsByte

\* A chunk behind another.
LEMMA AtAppend ==
  ASSUME NEW S, NEW s \in Seq(S), NEW t \in Seq(S), NEW fs, NEW off, NEW p \in Nat,
         At(fs, off, s, p), At(fs, off, t, p + Len(s))
  PROVE  At(fs, off, s \o t, p)
<1> DEFINE u == s \o t
<1>1. /\ Len(s) \in Nat /\ Len(t) \in Nat
      /\ DOMAIN s = 1..Len(s) /\ DOMAIN t = 1..Len(t)
      /\ DOMAIN u = 1..(Len(s) + Len(t))
      /\ \A i \in 1..Len(s) : u[i] = s[i]
      /\ \A i \in (Len(s) + 1)..(Len(s) + Len(t)) : u[i] = t[i - Len(s)]
  OBVIOUS
<1> HIDE DEF u
<1> SUFFICES ASSUME NEW i \in 1..(Len(s) + Len(t))
             PROVE  IsByte(fs, u[i]) /\ off[u[i][1]] + u[i][2] = p + i
  BY <1>1 DEF At, u
<1>2. CASE i <= Len(s)
  BY <1>1, <1>2 DEF At
<1>3. CASE i > Len(s)
  <2> DEFINE j == i - Len(s)
  <2>1. j \in 1..Len(t) /\ u[i] = t[j]
    BY <1>1, <1>3
  <2>2. IsByte(fs, t[j]) /\ off[t[j][1]] + t[j][2] = p + Len(s) + j
    BY <1>1, <2>1 DEF At
  <2>3. p + Len(s) + j = p + i
    BY <1>1
  <2> QED
    BY <2>1, <2>2, <2>3
<1> QED
  BY <1>1, <1>2, <1>3

\* A sequence cut in two.
LEMMA AtCut ==
  ASSUME NEW S, NEW s \in Seq(S), NEW n \in 0..Len(s), NEW fs, NEW off,
         NEW p \in Nat, At(fs, off, s, p)
  PROVE  /\ SubSeq(s, 1, n) \in Seq(S) /\ Len(SubSeq(s, 1, n)) = n
         /\ SubSeq(s, n + 1, Len(s)) \in Seq(S)
         /\ Len(SubSeq(s, n + 1, Len(s))) = Len(s) - n
         /\ At(fs, off, SubSeq(s, 1, n), p)
         /\ At(fs, off, SubSeq(s, n + 1, Len(s)), p + n)
<1> DEFINE a == SubSeq(s, 1, n)
           b == SubSeq(s, n + 1, Len(s))
<1>1. /\ Len(s) \in Nat /\ DOMAIN s = 1..Len(s)
      /\ a \in Seq(S) /\ Len(a) = n /\ DOMAIN a = 1..n
      /\ \A i \in 1..n : a[i] = s[i]
  OBVIOUS
<1>2. /\ b \in Seq(S) /\ Len(b) = Len(s) - n /\ DOMAIN b = 1..(Len(s) - n)
      /\ \A i \in 1..(Len(s) - n) : b[i] = s[n + i]
  OBVIOUS
<1> HIDE DEF a, b
<1>3. At(fs, off, a, p)
  BY <1>1 DEF At
<1>4. At(fs, off, b, p + n)
  <2> SUFFICES ASSUME NEW i \in 1..(Len(s) - n)
               PROVE  IsByte(fs, b[i]) /\ off[b[i][1]] + b[i][2] = p + n + i
    BY <1>2 DEF At
  <2>1. n + i \in 1..Len(s) /\ b[i] = s[n + i]
    BY <1>1, <1>2
  <2>2. IsByte(fs, s[n + i]) /\ off[s[n + i][1]] + s[n + i][2] = p + (n + i)
    BY <1>1, <2>1 DEF At
  <2> QED
    BY <2>1, <2>2
<1> QED
  BY <1>1, <1>2, <1>3, <1>4 DEF a, b

\* One more frame leaves the bytes before it where they stand.
LEMMA LayoutGrows ==
  ASSUME NEW fs \in Seq(Frames), NEW f \in Frames, NEW off, Layout(fs, off)
  PROVE  LET n == Len(fs) + 1
             more == Append(fs, f)
             off2 == [k \in 1..(n + 1) |->
                        IF k = n + 1 THEN off[n] + PREFIX + f.bytes ELSE off[k]]
         IN  /\ more \in Seq(Frames) /\ Len(more) = n
             /\ Layout(more, off2)
             /\ \A k \in 1..n : off2[k] = off[k]
             /\ off2[n + 1] = off[n] + PREFIX + f.bytes
             /\ \A s, p : At(fs, off, s, p) => At(more, off2, s, p)
             /\ At(more, off2, Encoded(n, f.bytes), off[n])
<1> DEFINE n == Len(fs) + 1
           more == Append(fs, f)
           off2 == [k \in 1..(n + 1) |->
                      IF k = n + 1 THEN off[n] + PREFIX + f.bytes ELSE off[k]]
<1>1. /\ Len(fs) \in Nat /\ DOMAIN fs = 1..Len(fs)
      /\ \A k \in 1..Len(fs) : FrameLength(fs, k) \in Nat
  BY Lengths
<1>2. /\ more \in Seq(Frames) /\ Len(more) = n /\ DOMAIN more = 1..n
      /\ more[n] = f /\ \A k \in 1..Len(fs) : more[k] = fs[k]
  OBVIOUS
<1>3. f.bytes \in Nat
  BY SessionAssumption DEF Frames
<1>4. /\ off2 \in [1..(n + 1) -> Nat]
      /\ \A k \in 1..n : off2[k] = off[k] /\ off2[k] \in Nat
      /\ off2[n + 1] = off[n] + PREFIX + f.bytes
  <2>1. \A k \in 1..n : off[k] \in Nat
    BY <1>1 DEF Layout
  <2>2. n \in 1..n /\ n \in Nat /\ PREFIX \in Nat
    BY <1>1 DEF PREFIX
  <2> HIDE DEF n
  <2>3. off[n] + PREFIX + f.bytes \in Nat
    BY ONLY <1>3, <2>1, <2>2
  <2>4. \A k \in 1..n : k \in 1..(n + 1) /\ k # n + 1
    BY ONLY <2>2
  <2>5. n + 1 \in 1..(n + 1) /\ \A k \in 1..(n + 1) : k = n + 1 \/ k \in 1..n
    BY ONLY <2>2
  <2> QED
    BY ONLY <2>1, <2>3, <2>4, <2>5 DEF off2
<1>5. /\ \A k \in 1..Len(fs) : FrameLength(more, k) = FrameLength(fs, k)
      /\ FrameLength(more, n) = PREFIX + f.bytes
  BY <1>2 DEF FrameLength
<1> HIDE DEF n, more, off2
<1>6. Layout(more, off2)
  <2>1. off2[1] = 0
    BY <1>1, <1>4 DEF Layout, n
  <2>2. ASSUME NEW k \in 1..n
        PROVE  off2[k + 1] = off2[k] + FrameLength(more, k)
    <3>1. CASE k = n
      <4>1. n \in 1..n
        BY <1>1 DEF n
      <4>2. off2[n] = off[n] /\ off[n] \in Nat /\ PREFIX \in Nat
        BY <1>4, <4>1 DEF PREFIX
      <4>3. off[n] + PREFIX + f.bytes = off[n] + (PREFIX + f.bytes)
        BY ONLY <1>3, <4>2
      <4> QED
        BY <1>4, <1>5, <3>1, <4>2, <4>3
    <3>2. CASE k # n
      <4>1. k \in 1..Len(fs) /\ k \in 1..n /\ k + 1 \in 1..n
        BY <1>1, <3>2 DEF n
      <4>2. off[k + 1] = off[k] + FrameLength(fs, k)
        BY <1>1, <4>1 DEF Layout
      <4> QED
        BY <1>4, <1>5, <4>1, <4>2
    <3> QED
      BY <3>1, <3>2
  <2>3. ASSUME NEW j \in 1..(n + 1), NEW k \in 1..(n + 1), j < k
        PROVE  off2[j] < off2[k]
    <3>1. CASE k = n + 1
      <4>1. off[j] <= off[n] /\ off[j] \in Nat /\ off[n] \in Nat /\ j \in 1..n
        BY <1>1, <2>3, <3>1 DEF Layout, n
      <4> QED
        BY <1>3, <1>4, <3>1, <4>1 DEF PREFIX
    <3>2. CASE k # n + 1
      <4>1. j \in 1..n /\ k \in 1..n
        BY <1>1, <2>3, <3>2 DEF n
      <4>2. off[j] < off[k]
        BY <2>3, <4>1 DEF Layout, n
      <4> QED
        BY <1>4, <4>1, <4>2
    <3> QED
      BY <3>1, <3>2
  <2> QED
    BY <1>2, <1>4, <2>1, <2>2, <2>3 DEF Layout
<1>7. ASSUME NEW s, NEW p, At(fs, off, s, p)
      PROVE  At(more, off2, s, p)
  <2>1. ASSUME NEW b, IsByte(fs, b)
        PROVE  IsByte(more, b) /\ off2[b[1]] = off[b[1]]
    BY <1>1, <1>2, <1>4, <1>5, <2>1 DEF IsByte, n
  <2> QED
    BY <1>7, <2>1 DEF At
<1>8. At(more, off2, Encoded(n, f.bytes), off[n])
  <2>1. Encoded(n, f.bytes) = [i \in 1..(PREFIX + f.bytes) |-> <<n, i>>]
    BY DEF Encoded
  <2> SUFFICES ASSUME NEW i \in 1..(PREFIX + f.bytes)
               PROVE  IsByte(more, <<n, i>>) /\ off2[n] + i = off[n] + i
    BY <2>1 DEF At
  <2>2. n \in Nat /\ i \in Nat /\ n \in 1..n
    BY <1>1, <1>3 DEF PREFIX, n
  <2> QED
    BY <1>2, <1>4, <1>5, <2>2 DEF IsByte
<1> QED
  BY <1>2, <1>4, <1>6, <1>7, <1>8 DEF n, more, off2

\* A chunk is put behind the others.
LEMMA ChainPut ==
  ASSUME NEW S, NEW fs, NEW off, NEW marks, NEW from, NEW to \in Nat,
         NEW chunks \in Seq(Seq(S)), NEW c \in Seq(S),
         Chain(fs, off, marks, from, chunks, to), At(fs, off, c, to)
  PROVE  \E m : Chain(fs, off, m, from, Append(chunks, c), to + Len(c))
<1> DEFINE n == Len(chunks) + 1
           more == Append(chunks, c)
           m == [i \in 1..(n + 1) |-> IF i = n + 1 THEN to + Len(c) ELSE marks[i]]
<1>1. /\ Len(chunks) \in Nat /\ DOMAIN chunks = 1..Len(chunks) /\ Len(c) \in Nat
      /\ Len(more) = n /\ DOMAIN more = 1..n /\ more[n] = c
      /\ \A i \in 1..Len(chunks) : more[i] = chunks[i]
  OBVIOUS
<1> HIDE DEF more
<1>2. /\ marks \in [1..n -> Nat] /\ marks[1] = from /\ marks[n] = to
      /\ \A i \in 1..Len(chunks) :
           /\ At(fs, off, chunks[i], marks[i])
           /\ marks[i + 1] = marks[i] + Len(chunks[i])
      /\ \A i \in 1..n : marks[i] <= to
  BY <1>1 DEF Chain
<1>3. /\ m \in [1..(n + 1) -> Nat] /\ m[n + 1] = to + Len(c)
      /\ \A i \in 1..n : m[i] = marks[i]
  BY <1>1, <1>2
<1> HIDE DEF m, n
<1>4. ASSUME NEW i \in 1..n
      PROVE  At(fs, off, more[i], m[i]) /\ m[i + 1] = m[i] + Len(more[i])
  <2>1. CASE i = n
    BY <1>1, <1>2, <1>3, <2>1
  <2>2. CASE i # n
    <3>1. i \in 1..Len(chunks) /\ i + 1 \in 1..n
      BY <1>1, <2>2 DEF n
    <3> QED
      BY <1>1, <1>2, <1>3, <3>1
  <2> QED
    BY <2>1, <2>2
<1>5. \A i \in 1..(n + 1) : m[i] <= to + Len(c)
  <2> SUFFICES ASSUME NEW i \in 1..(n + 1) PROVE m[i] <= to + Len(c)
    OBVIOUS
  <2>1. CASE i = n + 1
    BY <1>1, <1>3, <2>1
  <2>2. CASE i # n + 1
    <3>1. i \in 1..n
      BY <1>1, <2>2 DEF n
    <3>2. marks[i] \in Nat /\ marks[i] <= to /\ m[i] = marks[i]
      BY <1>2, <1>3, <3>1
    <3> QED
      BY <1>1, <3>2
  <2> QED
    BY <2>1, <2>2
<1>6. 1 \in 1..n
  BY <1>1 DEF n
<1>7. Chain(fs, off, m, from, more, to + Len(c))
  BY <1>1, <1>2, <1>3, <1>4, <1>5, <1>6 DEF Chain
<1> QED
  BY <1>7 DEF more

\* The first chunk is taken: it stands where the chain began.
LEMMA ChainTake ==
  ASSUME NEW S, NEW fs, NEW off, NEW marks, NEW from, NEW to \in Nat,
         NEW chunks \in Seq(Seq(S)), chunks # <<>>,
         Chain(fs, off, marks, from, chunks, to)
  PROVE  /\ At(fs, off, Head(chunks), from)
         /\ \E m : Chain(fs, off, m, from + Len(Head(chunks)), Tail(chunks), to)
<1> DEFINE n == Len(chunks)
           less == Tail(chunks)
           m == [i \in 1..n |-> marks[i + 1]]
<1>1. /\ n \in Nat /\ n >= 1 /\ DOMAIN chunks = 1..n /\ Head(chunks) = chunks[1]
      /\ Len(less) = n - 1 /\ DOMAIN less = 1..(n - 1)
      /\ \A i \in 1..(n - 1) : less[i] = chunks[i + 1]
  OBVIOUS
<1> HIDE DEF n, less
<1>2. /\ marks \in [1..(n + 1) -> Nat] /\ marks[1] = from /\ marks[n + 1] = to
      /\ \A i \in 1..n :
           /\ At(fs, off, chunks[i], marks[i])
           /\ marks[i + 1] = marks[i] + Len(chunks[i])
      /\ \A i \in 1..(n + 1) : marks[i] <= to
  BY <1>1 DEF Chain, n
<1>3. m \in [1..n -> Nat] /\ \A i \in 1..n : m[i] = marks[i + 1]
  <2>1. \A i \in 1..n : i + 1 \in 1..(n + 1)
    BY <1>1
  <2> QED
    BY <1>2, <2>1
<1> HIDE DEF m
<1>4. 1 \in 1..n /\ n \in 1..n
  BY <1>1
<1>5. m[1] = from + Len(Head(chunks)) /\ m[n] = to
  BY <1>1, <1>2, <1>3, <1>4
<1>6. ASSUME NEW i \in 1..(n - 1)
      PROVE  At(fs, off, less[i], m[i]) /\ m[i + 1] = m[i] + Len(less[i])
  <2>1. i \in 1..n /\ i + 1 \in 1..n
    BY <1>1
  <2> QED
    BY <1>1, <1>2, <1>3, <2>1
<1>7. \A i \in 1..n : m[i] <= to
  <2>1. \A i \in 1..n : i + 1 \in 1..(n + 1)
    BY <1>1
  <2> QED
    BY <1>2, <1>3, <2>1
<1>8. Len(less) + 1 = n
  BY <1>1
<1>9. Chain(fs, off, m, from + Len(Head(chunks)), less, to)
  BY <1>1, <1>3, <1>5, <1>6, <1>7, <1>8 DEF Chain
<1>10. At(fs, off, Head(chunks), from)
  BY <1>1, <1>2, <1>4
<1> QED
  BY <1>9, <1>10 DEF less

\* Which bytes of which frames are held, and which are not sent.
BytesStand(fs, off, first, held, rest, sent) ==
  /\ first \in 1..(Len(fs) + 1) /\ off[first] \in Nat /\ sent \in Nat
  /\ off[first] + Len(held) <= sent
  /\ \A k \in 1..Len(fs) :
       /\ off[k] \in Nat /\ off[k + 1] = off[k] + FrameLength(fs, k)
       /\ k < first => off[k] + FrameLength(fs, k) <= off[first]
  /\ \A k \in 1..Len(fs) : \A i \in 1..FrameLength(fs, k) :
       <<k, i>> \in ToSet(rest) <=> off[k] + i > sent
  /\ \A i \in 1..Len(held) :
       /\ first \in 1..Len(fs)
       /\ i <= FrameLength(fs, first) => held[i] = <<first, i>>

\* What the stream says of single bytes: the decoder holds the first bytes of
\* the frame to be read, and what has not been sent is what stands behind.
LEMMA FlowBytes ==
  ASSUME NEW S, NEW fs \in Seq(Frames), NEW off, NEW marks, NEW first,
         NEW held \in Seq(S), NEW chunks \in Seq(Seq(S)), NEW rest \in Seq(S),
         NEW sent, Flow(fs, off, marks, first, held, chunks, rest, sent)
  PROVE  BytesStand(fs, off, first, held, rest, sent)
<1>1. /\ Len(fs) \in Nat /\ DOMAIN fs = 1..Len(fs)
      /\ \A k \in 1..Len(fs) :
           FrameLength(fs, k) \in Nat /\ FrameLength(fs, k) >= PREFIX
  BY Lengths
<1>2. /\ Len(held) \in Nat /\ DOMAIN held = 1..Len(held)
      /\ Len(rest) \in Nat /\ DOMAIN rest = 1..Len(rest)
      /\ Len(chunks) \in Nat
  OBVIOUS
<1>3. /\ Layout(fs, off) /\ first \in 1..(Len(fs) + 1)
      /\ At(fs, off, held, off[first]) /\ At(fs, off, rest, sent)
      /\ sent + Len(rest) = off[Len(fs) + 1]
  BY DEF Flow
<1>4. \A k \in 1..(Len(fs) + 1) : off[k] \in Nat
  BY <1>1, <1>3 DEF Layout
<1>5. sent \in Nat /\ off[first] + Len(held) <= sent
  <2>1. 1 \in 1..(Len(chunks) + 1) /\ Len(chunks) + 1 \in 1..(Len(chunks) + 1)
    BY <1>2
  <2> QED
    BY <2>1 DEF Flow, Chain
<1>6. ASSUME NEW k \in 1..Len(fs)
      PROVE  /\ off[k + 1] = off[k] + FrameLength(fs, k)
             /\ \A j \in 1..(Len(fs) + 1) :
                  k < j => off[k] + FrameLength(fs, k) <= off[j]
  <2>1. off[k + 1] = off[k] + FrameLength(fs, k)
    BY <1>1, <1>3 DEF Layout
  <2>2. ASSUME NEW j \in 1..(Len(fs) + 1), k < j
        PROVE  off[k + 1] <= off[j]
    <3>1. k + 1 \in 1..(Len(fs) + 1) /\ (k + 1 = j \/ k + 1 < j)
      BY <1>1, <2>2
    <3>2. k + 1 < j => off[k + 1] < off[j]
      BY <1>3, <3>1 DEF Layout
    <3>3. off[k + 1] \in Nat /\ off[j] \in Nat
      BY <1>4, <3>1
    <3> QED
      BY <3>1, <3>2, <3>3
  <2> QED
    BY <2>1, <2>2
<1>7. ASSUME NEW k \in 1..Len(fs), NEW i \in 1..FrameLength(fs, k)
      PROVE  IsByte(fs, <<k, i>>)
  BY <1>1 DEF IsByte
<1>8. ASSUME NEW k \in 1..Len(fs), NEW i \in 1..FrameLength(fs, k)
      PROVE  <<k, i>> \in ToSet(rest) <=> off[k] + i > sent
  <2>1. ASSUME NEW j \in 1..Len(rest), rest[j] = <<k, i>>
        PROVE  off[k] + i > sent
    <3>1. off[rest[j][1]] + rest[j][2] = sent + j
      BY <1>2, <1>3 DEF At
    <3>2. rest[j][1] = k /\ rest[j][2] = i
      BY <2>1
    <3>3. off[k] + i = sent + j
      BY <3>1, <3>2
    <3> QED
      BY <1>2, <1>5, <3>3
  <2>2. ASSUME off[k] + i > sent
        PROVE  \E j \in 1..Len(rest) : rest[j] = <<k, i>>
    <3> DEFINE j == off[k] + i - sent
    <3>1. off[k] \in Nat /\ i \in Nat /\ i <= FrameLength(fs, k) /\ FrameLength(fs, k) \in Nat
      BY <1>1, <1>4
    <3>2. off[k] + FrameLength(fs, k) <= off[Len(fs) + 1] /\ off[Len(fs) + 1] \in Nat
      <4>1. Len(fs) + 1 \in 1..(Len(fs) + 1) /\ k < Len(fs) + 1
        BY <1>1
      <4> QED
        BY <1>4, <1>6, <4>1
    <3>3. j \in 1..Len(rest) /\ sent + j = off[k] + i
      <4> DEFINE a == off[k]
                 z == off[Len(fs) + 1]
                 l == FrameLength(fs, k)
                 more == Len(rest)
      <4>1. /\ a \in Nat /\ z \in Nat /\ l \in Nat /\ more \in Nat /\ sent \in Nat
            /\ i \in Nat /\ i <= l /\ a + l <= z /\ sent + more = z /\ a + i > sent
        BY <1>2, <1>3, <1>5, <2>2, <3>1, <3>2
      <4> HIDE DEF a, z, l, more
      <4>2. a + i - sent \in 1..more /\ sent + (a + i - sent) = a + i
        BY <4>1
      <4> QED
        BY <4>2 DEF a, more
    <3> HIDE DEF j
    <3>4. IsByte(fs, rest[j]) /\ off[rest[j][1]] + rest[j][2] = sent + j
      BY <1>2, <1>3, <3>3 DEF At
    <3> DEFINE b == <<k, i>>
    <3>5. IsByte(fs, b) /\ off[b[1]] + b[2] = off[k] + i
      BY <1>7
    <3> HIDE DEF b
    <3>6. rest[j] = b
      BY <1>3, <3>3, <3>4, <3>5, OnePlace
    <3> QED
      BY <3>3, <3>6 DEF b
  <2> QED
    BY <1>2, <2>1, <2>2 DEF ToSet
<1>9. ASSUME NEW i \in 1..Len(held)
      PROVE  /\ first \in 1..Len(fs)
             /\ i <= FrameLength(fs, first) => held[i] = <<first, i>>
  <2>1. off[first] \in Nat
    BY <1>3, <1>4
  <2>2. first \in 1..Len(fs)
    <3> SUFFICES ASSUME first = Len(fs) + 1 PROVE FALSE
      BY <1>1, <1>3
    <3> QED
      BY <1>2, <1>3, <1>5, <2>1
  <2>3. ASSUME i <= FrameLength(fs, first)
        PROVE  held[i] = <<first, i>>
    <3> DEFINE b == <<first, i>>
    <3>1. i \in 1..FrameLength(fs, first)
      BY <1>1, <1>2, <2>2, <2>3
    <3>2. IsByte(fs, b) /\ off[b[1]] + b[2] = off[first] + i
      BY <1>7, <2>2, <3>1
    <3>3. IsByte(fs, held[i]) /\ off[held[i][1]] + held[i][2] = off[first] + i
      BY <1>2, <1>3 DEF At
    <3> HIDE DEF b
    <3>4. held[i] = b
      BY <1>3, <3>2, <3>3, OnePlace
    <3> QED
      BY <3>4 DEF b
  <2> QED
    BY <2>2, <2>3
<1>10. ASSUME NEW k \in 1..Len(fs)
       PROVE  /\ off[k] \in Nat /\ off[k + 1] = off[k] + FrameLength(fs, k)
              /\ k < first => off[k] + FrameLength(fs, k) <= off[first]
  BY <1>1, <1>3, <1>4, <1>6
<1>11. off[first] \in Nat
  BY <1>3, <1>4
<1> QED
  BY ONLY <1>3, <1>5, <1>8, <1>9, <1>10, <1>11 DEF BytesStand

---------------------------------------------------------------------------
(* The steps of the stream.                                                *)

\* Nothing is framed yet.
LEMMA FlowEmpty ==
  \E off, marks : Flow(<<>>, off, marks, 1, <<>>, <<>>, <<>>, 0)
<1> DEFINE zero == [k \in 1..1 |-> 0]
<1>1. zero \in [1..1 -> Nat] /\ zero[1] = 0
  OBVIOUS
<1>2. Len(<<>>) = 0 /\ DOMAIN <<>> = {}
  OBVIOUS
<1> HIDE DEF zero
<1>3. Layout(<<>>, zero)
  <2>1. \A j, k \in 1..1 : ~(j < k)
    OBVIOUS
  <2>2. 0 + 1 = 1
    OBVIOUS
  <2> QED
    BY <1>1, <1>2, <2>1, <2>2 DEF Layout
<1>4. Chain(<<>>, zero, zero, 0, <<>>, 0)
  <2>1. \A i \in 1..1 : zero[i] <= 0
    BY <1>1
  <2> QED
    BY <1>1, <1>2, <2>1 DEF Chain
<1>5. At(<<>>, zero, <<>>, 0)
  BY <1>2 DEF At
<1>6. Flow(<<>>, zero, zero, 1, <<>>, <<>>, <<>>, 0)
  BY <1>1, <1>2, <1>3, <1>4, <1>5 DEF Flow
<1> QED
  BY <1>6

\* The peer frames a body: its bytes stand behind all others.
LEMMA FlowFrame ==
  ASSUME NEW S, NEW fs \in Seq(Frames), NEW off, NEW marks, NEW first,
         NEW held \in Seq(S), NEW chunks \in Seq(Seq(S)), NEW rest \in Seq(S),
         NEW sent, Flow(fs, off, marks, first, held, chunks, rest, sent),
         NEW f \in Frames, Encoded(Len(fs) + 1, f.bytes) \in Seq(S)
  PROVE  \E off2 : Flow(Append(fs, f), off2, marks, first, held, chunks,
                        rest \o Encoded(Len(fs) + 1, f.bytes), sent)
<1> DEFINE n == Len(fs) + 1
           more == Append(fs, f)
           new == Encoded(n, f.bytes)
<1>1. Layout(fs, off) /\ first \in 1..n /\ sent \in Nat /\ Len(fs) \in Nat
  BY FlowBytes, Lengths DEF Flow, BytesStand
<1>2. PICK off2 :
        /\ more \in Seq(Frames) /\ Len(more) = n /\ Layout(more, off2)
        /\ \A k \in 1..n : off2[k] = off[k]
        /\ off2[n + 1] = off[n] + PREFIX + f.bytes
        /\ \A s, p : At(fs, off, s, p) => At(more, off2, s, p)
        /\ At(more, off2, new, off[n])
  BY <1>1, LayoutGrows
<1>3. new \in Seq(S) /\ Len(new) = PREFIX + f.bytes
  <2>1. f.bytes \in Nat
    BY SessionAssumption DEF Frames
  <2> QED
    BY <2>1 DEF Encoded, PREFIX
<1>4. sent + Len(rest) = off[n] /\ Len(rest) \in Nat /\ f.bytes \in Nat
  <2>1. sent + Len(rest) = off[n]
    BY DEF Flow
  <2>2. f.bytes \in Nat
    BY SessionAssumption DEF Frames
  <2>3. Len(rest) \in Nat
    OBVIOUS
  <2> QED
    BY <2>1, <2>2, <2>3
<1> HIDE DEF n, more, new
<1>5. At(more, off2, rest, sent) /\ At(more, off2, new, sent + Len(rest))
  BY <1>2, <1>4 DEF Flow
<1>6. At(more, off2, rest \o new, sent)
  BY <1>1, <1>3, <1>5, AtAppend
<1>7. off2[first] = off[first]
  BY <1>1, <1>2
<1>8. Chain(more, off2, marks, off2[first] + Len(held), chunks, sent)
  BY <1>2, <1>7 DEF Flow, Chain
<1>9. At(more, off2, held, off2[first]) /\ first \in 1..(n + 1)
  BY <1>1, <1>2, <1>7 DEF Flow, n
<1>10. Len(rest \o new) = Len(rest) + (PREFIX + f.bytes)
  <2>1. Len(rest \o new) = Len(rest) + Len(new)
    BY <1>3, ConcatProperties
  <2> QED
    BY <1>3, <2>1
<1>11. sent + Len(rest \o new) = off2[n + 1]
  <2>1. off2[n + 1] = off[n] + PREFIX + f.bytes
    BY <1>2
  <2>2. PREFIX \in Nat /\ sent \in Nat
    BY <1>1 DEF PREFIX
  <2>3. sent + (Len(rest) + (PREFIX + f.bytes)) = (sent + Len(rest)) + PREFIX + f.bytes
    BY ONLY <1>4, <2>2
  <2> QED
    BY <1>4, <1>10, <2>1, <2>3
<1>12. Flow(more, off2, marks, first, held, chunks, rest \o new, sent)
  BY <1>2, <1>6, <1>8, <1>9, <1>11 DEF Flow
<1> QED
  BY <1>12 DEF more, new, n

\* Bytes are sent: the chunk stands behind the others.
LEMMA FlowSend ==
  ASSUME NEW S, NEW fs \in Seq(Frames), NEW off, NEW marks, NEW first,
         NEW held \in Seq(S), NEW chunks \in Seq(Seq(S)), NEW rest \in Seq(S),
         NEW sent, Flow(fs, off, marks, first, held, chunks, rest, sent),
         NEW n \in 1..Len(rest)
  PROVE  \E m : Flow(fs, off, m, first, held, Append(chunks, SubSeq(rest, 1, n)),
                     SubSeq(rest, n + 1, Len(rest)), sent + n)
<1> DEFINE chunk == SubSeq(rest, 1, n)
           less == SubSeq(rest, n + 1, Len(rest))
<1>1. sent \in Nat
  BY FlowBytes DEF BytesStand
<1>2. /\ At(fs, off, rest, sent) /\ sent + Len(rest) = off[Len(fs) + 1]
      /\ Chain(fs, off, marks, off[first] + Len(held), chunks, sent)
      /\ Len(rest) \in Nat /\ n \in 0..Len(rest)
  BY DEF Flow
<1>3. /\ chunk \in Seq(S) /\ Len(chunk) = n
      /\ less \in Seq(S) /\ Len(less) = Len(rest) - n
      /\ At(fs, off, chunk, sent) /\ At(fs, off, less, sent + n)
  BY ONLY rest \in Seq(S), <1>1, <1>2, AtCut
<1> HIDE DEF chunk, less
<1>4. PICK m : Chain(fs, off, m, off[first] + Len(held), Append(chunks, chunk),
                     sent + Len(chunk))
  BY <1>1, <1>2, <1>3, ChainPut
<1>5. (sent + n) + Len(less) = off[Len(fs) + 1]
  <2>1. Len(less) = Len(rest) - n /\ sent + Len(rest) = off[Len(fs) + 1]
    BY <1>2, <1>3
  <2>2. (sent + n) + (Len(rest) - n) = sent + Len(rest)
    BY <1>1, <1>2
  <2> QED
    BY <2>1, <2>2
<1>6. Flow(fs, off, m, first, held, Append(chunks, chunk), less, sent + n)
  BY <1>3, <1>4, <1>5 DEF Flow
<1> QED
  BY <1>6 DEF chunk, less

\* The decoder takes the first chunk: it stands behind what it holds.
LEMMA FlowTake ==
  ASSUME NEW S, NEW fs \in Seq(Frames), NEW off, NEW marks, NEW first,
         NEW held \in Seq(S), NEW chunks \in Seq(Seq(S)), NEW rest \in Seq(S),
         NEW sent, Flow(fs, off, marks, first, held, chunks, rest, sent),
         chunks # <<>>
  PROVE  \E m : Flow(fs, off, m, first, held \o Head(chunks), Tail(chunks),
                     rest, sent)
<1> DEFINE chunk == Head(chunks)
<1>1. sent \in Nat /\ off[first] \in Nat
  BY FlowBytes DEF BytesStand
<1>2. chunk \in Seq(S) /\ Len(held) \in Nat /\ Len(chunk) \in Nat
  OBVIOUS
<1>3. Chain(fs, off, marks, off[first] + Len(held), chunks, sent)
  BY DEF Flow
<1>4. /\ At(fs, off, chunk, off[first] + Len(held))
      /\ \E m : Chain(fs, off, m, off[first] + Len(held) + Len(chunk),
                      Tail(chunks), sent)
  BY <1>1, <1>3, ChainTake
<1> HIDE DEF chunk
<1>5. PICK m : Chain(fs, off, m, off[first] + Len(held) + Len(chunk),
                     Tail(chunks), sent)
  BY <1>4
<1>6. At(fs, off, held \o chunk, off[first])
  <2>1. At(fs, off, held, off[first])
    BY DEF Flow
  <2> QED
    BY <1>1, <1>2, <1>4, <2>1, AtAppend
<1>7. Len(held \o chunk) = Len(held) + Len(chunk)
  BY <1>2
<1>8. off[first] + Len(held \o chunk) = off[first] + Len(held) + Len(chunk)
  BY <1>1, <1>2, <1>7
<1>9. Flow(fs, off, m, first, held \o chunk, Tail(chunks), rest, sent)
  BY <1>5, <1>6, <1>8 DEF Flow
<1> QED
  BY <1>9 DEF chunk

\* The decoder drains a frame it holds: the next one is to be read.
LEMMA FlowDrain ==
  ASSUME NEW S, NEW fs \in Seq(Frames), NEW off, NEW marks, NEW first,
         NEW held \in Seq(S), NEW chunks \in Seq(Seq(S)), NEW rest \in Seq(S),
         NEW sent, Flow(fs, off, marks, first, held, chunks, rest, sent),
         first \in 1..Len(fs), FrameLength(fs, first) <= Len(held)
  PROVE  Flow(fs, off, marks, first + 1,
              SubSeq(held, FrameLength(fs, first) + 1, Len(held)), chunks, rest, sent)
<1> DEFINE n == FrameLength(fs, first)
           less == SubSeq(held, n + 1, Len(held))
<1>1. /\ off[first] \in Nat /\ off[first + 1] = off[first] + n
      /\ first + 1 \in 1..(Len(fs) + 1)
  <2>1. Layout(fs, off) /\ Len(fs) \in Nat /\ DOMAIN fs = 1..Len(fs)
    BY Lengths DEF Flow
  <2>2. first \in 1..(Len(fs) + 1) /\ first + 1 \in 1..(Len(fs) + 1)
    BY <2>1
  <2>3. off[first] \in Nat
    BY <2>1, <2>2 DEF Layout
  <2>4. off[first + 1] = off[first] + n
    BY <2>1 DEF Layout
  <2> QED
    BY <2>2, <2>3, <2>4
<1>2. n \in 0..Len(held) /\ Len(held) \in Nat
  BY Lengths
<1>3. At(fs, off, held, off[first])
  BY DEF Flow
<1> HIDE DEF n
<1>4. /\ less \in Seq(S) /\ Len(less) = Len(held) - n
      /\ At(fs, off, less, off[first] + n)
  BY <1>1, <1>2, <1>3, AtCut
<1> HIDE DEF less
<1>5. off[first + 1] + Len(less) = off[first] + Len(held)
  <2>1. off[first] + n + (Len(held) - n) = off[first] + Len(held)
    BY <1>1, <1>2
  <2> QED
    BY <1>1, <1>4, <2>1
<1>6. Flow(fs, off, marks, first + 1, less, chunks, rest, sent)
  BY <1>1, <1>4, <1>5 DEF Flow
<1> QED
  BY <1>6 DEF less, n

---------------------------------------------------------------------------
(* The session.                                                            *)

\* The types, as the lemmas above use them.
LEMMA Fields ==
  ASSUME TypeOK
  PROVE  /\ frames \in Seq(Frames) /\ outbox \in Seq(Bytes) /\ buf \in Seq(Bytes)
         /\ rx \in Seq(Seq(Bytes)) /\ got \in Seq(1..MaxFrames)
         /\ Len(frames) \in Nat /\ Len(got) \in Nat /\ Len(buf) \in Nat
         /\ Len(outbox) \in Nat /\ Len(rx) \in Nat
         /\ DOMAIN frames = 1..Len(frames) /\ DOMAIN got = 1..Len(got)
         /\ DOMAIN rx = 1..Len(rx) /\ DOMAIN outbox = 1..Len(outbox)
         /\ \A k \in 1..Len(frames) :
              /\ frames[k].bytes \in Nat /\ Size(k) = FrameLength(frames, k)
              /\ Size(k) \in Nat /\ Size(k) >= PREFIX
<1>1. /\ frames \in Seq(Frames) /\ outbox \in Seq(Bytes) /\ buf \in Seq(Bytes)
      /\ rx \in Seq(Seq(Bytes)) /\ got \in Seq(1..MaxFrames)
  BY DEF TypeOK, Frames
<1>2. \A k \in 1..Len(frames) :
        /\ frames[k].bytes \in Nat /\ Size(k) = FrameLength(frames, k)
        /\ Size(k) \in Nat /\ Size(k) >= PREFIX
  BY <1>1, Lengths DEF Size, FrameLength
<1> QED
  BY <1>1, <1>2

\* Where the bytes are: those of the frames read are sent, the buffer begins
\* with the frame to be read, and with no chunk under way what the decoder
\* lacks has not been sent.
LEMMA WhereBytesAre ==
  ASSUME TypeOK, FlowInv
  PROVE  /\ First \in 1..(Len(frames) + 1)
         /\ \A k \in 1..Len(frames) : k < First =>
              \A i \in 1..Size(k) : Sent(k, i)
         /\ \A i \in 1..Len(buf) :
              /\ First \in 1..Len(frames)
              /\ i <= Size(First) => buf[i] = <<First, i>> /\ Sent(First, i)
         /\ rx = <<>> /\ First \in 1..Len(frames) =>
              \A i \in 1..Size(First) : i > Len(buf) => ~Sent(First, i)
<1>1. PICK off, marks, sent : Flow(frames, off, marks, First, buf, rx, outbox, sent)
  BY DEF FlowInv
<1>2. /\ frames \in Seq(Frames) /\ outbox \in Seq(Bytes) /\ buf \in Seq(Bytes)
      /\ rx \in Seq(Seq(Bytes)) /\ Len(frames) \in Nat /\ Len(buf) \in Nat
  BY Fields
<1>3. \A k \in 1..Len(frames) :
        Size(k) = FrameLength(frames, k) /\ Size(k) \in Nat
  BY Fields
<1>4. /\ First \in 1..(Len(frames) + 1) /\ off[First] \in Nat /\ sent \in Nat
      /\ off[First] + Len(buf) <= sent
      /\ \A k \in 1..Len(frames) :
           /\ off[k] \in Nat /\ off[k + 1] = off[k] + FrameLength(frames, k)
           /\ k < First => off[k] + FrameLength(frames, k) <= off[First]
      /\ \A k \in 1..Len(frames) : \A i \in 1..FrameLength(frames, k) :
           <<k, i>> \in ToSet(outbox) <=> off[k] + i > sent
      /\ \A i \in 1..Len(buf) :
           /\ First \in 1..Len(frames)
           /\ i <= FrameLength(frames, First) => buf[i] = <<First, i>>
  <2>1. BytesStand(frames, off, First, buf, outbox, sent)
    BY <1>1, <1>2, FlowBytes
  <2> QED
    BY <2>1 DEF BytesStand
<1>5. ASSUME NEW k \in 1..Len(frames), NEW i \in 1..Size(k)
      PROVE  Sent(k, i) <=> off[k] + i <= sent
  <2>1. i \in 1..FrameLength(frames, k) /\ i \in Nat /\ off[k] \in Nat
    BY <1>3, <1>4
  <2>2. <<k, i>> \in ToSet(outbox) <=> off[k] + i > sent
    BY <1>4, <2>1
  <2> QED
    BY <1>4, <2>1, <2>2 DEF Sent
<1>6. ASSUME NEW k \in 1..Len(frames), k < First, NEW i \in 1..Size(k)
      PROVE  Sent(k, i)
  <2>1. off[k] + Size(k) <= off[First] /\ off[k] \in Nat /\ Size(k) \in Nat
    BY <1>3, <1>4, <1>6
  <2>2. off[First] + Len(buf) <= sent /\ off[First] \in Nat /\ sent \in Nat
    BY <1>4
  <2>3. i \in Nat /\ i <= Size(k)
    BY <2>1
  <2>4. off[First] <= sent
    <3>1. Len(buf) \in Nat
      BY <1>2
    <3> QED
      BY ONLY <2>2, <3>1
  <2>5. off[k] + i <= sent
    BY ONLY <2>1, <2>2, <2>3, <2>4
  <2> QED
    BY <1>5, <2>5
<1>7. ASSUME NEW i \in 1..Len(buf)
      PROVE  /\ First \in 1..Len(frames)
             /\ i <= Size(First) => buf[i] = <<First, i>> /\ Sent(First, i)
  <2>1. First \in 1..Len(frames)
    BY <1>4
  <2>2. ASSUME i <= Size(First)
        PROVE  buf[i] = <<First, i>> /\ Sent(First, i)
    <3>1. i \in 1..Size(First)
      BY <1>2, <1>3, <2>1, <2>2
    <3>2. buf[i] = <<First, i>>
      BY <1>3, <1>4, <2>1, <2>2
    <3>3. off[First] + i <= sent
      <4>1. /\ off[First] + Len(buf) <= sent /\ off[First] \in Nat /\ sent \in Nat
            /\ Len(buf) \in Nat /\ i \in 1..Len(buf)
        BY <1>2, <1>4
      <4> QED
        BY ONLY <4>1
    <3> QED
      BY <1>5, <2>1, <3>1, <3>2, <3>3
  <2> QED
    BY <2>1, <2>2
<1>8. ASSUME rx = <<>>, First \in 1..Len(frames), NEW i \in 1..Size(First),
             i > Len(buf)
      PROVE  ~Sent(First, i)
  <2>1. off[First] + Len(buf) = sent
    <3>1. Len(rx) + 1 = 1
      BY <1>8
    <3> QED
      BY <1>1, <3>1 DEF Flow, Chain
  <2>2. ~(off[First] + i <= sent)
    BY <1>2, <1>3, <1>4, <1>8, <2>1
  <2> QED
    BY <1>5, <1>8, <2>2
<1> QED
  BY <1>4, <1>6, <1>7, <1>8

\* The decoder of a session that is reading: the declared length it sees is
\* that of the frame to be returned next.
LEMMA DecoderSees ==
  ASSUME TypeOK, FlowInv, verdict = "none", HasPrefix
  PROVE  LET next == Len(got) + 1
         IN  /\ First = next /\ next \in 1..Len(frames)
             /\ FrameNumber = next /\ Declared = frames[next].bytes
             /\ Declared \in Nat /\ PREFIX + Declared = Size(next)
             /\ Sent(next, 1) /\ Sent(next, PREFIX)
             /\ Len(buf) >= Size(next) => Sent(next, Size(next))
<1> DEFINE next == Len(got) + 1
<1>1. First = next
  BY DEF First
<1>2. Len(buf) >= PREFIX /\ Len(buf) \in Nat
  BY Fields DEF HasPrefix
<1>3. 1 \in 1..Len(buf) /\ PREFIX \in 1..Len(buf)
  BY <1>2 DEF PREFIX
<1>4. next \in 1..Len(frames)
  BY <1>1, <1>3, WhereBytesAre
<1>5. Size(next) \in Nat /\ Size(next) >= PREFIX /\ frames[next].bytes \in Nat
  BY <1>4, Fields
<1>6. \A i \in 1..Len(buf) :
        i <= Size(next) => buf[i] = <<next, i>> /\ Sent(next, i)
  BY <1>1, WhereBytesAre
<1>7. /\ buf[1] = <<next, 1>> /\ Sent(next, 1) /\ Sent(next, PREFIX)
      /\ Len(buf) >= Size(next) => Sent(next, Size(next))
  <2>1. 1 <= Size(next) /\ PREFIX <= Size(next)
    BY <1>5 DEF PREFIX
  <2>2. Len(buf) >= Size(next) => Size(next) \in 1..Len(buf) /\ Size(next) <= Size(next)
    BY <1>2, <1>5 DEF PREFIX
  <2> QED
    BY <1>3, <1>6, <2>1, <2>2
<1>8. FrameNumber = next /\ Declared = frames[next].bytes
  BY <1>7 DEF FrameNumber, Declared
<1>9. PREFIX + Declared = Size(next)
  BY <1>8 DEF Size
<1> HIDE DEF next
<1> QED
  BY <1>1, <1>4, <1>5, <1>7, <1>8, <1>9 DEF next

\* What is left of the buffer when a frame is drained.
LEMMA DrainedOK ==
  ASSUME TypeOK, FlowInv, verdict = "none", Complete
  PROVE  /\ Drained \in Seq(Bytes)
         /\ Len(Drained) <= Len(buf) /\ Len(Drained) \in Nat
         /\ \E off, marks, sent :
              Flow(frames, off, marks, First + 1, Drained, rx, outbox, sent)
<1> DEFINE next == Len(got) + 1
<1>1. HasPrefix /\ PREFIX + Declared <= Len(buf)
  BY Fields DEF Complete, HasPrefix, PREFIX
<1>2. /\ First = next /\ next \in 1..Len(frames)
      /\ Declared \in Nat /\ PREFIX + Declared = Size(next)
  BY <1>1, DecoderSees
<1>3. /\ frames \in Seq(Frames) /\ outbox \in Seq(Bytes) /\ buf \in Seq(Bytes)
      /\ rx \in Seq(Seq(Bytes)) /\ Len(buf) \in Nat
      /\ Size(next) = FrameLength(frames, next)
  BY <1>2, Fields
<1>4. Drained = SubSeq(buf, FrameLength(frames, First) + 1, Len(buf))
  BY <1>2, <1>3 DEF Drained
<1>5. First \in 1..Len(frames) /\ FrameLength(frames, First) <= Len(buf)
  BY <1>1, <1>2, <1>3
<1>6. PICK off, marks, sent : Flow(frames, off, marks, First, buf, rx, outbox, sent)
  BY DEF FlowInv
<1>7. Flow(frames, off, marks, First + 1, Drained, rx, outbox, sent)
  BY <1>3, <1>4, <1>5, <1>6, FlowDrain
<1>8. /\ Drained \in Seq(Bytes) /\ Len(Drained) <= Len(buf)
      /\ Len(Drained) \in Nat
  <2> DEFINE n == PREFIX + Declared
  <2>1. n \in Nat /\ n <= Len(buf)
    BY <1>1, <1>2 DEF PREFIX
  <2>2. Drained = SubSeq(buf, n + 1, Len(buf))
    BY DEF Drained
  <2> HIDE DEF n
  <2> QED
    BY <1>3, <2>1, <2>2
<1> QED
  BY <1>7, <1>8

\* Steps that leave the bytes and the frames read where they are.
Still ==
  /\ UNCHANGED <<frames, outbox, rx, buf, got>>
  /\ verdict' # verdict => verdict = "none" /\ verdict' # "InvalidUtf8"

\* Every step frames, sends, reads, or leaves what is on its way as it is.
LEMMA StillSteps ==
  ASSUME [Next]_vars
  PROVE  \/ Still
         \/ \E bytes \in Sizes, utf8 \in BOOLEAN : Frame(bytes, utf8)
         \/ \E n \in 1..Len(outbox) : SendChunk(n)
         \/ ReadFrame \/ ReadChunk \/ ReadInvalidUtf8
<1>1. ASSUME Close \/ TakesReply \/ Answer \/ NoAnswer \/ UNCHANGED vars
      PROVE  Still
  BY <1>1 DEF Close, TakesReply, Answer, NoAnswer, vars, Still, peer, teardown
<1>2. ASSUME ReadTooLarge \/ ReadEnd
      PROVE  Still
  BY <1>2 DEF ReadTooLarge, ReadEnd, Reading, Fail, EndOf, Still, peer, teardown
<1> QED
  BY <1>1, <1>2 DEF Next, Read

\* Every step keeps the bytes in the order of the stream.
LEMMA NextFlow ==
  ASSUME TypeOK, FlowInv, [Next]_vars
  PROVE  FlowInv'
<1>1. /\ frames \in Seq(Frames) /\ outbox \in Seq(Bytes) /\ buf \in Seq(Bytes)
      /\ rx \in Seq(Seq(Bytes)) /\ Len(frames) \in Nat /\ Len(outbox) \in Nat
      /\ Len(frames) <= MaxFrames /\ \A i \in DOMAIN rx : Len(rx[i]) <= MaxChunk
  BY Fields DEF FlowInv
<1>2. PICK off, marks, sent : Flow(frames, off, marks, First, buf, rx, outbox, sent)
  BY DEF FlowInv
<1>3. CASE Still
  <2>1. First' = First
    BY <1>3 DEF Still, First
  <2> QED
    BY <1>1, <1>2, <1>3, <2>1 DEF Still, FlowInv
<1>4. ASSUME NEW bytes \in Sizes, NEW utf8 \in BOOLEAN, Frame(bytes, utf8)
      PROVE  FlowInv'
  <2> DEFINE f == [bytes |-> bytes, utf8 |-> utf8]
             n == Len(frames) + 1
  <2>1. f \in Frames /\ f.bytes = bytes
    BY DEF Frames
  <2>2. Encoded(n, f.bytes) \in Seq(Bytes)
    <3>1. n \in 1..MaxFrames /\ bytes \in Nat
      BY <1>1, <1>4, SessionAssumption DEF Frame
    <3>2. \A i \in 1..(PREFIX + bytes) : <<n, i>> \in Bytes
      BY <3>1 DEF Bytes, PREFIX
    <3>3. PREFIX + bytes \in Nat
      BY <3>1 DEF PREFIX
    <3> HIDE DEF n
    <3> QED
      BY <2>1, <3>2, <3>3 DEF Encoded
  <2>3. /\ frames' = Append(frames, f) /\ Len(frames) < MaxFrames
        /\ outbox' = outbox \o Encoded(n, f.bytes) /\ verdict' = verdict
        /\ UNCHANGED <<rx, buf, got>>
    BY <1>4, <2>1 DEF Frame
  <2> HIDE DEF f
  <2>4. \E off2 : Flow(frames', off2, marks, First, buf, rx, outbox', sent)
    BY <1>1, <1>2, <2>1, <2>2, <2>3, FlowFrame
  <2>5. Len(frames') = Len(frames) + 1
    BY <1>1, <2>1, <2>3
  <2>6. Len(frames') <= MaxFrames
    BY <1>1, <2>3, <2>5, SessionAssumption
  <2>7. First' = First
    BY <2>3 DEF First
  <2> QED
    BY <1>1, <2>3, <2>4, <2>6, <2>7 DEF FlowInv
<1>5. ASSUME NEW n \in 1..Len(outbox), SendChunk(n)
      PROVE  FlowInv'
  <2> DEFINE chunk == SubSeq(outbox, 1, n)
  <2>1. /\ n <= MaxChunk /\ rx' = Append(rx, chunk) /\ verdict' = verdict
        /\ outbox' = SubSeq(outbox, n + 1, Len(outbox))
        /\ UNCHANGED <<frames, buf, got>>
    BY <1>5 DEF SendChunk
  <2>2. \E m : Flow(frames, off, m, First, buf, rx', outbox', sent + n)
    BY <1>1, <1>2, <2>1, FlowSend
  <2>3. chunk \in Seq(Bytes) /\ Len(chunk) = n
    BY <1>1
  <2> HIDE DEF chunk
  <2>4. \A i \in DOMAIN rx' : Len(rx'[i]) <= MaxChunk
    BY <1>1, <2>1, <2>3
  <2>5. First' = First
    BY <2>1 DEF First
  <2> QED
    BY <1>1, <2>1, <2>2, <2>4, <2>5 DEF FlowInv
<1>6. CASE ReadChunk
  <2>1. /\ rx # <<>> /\ buf' = buf \o Head(rx) /\ rx' = Tail(rx)
        /\ UNCHANGED <<frames, outbox, got, verdict>>
    BY <1>6 DEF ReadChunk, peer
  <2>2. \E m : Flow(frames, off, m, First, buf', rx', outbox, sent)
    BY <1>1, <1>2, <2>1, FlowTake
  <2>3. \A i \in DOMAIN rx' : Len(rx'[i]) <= MaxChunk
    <3>1. \A i \in DOMAIN rx' : i + 1 \in DOMAIN rx /\ rx'[i] = rx[i + 1]
      BY ONLY <1>1, <2>1
    <3> QED
      BY ONLY <1>1, <3>1
  <2>4. First' = First
    BY <2>1 DEF First
  <2> QED
    BY <1>1, <2>1, <2>2, <2>3, <2>4 DEF FlowInv
<1>7. CASE ReadFrame \/ ReadInvalidUtf8
  <2>1. /\ verdict = "none" /\ Complete /\ buf' = Drained
        /\ UNCHANGED <<frames, outbox, rx>>
    BY <1>7 DEF ReadFrame, ReadInvalidUtf8, Reading, Fail, peer
  <2>2. First' = First + 1
    <3>1. got \in Seq(1..MaxFrames)
      BY Fields
    <3>2. CASE ReadFrame
      <4>1. got' = Append(got, FrameNumber) /\ verdict' = "none"
        BY <2>1, <3>2 DEF ReadFrame
      <4>2. FrameNumber \in 1..MaxFrames
        <5>1. HasPrefix
          BY <2>1 DEF Complete
        <5> QED
          BY <1>1, <2>1, <5>1, DecoderSees, SessionAssumption
      <4>3. Len(got') = Len(got) + 1
        BY <3>1, <4>1, <4>2
      <4> QED
        BY <2>1, <4>1, <4>3 DEF First
    <3>3. CASE ReadInvalidUtf8
      <4>1. got' = got /\ verdict' = "InvalidUtf8" /\ Len(got) \in Nat
        BY <3>3, Fields DEF ReadInvalidUtf8, Fail
      <4> QED
        BY <2>1, <4>1 DEF First
    <3> QED
      BY <1>7, <3>2, <3>3
  <2>3. \E o, m, t : Flow(frames, o, m, First + 1, Drained, rx, outbox, t)
    BY <2>1, DrainedOK
  <2> QED
    BY <1>1, <2>1, <2>2, <2>3 DEF FlowInv
<1> QED
  BY <1>3, <1>4, <1>5, <1>6, <1>7, StillSteps

\* Every step keeps the types, and the bound on the channel.
LEMMA NextTypeOK ==
  ASSUME TypeOK, FlowInv, [Next]_vars
  PROVE  TypeOK'
<1>1. /\ frames \in Seq(Frames) /\ outbox \in Seq(Bytes) /\ buf \in Seq(Bytes)
      /\ rx \in Seq(Seq(Bytes)) /\ got \in Seq(1..MaxFrames)
      /\ Len(frames) \in Nat /\ Len(outbox) \in Nat /\ Len(rx) <= Capacity
      /\ Len(rx) \in Nat
  BY Fields DEF TypeOK
<1>2. /\ open \in BOOLEAN /\ full \in BOOLEAN /\ ended \in BOOLEAN
      /\ verdict \in {"none", "Finished", "UnexpectedEof", "FrameTooLarge",
                      "InvalidUtf8"}
      /\ answer \in {"none", "frame_too_large", "malformed_json"}
  BY DEF TypeOK
<1>3. ASSUME Close \/ TakesReply \/ Answer \/ NoAnswer \/ ReadTooLarge \/ ReadEnd
             \/ UNCHANGED vars
      PROVE  TypeOK'
  <2>1. /\ open' \in BOOLEAN /\ full' \in BOOLEAN /\ ended' \in BOOLEAN
        /\ verdict' \in {"none", "Finished", "UnexpectedEof", "FrameTooLarge",
                         "InvalidUtf8"}
        /\ answer' \in {"none", "frame_too_large", "malformed_json"}
    BY <1>2, <1>3 DEF Close, TakesReply, Answer, NoAnswer, ReadTooLarge, ReadEnd,
       Fail, EndOf, Code, vars, peer, teardown
  <2>2. UNCHANGED <<frames, outbox, rx, buf, got>>
    BY <1>3 DEF Close, TakesReply, Answer, NoAnswer, ReadTooLarge, ReadEnd,
       Fail, vars, peer, teardown
  <2> QED
    BY <2>1, <2>2 DEF TypeOK
<1>4. ASSUME NEW bytes \in Sizes, NEW utf8 \in BOOLEAN, Frame(bytes, utf8)
      PROVE  TypeOK'
  <2> DEFINE f == [bytes |-> bytes, utf8 |-> utf8]
             n == Len(frames) + 1
  <2>1. /\ frames' = Append(frames, f) /\ Len(frames) < MaxFrames
        /\ outbox' = outbox \o Encoded(n, bytes)
        /\ UNCHANGED <<open, rx, buf, got, verdict, answer, ended, full>>
    BY <1>4 DEF Frame, teardown
  <2>2. f \in Frames
    BY DEF Frames
  <2>3. Encoded(n, bytes) \in Seq(Bytes)
    <3>1. n \in 1..MaxFrames /\ bytes \in Nat
      BY <1>1, <2>1, SessionAssumption
    <3>2. \A i \in 1..(PREFIX + bytes) : <<n, i>> \in Bytes
      BY <3>1 DEF Bytes, PREFIX
    <3>3. PREFIX + bytes \in Nat
      BY <3>1 DEF PREFIX
    <3> HIDE DEF n
    <3> QED
      BY <3>2, <3>3 DEF Encoded
  <2> HIDE DEF f, n
  <2>4. frames' \in Seq(Frames)
    BY <1>1, <2>1, <2>2
  <2>5. outbox' \in Seq(Bytes)
    BY <1>1, <2>1, <2>3, ConcatProperties
  <2> QED
    BY <1>1, <1>2, <2>1, <2>4, <2>5 DEF TypeOK, Frames
<1>5. ASSUME NEW n \in 1..Len(outbox), SendChunk(n)
      PROVE  TypeOK'
  <2> DEFINE chunk == SubSeq(outbox, 1, n)
             rest == SubSeq(outbox, n + 1, Len(outbox))
  <2>1. /\ Len(rx) < Capacity /\ rx' = Append(rx, chunk) /\ outbox' = rest
        /\ UNCHANGED <<frames, open, buf, got, verdict, answer, ended, full>>
    BY <1>5 DEF SendChunk, teardown
  <2>2. chunk \in Seq(Bytes) /\ rest \in Seq(Bytes)
    BY <1>1
  <2> HIDE DEF chunk, rest
  <2>3. rx' \in Seq(Seq(Bytes)) /\ Len(rx') = Len(rx) + 1
    BY <1>1, <2>1, <2>2
  <2>4. Len(rx') <= Capacity
    BY <1>1, <2>1, <2>3, SessionAssumption
  <2> QED
    BY <1>1, <1>2, <2>1, <2>2, <2>3, <2>4 DEF TypeOK, Frames
<1>6. CASE ReadChunk
  <2>1. /\ rx # <<>> /\ buf' = buf \o Head(rx) /\ rx' = Tail(rx)
        /\ UNCHANGED <<frames, outbox, open, full, got, verdict, answer, ended>>
    BY <1>6 DEF ReadChunk, peer, teardown
  <2>2. /\ Head(rx) \in Seq(Bytes) /\ rx' \in Seq(Seq(Bytes))
        /\ Len(rx') = Len(rx) - 1
    BY <1>1, <2>1
  <2>3. buf' \in Seq(Bytes) /\ Len(rx') <= Capacity
    <3>1. buf' \in Seq(Bytes)
      BY <1>1, <2>1, <2>2, ConcatProperties
    <3>2. Len(rx') <= Capacity
      BY <1>1, <2>2, SessionAssumption
    <3> QED
      BY <3>1, <3>2
  <2> QED
    BY <1>1, <1>2, <2>1, <2>2, <2>3 DEF TypeOK, Frames
<1>7. CASE ReadFrame \/ ReadInvalidUtf8
  <2>1. /\ verdict = "none" /\ Complete /\ buf' = Drained
        /\ UNCHANGED <<frames, outbox, rx, open, answer, ended>>
        /\ full' \in BOOLEAN /\ verdict' \in {"none", "InvalidUtf8"}
    BY <1>2, <1>7 DEF ReadFrame, ReadInvalidUtf8, Reading, Fail, peer, teardown
  <2>2. HasPrefix
    BY <2>1 DEF Complete
  <2>3. FrameNumber \in 1..MaxFrames
    BY <1>1, <2>1, <2>2, DecoderSees, SessionAssumption DEF FlowInv
  <2>4. got' \in Seq(1..MaxFrames)
    <3>1. Append(got, FrameNumber) \in Seq(1..MaxFrames)
      BY <1>1, <2>3
    <3> QED
      BY <1>1, <1>7, <3>1 DEF ReadFrame, ReadInvalidUtf8
  <2>5. buf' \in Seq(Bytes)
    BY <2>1, DrainedOK
  <2> QED
    BY <1>1, <1>2, <2>1, <2>4, <2>5 DEF TypeOK, Frames
<1> QED
  BY <1>3, <1>4, <1>5, <1>6, <1>7 DEF Next, Read

\* Frames are only added.
LEMMA FramesStay ==
  ASSUME TypeOK, [Next]_vars
  PROVE  \A k \in 1..Len(frames) : k \in DOMAIN frames' /\ frames'[k] = frames[k]
<1>1. frames \in Seq(Frames) /\ Len(frames) \in Nat
  BY Fields
<1>2. ASSUME NEW bytes \in Sizes, NEW utf8 \in BOOLEAN, Frame(bytes, utf8)
      PROVE  \A k \in 1..Len(frames) : k \in DOMAIN frames' /\ frames'[k] = frames[k]
  <2> DEFINE f == [bytes |-> bytes, utf8 |-> utf8]
  <2>1. frames' = Append(frames, f) /\ f \in Frames
    BY <1>2 DEF Frame, Frames
  <2> HIDE DEF f
  <2> QED
    BY <1>1, <2>1
<1>3. frames' = frames => \A k \in 1..Len(frames) : k \in DOMAIN frames' /\ frames'[k] = frames[k]
  BY <1>1
<1> QED
  BY <1>2, <1>3, StillSteps DEF Still, SendChunk, ReadFrame, ReadChunk,
     ReadInvalidUtf8, Fail, peer

\* The part of FramesInOrder that is inductive: what was returned is numbered
\* as it was framed, and is readable.
Returned ==
  \A k \in DOMAIN got : got[k] = k /\ k \in DOMAIN frames /\ Readable(k)

\* A frame is returned next in its turn, and only if it is readable.
LEMMA NextReturned ==
  ASSUME TypeOK, FlowInv, Returned, [Next]_vars
  PROVE  Returned'
<1>1. /\ got \in Seq(1..MaxFrames) /\ Len(got) \in Nat /\ DOMAIN got = 1..Len(got)
      /\ DOMAIN frames = 1..Len(frames)
  BY Fields
<1>2. \A k \in 1..Len(frames) :
        /\ k \in DOMAIN frames' /\ frames'[k] = frames[k]
        /\ Readable(k)' <=> Readable(k)
  BY FramesStay DEF Readable
<1>3. ASSUME got' = got
      PROVE  Returned'
  BY <1>1, <1>2, <1>3 DEF Returned
<1>4. CASE ReadFrame
  <2>1. /\ verdict = "none" /\ Complete /\ frames[FrameNumber].utf8
        /\ got' = Append(got, FrameNumber)
    BY <1>4 DEF ReadFrame, Reading
  <2>2. HasPrefix /\ ~(Declared > max_frame_bytes)
    BY <2>1 DEF Complete, TooLarge
  <2> DEFINE next == Len(got) + 1
  <2>3. /\ FrameNumber = next /\ next \in 1..Len(frames)
        /\ Declared = frames[next].bytes /\ Declared \in Nat
    BY <2>1, <2>2, DecoderSees
  <2>4. Readable(next)
    BY <2>1, <2>2, <2>3, SessionAssumption DEF Readable
  <2>5. next \in 1..MaxFrames
    BY <1>1, <2>3, Fields, SessionAssumption DEF FlowInv
  <2>6. /\ DOMAIN got' = 1..next /\ got'[next] = next
        /\ \A k \in 1..Len(got) : got'[k] = got[k]
    BY <1>1, <2>1, <2>3, <2>5
  <2>7. ASSUME NEW k \in DOMAIN got'
        PROVE  got'[k] = k /\ k \in DOMAIN frames' /\ Readable(k)'
    <3>1. CASE k = next
      BY <1>2, <2>3, <2>4, <2>6, <3>1
    <3>2. CASE k # next
      <4>1. k \in 1..Len(got)
        BY <1>1, <2>6, <2>7, <3>2
      <4> QED
        BY <1>1, <1>2, <2>6, <4>1 DEF Returned
    <3> QED
      BY <3>1, <3>2
  <2> QED
    BY <2>7 DEF Returned
<1>5. got' = got \/ ReadFrame
  BY StillSteps DEF Still, Frame, SendChunk, ReadChunk, ReadInvalidUtf8, Fail
<1> QED
  BY <1>3, <1>4, <1>5

\* ... and its last byte was sent: it has left the decoder.
LEMMA ReturnedMeans ==
  ASSUME TypeOK, FlowInv, Returned
  PROVE  FramesInOrder
<1> SUFFICES ASSUME NEW k \in DOMAIN got
             PROVE  got[k] = k /\ Readable(k) /\ Sent(k, Size(k))
  BY DEF FramesInOrder
<1>1. got[k] = k /\ k \in DOMAIN frames /\ Readable(k)
  BY DEF Returned
<1>2. /\ k \in 1..Len(got) /\ Len(got) \in Nat /\ k \in 1..Len(frames)
      /\ Size(k) \in Nat /\ Size(k) >= PREFIX
  BY <1>1, Fields
<1>3. k < First /\ Size(k) \in 1..Size(k)
  BY <1>2 DEF First, PREFIX
<1> QED
  BY <1>1, <1>2, <1>3, WhereBytesAre

\* The buffer takes a chunk only if it has no whole frame and no length over
\* the limit.
LEMMA NextBuffer ==
  ASSUME TypeOK, FlowInv, BufferBounded, [Next]_vars
  PROVE  BufferBounded'
<1>1. /\ buf \in Seq(Bytes) /\ Len(buf) \in Nat /\ rx \in Seq(Seq(Bytes))
      /\ max_frame_bytes \in Nat /\ MaxChunk \in Nat
  BY Fields, SessionAssumption
<1>2. CASE ReadChunk
  <2>1. /\ verdict = "none" /\ ~Complete /\ ~TooLarge /\ rx # <<>>
        /\ buf' = buf \o Head(rx)
    BY <1>2 DEF ReadChunk, Reading
  <2>2. Head(rx) \in Seq(Bytes) /\ Len(Head(rx)) <= MaxChunk
    BY <1>1, <2>1 DEF FlowInv
  <2>3. Len(buf') = Len(buf) + Len(Head(rx)) /\ Len(Head(rx)) \in Nat
    BY <1>1, <2>1, <2>2, ConcatProperties
  <2>4. Len(buf) < PREFIX + max_frame_bytes
    <3>1. CASE HasPrefix
      <4>1. Declared \in Nat /\ Declared <= max_frame_bytes
        BY <1>1, <2>1, <3>1, DecoderSees DEF TooLarge
      <4>2. Len(buf) < PREFIX + Declared
        BY <1>1, <2>1, <3>1, <4>1 DEF Complete, PREFIX
      <4> QED
        BY <1>1, <4>1, <4>2 DEF PREFIX
    <3>2. CASE ~HasPrefix
      BY <1>1, <3>2 DEF HasPrefix, PREFIX
    <3> QED
      BY <3>1, <3>2
  <2> QED
    BY <1>1, <2>2, <2>3, <2>4 DEF BufferBounded, PREFIX
<1>3. CASE ReadFrame \/ ReadInvalidUtf8
  <2>1. verdict = "none" /\ Complete /\ buf' = Drained
    BY <1>3 DEF ReadFrame, ReadInvalidUtf8, Reading
  <2>2. Len(Drained) <= Len(buf) /\ Len(Drained) \in Nat
    BY <2>1, DrainedOK
  <2> QED
    BY <1>1, <2>1, <2>2 DEF BufferBounded, PREFIX
<1>4. ASSUME buf' = buf
      PROVE  BufferBounded'
  BY <1>4 DEF BufferBounded
<1>5. buf' = buf \/ ReadChunk \/ ReadFrame \/ ReadInvalidUtf8
  BY StillSteps DEF Still, Frame, SendChunk
<1> QED
  BY <1>2, <1>3, <1>4, <1>5

\* When reading ends, the reason is the state of the stream at that moment,
\* and nothing is framed, sent or read after it.
LEMMA NextVerdict ==
  ASSUME TypeOK, FlowInv, VerdictIsRight, [Next]_vars
  PROVE  VerdictIsRight'
<1> DEFINE next == Len(got) + 1
           begun == next \in DOMAIN frames /\ Sent(next, 1)
<1>1. /\ DOMAIN frames = 1..Len(frames) /\ Len(frames) \in Nat
      /\ buf \in Seq(Bytes) /\ Len(buf) \in Nat /\ Len(got) \in Nat
  BY Fields
<1>2. /\ verdict = "Finished" => ~open /\ ~begun
      /\ verdict = "UnexpectedEof" => ~open /\ begun /\ ~Sent(next, Size(next))
      /\ verdict = "FrameTooLarge" =>
           begun /\ frames[next].bytes > max_frame_bytes /\ Sent(next, PREFIX)
      /\ verdict = "InvalidUtf8" =>
           begun /\ ~frames[next].utf8 /\ Sent(next, Size(next))
      /\ answer # "none" => verdict \in {"FrameTooLarge", "InvalidUtf8"}
      /\ ended => verdict # "none"
  BY DEF VerdictIsRight
<1>3. CASE ReadTooLarge
  <2>1. /\ verdict = "none" /\ HasPrefix /\ Declared > max_frame_bytes
        /\ verdict' = "FrameTooLarge" /\ UNCHANGED <<frames, outbox, got, answer, ended>>
    BY <1>3 DEF ReadTooLarge, Reading, TooLarge, Fail, teardown
  <2>2. /\ begun /\ Sent(next, PREFIX) /\ Declared = frames[next].bytes
    BY <1>1, <2>1, DecoderSees
  <2> HIDE DEF next
  <2> QED
    BY <1>2, <2>1, <2>2 DEF VerdictIsRight, Sent, Size, next
<1>4. CASE ReadInvalidUtf8
  <2>1. /\ verdict = "none" /\ Complete /\ ~frames[FrameNumber].utf8
        /\ verdict' = "InvalidUtf8" /\ UNCHANGED <<frames, outbox, got, answer, ended>>
    BY <1>4 DEF ReadInvalidUtf8, Reading, Fail, teardown
  <2>2. HasPrefix /\ Len(buf) >= PREFIX + Declared
    BY <2>1 DEF Complete
  <2>3. begun /\ Sent(next, Size(next)) /\ ~frames[next].utf8
    BY <1>1, <2>1, <2>2, DecoderSees
  <2> HIDE DEF next
  <2> QED
    BY <1>2, <2>1, <2>3 DEF VerdictIsRight, Sent, Size, next
<1>5. CASE ReadEnd
  <2>1. /\ verdict = "none" /\ ~Complete /\ ~TooLarge /\ rx = <<>> /\ ~open
        /\ verdict' = EndOf /\ UNCHANGED <<frames, outbox, open, got, answer>>
    BY <1>5 DEF ReadEnd, Reading, peer
  <2>2. First = next
    BY <2>1 DEF First
  <2>3. ASSUME buf = <<>>
        PROVE  ~begun
    <3> SUFFICES ASSUME next \in 1..Len(frames) PROVE ~Sent(next, 1)
      BY <1>1
    <3>1. Size(next) \in Nat /\ Size(next) >= PREFIX
      BY Fields
    <3>2. 1 \in 1..Size(next) /\ 1 > Len(buf)
      BY <2>3, <3>1 DEF PREFIX
    <3> QED
      BY <2>1, <2>2, <3>2, WhereBytesAre
  <2>4. ASSUME buf # <<>>
        PROVE  begun /\ ~Sent(next, Size(next))
    <3>1. 1 \in 1..Len(buf)
      BY <1>1, <2>4
    <3>2. next \in 1..Len(frames)
      BY <2>2, <3>1, WhereBytesAre
    <3>3. Size(next) \in Nat /\ Size(next) >= PREFIX
      BY <3>2, Fields
    <3>4. Sent(next, 1)
      <4>1. 1 <= Size(next)
        BY <3>3 DEF PREFIX
      <4> QED
        BY <2>2, <3>1, <4>1, WhereBytesAre
    <3>5. Size(next) > Len(buf)
      <4>1. CASE HasPrefix
        <5>1. PREFIX + Declared = Size(next)
          BY <2>1, <4>1, DecoderSees
        <5>2. ~(Len(buf) >= PREFIX + Declared)
          BY <2>1, <4>1 DEF Complete
        <5> QED
          BY <1>1, <3>3, <5>1, <5>2
      <4>2. CASE ~HasPrefix
        BY <1>1, <3>3, <4>2 DEF HasPrefix, PREFIX
      <4> QED
        BY <4>1, <4>2
    <3>6. Size(next) \in 1..Size(next)
      BY <3>3 DEF PREFIX
    <3> QED
      BY <1>1, <2>1, <2>2, <3>2, <3>4, <3>5, <3>6, WhereBytesAre
  <2> HIDE DEF next
  <2> QED
    BY <1>2, <2>1, <2>3, <2>4 DEF VerdictIsRight, Sent, Size, EndOf, next
<1>6. CASE Answer \/ NoAnswer
  <2>1. /\ verdict \in {"FrameTooLarge", "InvalidUtf8"}
        /\ UNCHANGED <<frames, outbox, open, got, verdict>>
    BY <1>6 DEF Answer, NoAnswer, Answering, peer
  <2> HIDE DEF next
  <2> QED
    BY <1>2, <2>1 DEF VerdictIsRight, Sent, Size, next
<1>7. CASE Close \/ TakesReply \/ UNCHANGED vars
  <2>1. /\ UNCHANGED <<frames, outbox, got, verdict, answer, ended>>
        /\ ~open => ~open'
    BY <1>7 DEF Close, TakesReply, vars, teardown
  <2> HIDE DEF next
  <2> QED
    BY <1>2, <2>1 DEF VerdictIsRight, Sent, Size, next
<1>8. ASSUME verdict = "none", UNCHANGED <<verdict, answer, ended>>
      PROVE  VerdictIsRight'
  BY <1>2, <1>8 DEF VerdictIsRight
<1>9. ASSUME \/ \E bytes \in Sizes, utf8 \in BOOLEAN : Frame(bytes, utf8)
             \/ \E n \in 1..Len(outbox) : SendChunk(n)
             \/ ReadFrame \/ ReadChunk
      PROVE  verdict = "none" /\ UNCHANGED <<verdict, answer, ended>>
  BY <1>9 DEF Frame, SendChunk, ReadFrame, ReadChunk, Reading, teardown
<1> QED
  BY <1>3, <1>4, <1>5, <1>6, <1>7, <1>8, <1>9 DEF Next, Read

\* The session is in order in every state of every behaviour.
THEOREM SessionInvariant == Spec => []SessionInv
<1>1. Init => TypeOK /\ FlowInv /\ Returned /\ VerdictIsRight /\ BufferBounded
  <2> SUFFICES ASSUME Init
               PROVE  TypeOK /\ FlowInv /\ Returned /\ VerdictIsRight /\ BufferBounded
    OBVIOUS
  <2>1. TypeOK
    <3>1. \A S : <<>> \in Seq(S)
      OBVIOUS
    <3>2. Len(<<>>) = 0 /\ 0 <= Capacity
      BY SessionAssumption
    <3> QED
      BY <3>1, <3>2 DEF Init, TypeOK
  <2>2. FlowInv
    <3>1. First = 1 /\ Len(<<>>) = 0
      BY DEF Init, First
    <3>2. \E off, marks : Flow(frames, off, marks, First, buf, rx, outbox, 0)
      BY <3>1, FlowEmpty DEF Init
    <3>3. Len(frames) <= MaxFrames /\ \A i \in DOMAIN rx : Len(rx[i]) <= MaxChunk
      BY SessionAssumption DEF Init
    <3> QED
      BY <3>2, <3>3 DEF FlowInv
  <2>3. Returned
    BY DEF Init, Returned
  <2>4. VerdictIsRight
    BY DEF Init, VerdictIsRight
  <2>5. BufferBounded
    BY SessionAssumption DEF Init, BufferBounded, PREFIX
  <2> QED
    BY <2>1, <2>2, <2>3, <2>4, <2>5
<1>2. TypeOK /\ FlowInv /\ Returned /\ VerdictIsRight /\ BufferBounded /\ [Next]_vars
        => TypeOK' /\ FlowInv' /\ Returned' /\ VerdictIsRight' /\ BufferBounded'
  BY NextTypeOK, NextFlow, NextReturned, NextVerdict, NextBuffer
<1>3. TypeOK /\ FlowInv /\ Returned /\ VerdictIsRight /\ BufferBounded => SessionInv
  BY ReturnedMeans DEF SessionInv
<1> QED
  BY <1>1, <1>2, <1>3, PTL DEF Spec

\* TypeOK: every variable has its type, and the channel of chunks its bound.
THEOREM TypeCorrect == Spec => []TypeOK
<1>1. SessionInv => TypeOK
  BY DEF SessionInv
<1> QED
  BY <1>1, SessionInvariant, PTL

\* FramesInOrder: however the transport cuts the bytes, the session returns
\* the frames of the peer in order, each once, whole, and only if readable.
THEOREM OrderedFrames == Spec => []FramesInOrder
<1>1. SessionInv => FramesInOrder
  BY DEF SessionInv
<1> QED
  BY <1>1, SessionInvariant, PTL

\* VerdictIsRight: reading ends for the reason that lies in the stream of the
\* peer at the first frame not returned, whatever the order of the checks on
\* length, completeness and UTF-8 and whatever else is in the buffer by then.
THEOREM RightVerdict == Spec => []VerdictIsRight
<1>1. SessionInv => VerdictIsRight
  BY DEF SessionInv
<1> QED
  BY <1>1, SessionInvariant, PTL

\* BufferBounded: the decoder holds less than one frame of the limit and one
\* chunk, whatever lengths the peer declares.
THEOREM BoundedBuffer == Spec => []BufferBounded
<1>1. SessionInv => BufferBounded
  BY DEF SessionInv
<1> QED
  BY <1>1, SessionInvariant, PTL

=============================================================================
