------------------------ MODULE GuyosWireV1Session -------------------------
(***************************************************************************)
(* One direction of an F1-framed session                                   *)
(* (src/guyos_core/src/ports/outbound/f1_framing.rs and the session over    *)
(* it, fake_guyos_wire_v1_session.rs, guyos_wire_v1_session.rs): a peer     *)
(* frames bodies, the transport cuts the bytes into chunks, the hub reads  *)
(* frames until the peer is done or a read fails, writes an error frame if *)
(* the failure has one, and drops its end.                                 *)
(*                                                                         *)
(* A byte is the pair of the number of its frame and its place in it: the  *)
(* first four carry the declared length.  Whatever a peer sends is a       *)
(* sequence of such frames, the last one perhaps cut short.                *)
(***************************************************************************)
EXTENDS Naturals, Sequences, SequencesExt

CONSTANTS
  max_frame_bytes,  \* of the session
  Sizes,            \* the body lengths peers declare
  ErrorBytes,       \* the length of the body of an error message
  Capacity,         \* of the channel of chunks, 64 in the code
  MaxChunk,         \* of the transport
  MaxFrames         \* bound on the frames of a peer

ASSUME SessionAssumption ==
  /\ max_frame_bytes \in Nat /\ ErrorBytes \in Nat /\ MaxFrames \in Nat
  /\ Sizes \subseteq Nat
  /\ Capacity \in Nat \ {0} /\ MaxChunk \in Nat \ {0}

VARIABLES
  frames,   \* what the peer has framed so far
  outbox,   \* bytes framed and not sent
  open,     \* the peer has not dropped its end
  rx,       \* the channel of chunks
  buf,      \* the buffer of the F1FrameDecoder
  got,      \* the frames read_application_frame returned
  verdict,  \* how reading ended, "none" as long as it has not
  answer,   \* the error frame sent before the teardown
  full,     \* the error frame finds no place: the peer has replies to read
  ended     \* the session's end is dropped

vars == <<frames, outbox, open, rx, buf, got, verdict, answer, full, ended>>
peer == <<frames, outbox, open, full>>
teardown == <<answer, ended>>

PREFIX == 4

Init ==
  /\ frames = <<>>
  /\ outbox = <<>>
  /\ open = TRUE
  /\ rx = <<>>
  /\ buf = <<>>
  /\ got = <<>>
  /\ verdict = "none"
  /\ answer = "none"
  /\ full = FALSE
  /\ ended = FALSE

---------------------------------------------------------------------------
(* The peer.                                                               *)

\* encode_application_frame: the length prefix and the body.
Encoded(number, bytes) == [i \in 1..(PREFIX + bytes) |-> <<number, i>>]

\* The peer's own limit may be another one, and its bodies no UTF-8.  Bound:
\* what it frames after the session has stopped reading is left out.
Frame(bytes, utf8) ==
  /\ open /\ verdict = "none"
  /\ Len(frames) < MaxFrames
  /\ frames' = Append(frames, [bytes |-> bytes, utf8 |-> utf8])
  /\ outbox' = outbox \o Encoded(Len(frames) + 1, bytes)
  /\ UNCHANGED <<open, rx, buf, got, verdict, teardown, full>>

\* Mutated form: an unbounded channel.
SendChunk_Unbounded(n) ==
  /\ open /\ verdict = "none"
  /\ n <= MaxChunk
  /\ rx' = Append(rx, SubSeq(outbox, 1, n))
  /\ outbox' = SubSeq(outbox, n + 1, Len(outbox))
  /\ UNCHANGED <<frames, open, buf, got, verdict, teardown, full>>

\* The first n bytes reach the session as one chunk.
SendChunk(n) ==
  /\ open /\ verdict = "none"
  /\ n <= MaxChunk
  /\ Len(rx) < Capacity
  /\ rx' = Append(rx, SubSeq(outbox, 1, n))
  /\ outbox' = SubSeq(outbox, n + 1, Len(outbox))
  /\ UNCHANGED <<frames, open, buf, got, verdict, teardown, full>>

Close ==
  /\ open
  /\ open' = FALSE
  /\ UNCHANGED <<frames, outbox, rx, buf, got, verdict, teardown, full>>

TakesReply ==
  /\ open /\ full
  /\ full' = FALSE
  /\ UNCHANGED <<frames, outbox, open, rx, buf, got, verdict, teardown>>

---------------------------------------------------------------------------
(* The decoder.                                                            *)

HasPrefix == Len(buf) >= PREFIX
Declared == frames[buf[1][1]].bytes

\* Mutated form: the limit is looked at when the body is there.
TooLarge_Late ==
  HasPrefix /\ Len(buf) >= PREFIX + Declared /\ Declared > max_frame_bytes

TooLarge == HasPrefix /\ Declared > max_frame_bytes

\* Mutated form: a frame counts as complete when the prefix does not.
Complete_NoPrefix == HasPrefix /\ ~TooLarge /\ Len(buf) >= Declared

\* Mutated form: a frame is returned when the next one has begun.
Complete_Late == HasPrefix /\ ~TooLarge /\ Len(buf) > PREFIX + Declared

Complete == HasPrefix /\ ~TooLarge /\ Len(buf) >= PREFIX + Declared

FrameNumber == buf[1][1]

Drained == SubSeq(buf, PREFIX + Declared + 1, Len(buf))

---------------------------------------------------------------------------
(* read_application_frame, called again until it does not return a frame.  *)

Reading == verdict = "none"

ReadFrame ==
  /\ Reading /\ Complete
  /\ frames[FrameNumber].utf8
  /\ got' = Append(got, FrameNumber)
  /\ buf' = Drained
  /\ UNCHANGED <<peer, rx, verdict, teardown>>

\* recv, after pop_complete_frame has found no frame.
ReadChunk ==
  /\ Reading /\ ~Complete /\ ~TooLarge
  /\ rx # <<>>
  /\ buf' = buf \o Head(rx)
  /\ rx' = Tail(rx)
  /\ UNCHANGED <<peer, got, verdict, teardown>>

\* How many replies wait for the peer by then is up to the loop around the
\* session.
Fail(why) ==
  /\ verdict' = why
  /\ full' \in BOOLEAN
  /\ UNCHANGED <<frames, outbox, open, teardown>>

\* The prefix stays in the buffer.
ReadTooLarge ==
  /\ Reading /\ TooLarge
  /\ Fail("FrameTooLarge")
  /\ UNCHANGED <<rx, buf, got>>

\* The frame is drained before its body is found not to be UTF-8.
ReadInvalidUtf8 ==
  /\ Reading /\ Complete
  /\ ~frames[FrameNumber].utf8
  /\ Fail("InvalidUtf8")
  /\ buf' = Drained
  /\ UNCHANGED <<rx, got>>

\* Mutated form: bytes left in the buffer are not looked at.
EndOf_Graceful == "Finished"

EndOf == IF buf # <<>> THEN "UnexpectedEof" ELSE "Finished"

\* The channel is drained and its sender dropped.
ReadEnd ==
  /\ Reading /\ ~Complete /\ ~TooLarge
  /\ rx = <<>> /\ ~open
  /\ verdict' = EndOf
  /\ ended' = TRUE
  /\ UNCHANGED <<peer, rx, buf, got, answer>>

---------------------------------------------------------------------------
(* hub_try_send_wire_error_for_session_read_failure, then the drop.        *)

Code ==
  IF verdict = "FrameTooLarge" THEN "frame_too_large" ELSE "malformed_json"

\* The session's own limit may be too small for the error frame.
Answering == verdict \in {"FrameTooLarge", "InvalidUtf8"} /\ ~ended
AnswerFits == ErrorBytes <= max_frame_bytes

\* The write waits for a place, as long as the peer's end exists.
Answer ==
  /\ Answering /\ AnswerFits
  /\ open /\ ~full
  /\ answer' = Code
  /\ ended' = TRUE
  /\ UNCHANGED <<peer, rx, buf, got, verdict>>

\* Mutated form: the write waits for a peer that has gone.
NoAnswer_PeerHangs ==
  /\ Answering
  /\ ~AnswerFits
  /\ ended' = TRUE
  /\ UNCHANGED <<peer, rx, buf, got, verdict, answer>>

\* The frame does not encode, or the channel is closed: both are ignored.
NoAnswer ==
  /\ Answering
  /\ ~AnswerFits \/ ~open
  /\ ended' = TRUE
  /\ UNCHANGED <<peer, rx, buf, got, verdict, answer>>

Read == ReadFrame \/ ReadChunk \/ ReadTooLarge \/ ReadInvalidUtf8 \/ ReadEnd

Next ==
  \/ \E bytes \in Sizes, utf8 \in BOOLEAN : Frame(bytes, utf8)
  \/ \E n \in 1..Len(outbox) : SendChunk(n)
  \/ Close \/ TakesReply
  \/ Read \/ Answer \/ NoAnswer

\* The task of the session is polled whenever it can go on.
Spec == Init /\ [][Next]_vars /\ WF_vars(Read \/ Answer \/ NoAnswer)
---------------------------------------------------------------------------
(* Properties.                                                             *)

Bytes == (1..MaxFrames) \X Nat

\* Type correctness of the session and its bounded channel.
TypeOK ==
  /\ frames \in Seq([bytes : Sizes, utf8 : BOOLEAN])
  /\ outbox \in Seq(Bytes)
  /\ open \in BOOLEAN
  /\ rx \in Seq(Seq(Bytes)) /\ Len(rx) <= Capacity
  /\ buf \in Seq(Bytes)
  /\ got \in Seq(1..MaxFrames)
  /\ verdict \in {"none", "Finished", "UnexpectedEof", "FrameTooLarge",
                  "InvalidUtf8"}
  /\ answer \in {"none", "frame_too_large", "malformed_json"}
  /\ full \in BOOLEAN /\ ended \in BOOLEAN

Readable(i) == frames[i].utf8 /\ frames[i].bytes <= max_frame_bytes
Size(i) == PREFIX + frames[i].bytes

\* The n-th byte of frame i has left the peer.
Sent(i, n) == <<i, n>> \notin ToSet(outbox)

\* However the bytes are cut, the frames are returned in order, each once
\* and only if readable, none before its last byte was sent.
FramesInOrder ==
  \A k \in DOMAIN got :
    got[k] = k /\ Readable(k) /\ Sent(k, Size(k))

\* The reason reading ended is the state of the peer's stream at the first
\* frame that was not returned; an error frame answers only the two reasons
\* that have a portable code.
VerdictIsRight ==
  LET next == Len(got) + 1
      begun == next \in DOMAIN frames /\ Sent(next, 1)
  IN  /\ verdict = "Finished" => ~open /\ ~begun
      /\ verdict = "UnexpectedEof" => ~open /\ begun /\ ~Sent(next, Size(next))
      /\ verdict = "FrameTooLarge" =>
           begun /\ frames[next].bytes > max_frame_bytes /\ Sent(next, PREFIX)
      /\ verdict = "InvalidUtf8" =>
           begun /\ ~frames[next].utf8 /\ Sent(next, Size(next))
      /\ answer # "none" => verdict \in {"FrameTooLarge", "InvalidUtf8"}
      /\ ended => verdict # "none"

\* A peer cannot make the buffer grow by declaring a large frame: it holds
\* less than one frame of the limit and the chunk just received.
BufferBounded == Len(buf) < PREFIX + max_frame_bytes + MaxChunk

\* A frame that has been sent whole is returned, if it and all before it are
\* readable.
FramesArrive ==
  \A k \in 1..MaxFrames :
    (k \in DOMAIN frames /\ Sent(k, Size(k)) /\ \A i \in 1..k : Readable(i))
      ~> k <= Len(got)

\* When the peer has gone the session ends, also one that is writing its
\* error frame; when a read has failed it ends unless the peer lets its
\* replies pile up.
SessionEnds == (~open \/ verdict # "none") ~> (ended \/ (open /\ full))
=============================================================================
