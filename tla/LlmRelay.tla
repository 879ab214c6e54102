------------------------------ MODULE LlmRelay ------------------------------
(***************************************************************************)
(* The LLM relay of the terminal program: incoming_loop of main.rs with    *)
(* run_streaming_reply and SseStream of llm.rs (src/guyos_core/src).        *)
(*                                                                         *)
(* incoming_loop reads the chat, keeps the last messages as history and    *)
(* answers each message of others with a task of its own, a generation,    *)
(* after it has aborted the one before.  A generation asks the model,      *)
(* reads the events of the answer and sends their text in pieces; what it  *)
(* sends comes back to incoming_loop as a message of the assistant.        *)
(*                                                                         *)
(* A task is polled while it is awake.  It falls asleep when poll_next     *)
(* returns Pending, and is woken by the waker it has left with the stream  *)
(* of bytes, if it has left one.  An aborted task that sleeps is dropped;  *)
(* one that is being polled may go on until it has to wait.  The chat (see *)
(* ClientChatService) and the model's server are external.                 *)
(*                                                                         *)
(* Bytes are abstracted to the events they complete: a chunk is the        *)
(* sequence of the events that end in it, <<>> for a fragment of one.  An  *)
(* event is the sequence of its data lines, and is told by its number.     *)
(***************************************************************************)
EXTENDS Naturals, Sequences, FiniteSets, SequencesExt

CONSTANTS
  context,                 \* of the configuration: messages of history
  stream_chunk_min_chars,  \* of the configuration; a text is one character
  Chunks,                  \* the chunks the model's server sends
  MaxOthers,               \* bound on the messages of others
  MaxEvents,               \* bound on the events of one answer
  MaxInFlight              \* bound on the chunks not read yet

DataLines == {"text", "no_content", "[DONE]", "bad_json"}

ASSUME RelayAssumption ==
  /\ {context, stream_chunk_min_chars, MaxOthers, MaxInFlight} \subseteq Nat
  /\ MaxEvents \in Nat \ {0}
  /\ Chunks \subseteq Seq(Seq(DataLines))

VARIABLES
  stream,   \* of the configuration: answers are streamed
  inbox,    \* the messages next_message will return
  heard,    \* history variable: those it has returned
  history,
  gen       \* the generations; the last one is current_gen

vars == <<stream, inbox, heard, history, gen>>

\* A message is told by its author: another member, or a generation.
Other == 0

Init ==
  /\ stream \in BOOLEAN
  /\ inbox = <<>>
  /\ heard = <<>>
  /\ history = <<>>
  /\ gen = <<>>

NewGeneration(snapshot) ==
  [snapshot |-> snapshot, phase |-> "calling", outcome |-> "none",
   aborted |-> FALSE, awake |-> FALSE,
   waker |-> FALSE,     \* left with the stream of bytes
   served |-> <<>>,     \* the events the server has sent
   chunks |-> <<>>,     \* the last of them that each chunk on its way completes
   body |-> "open",     \* of the response
   read |-> 0,          \* the events that have come into the buffer
   parsed |-> 0,        \* the events taken out of it
   acc |-> <<>>,        \* texts not sent yet, by the number of their event
   final |-> FALSE,     \* the line being sent is the last
   sends |-> <<>>]      \* the texts of every line given to chat.send

Change(i, g) ==
  /\ gen' = [gen EXCEPT ![i] = g]
  /\ UNCHANGED <<stream, heard, history>>

Ended(g, outcome) == [g EXCEPT !.phase = "ended", !.outcome = outcome]

---------------------------------------------------------------------------
(* incoming_loop.                                                          *)

OfOthers(messages) == {n \in DOMAIN messages : messages[n] = Other}

OtherSpeaks ==
  /\ Cardinality(OfOthers(heard \o inbox)) < MaxOthers
  /\ inbox' = Append(inbox, Other)
  /\ UNCHANGED <<stream, heard, history, gen>>

\* Mutated form: one message too many is kept.
Window_OneMore(messages) ==
  SubSeq(messages, IF Len(messages) > context THEN Len(messages) - context ELSE 1,
         Len(messages))

\* The oldest messages are dropped.
Window(messages) ==
  SubSeq(messages,
         IF Len(messages) > context THEN Len(messages) - context + 1 ELSE 1,
         Len(messages))

NextMessage ==
  /\ inbox # <<>>
  /\ inbox' = Tail(inbox)
  /\ heard' = Append(heard, Head(inbox))
  /\ history' = Window(Append(history, Head(inbox)))
  /\ UNCHANGED stream

\* Avoid self-loop.
HearAssistant ==
  /\ NextMessage
  /\ Head(inbox) # Other
  /\ UNCHANGED gen

\* Mutated form: the task is left alone.
Abort_Forgotten(g) == g

\* A task that sleeps is dropped, one that may be running is told.
Abort(g) ==
  IF g.phase = "ended" THEN g
  ELSE IF g.awake THEN [g EXCEPT !.aborted = TRUE]
       ELSE [Ended(g, "aborted") EXCEPT !.aborted = TRUE]

\* Mutated form: the assistant answers itself.
HearOther_SelfLoop ==
  /\ NextMessage
  /\ gen' = Append([i \in DOMAIN gen |->
                      IF i = Len(gen) THEN Abort(gen[i]) ELSE gen[i]],
                   NewGeneration(history'))

\* Restart generation on every new message.
HearOther ==
  /\ NextMessage
  /\ Head(inbox) = Other
  /\ gen' = Append([i \in DOMAIN gen |->
                      IF i = Len(gen) THEN Abort(gen[i]) ELSE gen[i]],
                   NewGeneration(history'))

\* The runtime drops an aborted task when it is not being polled.
Dropped(i) ==
  /\ gen[i].aborted /\ gen[i].phase # "ended"
  /\ Change(i, Ended(gen[i], "aborted"))
  /\ UNCHANGED inbox

---------------------------------------------------------------------------
(* The server.                                                             *)

Responds(i) ==
  /\ gen[i].phase = "calling" /\ stream
  /\ Change(i, [gen[i] EXCEPT !.phase = "reading", !.awake = TRUE])
  /\ UNCHANGED inbox

\* No connection, an error status, or a body that is not what it should be.
CallFails(i) ==
  /\ gen[i].phase = "calling"
  /\ Change(i, Ended(gen[i], "error"))
  /\ UNCHANGED inbox

Woken(g) == [g EXCEPT !.awake = @ \/ g.waker, !.waker = FALSE]

Serving(i) == gen[i].phase \in {"reading", "sending"} /\ gen[i].body = "open" /\ stream

ServeChunk(i, chunk) ==
  /\ Serving(i)
  /\ Len(gen[i].served \o chunk) <= MaxEvents
  /\ Len(gen[i].chunks) < MaxInFlight
  /\ Change(i, [Woken(gen[i]) EXCEPT !.served = @ \o chunk,
                                     !.chunks = Append(@, Len(gen[i].served \o chunk))])
  /\ UNCHANGED inbox

EndBody(i, how) ==
  /\ Serving(i)
  /\ Change(i, [Woken(gen[i]) EXCEPT !.body = how])
  /\ UNCHANGED inbox

---------------------------------------------------------------------------
(* run_streaming_reply.                                                    *)

\* The line acc is given to chat.send.
Sending(g, final) ==
  [g EXCEPT !.phase = "sending", !.sends = Append(@, g.acc), !.acc = <<>>,
            !.final = final]

\* Mutated form: the remainder is not flushed.
Flush_Nothing(g) == Ended(g, "done")

Flush(g) == IF g.acc = <<>> THEN Ended(g, "done") ELSE Sending(g, TRUE)

\* The answer in one piece, perhaps empty.
AnswerWhole(i, text) ==
  /\ gen[i].phase = "calling" /\ ~stream
  /\ Change(i, Flush([gen[i] EXCEPT !.awake = TRUE, !.served = <<<<text>>>>,
       !.read = 1, !.parsed = 1, !.acc = IF text = "text" THEN <<1>> ELSE <<>>]))
  /\ UNCHANGED inbox

\* chat.send returns; its result is ignored.
SendReturns(i) ==
  /\ gen[i].phase = "sending"
  /\ Change(i, IF gen[i].final THEN Ended(gen[i], "done")
               ELSE [gen[i] EXCEPT !.phase = "reading"])
  /\ \/ inbox' = Append(inbox, i)
     \/ UNCHANGED inbox

---------------------------------------------------------------------------
(* SseStream::poll_next and what its caller does with the result.          *)

Polled(i) == gen[i].phase = "reading" /\ gen[i].awake

\* try_parse_one_sse_event: the first data line with a content decides.
Deciding(event) ==
  LET first == SelectInSeq(event, LAMBDA line : line # "no_content")
  IN  IF first = 0 THEN "no_content" ELSE event[first]

\* The next event in the buffer is of this kind.
Event(i, kind) ==
  /\ Polled(i) /\ gen[i].parsed < gen[i].read
  /\ Deciding(gen[i].served[gen[i].parsed + 1]) = kind

Taken(g) == [g EXCEPT !.parsed = @ + 1]

\* The text is kept, or all of it sent: whether the interval has passed is
\* left open, except that it has before the first partial line.
Throttled(i, g) ==
  \/ /\ Len(g.acc) < stream_chunk_min_chars \/ g.sends # <<>>
     /\ Change(i, g)
  \/ /\ Len(g.acc) >= stream_chunk_min_chars
     /\ Change(i, Sending(g, FALSE))

DeltaText(i) ==
  /\ Event(i, "text")
  /\ LET g == Taken(gen[i]) IN Throttled(i, [g EXCEPT !.acc = Append(@, g.parsed)])
  /\ UNCHANGED inbox

\* An event without content is an empty text.
EmptyDelta(i) ==
  /\ Event(i, "no_content")
  /\ Throttled(i, Taken(gen[i]))
  /\ UNCHANGED inbox

Done(i) ==
  /\ Event(i, "[DONE]")
  /\ Change(i, Flush(Taken(gen[i])))
  /\ UNCHANGED inbox

\* The reply returns the error before the flush.
BadJson(i) ==
  /\ Event(i, "bad_json")
  /\ Change(i, Ended(Taken(gen[i]), "error"))
  /\ UNCHANGED inbox

ReadsOn(i) == Polled(i) /\ gen[i].parsed = gen[i].read

\* Pending after a fragment, too: the stream of bytes was ready, so it has
\* kept no waker.
ReadChunk(i) ==
  /\ ReadsOn(i) /\ gen[i].chunks # <<>>
  /\ LET last == Head(gen[i].chunks) IN
       Change(i, [gen[i] EXCEPT !.read = last, !.chunks = Tail(@),
                                !.awake = last > gen[i].read])
  /\ UNCHANGED inbox

NoChunk(i) == ReadsOn(i) /\ gen[i].chunks = <<>>

\* Mutated form: more is waited for when the body has ended.
ReadEnd_Waits(i) ==
  /\ NoChunk(i) /\ gen[i].body = "ended"
  /\ Change(i, [gen[i] EXCEPT !.awake = FALSE, !.waker = TRUE])
  /\ UNCHANGED inbox

ReadEnd(i) ==
  /\ NoChunk(i) /\ gen[i].body = "ended"
  /\ Change(i, Flush(gen[i]))
  /\ UNCHANGED inbox

ReadFails(i) ==
  /\ NoChunk(i) /\ gen[i].body = "broken"
  /\ Change(i, Ended(gen[i], "error"))
  /\ UNCHANGED inbox

ReadPending(i) ==
  /\ NoChunk(i) /\ gen[i].body = "open"
  /\ Change(i, [gen[i] EXCEPT !.awake = FALSE, !.waker = TRUE])
  /\ UNCHANGED inbox

poll_next(i) ==
  \/ DeltaText(i) \/ EmptyDelta(i) \/ Done(i) \/ BadJson(i)
  \/ ReadChunk(i) \/ ReadEnd(i) \/ ReadFails(i) \/ ReadPending(i)

---------------------------------------------------------------------------
Next ==
  \/ OtherSpeaks \/ HearAssistant \/ HearOther
  \/ \E i \in DOMAIN gen :
       \/ poll_next(i) \/ SendReturns(i) \/ Dropped(i)
       \/ Responds(i) \/ CallFails(i)
       \/ \E text \in {"text", "no_content"} : AnswerWhole(i, text)
       \/ \E chunk \in Chunks : ServeChunk(i, chunk)
       \/ \E how \in {"ended", "broken"} : EndBody(i, how)

Spec == Init /\ [][Next]_vars

\* The runtime polls tasks that are awake and drops aborted ones, and sends
\* return.  Nothing is assumed of the server.
FairSpec ==
  /\ Spec
  /\ WF_vars(HearAssistant \/ HearOther)
  /\ \A i \in 1..MaxOthers :
       /\ WF_vars(i \in DOMAIN gen /\ poll_next(i))
       /\ WF_vars(i \in DOMAIN gen /\ SendReturns(i))
       /\ WF_vars(i \in DOMAIN gen /\ Dropped(i))

---------------------------------------------------------------------------
(* Properties.                                                             *)

Messages == Seq(0..MaxOthers)
Texts == Seq(1..MaxEvents)

Generation ==
  [snapshot : Messages, aborted : BOOLEAN, awake : BOOLEAN, waker : BOOLEAN,
   phase : {"calling", "reading", "sending", "ended"},
   outcome : {"none", "done", "error", "aborted"},
   served : Seq(Seq(DataLines)), chunks : Seq(0..MaxEvents),
   body : {"open", "ended", "broken"}, read : 0..MaxEvents,
   parsed : 0..MaxEvents, acc : Texts, final : BOOLEAN, sends : Seq(Texts)]

\* Type correctness of the relay, with the bound of its history.
TypeOK ==
  /\ stream \in BOOLEAN
  /\ {inbox, heard, history} \subseteq Messages
  /\ Len(history) <= context
  /\ gen \in Seq(Generation)

\* Every message of others starts one reply and no other message does, and
\* the model is given the last messages up to that one, whatever the earlier
\* replies have said in between.
OneReplyPerMessage ==
  LET asked == OfOthers(heard)
      Reply(n) == gen[Cardinality({m \in asked : m <= n})]
  IN  /\ Len(gen) = Cardinality(asked)
      /\ \A n \in asked : Reply(n).snapshot = Window(SubSeq(heard, 1, n))

\* The lines of a reply, the text it still holds as the last one.
Lines(g) == Append(g.sends, g.acc)

TextsOf(lines) == UNION {ToSet(lines[a]) : a \in DOMAIN lines}

Ascending(lines) ==
  /\ \A a \in DOMAIN lines : \A b, c \in DOMAIN lines[a] :
       b < c => lines[a][b] < lines[a][c]
  /\ \A a, b \in DOMAIN lines :
       a < b => \A n \in ToSet(lines[a]) : \A m \in ToSet(lines[b]) : n < m

Kind(g, n) == Deciding(g.served[n])

\* The lines of a reply and the text it still holds are the texts of the
\* events read, in order and none twice, and a reply that is done has sent
\* them all and read the answer to its end or to [DONE].
TextKept ==
  \A i \in DOMAIN gen :
    LET g == gen[i]
    IN  /\ Ascending(Lines(g))
        /\ TextsOf(Lines(g)) = {n \in 1..g.parsed : Kind(g, n) = "text"}
        /\ g.outcome = "done" =>
             /\ g.acc = <<>>
             /\ g.parsed = Len(g.served) \/ Kind(g, g.parsed) = "[DONE]"

Is(i, phase) == i \in DOMAIN gen /\ gen[i].phase = phase

\* The reply sleeps and nothing will wake it.
Missed(i) == Is(i, "reading") /\ ~gen[i].awake /\ ~gen[i].waker

\* When the server has ended its answer the reply ends, or it has missed a
\* wake-up: nothing else holds it up.
ReplyEnds ==
  \A i \in 1..MaxOthers :
    (i \in DOMAIN gen /\ gen[i].body # "open") ~> (Is(i, "ended") \/ Missed(i))

\* A reply that a newer one replaces ends, also when its server is silent or
\* it has missed a wake-up.
ReplacedEnds == \A i \in 1..MaxOthers : i < Len(gen) ~> Is(i, "ended")

\* SseStream::poll_next, when there is no complete event: read more bytes.  A
\* chunk that arrives is read, or the reply ends.
ReadsMoreBytes ==
  \A i \in 1..MaxOthers :
    (Is(i, "reading") /\ gen[i].chunks # <<>>) ~>
      (Is(i, "ended") \/ (i \in DOMAIN gen /\ gen[i].chunks = <<>>))
=============================================================================
