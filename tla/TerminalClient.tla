--------------------------- MODULE TerminalClient ---------------------------
(***************************************************************************)
(* The terminal program (src/guyos_core/src/main.rs) over a                *)
(* HubClientSession: main opens or joins a room, then starts a thread that *)
(* reads stdin (input_loop) and a task that prints what comes in           *)
(* (incoming_loop), and sends the lines the thread hands it.  With         *)
(* --llm-enable incoming_loop answers messages of others with a generation *)
(* that it aborts for the next; LlmRelay has the inside of a generation,   *)
(* here it only sends.                                                     *)
(*                                                                         *)
(* main returns on an error of the call that starts it or of a send, and   *)
(* with it the program and its tasks end.                                  *)
(***************************************************************************)
EXTENDS Naturals, Sequences, SequencesExt

CONSTANTS
  Capacity,     \* of the message channel, 100 in the code
  MaxTyped,     \* bound on the lines read from stdin, empty ones included
  MaxOthers,    \* bound on the lines of others
  MaxReplies    \* bound on the sends of generations

ASSUME TerminalAssumption ==
  /\ Capacity \in Nat \ {0}
  /\ {MaxTyped, MaxOthers, MaxReplies} \subseteq Nat

VARIABLES
  mode, llm,      \* the command, and whether --llm-enable is set
  main,           \* where main is
  stdin, buffer,  \* input_loop: its input, and the line it has read, if any
  line_rx,        \* the lines main has yet to take
  text,           \* the line main is sending
  hand,           \* the message incoming_loop has received, if any
  gen,            \* current_gen
  calls, queue, joined, channel,  \* of the HubClientSession
  \* Counters and history.
  typed, others, replies,  \* numbers of lines read, of others and replies
  shown,          \* the own lines printed by incoming_loop
  sent,           \* the lines whose send returned Ok
  lost            \* of these, the ones there was no room for

config == <<mode, llm>>
input == <<stdin, buffer, typed>>
chat == <<calls, queue, joined, channel>>
history == <<shown, sent, lost>>
vars == <<config, main, input, line_rx, text, hand, gen, chat, others, replies,
          history>>

\* A text is the lines of stdin in it, by number: one, or none after the end
\* of stdin.
Texts == {<<>>} \cup {<<n>> : n \in 1..MaxTyped}
Message(from, words) == [from |-> from, text |-> words]
Messages == {Message("own", words) : words \in Texts} \cup
            {Message("assistant", <<>>), Message("other", <<>>)}

Port == INSTANCE HubClientSession WITH
  Caller <- {"main", "gen"}, Finisher <- {"finish"}, Entry <- Messages

Init ==
  /\ mode \in {"open", "join"} /\ llm \in BOOLEAN
  /\ main = "starting"
  /\ stdin = "unread" /\ buffer = <<>> /\ typed = 0
  /\ line_rx = <<>> /\ text = <<>>
  /\ hand = <<>> /\ gen = "none"
  /\ Port!Init
  /\ others = 0 /\ replies = 0
  /\ shown = <<>> /\ sent = {} /\ lost = {}

\* The program has not ended; its thread and its tasks have been spawned.
Alive == main # "ended"
Running == main \in {"receiving", "sending", "listening"}

---------------------------------------------------------------------------
(* main: the start.                                                        *)

Starts ==
  /\ main = "starting"
  /\ Port!Call("main", mode)
  /\ main' = "awaiting"
  /\ UNCHANGED <<config, input, line_rx, text, hand, gen, others, replies, history>>

\* An error of the call is main's; so is a --llm-enable without a name or a
\* model, which is looked at only now that the room is open.
StartReturns ==
  /\ main = "awaiting"
  /\ \/ Port!OpenReturns("main", "finish") /\ main' = "started"
     \/ Port!JoinReturns("main") /\ main' \in {"started", "ended"}
     \/ Port!Returns("main") /\ main' = "ended"
  /\ UNCHANGED <<config, input, line_rx, text, hand, gen, others, replies, history>>

ConfigFails ==
  /\ main = "started" /\ llm
  /\ main' = "ended"
  /\ UNCHANGED <<config, input, line_rx, text, hand, gen, chat, others, replies,
                 history>>

\* The thread and the task are spawned.
Runs ==
  /\ main = "started"
  /\ main' = "receiving"
  /\ stdin' = "open"
  /\ UNCHANGED <<config, buffer, typed, line_rx, text, hand, gen, chat, others,
                 replies, history>>

---------------------------------------------------------------------------
(* input_loop.  buffer is <<>>, or <<text>> until line_tx has taken it.     *)

\* At the end of stdin read_line returns Ok, again and again, and reads none.
ReadLine ==
  /\ Running
  /\ stdin \in {"open", "eof"} /\ buffer = <<>>
  /\ typed < MaxTyped
  /\ typed' = typed + 1
  /\ stdin' \in {stdin, "eof"}
  /\ buffer' = <<IF stdin' = "eof" THEN <<>> ELSE <<typed'>>>>
  /\ UNCHANGED <<config, main, line_rx, text, hand, gen, chat, others, replies,
                 history>>

\* The thread ends and with it line_tx.
ReadFails ==
  /\ Running
  /\ stdin = "open" /\ buffer = <<>>
  /\ stdin' = "failed"
  /\ UNCHANGED <<config, main, buffer, typed, line_rx, text, hand, gen, chat,
                 others, replies, history>>

\* Mutated form: the buffer is not cleared, read_line appends to it.
HandLine_NotCleared ==
  /\ Running
  /\ buffer # <<>> /\ line_rx = <<>>
  /\ line_rx' = buffer
  /\ IF stdin = "open" /\ typed < MaxTyped
     THEN buffer' = <<Append(buffer[1], typed + 1)>> /\ typed' = typed + 1
     ELSE buffer' = <<>> /\ UNCHANGED typed
  /\ UNCHANGED <<config, main, stdin, text, hand, gen, chat, others, replies,
                 history>>

\* blocking_send waits for a place in the channel of one line.
HandLine ==
  /\ Running
  /\ buffer # <<>> /\ line_rx = <<>>
  /\ line_rx' = buffer
  /\ buffer' = <<>>
  /\ UNCHANGED <<config, main, stdin, typed, text, hand, gen, chat, others,
                 replies, history>>

---------------------------------------------------------------------------
(* main: the lines.                                                        *)

Sends ==
  /\ main = "receiving" /\ line_rx # <<>>
  /\ Port!Call("main", "send")
  /\ text' = line_rx[1]
  /\ line_rx' = <<>>
  /\ main' = "sending"
  /\ UNCHANGED <<config, input, hand, gen, others, replies, history>>

Sent ==
  /\ main' = "receiving"
  /\ sent' = sent \cup ToSet(text)
  /\ text' = <<>>

Echoed ==
  /\ main = "sending"
  /\ Port!Echo("main", Message("own", text))
  /\ Sent
  /\ UNCHANGED <<config, input, line_rx, hand, gen, others, replies, shown, lost>>

\* There is no room yet: the send is Ok.
SentNowhere ==
  /\ main = "sending" /\ ~joined
  /\ Port!Returns("main")
  /\ Sent
  /\ lost' = lost \cup ToSet(text)
  /\ UNCHANGED <<config, input, line_rx, hand, gen, others, replies, shown>>

SendFails ==
  /\ main = "sending" /\ joined
  /\ Port!Returns("main")
  /\ main' = "ended"
  /\ UNCHANGED <<config, input, line_rx, text, hand, gen, others, replies, history>>

\* line_rx.recv() returns None: main waits for incoming_loop, which goes on
\* as long as there is a chat.
Listens ==
  /\ main = "receiving" /\ line_rx = <<>> /\ stdin = "failed"
  /\ main' = "listening"
  /\ UNCHANGED <<config, input, line_rx, text, hand, gen, chat, others, replies,
                 history>>

---------------------------------------------------------------------------
(* incoming_loop and the generations.  hand is <<>> or <<message>>.         *)

\* Mutated form: the reply is awaited in the loop, not spawned.
Receives_AfterReply ==
  /\ Running
  /\ hand = <<>>
  /\ gen # "sending"
  /\ Port!NextMessage
  /\ hand' = <<Head(channel)>>
  /\ UNCHANGED <<config, main, input, line_rx, text, gen, others, replies, history>>

Receives ==
  /\ Running
  /\ hand = <<>>
  /\ Port!NextMessage
  /\ hand' = <<Head(channel)>>
  /\ UNCHANGED <<config, main, input, line_rx, text, gen, others, replies, history>>

\* An own line bears the assistant's name: it starts no reply.
Shows ==
  /\ Running
  /\ hand # <<>>
  /\ ~llm \/ hand[1].from # "other"
  /\ shown' = shown \o hand[1].text
  /\ hand' = <<>>
  /\ UNCHANGED <<config, main, input, line_rx, text, gen, chat, others, replies,
                 sent, lost>>

\* Mutated form: the generation before is not aborted.
Restarts_NoAbort ==
  /\ Running
  /\ hand # <<>>
  /\ llm /\ hand[1].from = "other"
  /\ gen' = "asking"
  /\ hand' = <<>>
  /\ UNCHANGED <<config, main, input, line_rx, text, chat, others, replies, history>>

\* The generation there is is dropped where it is, in a send as well, and a
\* new one is spawned.
Restarts ==
  /\ Running
  /\ hand # <<>>
  /\ llm /\ hand[1].from = "other"
  /\ IF gen = "sending" THEN Port!Dropped("gen") ELSE UNCHANGED chat
  /\ gen' = "asking"
  /\ hand' = <<>>
  /\ UNCHANGED <<config, main, input, line_rx, text, others, replies, history>>

GenSends ==
  /\ Running
  /\ gen = "asking"
  /\ replies < MaxReplies
  /\ replies' = replies + 1
  /\ Port!Call("gen", "send")
  /\ gen' = "sending"
  /\ UNCHANGED <<config, main, input, line_rx, text, hand, others, history>>

\* Ok: there may be more to send.
GenSent ==
  /\ Running
  /\ gen = "sending"
  /\ \/ Port!Echo("gen", Message("assistant", <<>>))
     \/ ~joined /\ Port!Returns("gen")
  /\ gen' = "asking"
  /\ UNCHANGED <<config, main, input, line_rx, text, hand, others, replies, history>>

\* The answer is complete, or the model or a send fails; main is not told.
GenEnds ==
  /\ Running
  /\ \/ gen = "asking" /\ UNCHANGED chat
     \/ gen = "sending" /\ joined /\ Port!Returns("gen")
  /\ gen' = "ended"
  /\ UNCHANGED <<config, main, input, line_rx, text, hand, others, replies, history>>

---------------------------------------------------------------------------
(* What the HubClientSession does by itself.                               *)

Broadcasts ==
  /\ Alive
  /\ Port!Broadcasts("main") \/ Port!Broadcasts("gen")
  /\ UNCHANGED <<config, main, input, line_rx, text, hand, gen, others, replies,
                 history>>

Finishes ==
  /\ Alive
  /\ \/ Port!FinishStarts("finish")
     \/ Port!JoinReturns("finish")
     \/ Port!Returns("finish")
  /\ UNCHANGED <<config, main, input, line_rx, text, hand, gen, others, replies,
                 history>>

LineArrives ==
  /\ Alive
  /\ others < MaxOthers
  /\ others' = others + 1
  /\ Port!LineArrives(Message("other", <<>>))
  /\ UNCHANGED <<config, main, input, line_rx, text, hand, gen, replies, history>>

---------------------------------------------------------------------------
Main ==
  Starts \/ StartReturns \/ ConfigFails \/ Runs \/ Sends \/ Echoed \/
  SentNowhere \/ SendFails \/ Listens

input_loop == ReadLine \/ ReadFails \/ HandLine

incoming_loop == Receives \/ Shows \/ Restarts

Generation == GenSends \/ GenSent \/ GenEnds

Next ==
  Main \/ input_loop \/ incoming_loop \/ Generation \/ Broadcasts \/ Finishes \/
  LineArrives

Spec == Init /\ [][Next]_vars

\* The runtime polls main, incoming_loop and the call of a generation when
\* they can go on, the thread hands over what it has read, and the calls are
\* served as HubClientSession!FairSpec says.  Nobody has to type, to write a
\* line or to answer.
FairSpec ==
  /\ Spec
  /\ SF_vars(Main) /\ WF_vars(HandLine)
  /\ WF_vars(incoming_loop) /\ SF_vars(GenSent)
  /\ WF_vars(Broadcasts) /\ WF_vars(Finishes)

---------------------------------------------------------------------------
(* Properties.                                                             *)

\* Type correctness of the program: main, the thread and the task agree on
\* who exists, and at most one line waits in line_rx.
TypeOK ==
  /\ mode \in {"open", "join"} /\ llm \in BOOLEAN
  /\ main \in {"starting", "awaiting", "started", "receiving", "sending",
              "listening", "ended"}
  /\ stdin \in {"unread", "open", "eof", "failed"}
  /\ buffer \in {<<>>} \cup {<<words>> : words \in Texts}
  /\ line_rx \in {<<>>} \cup {<<words>> : words \in Texts}
  /\ text \in Texts
  /\ hand \in {<<>>} \cup {<<message>> : message \in Messages}
  /\ gen \in {"none", "asking", "sending", "ended"}
  /\ gen = "sending" <=> calls["gen"] # "idle"
  /\ channel \in Seq(Messages)
  /\ typed \in 0..MaxTyped /\ others \in 0..MaxOthers /\ replies \in 0..MaxReplies
  /\ shown \in Seq(1..MaxTyped)
  /\ lost \subseteq sent /\ sent \subseteq 1..MaxTyped

\* The own lines come back in the order they were typed, each once and none
\* left out but those sent before there was a room: whatever generations
\* send, and are aborted in, in between.
Lines(messages) == UNION {ToSet(messages[i].text) : i \in DOMAIN messages}
Before(lines, later) == \A m \in lines, n \in later : m < n

InOrder(messages) ==
  \A i, j \in DOMAIN messages :
    i < j => Before(ToSet(messages[i].text), ToSet(messages[j].text))

Back == ToSet(shown) \cup Lines(hand) \cup Lines(channel)

TypedInOrder ==
  /\ \A i, j \in DOMAIN shown : i < j => shown[i] < shown[j]
  /\ InOrder(hand \o channel)
  /\ Before(ToSet(shown), Lines(hand \o channel))
  /\ Back \subseteq (1..typed) \ lost
  /\ \A n \in Back : 1..n \subseteq Back \cup lost

\* A line that was typed is sent, or the program ends: main, the generations
\* and incoming_loop never wait for one another.
TypedIsSent ==
  \A n \in 1..MaxTyped :
    (typed >= n /\ stdin = "open") ~> (n \in sent \/ main = "ended")
=============================================================================
