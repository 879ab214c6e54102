---------------------------- MODULE ContentView ----------------------------
(***************************************************************************)
(* The iOS app: ContentView (src/GuyOS/GuyOS/ContentView.swift) with its    *)
(* join sheet (JoinChatView.swift), over the one Chat it keeps while it    *)
(* runs, which is a HubClientSession.                                      *)
(*                                                                         *)
(* Everything here runs on the main actor: an action is the code between   *)
(* two awaits.  A tap only starts a Swift task (startChat, sendMessage);   *)
(* the task runs later, and its call reaches the Rust side later still.    *)
(* Cancelling a Swift task does not reach the Rust side: a receiver loop   *)
(* that waits in nextMessage waits on, and keeps its place among those who *)
(* wait for the lock of the channel.                                       *)
(*                                                                         *)
(* ticket and errorMessage are only displayed and are left out.            *)
(***************************************************************************)
EXTENDS Naturals, Sequences, FiniteSets, SequencesExt

CONSTANTS
  Capacity,     \* of the message channel, 100 in the code
  MaxStarts,    \* bound on the chats started
  MaxSends,     \* bound on the texts sent
  MaxMessages   \* bound on the messages put into the channel

ASSUME ViewAssumption ==
  /\ Capacity \in Nat \ {0}
  /\ {MaxStarts, MaxSends, MaxMessages} \subseteq Nat

VARIABLES
  sessionState,
  isJoinPresented,
  inputText,        \* there is a text in the field
  messages,         \* in the list: the number of each and who appended it
  receiverTask,     \* the receiver loop startReceiverLoop made last, or 0
  starts,           \* the tasks of startChat and the receiver loop of each
  sends,            \* the tasks of sendMessage
  waiting,          \* the receiver loops at the lock of the channel, in order
  calls, queue, joined, channel,  \* of the HubClientSession
  \* History.
  count,            \* of the messages put into the channel; numbers them
  cleared           \* the messages that were in the list when it was cleared

ui == <<sessionState, isJoinPresented>>
chat == <<calls, queue, joined, channel>>
vars == <<ui, inputText, messages, receiverTask, starts, sends, waiting, chat,
          count, cleared>>

StartCall(s) == <<"start", s>>
SendCall(u) == <<"send", u>>
Finish(s) == <<"finish", s>>

Calls == {StartCall(s) : s \in 1..MaxStarts} \cup {SendCall(u) : u \in 1..MaxSends}

Port == INSTANCE HubClientSession WITH
  Caller <- Calls,
  Finisher <- {Finish(s) : s \in 1..MaxStarts},
  Entry <- 1..MaxMessages

Init ==
  /\ sessionState = "choose"
  /\ isJoinPresented = FALSE
  /\ inputText = FALSE
  /\ messages = <<>>
  /\ receiverTask = 0
  /\ starts = <<>>
  /\ sends = <<>>
  /\ waiting = <<>>
  /\ Port!Init
  /\ count = 0
  /\ cleared = {}

---------------------------------------------------------------------------
(* The taps.                                                               *)

\* A start is "tapped", "calling" (it has run as far as its call), "awaiting"
\* (the call is under way), "ok" or "failed" (it has returned), "done".
NewStart(mode) ==
  /\ Len(starts) < MaxStarts
  /\ starts' = Append(starts,
       [mode |-> mode, phase |-> "tapped", receiver |-> "none",
        isCancelled |-> FALSE, hand |-> 0, late |-> 0])

TapStart ==
  /\ sessionState = "choose" /\ ~isJoinPresented
  /\ NewStart("open")
  /\ UNCHANGED <<ui, inputText, messages, receiverTask, sends, waiting, chat,
                 count, cleared>>

\* The sheet stays where it is when a start that was under way succeeds.
TapJoin ==
  /\ sessionState = "choose" /\ ~isJoinPresented
  /\ isJoinPresented' = TRUE
  /\ UNCHANGED <<sessionState, inputText, messages, receiverTask, starts, sends,
                 waiting, chat, count, cleared>>

DismissSheet ==
  /\ isJoinPresented
  /\ isJoinPresented' = FALSE
  /\ UNCHANGED <<sessionState, inputText, messages, receiverTask, sends,
                 waiting, chat, count, cleared>>

CancelJoin == DismissSheet /\ UNCHANGED starts
SubmitJoin == DismissSheet /\ NewStart("join")

Clear ==
  /\ messages' = <<>>
  /\ cleared' = cleared \cup {messages[i].n : i \in DOMAIN messages}

\* receiverTask?.cancel()
CancelReceiver(all) ==
  [s \in DOMAIN all |->
     IF s = receiverTask THEN [all[s] EXCEPT !.isCancelled = TRUE] ELSE all[s]]

\* Mutated form: the loop is forgotten, not cancelled.
leaveChat_KeepsLoop ==
  /\ sessionState = "chatting" /\ ~isJoinPresented
  /\ receiverTask' = 0
  /\ Clear
  /\ inputText' = FALSE
  /\ sessionState' = "choose"
  /\ UNCHANGED <<isJoinPresented, starts, sends, waiting, chat, count>>

\* The room is not left: there is no such call.
leaveChat ==
  /\ sessionState = "chatting" /\ ~isJoinPresented
  /\ starts' = CancelReceiver(starts)
  /\ receiverTask' = 0
  /\ Clear
  /\ inputText' = FALSE
  /\ sessionState' = "choose"
  /\ UNCHANGED <<isJoinPresented, sends, waiting, chat, count>>

Type ==
  /\ sessionState = "chatting" /\ ~isJoinPresented
  /\ ~inputText
  /\ inputText' = TRUE
  /\ UNCHANGED <<ui, messages, receiverTask, starts, sends, waiting, chat,
                 count, cleared>>

\* Bound: a number is left for what every send under way may put.
UnderWay == {u \in DOMAIN sends : sends[u] \in {"tapped", "calling", "awaiting"}}
MayPut == count + Cardinality(UnderWay) < MaxMessages

TapSend ==
  /\ sessionState = "chatting" /\ ~isJoinPresented
  /\ inputText
  /\ Len(sends) < MaxSends /\ MayPut
  /\ sends' = Append(sends, "tapped")
  /\ UNCHANGED <<ui, inputText, messages, receiverTask, starts, waiting, chat,
                 count, cleared>>

---------------------------------------------------------------------------
(* startChat.                                                              *)

StartIs(s, phase) == s \in DOMAIN starts /\ starts[s].phase = phase

SetStart(s, phase) == starts' = [starts EXCEPT ![s].phase = phase]

RunStart(s) ==
  /\ StartIs(s, "tapped")
  /\ starts' = [CancelReceiver(starts) EXCEPT ![s].phase = "calling"]
  /\ receiverTask' = 0
  /\ Clear
  /\ inputText' = FALSE
  /\ UNCHANGED <<ui, sends, waiting, chat, count>>

StartCalls(s) ==
  /\ StartIs(s, "calling")
  /\ Port!Call(StartCall(s), starts[s].mode)
  /\ SetStart(s, "awaiting")
  /\ UNCHANGED <<ui, inputText, messages, receiverTask, sends, waiting, count,
                 cleared>>

\* The call returns: the ticket, success, or an error.
StartReturned(s) ==
  /\ \/ Port!OpenReturns(StartCall(s), Finish(s)) /\ SetStart(s, "ok")
     \/ Port!JoinReturns(StartCall(s)) /\ SetStart(s, "ok")
     \/ Port!JoinReturns(StartCall(s)) /\ SetStart(s, "failed")
     \/ Port!Returns(StartCall(s)) /\ SetStart(s, "failed")
  /\ UNCHANGED <<ui, inputText, messages, receiverTask, sends, waiting, count,
                 cleared>>

\* Mutated form: startReceiverLoop leaves the loop there is running.
StartSucceeds_KeepsLoop(s) ==
  /\ StartIs(s, "ok")
  /\ sessionState' = "chatting"
  /\ starts' = [starts EXCEPT ![s].phase = "done", ![s].receiver = "ready"]
  /\ receiverTask' = s
  /\ UNCHANGED <<isJoinPresented, inputText, messages, sends, waiting, chat,
                 count, cleared>>

\* The task is resumed, whatever the user has done since: the app shows the
\* chat and startReceiverLoop replaces the loop there is.
StartSucceeds(s) ==
  /\ StartIs(s, "ok")
  /\ sessionState' = "chatting"
  /\ starts' = [CancelReceiver(starts) EXCEPT ![s].phase = "done",
                                              ![s].receiver = "ready"]
  /\ receiverTask' = s
  /\ UNCHANGED <<isJoinPresented, inputText, messages, sends, waiting, chat,
                 count, cleared>>

\* An error is shown; no receiver loop takes the place of the one cancelled.
StartFails(s) ==
  /\ StartIs(s, "failed")
  /\ SetStart(s, "done")
  /\ UNCHANGED <<ui, inputText, messages, receiverTask, sends, waiting, chat,
                 count, cleared>>

---------------------------------------------------------------------------
(* sendMessage.                                                            *)

SendIs(u, phase) == u \in DOMAIN sends /\ sends[u] = phase

RunSend(u) ==
  /\ SendIs(u, "tapped")
  /\ sends' = [sends EXCEPT ![u] = IF inputText THEN "calling" ELSE "done"]
  /\ UNCHANGED <<ui, inputText, messages, receiverTask, starts, waiting, chat,
                 count, cleared>>

SendCalls(u) ==
  /\ SendIs(u, "calling")
  /\ Port!Call(SendCall(u), "send")
  /\ sends' = [sends EXCEPT ![u] = "awaiting"]
  /\ UNCHANGED <<ui, inputText, messages, receiverTask, starts, waiting, count,
                 cleared>>

\* Without a room the call returns Ok.
SendReturned(u) ==
  /\ \/ /\ Port!Returns(SendCall(u))
        /\ sends' = [sends EXCEPT ![u] = IF joined THEN "failed" ELSE "ok"]
        /\ UNCHANGED count
     \/ /\ Port!Echo(SendCall(u), count + 1)
        /\ sends' = [sends EXCEPT ![u] = "ok"]
        /\ count' = count + 1
  /\ UNCHANGED <<ui, inputText, messages, receiverTask, starts, waiting, cleared>>

SendBroadcasts(u) ==
  /\ Port!Broadcasts(SendCall(u))
  /\ UNCHANGED <<ui, inputText, messages, receiverTask, starts, sends, waiting,
                 count, cleared>>

\* The field is emptied, whatever is in it by now.
SendEnds(u) ==
  /\ SendIs(u, "ok") \/ SendIs(u, "failed")
  /\ inputText' = (inputText /\ sends[u] = "failed")
  /\ sends' = [sends EXCEPT ![u] = "done"]
  /\ UNCHANGED <<ui, messages, receiverTask, starts, waiting, chat, count,
                 cleared>>

---------------------------------------------------------------------------
(* The receiver loop a start has made.                                     *)

Loop(s, state) == s \in DOMAIN starts /\ starts[s].receiver = state

\* Mutated form: the loop does not look whether it is cancelled.
LoopChecks_Not(s) ==
  /\ Loop(s, "ready")
  /\ starts' = [starts EXCEPT ![s].receiver = "calling"]
  /\ UNCHANGED <<ui, inputText, messages, receiverTask, sends, waiting, chat,
                 count, cleared>>

\* while !Task.isCancelled
LoopChecks(s) ==
  /\ Loop(s, "ready")
  /\ starts' = [starts EXCEPT ![s].receiver =
                  IF starts[s].isCancelled THEN "ended" ELSE "calling"]
  /\ UNCHANGED <<ui, inputText, messages, receiverTask, sends, waiting, chat,
                 count, cleared>>

LoopAsks(s) ==
  /\ Loop(s, "calling")
  /\ starts' = [starts EXCEPT ![s].receiver = "waiting"]
  /\ waiting' = Append(waiting, s)
  /\ UNCHANGED <<ui, inputText, messages, receiverTask, sends, chat, count,
                 cleared>>

\* nextMessage returns to the first of those who wait.
LoopReceives(s) ==
  /\ Loop(s, "waiting") /\ Head(waiting) = s
  /\ Port!NextMessage
  /\ starts' = [starts EXCEPT ![s].receiver = "appending",
                              ![s].hand = Head(channel)]
  /\ waiting' = Tail(waiting)
  /\ UNCHANGED <<ui, inputText, messages, receiverTask, sends, count, cleared>>

\* Mutated form: a cancelled loop throws away what it received.
LoopAppends_Drops(s) ==
  /\ Loop(s, "appending")
  /\ messages' = IF starts[s].isCancelled THEN messages
                 ELSE Append(messages, [n |-> starts[s].hand, by |-> s])
  /\ starts' = [starts EXCEPT ![s].receiver = "ready", ![s].hand = 0]
  /\ UNCHANGED <<ui, inputText, receiverTask, sends, waiting, chat, count,
                 cleared>>

\* Mutated form: if let in place of while let.
LoopAppends_Ends(s) ==
  /\ Loop(s, "appending")
  /\ messages' = Append(messages, [n |-> starts[s].hand, by |-> s])
  /\ starts' = [starts EXCEPT ![s].receiver = "ended", ![s].hand = 0]
  /\ UNCHANGED <<ui, inputText, receiverTask, sends, waiting, chat, count,
                 cleared>>

\* The message goes into the list, also when the loop is cancelled by now.
LoopAppends(s) ==
  /\ Loop(s, "appending")
  /\ messages' = Append(messages, [n |-> starts[s].hand, by |-> s])
  /\ starts' = [starts EXCEPT ![s].receiver = "ready", ![s].hand = 0,
       ![s].late = @ + (IF starts[s].isCancelled THEN 1 ELSE 0)]
  /\ UNCHANGED <<ui, inputText, receiverTask, sends, waiting, chat, count,
                 cleared>>

---------------------------------------------------------------------------
(* What the HubClientSession does by itself.                               *)

\* The task an open left behind joins the room, or fails to.
Finishes(s) ==
  /\ \/ Port!FinishStarts(Finish(s))
     \/ Port!JoinReturns(Finish(s))
     \/ Port!Returns(Finish(s))
  /\ UNCHANGED <<ui, inputText, messages, receiverTask, starts, sends, waiting,
                 count, cleared>>

LineArrives ==
  /\ MayPut
  /\ Port!LineArrives(count + 1)
  /\ count' = count + 1
  /\ UNCHANGED <<ui, inputText, messages, receiverTask, starts, sends, waiting,
                 cleared>>

---------------------------------------------------------------------------
Taps ==
  TapStart \/ TapJoin \/ CancelJoin \/ SubmitJoin \/ leaveChat \/ Type \/ TapSend

startChat(s) ==
  RunStart(s) \/ StartCalls(s) \/ StartReturned(s) \/ StartSucceeds(s) \/
  StartFails(s)

sendMessage(u) ==
  RunSend(u) \/ SendCalls(u) \/ SendBroadcasts(u) \/ SendReturned(u) \/
  SendEnds(u)

ReceiverLoop(s) ==
  LoopChecks(s) \/ LoopAsks(s) \/ LoopReceives(s) \/ LoopAppends(s)

Next ==
  \/ Taps
  \/ \E s \in 1..MaxStarts : startChat(s) \/ ReceiverLoop(s) \/ Finishes(s)
  \/ \E u \in 1..MaxSends : sendMessage(u)
  \/ LineArrives

Spec == Init /\ [][Next]_vars

\* Swift resumes every task that can go on, and the calls are served as
\* HubClientSession!FairSpec says.  Nobody has to tap or to write a line.
FairSpec ==
  /\ Spec
  /\ \A s \in 1..MaxStarts :
       WF_vars(startChat(s)) /\ WF_vars(ReceiverLoop(s)) /\ WF_vars(Finishes(s))
  /\ \A u \in 1..MaxSends : SF_vars(sendMessage(u))

---------------------------------------------------------------------------
(* Properties.                                                             *)

Start ==
  [mode : {"open", "join"},
   phase : {"tapped", "calling", "awaiting", "ok", "failed", "done"},
   receiver : {"none", "ready", "calling", "waiting", "appending", "ended"},
   isCancelled : BOOLEAN, hand : 0..MaxMessages, late : Nat]

\* Type correctness of the app, with the bound of the channel.
TypeOK ==
  /\ sessionState \in {"choose", "chatting"}
  /\ isJoinPresented \in BOOLEAN
  /\ inputText \in BOOLEAN
  /\ messages \in Seq([n : 1..MaxMessages, by : 1..MaxStarts])
  /\ receiverTask \in 0..MaxStarts
  /\ starts \in Seq(Start)
  /\ sends \in Seq({"tapped", "calling", "awaiting", "ok", "failed", "done"})
  /\ waiting \in Seq(1..MaxStarts)
  /\ channel \in Seq(1..MaxMessages)
  /\ Len(channel) <= Capacity
  /\ count \in 0..MaxMessages
  /\ cleared \subseteq 1..MaxMessages

\* However starts, joins and leaves overlap, no more than one receiver loop
\* goes on reading, and it is the one the app can still cancel.
OneReceiver ==
  \A s \in DOMAIN starts :
    starts[s].receiver # "none" /\ ~starts[s].isCancelled => s = receiverTask

\* A loop appends at most one message after it was cancelled, the one it was
\* waiting for or was about to wait for (ContentView.swift:142).
OneLateMessage == \A s \in DOMAIN starts : starts[s].late <= 1

\* A message taken from the channel reaches the list, once, by whichever
\* loop: a loop of an earlier chat that takes a line of this one shows it.
Held == {starts[s].hand : s \in DOMAIN starts} \ {0}
Shown == {messages[i].n : i \in DOMAIN messages}

NoMessageLost ==
  /\ ToSet(channel) \cup Held \cup Shown \cup cleared = 1..count
  /\ Len(channel) + Cardinality(Held) + Len(messages) + Cardinality(cleared)
       = count

\* The list is in the order of the channel, but for the one message each of
\* the loops of earlier chats may still append.
ListInOrder ==
  \A i, j \in DOMAIN messages :
    i < j /\ messages[i].n > messages[j].n =>
      starts[messages[i].by].late + starts[messages[j].by].late > 0

\* A send holds the backend before a full channel; the app has cancelled its
\* receiver loop, and none is left that waits or is about to be made.
Wedged ==
  /\ \E u \in 1..MaxSends : calls[SendCall(u)] = "echo"
  /\ Len(channel) = Capacity
  /\ receiverTask = 0
  /\ \A s \in DOMAIN starts :
       starts[s].phase # "ok" /\ starts[s].receiver \notin {"calling", "waiting"}

\* Every call of the app ends, whatever the user taps and whenever, unless
\* the app is wedged.
CallsEnd == \A t \in Calls : calls[t] # "idle" ~> calls[t] = "idle" \/ Wedged

\* Chat (adapters/inbound/chat.rs): a full buffer holds the receive loop up,
\* and nothing else.  A chat that is started comes to an end, good or bad.
StartReturns ==
  \A s \in 1..MaxStarts :
    StartIs(s, "awaiting") ~> ~StartIs(s, "awaiting")
=============================================================================
