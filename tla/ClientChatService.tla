------------------------- MODULE ClientChatService -------------------------
(***************************************************************************)
(* The running chat client: ClientChatService                              *)
(* (src/guyos_core/src/application/client_chat_service.rs) over the iroh    *)
(* gossip backend                                                          *)
(* (src/guyos_core/src/adapters/outbound/iroh_gossip_relay_backend.rs).     *)
(*                                                                         *)
(* open, join and send are calls of concurrent tasks.  Each locks the      *)
(* backend and keeps the lock across its awaits; open returns and leaves a *)
(* spawned task behind that finishes the join.  Each join spawns a         *)
(* subscribe_loop that reads the gossip of its topic and, like send, puts  *)
(* lines into the bounded channel that next_message reads.                 *)
(*                                                                         *)
(* One action is the code between two awaits at which other tasks can      *)
(* interfere; an await under the backend lock that touches nothing shared  *)
(* with the loops is part of the action around it.  The tokio mutex is     *)
(* FIFO: its queue holds the tasks in the order they asked, the head has   *)
(* it.  The gossip network and the peers are external.                     *)
(***************************************************************************)
EXTENDS Naturals, Sequences, FiniteSets, SequencesExt

CONSTANTS
  Caller,     \* tasks that call the service, one call at a time
  Abortable,  \* those whose send the program may abort (the LLM relay)
  Fresh,      \* the topics this client's opens create
  Foreign,    \* the topics of tickets it was given
  Line,       \* chat lines, own and of peers; a nonce makes each unique
  Peer,       \* the other members of the rooms
  Named,      \* the client has a display name
  Capacity,   \* of the message channel, 100 in the code
  MaxLoops    \* bound on the joins

Topic == Fresh \cup Foreign

\* The task spawned by the open that created a topic goes by the topic.
Task == Caller \cup Fresh

None == "none"
BadTicket == "bad_ticket"

ASSUME ClientAssumption ==
  /\ Caller \cap Topic = {} /\ Fresh \cap Foreign = {}
  /\ Abortable \subseteq Caller
  /\ Named \in BOOLEAN
  /\ Capacity \in Nat \ {0}
  /\ MaxLoops \in Nat
  /\ None \notin Topic \cup Line /\ BadTicket \notin Topic

VARIABLES
  op,             \* what each task is doing
  arg,            \* the ticket, topic or line it does it with
  queue,          \* the backend mutex: the holder, then those waiting
  bound,          \* endpoint, gossip and router exist
  sender,         \* the topic of the GossipSender
  pending_topic,  \* created by an open, not joined yet
  loops,          \* the receiver of each join, with its subscribe_loop
  names,          \* the peers whose name is known
  channel,        \* the message channel
  \* History: read by properties, and to keep nonces and topics fresh.
  used,           \* lines and topics that exist
  broadcast,      \* the own lines handed to the gossip, in order
  put,            \* everything ever put into the channel, in order
  accepted,       \* the lines whose send returned Ok
  halfway         \* a join failed after it had set the sender

vars == <<op, arg, queue, bound, sender, pending_topic, loops, names, channel,
          used, broadcast, put, accepted, halfway>>

calls == <<op, arg, queue>>
backend == <<bound, sender, pending_topic>>
history == <<used, broadcast, put, accepted, halfway>>

Init ==
  /\ op = [t \in Task |-> "idle"]
  /\ arg = [t \in Task |-> None]
  /\ queue = <<>>
  /\ bound = FALSE
  /\ sender = None
  /\ pending_topic = None
  /\ loops = <<>>
  /\ names = {}
  /\ channel = <<>>
  /\ used = {}
  /\ broadcast = <<>>
  /\ put = <<>>
  /\ accepted = {}
  /\ halfway = FALSE

---------------------------------------------------------------------------
(* The mutex and the calls.                                                *)

Holds(t) == queue # <<>> /\ Head(queue) = t

\* Mutated form: a newcomer passes those who wait.
Begin_Barging(t, what, with) ==
  /\ op[t] = "idle"
  /\ op' = [op EXCEPT ![t] = what]
  /\ arg' = [arg EXCEPT ![t] = with]
  /\ queue' = IF queue = <<>> THEN <<t>>
              ELSE <<Head(queue), t>> \o Tail(queue)

\* Task t polls its call for the first time and asks for the backend.
Begin(t, what, with) ==
  /\ op[t] = "idle"
  /\ op' = [op EXCEPT ![t] = what]
  /\ arg' = [arg EXCEPT ![t] = with]
  /\ queue' = Append(queue, t)

\* The holder goes on to another step of its call.
Step(t, what, with) ==
  /\ op' = [op EXCEPT ![t] = what]
  /\ arg' = [arg EXCEPT ![t] = with]
  /\ UNCHANGED queue

\* The call returns, or is dropped, and with it the guard of the mutex.
Return(t) ==
  /\ op' = [op EXCEPT ![t] = "idle"]
  /\ arg' = [arg EXCEPT ![t] = None]
  /\ \E i \in DOMAIN queue : queue[i] = t /\ queue' = RemoveAt(queue, i)

Busy(whats) == {t \in Task : op[t] \in whats}

\* Bound: the loops there are, and those the calls under way may add.
MayJoin ==
  Len(loops) +
    Cardinality(Busy({"open", "spawned", "finish", "join", "joining"})) < MaxLoops

\* Bound: a topic is left for every open.
Open(t) ==
  /\ MayJoin
  /\ Cardinality(Busy({"open"})) < Cardinality(Fresh \ used)
  /\ Begin(t, "open", None)
  /\ UNCHANGED <<backend, loops, names, channel, history>>

Join(t, ticket) ==
  /\ \/ ticket = BadTicket
     \/ MayJoin /\ ticket \in Foreign \cup (Fresh \cap used)
  /\ Begin(t, "join", ticket)
  /\ UNCHANGED <<backend, loops, names, channel, history>>

\* Both programs send once open or join has returned Ok, and not before.
Send(t, line) ==
  /\ Fresh \cap used # {} \/ sender # None
  /\ line \notin used
  /\ used' = used \cup {line}
  /\ Begin(t, "send", line)
  /\ UNCHANGED <<backend, loops, names, channel, broadcast, put, accepted,
                 halfway>>

---------------------------------------------------------------------------
(* open.                                                                   *)

\* begin_open_room creates the topic, whatever is pending; open unlocks,
\* spawns the finishing task and returns the ticket, without an await.
BeginOpenRoom(t, topic) ==
  /\ Holds(t) /\ op[t] = "open"
  /\ topic \in Fresh \ used
  /\ bound' = TRUE
  /\ pending_topic' = topic
  /\ used' = used \cup {topic}
  /\ op' = [op EXCEPT ![t] = "idle", ![topic] = "spawned"]
  /\ queue' = Tail(queue)
  /\ UNCHANGED <<arg, sender, loops, names, channel, broadcast, put, accepted,
                 halfway>>

\* ensure_stack: the endpoint does not bind; open and join return an error.
BindFails(t) ==
  /\ Holds(t) /\ op[t] \in {"open", "join"}
  /\ arg[t] # BadTicket
  /\ ~bound
  /\ Return(t)
  /\ UNCHANGED <<backend, loops, names, channel, history>>

FinishStarts(topic) ==
  /\ op[topic] = "spawned"
  /\ op' = [op EXCEPT ![topic] = "finish"]
  /\ queue' = Append(queue, topic)
  /\ UNCHANGED <<arg, backend, loops, names, channel, history>>

\* finish_open_join_pending takes the topic that is pending now.
FinishTakes(t) ==
  /\ Holds(t) /\ op[t] = "finish"
  /\ pending_topic # None
  /\ Step(t, "joining", pending_topic)
  /\ pending_topic' = None
  /\ UNCHANGED <<bound, sender, loops, names, channel, history>>

\* Nothing is pending: the error is dropped with the task.
FinishFindsNone(t) ==
  /\ Holds(t) /\ op[t] = "finish"
  /\ pending_topic = None
  /\ Return(t)
  /\ UNCHANGED <<backend, loops, names, channel, history>>

---------------------------------------------------------------------------
(* join, and the second half of open.                                      *)

TicketRejected(t) ==
  /\ Holds(t) /\ op[t] = "join"
  /\ arg[t] = BadTicket
  /\ Return(t)
  /\ UNCHANGED <<backend, loops, names, channel, history>>

JoinRoom(t) ==
  /\ Holds(t) /\ op[t] = "join"
  /\ arg[t] # BadTicket
  /\ Step(t, "joining", arg[t])
  /\ bound' = TRUE
  /\ UNCHANGED <<sender, pending_topic, loops, names, channel, history>>

\* subscribe_and_join returns an error.
JoinFails(t) ==
  /\ Holds(t) /\ op[t] = "joining"
  /\ Return(t)
  /\ UNCHANGED <<backend, loops, names, channel, history>>

NewLoop(topic) ==
  [topic |-> topic, alive |-> TRUE, events |-> <<>>, hand |-> None,
   from |-> None, delivered |-> <<>>]

\* Mutated form: the receiver is dropped, no loop is spawned.
Joined_NoLoop(t) ==
  /\ Holds(t) /\ op[t] = "joining"
  /\ sender' = arg[t]
  /\ Return(t)
  /\ UNCHANGED <<bound, pending_topic, loops, names, channel, history>>

\* subscribe_and_join has found a peer.  The sender is replaced, the name
\* announced and the loop spawned; the loops of earlier joins keep running.
Joined(t) ==
  /\ Holds(t) /\ op[t] = "joining"
  /\ sender' = arg[t]
  /\ loops' = Append(loops, NewLoop(arg[t]))
  /\ Return(t)
  /\ UNCHANGED <<bound, pending_topic, names, channel, history>>

\* The sender is replaced already when the broadcast of AboutMe fails: the
\* call returns the error and drops the receiver.
AnnounceFails(t) ==
  /\ Holds(t) /\ op[t] = "joining"
  /\ Named
  /\ sender' = arg[t]
  /\ halfway' = TRUE
  /\ Return(t)
  /\ UNCHANGED <<bound, pending_topic, loops, names, channel, used, broadcast,
                 put, accepted>>

---------------------------------------------------------------------------
(* send.                                                                   *)

\* Without a sender the line goes nowhere and the call returns Ok.
SendWithoutRoom(t) ==
  /\ Holds(t) /\ op[t] = "send"
  /\ sender = None
  /\ accepted' = accepted \cup {arg[t]}
  /\ Return(t)
  /\ UNCHANGED <<backend, loops, names, channel, used, broadcast, put,
                 halfway>>

SendFails(t) ==
  /\ Holds(t) /\ op[t] = "send"
  /\ sender # None
  /\ Return(t)
  /\ UNCHANGED <<backend, loops, names, channel, history>>

\* Mutated form: the lock passes on before the line is echoed.
Broadcast_Unlocks(t) ==
  /\ Holds(t) /\ op[t] = "send"
  /\ sender # None
  /\ broadcast' = Append(broadcast, [topic |-> sender, line |-> arg[t]])
  /\ op' = [op EXCEPT ![t] = "echo"]
  /\ queue' = Append(Tail(queue), t)
  /\ UNCHANGED <<arg, backend, loops, names, channel, used, put, accepted,
                 halfway>>

Broadcast(t) ==
  /\ Holds(t) /\ op[t] = "send"
  /\ sender # None
  /\ broadcast' = Append(broadcast, [topic |-> sender, line |-> arg[t]])
  /\ Step(t, "echo", arg[t])
  /\ UNCHANGED <<backend, loops, names, channel, used, put, accepted, halfway>>

\* loop is the index of the receiver the line came from, 0 for an own line.
Chat(line, from, loop) == [line |-> line, from |-> from, loop |-> loop]

\* Mutated form: an unbounded channel.
Put_Unbounded(message) ==
  /\ channel' = Append(channel, message)
  /\ put' = Append(put, message)

Put(message) ==
  /\ Len(channel) < Capacity
  /\ channel' = Append(channel, message)
  /\ put' = Append(put, message)

Echo(t) ==
  /\ op[t] = "echo"
  /\ Put(Chat(arg[t], IF Named THEN "name" ELSE "id", 0))
  /\ accepted' = accepted \cup {arg[t]}
  /\ Return(t)
  /\ UNCHANGED <<backend, loops, names, used, broadcast, halfway>>

\* main.rs aborts the generation a newer message replaces; the send it is
\* in, waiting for the lock or for the channel, is dropped where it is.
Abort(t) ==
  /\ t \in Abortable
  /\ op[t] \in {"send", "echo"}
  /\ Return(t)
  /\ UNCHANGED <<backend, loops, names, channel, history>>

---------------------------------------------------------------------------
(* The gossip, the subscribe_loops and next_message.                       *)

AboutMe(peer) == [kind |-> "AboutMe", peer |-> peer, line |-> None]
Message(peer, line) == [kind |-> "Message", peer |-> peer, line |-> line]
\* Another gossip event, or content that is no Message.
Other == [kind |-> "Other", peer |-> None, line |-> None]

Receivers(topic) ==
  {l \in DOMAIN loops : loops[l].topic = topic /\ loops[l].alive}

\* The gossip hands an event of a topic to every receiver of the topic.
Deliver(topic, event) ==
  /\ Receivers(topic) # {}
  /\ loops' = [l \in DOMAIN loops |->
       IF l \in Receivers(topic)
       THEN [loops[l] EXCEPT !.events = Append(@, event),
                             !.delivered = Append(@, event)]
       ELSE loops[l]]
  /\ UNCHANGED <<calls, backend, names, channel, broadcast, put, accepted,
                 halfway>>

PeerSends(topic, peer, line) ==
  /\ line \notin used
  /\ used' = used \cup {line}
  /\ Deliver(topic, Message(peer, line))

\* Bound: each of the other events reaches a receiver once.
OtherThanLine(topic, event) ==
  /\ \A l \in Receivers(topic) : event \notin ToSet(loops[l].delivered)
  /\ UNCHANGED used
  /\ Deliver(topic, event)

\* The stream of the receiver is over, or failed.
LoopEnds(l) ==
  /\ loops[l].alive /\ loops[l].events = <<>> /\ loops[l].hand = None
  /\ loops' = [loops EXCEPT ![l].alive = FALSE]
  /\ UNCHANGED <<calls, backend, names, channel, history>>

\* The loop is at try_next.
AtEvent(l, kind) ==
  /\ loops[l].hand = None
  /\ loops[l].events # <<>>
  /\ Head(loops[l].events).kind = kind

LoopAboutMe(l) ==
  /\ AtEvent(l, "AboutMe")
  /\ names' = names \cup {Head(loops[l].events).peer}
  /\ loops' = [loops EXCEPT ![l].events = Tail(@)]
  /\ UNCHANGED <<calls, backend, channel, history>>

\* Mutated form: the names are not looked up.
NameOf_Unknown(peer) == "id"

NameOf(peer) == IF peer \in names THEN "name" ELSE "id"

LoopMessage(l) ==
  /\ AtEvent(l, "Message")
  /\ loops' = [loops EXCEPT ![l].events = Tail(@),
                            ![l].hand = Head(loops[l].events).line,
                            ![l].from = NameOf(Head(loops[l].events).peer)]
  /\ UNCHANGED <<calls, backend, names, channel, history>>

LoopOther(l) ==
  /\ AtEvent(l, "Other")
  /\ loops' = [loops EXCEPT ![l].events = Tail(@)]
  /\ UNCHANGED <<calls, backend, names, channel, history>>

EmptyHand(l) ==
  loops' = [loops EXCEPT ![l].hand = None, ![l].from = None]

\* Mutated form: a line the channel has no room for is dropped.
LoopPuts_TrySend(l) ==
  /\ loops[l].hand # None
  /\ IF Len(channel) < Capacity
     THEN Put(Chat(loops[l].hand, loops[l].from, l))
     ELSE UNCHANGED <<channel, put>>
  /\ EmptyHand(l)
  /\ UNCHANGED <<calls, backend, names, used, broadcast, accepted, halfway>>

\* The send to the channel waits for a place.
LoopPuts(l) ==
  /\ loops[l].hand # None
  /\ Put(Chat(loops[l].hand, loops[l].from, l))
  /\ EmptyHand(l)
  /\ UNCHANGED <<calls, backend, names, used, broadcast, accepted, halfway>>

\* next_message, one caller after the other under the lock of the receiver.
NextMessage ==
  /\ channel # <<>>
  /\ channel' = Tail(channel)
  /\ UNCHANGED <<calls, backend, loops, names, history>>

---------------------------------------------------------------------------
CallSteps(t) ==
  \/ \E topic \in Fresh : BeginOpenRoom(t, topic)
  \/ BindFails(t) \/ TicketRejected(t) \/ JoinRoom(t)
  \/ FinishTakes(t) \/ FinishFindsNone(t)
  \/ SendWithoutRoom(t) \/ SendFails(t) \/ Broadcast(t)

JoinEnds(t) == Joined(t) \/ JoinFails(t) \/ AnnounceFails(t)

LoopReads(l) == LoopAboutMe(l) \/ LoopMessage(l) \/ LoopOther(l)

Next ==
  \/ \E t \in Caller :
       \/ Open(t)
       \/ \E ticket \in Topic \cup {BadTicket} : Join(t, ticket)
       \/ \E line \in Line : Send(t, line)
       \/ Abort(t)
  \/ \E t \in Task : CallSteps(t) \/ JoinEnds(t) \/ Echo(t)
  \/ \E topic \in Fresh : FinishStarts(topic)
  \/ \E topic \in Topic :
       \/ \E peer \in Peer, line \in Line : PeerSends(topic, peer, line)
       \/ \E event \in {AboutMe(peer) : peer \in Peer} \cup {Other} :
            OtherThanLine(topic, event)
  \/ \E l \in DOMAIN loops : LoopEnds(l) \/ LoopReads(l) \/ LoopPuts(l)
  \/ NextMessage

Spec == Init /\ [][Next]_vars

\* The runtime polls every task that can go on, and its mutex and channel
\* are fair to those who wait.  What the program does not guarantee is
\* assumed: subscribe_and_join ends, and someone calls next_message.
LiveSpec ==
  /\ Spec
  /\ \A t \in Task :
       WF_vars(CallSteps(t)) /\ WF_vars(JoinEnds(t)) /\ SF_vars(Echo(t))
  /\ \A topic \in Fresh : WF_vars(FinishStarts(topic))
  /\ \A l \in 1..MaxLoops :
       /\ WF_vars(l \in DOMAIN loops /\ LoopReads(l))
       /\ SF_vars(l \in DOMAIN loops /\ LoopPuts(l))
  /\ WF_vars(NextMessage)

---------------------------------------------------------------------------
(* Properties.                                                             *)

Event ==
  {AboutMe(peer) : peer \in Peer} \cup {Other} \cup
  {Message(peer, line) : peer \in Peer, line \in Line}

Loop ==
  [topic : Topic, alive : BOOLEAN, events : Seq(Event),
   hand : Line \cup {None}, from : {"name", "id", None}, delivered : Seq(Event)]

Chats == [line : Line, from : {"name", "id"}, loop : 0..MaxLoops]

\* Type correctness of the client, with the bound of the channel and the
\* ownership of the mutex: nobody is in the middle of a call without it.
TypeOK ==
  /\ op \in [Task -> {"idle", "open", "spawned", "finish", "join", "joining",
                     "send", "echo"}]
  /\ arg \in [Task -> Topic \cup Line \cup {None, BadTicket}]
  /\ queue \in Seq(Task)
  /\ bound \in BOOLEAN
  /\ sender \in Topic \cup {None}
  /\ pending_topic \in Fresh \cup {None}
  /\ loops \in Seq(Loop)
  /\ Len(loops) <= MaxLoops
  /\ names \subseteq Peer
  /\ channel \in Seq(Chats)
  /\ Len(channel) <= Capacity
  /\ used \subseteq Line \cup Fresh
  /\ broadcast \in Seq([topic : Topic, line : Line])
  /\ put \in Seq(Chats)
  /\ accepted \subseteq Line
  /\ halfway \in BOOLEAN

Lines(records) == [i \in DOMAIN records |-> records[i].line]
Messages(events) == Lines(SelectSeq(events, LAMBDA e : e.kind = "Message"))

\* Own lines put at i and j, the same or in this order, were handed to the
\* gossip in this order, among the first n.
EchoOf(n, i, j) ==
  \E k, m \in 1..n :
    /\ broadcast[k].line = put[i].line /\ broadcast[m].line = put[j].line
    /\ k <= m /\ (i < j => k < m)

Echoed(n) ==
  \A i, j \in DOMAIN put :
    put[i].loop = 0 /\ put[j].loop = 0 /\ i <= j => EchoOf(n, i, j)

\* send echoes its line under the lock it broadcast it under: the user sees
\* the own lines in the order the room does, and none that was not sent.
EchoesInOrder == Echoed(Len(broadcast))

\* The message with this line is at d of what the loop was handed.
LineAt(loop, d, line) ==
  /\ d \in DOMAIN loop.delivered
  /\ loop.delivered[d].kind = "Message" /\ loop.delivered[d].line = line

\* How much of what it was handed a loop has read.
Read(loop) == Len(loop.delivered) - Len(loop.events)

\* What a loop was handed is yet to be read, in its hand, or was put into
\* the channel once, in the order it was handed.
Conveyed(loop, l) ==
  LET own == {i \in DOMAIN put : put[i].loop = l}
      read == 1..Read(loop)
  IN  /\ loop.events = SubSeq(loop.delivered, Read(loop) + 1, Len(loop.delivered))
      /\ \A d \in read : loop.delivered[d].kind = "Message" =>
           \/ loop.delivered[d].line = loop.hand
           \/ \E i \in own : put[i].line = loop.delivered[d].line
      /\ \A i \in own : \E d \in read : LineAt(loop, d, put[i].line)
      /\ \A i \in own, d, e \in read : LineAt(loop, d, put[i].line) =>
           /\ LineAt(loop, e, loop.hand) => d < e
           /\ \A j \in own : i < j /\ LineAt(loop, e, put[j].line) => d < e

\* A full channel holds a subscribe_loop up, it loses and reorders nothing.
NoLineDropped == \A l \in DOMAIN loops : Conveyed(loops[l], l)

Announced(peer) ==
  \E l \in DOMAIN loops : AboutMe(peer) \in ToSet(loops[l].delivered)

\* How a loop may show the peer of a line it was handed.
ShownAs(loop, line, from) ==
  \A d \in DOMAIN loop.delivered : LineAt(loop, d, line) =>
    LET peer == loop.delivered[d].peer
    IN  /\ (\E e \in 1..d : loop.delivered[e] = AboutMe(peer)) => from = "name"
        /\ from = "name" => Announced(peer)

\* A line whose sender had announced itself before it shows the name; a name
\* is shown only of a peer that announced itself.
NamedOnceAnnounced ==
  \A i \in DOMAIN put : put[i].loop # 0 =>
    ShownAs(loops[put[i].loop], put[i].line, put[i].from)

\* A client that can send into a room has joined it with a receiver, unless
\* a join failed after it had replaced the sender.
HearsWhereItSends ==
  sender # None =>
    halfway \/ \E l \in DOMAIN loops : loops[l].topic = sender

\* open, join and send return, whatever the order in which they are called
\* and however full the channel is.
CallsReturn == \A t \in Task : op[t] # "idle" ~> op[t] = "idle"

\* A line handed to a receiver reaches next_message.
LinesSurface ==
  \A line \in Line :
    (\E l \in DOMAIN loops : line \in ToSet(Messages(loops[l].events))) ~>
    (line \in ToSet(Lines(put)) /\ line \notin ToSet(Lines(channel)))

---------------------------------------------------------------------------
(* The inbound port: what the calls do to those who make them.             *)

\* A task finishing an open, and a subscription under way, are joins.
PortCalls ==
  [t \in Task |-> IF op[t] \in {"finish", "joining"} THEN "join" ELSE op[t]]

Port == INSTANCE HubClientSession
          WITH Finisher <- Fresh, Entry <- Chats, calls <- PortCalls,
               joined <- sender # None

\* The service, with its topics, gossip, names and loops, keeps the promise
\* of the port to the programs that use it: calls are served one at a time
\* in their order, a line broadcast is in the channel before the next call
\* is served, lines come in only once a room is joined.
ImplementsPort == Port!Spec

\* ... and it serves every call whose turn has come.
ServesPort == Port!FairSpec

\* RelayChatBackend::send_user_message: it broadcasts the message to peers.
OkWasBroadcast == accepted \subseteq ToSet(Lines(broadcast))
=============================================================================
