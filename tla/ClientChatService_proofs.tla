---------------------- MODULE ClientChatService_proofs ----------------------
(***************************************************************************)
(* Theorems about ClientChatService, for any number of tasks, topics,      *)
(* lines and peers, any capacity of the channel and any bound of the joins.*)
(***************************************************************************)
EXTENDS ClientChatService, FiniteSetTheorems, SequenceTheorems, TLAPS

---------------------------------------------------------------------------
(* The inductive invariant.                                                *)

Ops == {"idle", "open", "spawned", "finish", "join", "joining", "send", "echo"}

\* The calls, their arguments and the mutex.
CallTypes ==
  /\ op \in [Task -> Ops]
  /\ arg \in [Task -> Topic \cup Line \cup {None, BadTicket}]
  /\ queue \in Seq(Task)

\* The data the calls and the loops work on.
DataTypes ==
  /\ bound \in BOOLEAN
  /\ sender \in Topic \cup {None}
  /\ pending_topic \in Fresh \cup {None}
  /\ loops \in Seq(Loop)
  /\ names \subseteq Peer
  /\ channel \in Seq(Chats) /\ Len(channel) <= Capacity
  /\ used \subseteq Line \cup Fresh
  /\ broadcast \in Seq([topic : Topic, line : Line])
  /\ put \in Seq(Chats)
  /\ accepted \subseteq Line
  /\ halfway \in BOOLEAN

\* Who may be where in which call, and that a task keeps the mutex from the
\* middle of a join or a send to its end.
CallInv ==
  /\ \A t \in Fresh :
       /\ op[t] \in {"idle", "spawned", "finish", "joining"}
       /\ t \notin used => op[t] = "idle"
  /\ \A t \in Caller : op[t] \notin {"spawned", "finish"}
  /\ \A t \in Task :
       /\ op[t] = "join" => arg[t] \in Topic \cup {BadTicket}
       /\ op[t] = "joining" => arg[t] \in Topic
       /\ op[t] \in {"send", "echo"} => arg[t] \in Line
       /\ op[t] \in {"joining", "echo"} => Holds(t)

\* The calls of open and join, and those of them that may add a loop.
InJoin == Busy({"open", "spawned", "finish", "join", "joining"})
Joining == {t \in InJoin : op[t] = "join" => arg[t] # BadTicket}

\* The loops there are, and those the calls under way may add.
JoinsBounded ==
  /\ IsFiniteSet(InJoin)
  /\ Len(loops) + Cardinality(Joining) <= MaxLoops

\* A loop is there only once a sender is, and knows how to show its line.
LoopInv ==
  /\ loops # <<>> => sender # None
  /\ \A l \in DOMAIN loops : loops[l].hand # None => loops[l].from # None

\* The types, the calls, the bound of the loops and the life of a loop.
ClientInv == TypeOK /\ CallInv /\ JoinsBounded /\ LoopInv

---------------------------------------------------------------------------
(* The mutex.                                                              *)

\* Removing a place from a queue leaves a queue; the head stays, unless it
\* is the head that goes.
LEMMA RemoveAtQueue ==
  ASSUME NEW S, NEW s \in Seq(S), NEW i \in DOMAIN s
  PROVE  /\ RemoveAt(s, i) \in Seq(S)
         /\ i # 1 => RemoveAt(s, i) # <<>> /\ Head(RemoveAt(s, i)) = Head(s)
<1> DEFINE before == SubSeq(s, 1, i - 1)
           after == SubSeq(s, i + 1, Len(s))
<1>1. i \in 1..Len(s) /\ Len(s) \in Nat
  OBVIOUS
<1>2. before \in Seq(S) /\ Len(before) = i - 1
  BY <1>1
<1>3. after \in Seq(S)
  BY <1>1
<1>4. i # 1 => before[1] = s[1]
  BY <1>1
<1> HIDE DEF before, after
<1>5. before \o after \in Seq(S)
  BY <1>2, <1>3
<1>6. i # 1 => Len(before) >= 1
  BY <1>1, <1>2
<1>7. i # 1 => before \o after # <<>> /\ Head(before \o after) = before[1]
  BY <1>2, <1>3, <1>6
<1>8. i # 1 => Head(s) = s[1]
  BY <1>1
<1> QED
  BY <1>4, <1>5, <1>7, <1>8 DEF RemoveAt, before, after

\* A call that begins keeps the types and leaves the holder alone.
LEMMA BeginKeeps ==
  ASSUME CallTypes, NEW t \in Task, NEW what \in Ops,
         NEW with \in Topic \cup Line \cup {None, BadTicket},
         Begin(t, what, with)
  PROVE  /\ CallTypes'
         /\ \A u \in Task : Holds(u) => Holds(u)'
<1>1. queue' = Append(queue, t) /\ queue \in Seq(Task)
  BY DEF Begin, CallTypes
<1>2. queue' \in Seq(Task) /\ (queue # <<>> => queue' # <<>> /\ Head(queue') = Head(queue))
  BY <1>1
<1> QED
  BY <1>2 DEF Begin, CallTypes, Holds

\* A task that returns leaves the mutex to whoever else holds it.
LEMMA ReturnKeeps ==
  ASSUME CallTypes, NEW t \in Task, Return(t)
  PROVE  /\ CallTypes'
         /\ \A u \in Task : Holds(u) /\ u # t => Holds(u)'
<1>1. PICK i \in DOMAIN queue : queue[i] = t /\ queue' = RemoveAt(queue, i)
  BY DEF Return
<1>2. queue \in Seq(Task)
  BY DEF CallTypes
<1>3. queue' \in Seq(Task)
  BY <1>1, <1>2, RemoveAtQueue
<1>4. ASSUME NEW u \in Task, Holds(u), u # t
      PROVE  Holds(u)'
  <2>1. Head(queue) = queue[1]
    BY <1>2, <1>4 DEF Holds
  <2>2. i # 1
    BY <1>1, <1>4, <2>1 DEF Holds
  <2> QED
    BY <1>1, <1>2, <1>4, <2>2, RemoveAtQueue DEF Holds
<1>5. /\ op' \in [Task -> Ops]
      /\ arg' \in [Task -> Topic \cup Line \cup {None, BadTicket}]
  BY DEF Return, CallTypes, Ops
<1> QED
  BY <1>3, <1>4, <1>5 DEF CallTypes

\* A call of a caller that begins keeps the ownership of the mutex.
LEMMA BeginInv ==
  ASSUME CallTypes, CallInv, used \subseteq used', NEW t \in Task, NEW what, NEW with,
         Begin(t, what, with),
         \/ t \in Caller /\ what = "open" /\ with = None
         \/ t \in Caller /\ what = "join" /\ with \in Topic \cup {BadTicket}
         \/ t \in Caller /\ what = "send" /\ with \in Line
  PROVE  CallTypes' /\ CallInv'
<1>1. what \in Ops /\ with \in Topic \cup Line \cup {None, BadTicket}
  BY DEF Ops
<1>2. CallTypes' /\ \A u \in Task : Holds(u) => Holds(u)'
  BY <1>1, BeginKeeps
<1>3. /\ op' = [op EXCEPT ![t] = what]
      /\ arg' = [arg EXCEPT ![t] = with]
      /\ op \in [Task -> Ops]
      /\ arg \in [Task -> Topic \cup Line \cup {None, BadTicket}]
  BY DEF Begin, CallTypes
<1>4. t \notin Fresh
  BY ClientAssumption DEF Topic
<1> QED
  BY <1>2, <1>3, <1>4 DEF CallInv, Task

\* A call that ends, or is dropped, keeps the ownership of the mutex.
LEMMA ReturnInv ==
  ASSUME CallTypes, CallInv, used \subseteq used', NEW t \in Task, Return(t)
  PROVE  CallTypes' /\ CallInv'
<1>1. CallTypes' /\ \A u \in Task : Holds(u) /\ u # t => Holds(u)'
  BY ReturnKeeps
<1>2. /\ op' = [op EXCEPT ![t] = "idle"]
      /\ arg' = [arg EXCEPT ![t] = None]
      /\ op \in [Task -> Ops]
      /\ arg \in [Task -> Topic \cup Line \cup {None, BadTicket}]
  BY DEF Return, CallTypes
<1> QED
  BY <1>1, <1>2 DEF CallInv, Task

\* The holder that goes on to the middle of its call keeps the mutex.
LEMMA StepInv ==
  ASSUME CallTypes, CallInv, UNCHANGED used, NEW t \in Task, NEW what, NEW with,
         Holds(t), Step(t, what, with),
         \/ what = "joining" /\ with \in Topic
         \/ what = "echo" /\ with \in Line /\ t \in Caller /\ op[t] = "send",
         op[t] # "idle"
  PROVE  CallTypes' /\ CallInv'
<1>1. /\ op' = [op EXCEPT ![t] = what]
      /\ arg' = [arg EXCEPT ![t] = with]
      /\ queue' = queue
      /\ op \in [Task -> Ops]
      /\ arg \in [Task -> Topic \cup Line \cup {None, BadTicket}]
      /\ queue \in Seq(Task)
  BY DEF Step, CallTypes
<1>2. Caller \cap Fresh = {}
  BY ClientAssumption DEF Topic
<1>3. CallTypes'
  BY <1>1 DEF CallTypes, Ops
<1>4. \A u \in Task : Holds(u) => Holds(u)'
  BY <1>1 DEF Holds
<1> QED
  BY <1>1, <1>2, <1>3, <1>4 DEF CallInv, Task

\* An open that returns hands its place to nobody, and the finishing task
\* of a new topic is spawned.
LEMMA OpenInv ==
  ASSUME CallTypes, CallInv, NEW t \in Task, NEW topic \in Fresh,
         BeginOpenRoom(t, topic)
  PROVE  /\ CallTypes' /\ CallInv'
         /\ t \in Caller /\ op[topic] = "idle"
<1>1. /\ op' = [op EXCEPT ![t] = "idle", ![topic] = "spawned"]
      /\ arg' = arg
      /\ queue' = Tail(queue)
      /\ used' = used \cup {topic}
      /\ op \in [Task -> Ops]
      /\ queue \in Seq(Task) /\ queue # <<>>
      /\ Holds(t) /\ op[t] = "open" /\ topic \notin used
      /\ topic \in Task
  BY DEF BeginOpenRoom, CallTypes, Holds, Task
<1>2. Caller \cap Fresh = {}
  BY ClientAssumption DEF Topic
<1>3. t \in Caller /\ op[topic] = "idle"
  BY <1>1 DEF CallInv, Task
<1>4. queue' \in Seq(Task)
  BY <1>1
<1>5. CallTypes'
  BY <1>1, <1>4 DEF CallTypes, Ops
<1>6. \A u \in Task : op[u] \notin {"joining", "echo"}
  BY <1>1 DEF CallInv, Holds
<1> QED
  BY <1>1, <1>2, <1>3, <1>5, <1>6 DEF CallInv, Task

\* The spawned task asks for the mutex.
LEMMA FinishStartsInv ==
  ASSUME CallTypes, CallInv, NEW topic \in Fresh, FinishStarts(topic)
  PROVE  CallTypes' /\ CallInv'
<1>1. /\ op' = [op EXCEPT ![topic] = "finish"]
      /\ queue' = Append(queue, topic)
      /\ arg' = arg /\ used' = used
      /\ op[topic] = "spawned" /\ topic \in Task
      /\ op \in [Task -> Ops] /\ queue \in Seq(Task)
  BY DEF FinishStarts, history, CallTypes, Task
<1>2. Caller \cap Fresh = {}
  BY ClientAssumption DEF Topic
<1>3. queue' \in Seq(Task) /\ (queue # <<>> => queue' # <<>> /\ Head(queue') = Head(queue))
  BY <1>1
<1>4. CallTypes'
  BY <1>1, <1>3 DEF CallTypes, Ops
<1>5. \A u \in Task : Holds(u) => Holds(u)'
  BY <1>3 DEF Holds
<1> QED
  BY <1>1, <1>2, <1>4, <1>5 DEF CallInv, Task

\* No step breaks the types of the calls or the ownership of the mutex.
LEMMA NextCalls ==
  ASSUME TypeOK, CallInv, [Next]_vars
  PROVE  CallTypes' /\ CallInv'
<1> USE DEF history
<1>1. CallTypes /\ pending_topic \in Fresh \cup {None}
  BY DEF TypeOK, CallTypes, Ops
<1>2. ASSUME UNCHANGED calls, used \subseteq used'
      PROVE  CallTypes' /\ CallInv'
  BY <1>1, <1>2 DEF calls, CallTypes, CallInv, Holds
<1>3. ASSUME NEW t \in Caller, Open(t)
      PROVE  CallTypes' /\ CallInv'
  <2>1. Begin(t, "open", None) /\ used' = used
    BY <1>3 DEF Open
  <2> QED
    BY <1>1, <2>1, BeginInv DEF Task
<1>4. ASSUME NEW t \in Caller, NEW ticket \in Topic \cup {BadTicket},
             Join(t, ticket)
      PROVE  CallTypes' /\ CallInv'
  <2>1. Begin(t, "join", ticket) /\ used' = used
    BY <1>4 DEF Join
  <2> QED
    BY <1>1, <2>1, BeginInv DEF Task
<1>5. ASSUME NEW t \in Caller, NEW line \in Line, Send(t, line)
      PROVE  CallTypes' /\ CallInv'
  <2>1. Begin(t, "send", line) /\ used \subseteq used'
    BY <1>5 DEF Send
  <2> QED
    BY <1>1, <2>1, BeginInv DEF Task
<1>6. ASSUME NEW t \in Task,
             \/ Abort(t) \/ BindFails(t) \/ TicketRejected(t)
             \/ FinishFindsNone(t) \/ SendWithoutRoom(t) \/ SendFails(t)
             \/ JoinEnds(t) \/ Echo(t)
      PROVE  CallTypes' /\ CallInv'
  <2>1. Return(t) /\ used' = used
    BY <1>6 DEF Abort, BindFails, TicketRejected, FinishFindsNone,
         SendWithoutRoom, SendFails, JoinEnds, Joined, JoinFails,
         AnnounceFails, Echo
  <2> QED
    BY <1>1, <2>1, ReturnInv
<1>7. ASSUME NEW t \in Task, JoinRoom(t) \/ FinishTakes(t) \/ Broadcast(t)
      PROVE  CallTypes' /\ CallInv'
  <2>1. CASE JoinRoom(t)
    <3>1. /\ Holds(t) /\ op[t] = "join" /\ arg[t] \in Topic
          /\ Step(t, "joining", arg[t]) /\ used' = used
      BY <2>1 DEF JoinRoom, CallInv
    <3> QED
      BY <1>1, <3>1, StepInv
  <2>2. CASE FinishTakes(t)
    <3>1. /\ Holds(t) /\ op[t] = "finish" /\ pending_topic \in Topic
          /\ Step(t, "joining", pending_topic) /\ used' = used
      BY <1>1, <2>2 DEF FinishTakes, Topic
    <3> QED
      BY <1>1, <3>1, StepInv
  <2>3. CASE Broadcast(t)
    <3>1. /\ Holds(t) /\ op[t] = "send" /\ arg[t] \in Line
          /\ Step(t, "echo", arg[t]) /\ used' = used
      BY <2>3 DEF Broadcast, CallInv
    <3>2. t \in Caller
      BY <3>1 DEF CallInv, Task
    <3> QED
      BY <1>1, <3>1, <3>2, StepInv
  <2> QED
    BY <1>7, <2>1, <2>2, <2>3
<1>8. ASSUME NEW t \in Task, NEW topic \in Fresh, BeginOpenRoom(t, topic)
      PROVE  CallTypes' /\ CallInv'
  BY <1>1, <1>8, OpenInv
<1>9. ASSUME NEW topic \in Fresh, FinishStarts(topic)
      PROVE  CallTypes' /\ CallInv'
  BY <1>1, <1>9, FinishStartsInv
<1>10. ASSUME NEW topic \in Topic, NEW peer \in Peer, NEW line \in Line,
              PeerSends(topic, peer, line)
       PROVE  CallTypes' /\ CallInv'
  <2>1. UNCHANGED calls /\ used \subseteq used'
    BY <1>10 DEF PeerSends, Deliver
  <2> QED
    BY <1>2, <2>1
<1>11. ASSUME NEW topic \in Topic, NEW event, OtherThanLine(topic, event)
       PROVE  CallTypes' /\ CallInv'
  <2>1. UNCHANGED calls /\ used \subseteq used'
    BY <1>11 DEF OtherThanLine, Deliver
  <2> QED
    BY <1>2, <2>1
<1>12. ASSUME NEW l \in DOMAIN loops, LoopEnds(l) \/ LoopReads(l) \/ LoopPuts(l)
       PROVE  CallTypes' /\ CallInv'
  <2>1. UNCHANGED calls /\ used \subseteq used'
    BY <1>12 DEF LoopEnds, LoopReads, LoopAboutMe, LoopMessage, LoopOther,
         LoopPuts
  <2> QED
    BY <1>2, <2>1
<1>13. CASE NextMessage \/ UNCHANGED vars
  <2>1. UNCHANGED calls /\ used \subseteq used'
    BY <1>13 DEF NextMessage, vars, calls
  <2> QED
    BY <1>2, <2>1
<1> HIDE DEF history
<1> DEFINE Goal == CallTypes' /\ CallInv'
<1>14. ASSUME NEW t \in Task, CallSteps(t) \/ JoinEnds(t) \/ Echo(t)
       PROVE  Goal
  BY <1>6, <1>7, <1>8, <1>14 DEF CallSteps
<1>15. ASSUME NEW t \in Caller,
              \/ Open(t)
              \/ \E ticket \in Topic \cup {BadTicket} : Join(t, ticket)
              \/ \E line \in Line : Send(t, line)
              \/ Abort(t)
       PROVE  Goal
  BY <1>3, <1>4, <1>5, <1>6, <1>15 DEF Task
<1>16. ASSUME \E l \in DOMAIN loops : LoopEnds(l) \/ LoopReads(l) \/ LoopPuts(l)
       PROVE  Goal
  BY <1>12, <1>16
<1>17. ASSUME NEW topic \in Topic,
              \/ \E peer \in Peer, line \in Line : PeerSends(topic, peer, line)
              \/ \E event \in {AboutMe(peer) : peer \in Peer} \cup {Other} :
                   OtherThanLine(topic, event)
       PROVE  Goal
  BY <1>10, <1>11, <1>17
<1>18. ASSUME NEW topic \in Fresh, FinishStarts(topic)
       PROVE  Goal
  BY <1>9, <1>18
<1>19. NextMessage \/ UNCHANGED vars => Goal
  BY <1>13
<1> HIDE DEF Goal
<1>20. Goal
  BY <1>14, <1>15, <1>16, <1>17, <1>18, <1>19 DEF Next
<1> QED
  BY <1>20 DEF Goal

---------------------------------------------------------------------------
(* The bound of the joins.                                                 *)

\* A set that grows by at most one element: its size grows by at most one.
LEMMA GrowByOne ==
  ASSUME NEW S, IsFiniteSet(S), NEW x, NEW T, T \subseteq S \cup {x}
  PROVE  /\ IsFiniteSet(T)
         /\ Cardinality(T) \in Nat /\ Cardinality(S) \in Nat
         /\ Cardinality(T) <= Cardinality(S) + 1
<1>1. /\ IsFiniteSet(S \cup {x}) /\ Cardinality(S) \in Nat
      /\ Cardinality(S \cup {x}) \in Nat
      /\ Cardinality(S \cup {x}) <= Cardinality(S) + 1
  <2>1. Cardinality(S) \in Nat
    BY FS_CardinalityType
  <2>2. IsFiniteSet(S \cup {x})
    BY FS_AddElement
  <2>3. \/ Cardinality(S \cup {x}) = Cardinality(S)
        \/ Cardinality(S \cup {x}) = Cardinality(S) + 1
    BY FS_AddElement
  <2> QED
    BY ONLY <2>1, <2>2, <2>3
<1>2. IsFiniteSet(T) /\ Cardinality(T) <= Cardinality(S \cup {x})
  <2> DEFINE big == S \cup {x}
  <2>1. IsFiniteSet(big) /\ T \subseteq big
    BY <1>1
  <2> HIDE DEF big
  <2>2. IsFiniteSet(T) /\ Cardinality(T) <= Cardinality(big)
    BY ONLY <2>1, FS_Subset
  <2> QED
    BY <2>2 DEF big
<1> QED
  BY <1>1, <1>2, FS_CardinalityType

\* The bound survives a step in which no call that may add a loop begins.
LEMMA JoinsLeave ==
  ASSUME JoinsBounded, Len(loops) \in Nat, Len(loops') = Len(loops),
         NEW t, InJoin' \subseteq InJoin \cup {t}, Joining' \subseteq Joining
  PROVE  JoinsBounded'
<1>1. Joining \subseteq InJoin /\ IsFiniteSet(InJoin)
  BY DEF Joining, JoinsBounded
<1>2. IsFiniteSet(InJoin') /\ IsFiniteSet(Joining)
  BY <1>1, FS_Subset, GrowByOne
<1>3. Cardinality(Joining') <= Cardinality(Joining)
  BY <1>2, FS_Subset
<1>4. Cardinality(Joining) \in Nat /\ Cardinality(Joining') \in Nat
  BY <1>2, FS_Subset, FS_CardinalityType
<1> QED
  BY <1>2, <1>3, <1>4, ClientAssumption DEF JoinsBounded

\* The bound survives the call of a join that MayJoin allows.
LEMMA JoinsEnter ==
  ASSUME JoinsBounded, Len(loops) \in Nat, Len(loops') = Len(loops), MayJoin,
         NEW t, InJoin' \subseteq InJoin \cup {t},
         Joining' \subseteq Joining \cup {t}
  PROVE  JoinsBounded'
<1>1. Joining \subseteq InJoin /\ IsFiniteSet(InJoin)
  BY DEF Joining, JoinsBounded
<1>2. IsFiniteSet(Joining) /\ Cardinality(Joining) <= Cardinality(InJoin)
  BY <1>1, FS_Subset
<1>3. /\ IsFiniteSet(InJoin') /\ Cardinality(InJoin) \in Nat
      /\ Cardinality(Joining') \in Nat /\ Cardinality(Joining) \in Nat
      /\ Cardinality(Joining') <= Cardinality(Joining) + 1
  BY <1>1, <1>2, GrowByOne
<1>4. Len(loops) + Cardinality(InJoin) < MaxLoops
  BY DEF MayJoin, InJoin
<1> QED
  BY <1>2, <1>3, <1>4, ClientAssumption DEF JoinsBounded

\* ... the open that leaves its finishing task in its place ...
LEMMA JoinsPass ==
  ASSUME JoinsBounded, Len(loops) \in Nat, Len(loops') = Len(loops),
         NEW t \in Joining, NEW u, InJoin' \subseteq (InJoin \ {t}) \cup {u},
         Joining' \subseteq (Joining \ {t}) \cup {u}
  PROVE  JoinsBounded'
<1>1. Joining \subseteq InJoin /\ IsFiniteSet(InJoin)
  BY DEF Joining, JoinsBounded
<1>2. IsFiniteSet(InJoin \ {t}) /\ IsFiniteSet(Joining)
  BY <1>1, FS_Subset
<1>3. /\ IsFiniteSet(Joining \ {t})
      /\ Cardinality(Joining \ {t}) = Cardinality(Joining) - 1
  BY <1>2, FS_RemoveElement
<1>4. /\ IsFiniteSet(InJoin') /\ Cardinality(Joining) \in Nat
      /\ Cardinality(Joining') \in Nat
      /\ Cardinality(Joining') <= Cardinality(Joining \ {t}) + 1
  BY <1>2, <1>3, GrowByOne, FS_CardinalityType
<1> QED
  BY <1>3, <1>4, ClientAssumption DEF JoinsBounded

\* ... and the join that becomes a loop.
LEMMA JoinsBecome ==
  ASSUME JoinsBounded, Len(loops) \in Nat, Len(loops') = Len(loops) + 1,
         NEW t \in Joining, InJoin' \subseteq InJoin,
         Joining' \subseteq Joining \ {t}
  PROVE  JoinsBounded'
<1>1. Joining \subseteq InJoin /\ IsFiniteSet(InJoin)
  BY DEF Joining, JoinsBounded
<1>2. IsFiniteSet(InJoin') /\ IsFiniteSet(Joining)
  BY <1>1, FS_Subset
<1>3. /\ IsFiniteSet(Joining \ {t})
      /\ Cardinality(Joining \ {t}) = Cardinality(Joining) - 1
  BY <1>2, FS_RemoveElement
<1>4. /\ Cardinality(Joining') <= Cardinality(Joining \ {t})
      /\ Cardinality(Joining) \in Nat /\ Cardinality(Joining') \in Nat
      /\ Cardinality(Joining \ {t}) \in Nat
  BY <1>2, <1>3, FS_Subset, FS_CardinalityType
<1> QED
  BY <1>2, <1>3, <1>4, ClientAssumption DEF JoinsBounded

---------------------------------------------------------------------------
(* The loops.                                                              *)

\* A function over the domain of a sequence is a sequence of that length.
LEMMA SameLength ==
  ASSUME NEW S, NEW s \in Seq(S), NEW T, NEW f \in [DOMAIN s -> T]
  PROVE  f \in Seq(T) /\ Len(f) = Len(s) /\ DOMAIN f = DOMAIN s
  OBVIOUS

\* What kinds of events there are and what they carry.
LEMMA EventTypes ==
  /\ \A peer \in Peer, line \in Line : Message(peer, line) \in Event
  /\ \A event \in {AboutMe(peer) : peer \in Peer} \cup {Other} : event \in Event
  /\ \A event \in Event :
       /\ event.kind = "AboutMe" => event.peer \in Peer /\ event = AboutMe(event.peer)
       /\ event.kind = "Message" => event.peer \in Peer /\ event.line \in Line
       /\ event.kind \in {"AboutMe", "Message", "Other"}
<1>1. ASSUME NEW event \in Event
      PROVE  /\ event.kind = "AboutMe" =>
                  event.peer \in Peer /\ event = AboutMe(event.peer)
             /\ event.kind = "Message" => event.peer \in Peer /\ event.line \in Line
             /\ event.kind \in {"AboutMe", "Message", "Other"}
  BY <1>1 DEF Message, AboutMe, Other, Event
<1> QED
  BY <1>1 DEF Event

\* What the gossip hands to the receivers of a topic changes nothing of a
\* loop but its events, and those of no other loop.
LEMMA DeliverLoops ==
  ASSUME loops \in Seq(Loop), NEW topic \in Topic, NEW event \in Event,
         Deliver(topic, event)
  PROVE  /\ loops' \in Seq(Loop)
         /\ Len(loops') = Len(loops) /\ DOMAIN loops' = DOMAIN loops
         /\ \A l \in DOMAIN loops :
              /\ loops'[l].topic = loops[l].topic
              /\ loops'[l].hand = loops[l].hand
              /\ loops'[l].from = loops[l].from
              /\ \/ loops'[l] = loops[l]
                 \/ /\ loops'[l].events = Append(loops[l].events, event)
                    /\ loops'[l].delivered = Append(loops[l].delivered, event)
<1> DEFINE given(l) == [loops[l] EXCEPT !.events = Append(@, event),
                                        !.delivered = Append(@, event)]
<1>1. loops' = [l \in DOMAIN loops |->
                  IF l \in Receivers(topic) THEN given(l) ELSE loops[l]]
  BY DEF Deliver
<1>2. ASSUME NEW l \in DOMAIN loops
      PROVE  /\ given(l) \in Loop
             /\ given(l).topic = loops[l].topic
             /\ given(l).hand = loops[l].hand
             /\ given(l).from = loops[l].from
             /\ given(l).events = Append(loops[l].events, event)
             /\ given(l).delivered = Append(loops[l].delivered, event)
  <2>1. loops[l] \in Loop
    OBVIOUS
  <2>2. /\ Append(loops[l].events, event) \in Seq(Event)
        /\ Append(loops[l].delivered, event) \in Seq(Event)
    BY <2>1 DEF Loop
  <2> QED
    BY <2>1, <2>2 DEF Loop
<1> HIDE DEF given
<1>3. loops' \in [DOMAIN loops -> Loop]
  BY <1>1, <1>2
<1> QED
  BY <1>1, <1>2, <1>3, SameLength

\* An event handed to a loop leaves every loop with its sender and its name.
LEMMA DeliverInv ==
  ASSUME loops \in Seq(Loop), LoopInv, NEW topic \in Topic, NEW event \in Event,
         Deliver(topic, event)
  PROVE  LoopInv'
<1>1. sender' = sender
  BY DEF Deliver, backend
<1>2. /\ loops' \in Seq(Loop) /\ DOMAIN loops' = DOMAIN loops
      /\ Len(loops') = Len(loops)
      /\ \A k \in DOMAIN loops :
           loops'[k].hand = loops[k].hand /\ loops'[k].from = loops[k].from
  BY DeliverLoops
<1>3. loops' # <<>> => loops # <<>>
  BY <1>2
<1>4. \A k \in DOMAIN loops' : loops'[k].hand # None => loops'[k].from # None
  BY <1>2 DEF LoopInv
<1> QED
  BY <1>1, <1>3, <1>4 DEF LoopInv

\* Replacing one loop leaves the others what they were.
LEMMA LoopReplaced ==
  ASSUME loops \in Seq(Loop), NEW l \in DOMAIN loops, NEW new \in Loop,
         loops' = [loops EXCEPT ![l] = new]
  PROVE  /\ loops' \in Seq(Loop) /\ DOMAIN loops' = DOMAIN loops
         /\ loops'[l] = new
         /\ \A k \in DOMAIN loops : k # l => loops'[k] = loops[k]
  OBVIOUS

\* What a step of a loop leaves of its events and in its hand.
Becomes(l, events, hand, from) ==
  /\ loops'[l].events = events
  /\ loops'[l].hand = hand
  /\ loops'[l].from = from

\* A step of a loop is its own: it stays in its topic, was handed what it was
\* handed, and knows how to show the line it has in hand.
LEMMA LoopStep ==
  ASSUME loops \in Seq(Loop), names \subseteq Peer, NEW l \in DOMAIN loops,
         LoopEnds(l) \/ LoopReads(l) \/ LoopPuts(l)
  PROVE  /\ loops' \in Seq(Loop) /\ DOMAIN loops' = DOMAIN loops
         /\ \A k \in DOMAIN loops :
              /\ loops'[k].topic = loops[k].topic
              /\ loops'[k].delivered = loops[k].delivered
              /\ k # l => loops'[k] = loops[k]
         /\ \/ /\ LoopEnds(l)
               /\ Becomes(l, loops[l].events, loops[l].hand, loops[l].from)
            \/ /\ LoopAboutMe(l) \/ LoopOther(l)
               /\ Becomes(l, Tail(loops[l].events), loops[l].hand, loops[l].from)
            \/ /\ LoopMessage(l)
               /\ Becomes(l, Tail(loops[l].events), Head(loops[l].events).line,
                          NameOf(Head(loops[l].events).peer))
               /\ loops'[l].from # None
            \/ LoopPuts(l) /\ Becomes(l, loops[l].events, None, None)
         /\ names' \subseteq Peer
<1>0. loops[l] \in Loop
  OBVIOUS
<1>1. loops[l] \in Loop /\ loops[l].events \in Seq(Event)
  BY <1>0 DEF Loop
<1>2. CASE LoopEnds(l)
  <2> DEFINE new == [loops[l] EXCEPT !.alive = FALSE]
  <2>1. loops' = [loops EXCEPT ![l] = new] /\ names' = names
    BY <1>2 DEF LoopEnds
  <2>2. /\ new \in Loop /\ new.topic = loops[l].topic
        /\ new.delivered = loops[l].delivered /\ new.events = loops[l].events
        /\ new.hand = loops[l].hand /\ new.from = loops[l].from
    BY <1>1 DEF Loop
  <2> HIDE DEF new
  <2> QED
    BY <1>2, <2>1, <2>2, LoopReplaced DEF Becomes
<1>3. CASE LoopReads(l)
  <2>1. loops[l].events # <<>>
    BY <1>3 DEF LoopReads, LoopAboutMe, LoopMessage, LoopOther, AtEvent
  <2>2. /\ Head(loops[l].events) \in Event
        /\ Tail(loops[l].events) \in Seq(Event)
    BY <1>1, <2>1
  <2>3. CASE LoopAboutMe(l) \/ LoopOther(l)
    <3> DEFINE new == [loops[l] EXCEPT !.events = Tail(@)]
    <3>1. loops' = [loops EXCEPT ![l] = new]
      BY <2>3 DEF LoopAboutMe, LoopOther
    <3>2. names' \subseteq Peer
      BY <2>2, <2>3, EventTypes DEF LoopAboutMe, LoopOther, AtEvent
    <3>3. /\ new \in Loop /\ new.topic = loops[l].topic
          /\ new.delivered = loops[l].delivered
          /\ new.events = Tail(loops[l].events)
          /\ new.hand = loops[l].hand /\ new.from = loops[l].from
      BY <1>1, <2>2 DEF Loop
    <3> HIDE DEF new
    <3> QED
      BY <2>3, <3>1, <3>2, <3>3, LoopReplaced DEF Becomes
  <2>4. CASE LoopMessage(l)
    <3> DEFINE line == Head(loops[l].events).line
               from == NameOf(Head(loops[l].events).peer)
               new == [loops[l] EXCEPT !.events = Tail(@), !.hand = line,
                                       !.from = from]
    <3>1. /\ loops' = [loops EXCEPT ![l].events = Tail(@), ![l].hand = line,
                                    ![l].from = from]
          /\ line \in Line
          /\ from \in {"name", "id"}
          /\ names' = names
      BY <2>2, <2>4, EventTypes DEF LoopMessage, AtEvent, NameOf
    <3>2. from # None
      BY <3>1 DEF None
    <3>3. loops' = [loops EXCEPT ![l] = new]
      BY <3>1
    <3> HIDE DEF line, from
    <3>4. /\ new \in Loop /\ new.topic = loops[l].topic
          /\ new.delivered = loops[l].delivered
          /\ new.events = Tail(loops[l].events)
          /\ new.hand = line /\ new.from = from
      BY <1>1, <2>2, <3>1 DEF Loop
    <3> HIDE DEF new
    <3>5. Becomes(l, Tail(loops[l].events), line, from)
      BY <3>3, <3>4, LoopReplaced DEF Becomes
    <3> USE DEF line, from
    <3> QED
      BY <2>4, <3>1, <3>2, <3>3, <3>4, <3>5, LoopReplaced DEF Becomes
  <2> QED
    BY <1>3, <2>3, <2>4 DEF LoopReads
<1>4. CASE LoopPuts(l)
  <2> DEFINE new == [loops[l] EXCEPT !.hand = None, !.from = None]
  <2>1. loops' = [loops EXCEPT ![l] = new] /\ names' = names
    BY <1>4 DEF LoopPuts, EmptyHand
  <2>2. /\ new \in Loop /\ new.topic = loops[l].topic
        /\ new.delivered = loops[l].delivered
        /\ new.events = loops[l].events
        /\ new.hand = None /\ new.from = None
    BY <1>1 DEF Loop
  <2> HIDE DEF new
  <2> QED
    BY <1>4, <2>1, <2>2, LoopReplaced DEF Becomes
<1> QED
  BY <1>2, <1>3, <1>4

\* ... and it still knows how to show the line it has in hand.
LEMMA LoopStepInv ==
  ASSUME loops \in Seq(Loop), names \subseteq Peer, LoopInv,
         NEW l \in DOMAIN loops, LoopEnds(l) \/ LoopReads(l) \/ LoopPuts(l)
  PROVE  LoopInv'
<1>1. sender' = sender
  BY DEF LoopEnds, LoopReads, LoopPuts, LoopAboutMe, LoopMessage, LoopOther,
         backend
<1>2. /\ loops' \in Seq(Loop) /\ DOMAIN loops' = DOMAIN loops
      /\ \A k \in DOMAIN loops : k # l => loops'[k] = loops[k]
      /\ \/ loops'[l].hand = loops[l].hand /\ loops'[l].from = loops[l].from
         \/ loops'[l].hand = None
         \/ loops'[l].from # None
  BY LoopStep DEF Becomes
<1>3. loops # <<>>
  OBVIOUS
<1>4. \A k \in DOMAIN loops' : loops'[k].hand # None => loops'[k].from # None
  BY <1>2 DEF LoopInv
<1> QED
  BY <1>1, <1>3, <1>4 DEF LoopInv

\* No step breaks the bound of the joins.
LEMMA NextJoins ==
  ASSUME ClientInv, Next
  PROVE  JoinsBounded'
<1> USE DEF history
<1>1. /\ op \in [Task -> Ops] /\ queue \in Seq(Task) /\ loops \in Seq(Loop)
      /\ arg \in [Task -> Topic \cup Line \cup {None, BadTicket}]
      /\ Len(loops) \in Nat
      /\ CallInv /\ JoinsBounded /\ CallTypes
  BY DEF ClientInv, TypeOK, CallTypes, Ops
<1>2. ASSUME UNCHANGED calls, Len(loops') = Len(loops)
      PROVE  JoinsBounded'
  <2>1. InJoin' = InJoin /\ Joining' = Joining
    BY <1>2 DEF calls, InJoin, Joining, Busy
  <2> QED
    BY <1>1, <1>2, <2>1, JoinsLeave
<1>3. ASSUME NEW t \in Task, NEW what, NEW with, Begin(t, what, with),
             UNCHANGED loops,
             \/ MayJoin
             \/ what = "send"
             \/ what = "join" /\ with = BadTicket
      PROVE  JoinsBounded'
  <2>1. /\ op' = [op EXCEPT ![t] = what]
        /\ arg' = [arg EXCEPT ![t] = with]
        /\ op[t] = "idle"
    BY <1>3 DEF Begin
  <2>2. CASE MayJoin
    <3>1. InJoin' \subseteq InJoin \cup {t} /\ Joining' \subseteq Joining \cup {t}
      BY <1>1, <2>1 DEF InJoin, Joining, Busy
    <3> QED
      BY <1>1, <1>3, <2>2, <3>1, JoinsEnter
  <2>3. CASE what = "send"
    <3>1. InJoin' = InJoin /\ Joining' = Joining
      BY <1>1, <2>1, <2>3 DEF InJoin, Joining, Busy
    <3> QED
      BY <1>1, <1>3, <3>1, JoinsLeave
  <2>4. CASE what = "join" /\ with = BadTicket
    <3>1. InJoin' \subseteq InJoin \cup {t} /\ Joining' \subseteq Joining
      BY <1>1, <2>1, <2>4 DEF InJoin, Joining, Busy
    <3> QED
      BY <1>1, <1>3, <3>1, JoinsLeave
  <2> QED
    BY <1>3, <2>2, <2>3, <2>4
<1>4. ASSUME NEW t \in Task, Return(t), UNCHANGED loops
      PROVE  JoinsBounded'
  <2>1. InJoin' \subseteq InJoin /\ Joining' \subseteq Joining
    BY <1>1, <1>4 DEF Return, InJoin, Joining, Busy
  <2> QED
    BY <1>1, <1>4, <2>1, JoinsLeave
<1>5. ASSUME NEW t \in Caller, Open(t)
      PROVE  JoinsBounded'
  BY <1>3, <1>5 DEF Open, Task
<1>6. ASSUME NEW t \in Caller, NEW ticket \in Topic \cup {BadTicket},
             Join(t, ticket)
      PROVE  JoinsBounded'
  BY <1>3, <1>6 DEF Join, Task
<1>7. ASSUME NEW t \in Caller, NEW line \in Line, Send(t, line)
      PROVE  JoinsBounded'
  BY <1>3, <1>7 DEF Send, Task
<1>8. ASSUME NEW t \in Task,
             \/ Abort(t) \/ BindFails(t) \/ TicketRejected(t)
             \/ FinishFindsNone(t) \/ SendWithoutRoom(t) \/ SendFails(t)
             \/ JoinFails(t) \/ AnnounceFails(t) \/ Echo(t)
      PROVE  JoinsBounded'
  <2>1. Return(t) /\ UNCHANGED loops
    BY <1>8 DEF Abort, BindFails, TicketRejected, FinishFindsNone,
         SendWithoutRoom, SendFails, JoinFails, AnnounceFails, Echo
  <2> QED
    BY <1>4, <2>1
<1>9. ASSUME NEW t \in Task, JoinRoom(t) \/ FinishTakes(t) \/ Broadcast(t)
      PROVE  JoinsBounded'
  <2>1. InJoin' = InJoin /\ Joining' = Joining /\ UNCHANGED loops
    BY <1>1, <1>9 DEF JoinRoom, FinishTakes, Broadcast, Step, InJoin, Joining,
         Busy
  <2> QED
    BY <1>1, <2>1, JoinsLeave
<1>10. ASSUME NEW t \in Task, NEW topic \in Fresh, BeginOpenRoom(t, topic)
       PROVE  JoinsBounded'
  <2>1. /\ op' = [op EXCEPT ![t] = "idle", ![topic] = "spawned"]
        /\ op[t] = "open" /\ UNCHANGED <<arg, loops>>
    BY <1>10 DEF BeginOpenRoom
  <2>2. t # topic
    BY <1>1, <2>1 DEF CallInv
  <2>3. /\ InJoin' \subseteq (InJoin \ {t}) \cup {topic}
        /\ Joining' \subseteq (Joining \ {t}) \cup {topic}
        /\ t \in Joining
    BY <1>1, <2>1, <2>2 DEF InJoin, Joining, Busy
  <2> QED
    BY <1>1, <2>1, <2>3, JoinsPass
<1>11. ASSUME NEW topic \in Fresh, FinishStarts(topic)
       PROVE  JoinsBounded'
  <2>1. InJoin' = InJoin /\ Joining' = Joining /\ UNCHANGED loops
    BY <1>1, <1>11 DEF FinishStarts, InJoin, Joining, Busy
  <2> QED
    BY <1>1, <2>1, JoinsLeave
<1>12. ASSUME NEW t \in Task, Joined(t)
       PROVE  JoinsBounded'
  <2>1. Len(loops') = Len(loops) + 1
    BY <1>1, <1>12 DEF Joined
  <2>2. InJoin' \subseteq InJoin /\ Joining' \subseteq Joining \ {t} /\ t \in Joining
    BY <1>1, <1>12 DEF Joined, Return, InJoin, Joining, Busy
  <2> QED
    BY <1>1, <2>1, <2>2, JoinsBecome
<1>13. ASSUME NEW topic \in Topic, NEW event \in Event, Deliver(topic, event)
       PROVE  JoinsBounded'
  <2>1. Len(loops') = Len(loops) /\ UNCHANGED calls
    BY <1>1, <1>13, DeliverLoops DEF Deliver
  <2> QED
    BY <1>2, <2>1
<1>14. ASSUME NEW l \in DOMAIN loops, LoopEnds(l) \/ LoopReads(l) \/ LoopPuts(l)
       PROVE  JoinsBounded'
  <2>1. Len(loops') = Len(loops) /\ UNCHANGED calls
    BY <1>1, <1>14 DEF LoopEnds, LoopReads, LoopAboutMe, LoopMessage,
         LoopOther, LoopPuts, EmptyHand
  <2> QED
    BY <1>2, <2>1
<1>15. CASE NextMessage
  <2>1. UNCHANGED <<calls, loops>>
    BY <1>15 DEF NextMessage
  <2> QED
    BY <1>2, <2>1
<1> HIDE DEF history
<1> QED
  BY <1>5, <1>6, <1>7, <1>8, <1>9, <1>10, <1>11, <1>12, <1>13, <1>14, <1>15,
     EventTypes DEF Next, CallSteps, JoinEnds, PeerSends, OtherThanLine, Task

---------------------------------------------------------------------------
(* Type correctness.                                                       *)

\* What is put into the channel is a message, and finds a place.
LEMMA PutTypes ==
  ASSUME DataTypes, NEW message \in Chats, Put(message)
  PROVE  /\ channel' \in Seq(Chats) /\ Len(channel') <= Capacity
         /\ put' \in Seq(Chats)
  BY ClientAssumption DEF Put, DataTypes

\* What a loop puts into the channel is a message, and not an own one.
LEMMA LoopChat ==
  ASSUME ClientInv, NEW l \in DOMAIN loops, LoopPuts(l)
  PROVE  /\ Chat(loops[l].hand, loops[l].from, l) \in Chats
         /\ Chat(loops[l].hand, loops[l].from, l).loop # 0
<1>1. /\ loops \in Seq(Loop) /\ LoopInv /\ Len(loops) <= MaxLoops
  BY DEF ClientInv, TypeOK
<1>2. loops[l] \in Loop /\ l \in 1..Len(loops) /\ Len(loops) \in Nat
  BY <1>1
<1>3. /\ loops[l].hand # None /\ loops[l].from # None
      /\ loops[l].hand \in Line /\ loops[l].from \in {"name", "id"}
  BY <1>1, <1>2 DEF LoopPuts, LoopInv, Loop
<1>4. l \in 0..MaxLoops /\ l # 0
  BY <1>1, <1>2, ClientAssumption
<1> QED
  BY <1>3, <1>4 DEF Chat, Chats

\* No step breaks the types of the data.
LEMMA NextData ==
  ASSUME ClientInv, Next
  PROVE  DataTypes' /\ LoopInv'
<1> USE DEF history, backend, DataTypes
<1>1. /\ DataTypes /\ CallInv /\ LoopInv
      /\ JoinsBounded /\ Len(loops) <= MaxLoops
  BY DEF ClientInv, TypeOK
<1>2. ASSUME UNCHANGED <<loops, names, channel, broadcast, put, halfway>>,
             bound' \in BOOLEAN, sender' \in Topic \cup {None},
             sender # None => sender' # None,
             pending_topic' \in Fresh \cup {None},
             used' \subseteq Line \cup Fresh, accepted' \subseteq Line
      PROVE  DataTypes' /\ LoopInv'
  BY <1>1, <1>2 DEF LoopInv
<1>3. ASSUME NEW t \in Caller,
             \/ Open(t)
             \/ \E ticket \in Topic \cup {BadTicket} : Join(t, ticket)
             \/ Abort(t)
      PROVE  DataTypes' /\ LoopInv'
  BY <1>1, <1>2, <1>3 DEF Open, Join, Abort
<1>4. ASSUME NEW t \in Caller, NEW line \in Line, Send(t, line)
      PROVE  DataTypes' /\ LoopInv'
  BY <1>1, <1>2, <1>4 DEF Send
<1>5. ASSUME NEW t \in Task, NEW topic \in Fresh, BeginOpenRoom(t, topic)
      PROVE  DataTypes' /\ LoopInv'
  BY <1>1, <1>2, <1>5 DEF BeginOpenRoom
<1>6. ASSUME NEW t \in Task,
             \/ BindFails(t) \/ TicketRejected(t) \/ JoinRoom(t)
             \/ FinishTakes(t) \/ FinishFindsNone(t) \/ SendFails(t)
             \/ JoinFails(t)
      PROVE  DataTypes' /\ LoopInv'
  BY <1>1, <1>2, <1>6 DEF BindFails, TicketRejected, JoinRoom, FinishTakes,
     FinishFindsNone, SendFails, JoinFails
<1>7. ASSUME NEW t \in Task, SendWithoutRoom(t)
      PROVE  DataTypes' /\ LoopInv'
  BY <1>1, <1>2, <1>7 DEF SendWithoutRoom, CallInv
<1>8. ASSUME NEW t \in Task, Broadcast(t)
      PROVE  DataTypes' /\ LoopInv'
  BY <1>1, <1>8 DEF Broadcast, CallInv, LoopInv
<1>9. ASSUME NEW t \in Task, Joined(t)
      PROVE  DataTypes' /\ LoopInv'
  <2>1. arg[t] \in Topic /\ arg[t] # None
    BY <1>1, <1>9, ClientAssumption DEF Joined, CallInv
  <2>2. NewLoop(arg[t]) \in Loop /\ NewLoop(arg[t]).hand = None
    BY <2>1 DEF NewLoop, Loop
  <2>3. /\ loops' = Append(loops, NewLoop(arg[t])) /\ sender' = arg[t]
        /\ UNCHANGED <<bound, pending_topic, names, channel, used, broadcast,
                       put, accepted, halfway>>
    BY <1>9 DEF Joined
  <2>4. LoopInv'
    BY <1>1, <2>1, <2>2, <2>3 DEF LoopInv
  <2> QED
    BY <1>1, <2>1, <2>2, <2>3, <2>4
<1>10. ASSUME NEW t \in Task, AnnounceFails(t)
       PROVE  DataTypes' /\ LoopInv'
  BY <1>1, <1>10, ClientAssumption DEF AnnounceFails, CallInv, LoopInv
<1>11. ASSUME NEW t \in Task, Echo(t)
       PROVE  DataTypes' /\ LoopInv'
  <2>1. arg[t] \in Line
    BY <1>1, <1>11 DEF Echo, CallInv
  <2>2. Chat(arg[t], IF Named THEN "name" ELSE "id", 0) \in Chats
    BY <2>1, ClientAssumption DEF Chat, Chats
  <2>3. LoopInv'
    BY <1>1, <1>11 DEF Echo, LoopInv
  <2>4. /\ channel' \in Seq(Chats) /\ Len(channel') <= Capacity
        /\ put' \in Seq(Chats)
    BY <1>1, <1>11, <2>2, PutTypes DEF Echo
  <2> QED
    BY <1>1, <1>11, <2>1, <2>3, <2>4 DEF Echo
<1>12. ASSUME NEW topic \in Topic, NEW event \in Event, Deliver(topic, event),
              used' \subseteq Line \cup Fresh
       PROVE  DataTypes' /\ LoopInv'
  <2>1. LoopInv' /\ loops' \in Seq(Loop)
    BY <1>1, <1>12, DeliverLoops, DeliverInv
  <2> QED
    BY <1>1, <1>12, <2>1 DEF Deliver
<1>13. ASSUME NEW topic \in Topic,
              \/ \E peer \in Peer, line \in Line : PeerSends(topic, peer, line)
              \/ \E event \in {AboutMe(peer) : peer \in Peer} \cup {Other} :
                   OtherThanLine(topic, event)
       PROVE  DataTypes' /\ LoopInv'
  <2>1. ASSUME NEW peer \in Peer, NEW line \in Line, PeerSends(topic, peer, line)
        PROVE  DataTypes' /\ LoopInv'
    BY <1>1, <1>12, <2>1, EventTypes DEF PeerSends
  <2>2. ASSUME NEW event \in {AboutMe(peer) : peer \in Peer} \cup {Other},
               OtherThanLine(topic, event)
        PROVE  DataTypes' /\ LoopInv'
    BY <1>1, <1>12, <2>2, EventTypes DEF OtherThanLine
  <2> QED
    BY <1>13, <2>1, <2>2
<1>14. ASSUME NEW l \in DOMAIN loops, LoopEnds(l) \/ LoopReads(l)
       PROVE  DataTypes' /\ LoopInv'
  <2>1. loops' \in Seq(Loop) /\ names' \subseteq Peer
    BY <1>1, <1>14, LoopStep
  <2>2. UNCHANGED <<backend, channel, history>>
    BY <1>14 DEF LoopEnds, LoopReads, LoopAboutMe, LoopMessage, LoopOther
  <2>3. LoopInv'
    BY <1>1, <1>14, LoopStepInv
  <2> QED
    BY <1>1, <2>1, <2>2, <2>3
<1>15. ASSUME NEW l \in DOMAIN loops, LoopPuts(l)
       PROVE  DataTypes' /\ LoopInv'
  <2>2. Chat(loops[l].hand, loops[l].from, l) \in Chats
    BY <1>15, LoopChat
  <2>3. LoopInv' /\ loops' \in Seq(Loop)
    BY <1>1, <1>15, LoopStep, LoopStepInv
  <2>4. /\ channel' \in Seq(Chats) /\ Len(channel') <= Capacity
        /\ put' \in Seq(Chats)
    BY <1>1, <1>15, <2>2, PutTypes DEF LoopPuts
  <2> QED
    BY <1>1, <1>15, <2>3, <2>4 DEF LoopPuts
<1>16. CASE NextMessage \/ \E topic \in Fresh : FinishStarts(topic)
  <2>1. CASE \E topic \in Fresh : FinishStarts(topic)
    BY <1>1, <1>2, <2>1 DEF FinishStarts
  <2>2. CASE NextMessage
    <3>1. channel' \in Seq(Chats) /\ Len(channel') <= Capacity
      BY <1>1, <2>2, ClientAssumption DEF NextMessage
    <3>2. LoopInv'
      BY <1>1, <2>2 DEF NextMessage, LoopInv
    <3> QED
      BY <1>1, <2>2, <3>1, <3>2 DEF NextMessage
  <2> QED
    BY <1>16, <2>1, <2>2
<1> HIDE DEF history, backend, DataTypes
<1>17. ASSUME NEW t \in Task, CallSteps(t) \/ JoinEnds(t) \/ Echo(t)
       PROVE  DataTypes' /\ LoopInv'
  BY <1>5, <1>6, <1>7, <1>8, <1>9, <1>10, <1>11, <1>17 DEF CallSteps, JoinEnds
<1> QED
  BY <1>3, <1>4, <1>13, <1>14, <1>15, <1>16, <1>17 DEF Next

\* The calls own the mutex as they should, joins stay within their bound,
\* loops know what they show: in every state of every behaviour.
THEOREM ClientInvariant == Spec => []ClientInv
<1>1. Init => ClientInv
  <2> SUFFICES ASSUME Init
               PROVE  ClientInv
    OBVIOUS
  <2>1. TypeOK
    <3>1. /\ Len(loops) <= MaxLoops /\ Len(channel) <= Capacity
          /\ loops \in Seq(Loop) /\ channel \in Seq(Chats) /\ put \in Seq(Chats)
          /\ queue \in Seq(Task) /\ broadcast \in Seq([topic : Topic, line : Line])
      BY ClientAssumption DEF Init
    <3> QED
      BY <3>1 DEF Init, TypeOK
  <2>2. CallInv
    BY ClientAssumption DEF Init, CallInv, Task
  <2>3. JoinsBounded
    <3>1. InJoin = {} /\ Joining = {} /\ Len(loops) = 0
      BY DEF Init, InJoin, Joining, Busy
    <3> QED
      BY <3>1, FS_EmptySet, ClientAssumption DEF JoinsBounded
  <2>4. LoopInv
    BY DEF Init, LoopInv
  <2> QED
    BY <2>1, <2>2, <2>3, <2>4 DEF ClientInv
<1>2. ClientInv /\ [Next]_vars => ClientInv'
  <2> SUFFICES ASSUME ClientInv, [Next]_vars
               PROVE  ClientInv'
    OBVIOUS
  <2>1. CASE Next
    <3>1. CallTypes' /\ CallInv'
      BY <2>1, NextCalls DEF ClientInv
    <3>2. DataTypes' /\ LoopInv'
      BY <2>1, NextData
    <3>3. JoinsBounded'
      BY <2>1, NextJoins
    <3>4. (Len(loops) <= MaxLoops)'
      <4>1. IsFiniteSet(Joining')
        BY <3>3, FS_Subset DEF JoinsBounded, Joining
      <4>2. Cardinality(Joining') \in Nat
        BY <4>1, FS_CardinalityType
      <4>3. Len(loops') \in Nat
        BY <3>2 DEF DataTypes
      <4> QED
        BY <3>3, <4>2, <4>3, ClientAssumption DEF JoinsBounded
    <3>5. TypeOK'
      BY <3>1, <3>2, <3>4 DEF TypeOK, CallTypes, DataTypes, Ops
    <3> QED
      BY <3>1, <3>2, <3>3, <3>5 DEF ClientInv
  <2>2. CASE UNCHANGED vars
    BY <2>2 DEF vars, ClientInv, TypeOK, CallInv, JoinsBounded, LoopInv, Holds,
       InJoin, Joining, Busy
  <2> QED
    BY <2>1, <2>2
<1> QED
  BY <1>1, <1>2, PTL DEF Spec

\* TypeOK: what every variable of the client may be, the bounds of the
\* channel and of the joins included.
THEOREM TypeCorrect == Spec => []TypeOK
<1>1. ClientInv => TypeOK
  BY DEF ClientInv
<1> QED
  BY <1>1, ClientInvariant, PTL

---------------------------------------------------------------------------
(* The own lines.                                                          *)

\* Only a broadcast puts a task between broadcast and echo, and only echoes
\* and loops put anything into the channel.
LEMMA NextEcho ==
  ASSUME ClientInv, Next
  PROVE  \/ /\ UNCHANGED <<put, broadcast>>
            /\ \A t \in Task :
                 op'[t] = "echo" => op[t] = "echo" /\ arg'[t] = arg[t]
         \/ \E t \in Task : Broadcast(t) \/ Echo(t)
         \/ \E l \in DOMAIN loops : LoopPuts(l)
<1> DEFINE Quiet == /\ UNCHANGED <<put, broadcast>>
                    /\ \A t \in Task : op'[t] = "echo" =>
                         op[t] = "echo" /\ arg'[t] = arg[t]
<1> USE DEF history
<1>1. /\ op \in [Task -> Ops]
      /\ arg \in [Task -> Topic \cup Line \cup {None, BadTicket}]
  BY DEF ClientInv, TypeOK, Ops
<1>2. ASSUME NEW t \in Caller,
             \/ Open(t)
             \/ \E ticket \in Topic \cup {BadTicket} : Join(t, ticket)
             \/ \E line \in Line : Send(t, line)
      PROVE  Quiet
  BY <1>1, <1>2 DEF Open, Join, Send, Begin
<1>3. ASSUME NEW t \in Task,
             \/ Abort(t) \/ BindFails(t) \/ TicketRejected(t)
             \/ FinishFindsNone(t) \/ SendWithoutRoom(t) \/ SendFails(t)
             \/ JoinEnds(t)
      PROVE  Quiet
  <2>1. Return(t) /\ UNCHANGED <<put, broadcast>>
    BY <1>3 DEF Abort, BindFails, TicketRejected, FinishFindsNone,
         SendWithoutRoom, SendFails, JoinEnds, Joined, JoinFails, AnnounceFails
  <2> QED
    BY <1>1, <2>1 DEF Return
<1>4. ASSUME NEW t \in Task,
             \/ JoinRoom(t) \/ FinishTakes(t)
             \/ \E topic \in Fresh : BeginOpenRoom(t, topic)
      PROVE  Quiet
  BY <1>1, <1>4 DEF JoinRoom, FinishTakes, BeginOpenRoom, Step, Task
<1>5. ASSUME NEW topic \in Fresh, FinishStarts(topic)
      PROVE  Quiet
  BY <1>1, <1>5 DEF FinishStarts, Task
<1>6. ASSUME NEW topic \in Topic, NEW event, Deliver(topic, event)
      PROVE  Quiet
  BY <1>1, <1>6 DEF Deliver, calls
<1>7. ASSUME NEW l \in DOMAIN loops, LoopEnds(l) \/ LoopReads(l)
      PROVE  Quiet
  BY <1>1, <1>7
     DEF LoopEnds, LoopReads, LoopAboutMe, LoopMessage, LoopOther, calls
<1>8. CASE NextMessage
  BY <1>1, <1>8 DEF NextMessage, calls
<1> HIDE DEF history, Quiet
<1>9. ASSUME NEW t \in Task, CallSteps(t) \/ JoinEnds(t)
      PROVE  Quiet \/ Broadcast(t)
  BY <1>3, <1>4, <1>9 DEF CallSteps
<1>10. ASSUME NEW topic \in Topic,
              \/ \E peer \in Peer, line \in Line : PeerSends(topic, peer, line)
              \/ \E event \in {AboutMe(peer) : peer \in Peer} \cup {Other} :
                   OtherThanLine(topic, event)
       PROVE  Quiet
  BY <1>6, <1>10 DEF PeerSends, OtherThanLine
<1>11. ASSUME NEW t \in Caller, Abort(t)
       PROVE  Quiet
  BY <1>3, <1>11 DEF Task
<1> DEFINE Noisy == \/ \E t \in Task : Broadcast(t) \/ Echo(t)
                    \/ \E l \in DOMAIN loops : LoopPuts(l)
<1>12. CASE \E t \in Task : CallSteps(t) \/ JoinEnds(t) \/ Echo(t)
  <2>1. Quiet \/ Noisy
    BY <1>9, <1>12
  <2> QED
    BY <2>1 DEF Quiet
<1>13. CASE \E l \in DOMAIN loops : LoopEnds(l) \/ LoopReads(l) \/ LoopPuts(l)
  <2>1. Quiet \/ Noisy
    BY <1>7, <1>13
  <2> QED
    BY <2>1 DEF Quiet
<1> HIDE DEF Noisy
<1>14. Quiet \/ Noisy
  BY <1>2, <1>5, <1>8, <1>10, <1>11, <1>12, <1>13 DEF Next, Noisy, Quiet
<1> QED
  BY <1>14 DEF Quiet, Noisy

\* EchoesInOrder, and that the line of a send in the middle is the last one
\* broadcast and is not in the channel yet.
EchoInv ==
  /\ EchoesInOrder
  /\ \A t \in Task : op[t] = "echo" =>
       /\ Len(broadcast) > 0 /\ broadcast[Len(broadcast)].line = arg[t]
       /\ Echoed(Len(broadcast) - 1)

\* A further broadcast, or a line of another, leaves the echoes in order.
LEMMA EchoedStays ==
  ASSUME NEW n \in Nat, n <= Len(broadcast), Echoed(n), put \in Seq(Chats),
         broadcast \in Seq([topic : Topic, line : Line]),
         \/ UNCHANGED broadcast
         \/ \E x \in [topic : Topic, line : Line] : broadcast' = Append(broadcast, x),
         \/ UNCHANGED put
         \/ \E c \in Chats : c.loop # 0 /\ put' = Append(put, c),
         NEW m \in Nat, n <= m
  PROVE  Echoed(m)'
<1>1. \A k \in 1..n : broadcast'[k] = broadcast[k]
  OBVIOUS
<1>2. \A i \in DOMAIN put' : put'[i].loop = 0 => i \in DOMAIN put /\ put'[i] = put[i]
  OBVIOUS
<1>3. \A k \in 1..n : k \in 1..m
  OBVIOUS
<1>4. ASSUME NEW i \in DOMAIN put', NEW j \in DOMAIN put',
             put'[i].loop = 0, put'[j].loop = 0, i <= j
      PROVE  EchoOf(m, i, j)'
  <2>1. /\ i \in DOMAIN put /\ put'[i] = put[i] /\ put[i].loop = 0
        /\ j \in DOMAIN put /\ put'[j] = put[j] /\ put[j].loop = 0
    BY <1>2, <1>4
  <2>2. EchoOf(n, i, j)
    BY <1>4, <2>1 DEF Echoed
  <2>3. PICK k, h \in 1..n :
          /\ broadcast[k].line = put[i].line /\ broadcast[h].line = put[j].line
          /\ k <= h /\ (i < j => k < h)
    BY <2>2 DEF EchoOf
  <2>4. /\ k \in 1..m /\ h \in 1..m
        /\ broadcast'[k].line = put'[i].line /\ broadcast'[h].line = put'[j].line
    BY <1>1, <1>3, <2>1, <2>3
  <2> QED
    BY <2>3, <2>4 DEF EchoOf
<1> QED
  BY <1>4 DEF Echoed

\* No step puts the own lines out of order.
LEMMA NextEchoInv ==
  ASSUME ClientInv, EchoInv, Next
  PROVE  EchoInv'
<1>1. /\ op \in [Task -> Ops] /\ put \in Seq(Chats)
      /\ arg \in [Task -> Topic \cup Line \cup {None, BadTicket}]
      /\ broadcast \in Seq([topic : Topic, line : Line])
      /\ sender \in Topic \cup {None} /\ Len(broadcast) \in Nat
      /\ CallInv
  BY DEF ClientInv, TypeOK, Ops
<1>2. \A t, u \in Task : op[t] = "echo" /\ op[u] = "echo" => t = u
  BY <1>1 DEF CallInv, Holds
<1>3. CASE /\ UNCHANGED <<put, broadcast>>
           /\ \A t \in Task :
                op'[t] = "echo" => op[t] = "echo" /\ arg'[t] = arg[t]
  BY <1>3 DEF EchoInv, EchoesInOrder, Echoed, EchoOf
<1>4. PICK n \in Nat : n = Len(broadcast)
  BY <1>1
<1>5. Echoed(n)
  BY <1>4 DEF EchoInv, EchoesInOrder
<1>6. ASSUME NEW t \in Task, Broadcast(t)
      PROVE  EchoInv'
  <2> DEFINE x == [topic |-> sender, line |-> arg[t]]
  <2>1. /\ x \in [topic : Topic, line : Line] /\ x.line = arg[t]
        /\ broadcast' = Append(broadcast, x)
        /\ put' = put /\ arg'[t] = arg[t] /\ Holds(t)
    BY <1>1, <1>6 DEF Broadcast, CallInv, Step
  <2> HIDE DEF x
  <2>2. /\ Len(broadcast') = n + 1 /\ broadcast'[n + 1] = x
    BY <1>1, <1>4, <2>1
  <2>3. Echoed(n)' /\ Echoed(n + 1)'
    <3>1. n <= n /\ n <= n + 1 /\ n + 1 \in Nat /\ n <= Len(broadcast)
      BY <1>4
    <3>2. /\ UNCHANGED put
          /\ \E y \in [topic : Topic, line : Line] : broadcast' = Append(broadcast, y)
      BY <2>1
    <3> QED
      BY <1>1, <1>5, <3>1, <3>2, EchoedStays
  <2>4. \A u \in Task : op'[u] = "echo" => u = t
    BY <1>1, <1>6, <2>1 DEF Broadcast, Step, CallInv, Holds
  <2>5. EchoesInOrder'
    BY <2>2, <2>3 DEF EchoesInOrder
  <2>6. n + 1 > 0 /\ (n + 1) - 1 = n
    OBVIOUS
  <2>7. (Len(broadcast) > 0 /\ broadcast[Len(broadcast)].line = arg[t])'
    BY <2>1, <2>2, <2>6
  <2>8. Echoed(Len(broadcast) - 1)'
    BY <2>2, <2>3, <2>6
  <2> QED
    BY <2>4, <2>5, <2>7, <2>8 DEF EchoInv
<1>7. ASSUME NEW t \in Task, Echo(t)
      PROVE  EchoInv'
  <2> DEFINE c == Chat(arg[t], IF Named THEN "name" ELSE "id", 0)
  <2>1. /\ c.loop = 0 /\ c.line = arg[t]
        /\ put' = Append(put, c) /\ broadcast' = broadcast
        /\ op[t] = "echo" /\ op'[t] = "idle"
        /\ \A u \in Task : u # t => op'[u] = op[u]
    BY <1>1, <1>7 DEF Echo, Put, Return, Chat
  <2> HIDE DEF c
  <2>2. /\ n > 0 /\ broadcast[n].line = arg[t] /\ Echoed(n - 1)
    BY <1>4, <2>1 DEF EchoInv
  <2>3. \A u \in Task : op'[u] # "echo"
    BY <1>2, <2>1
  <2>4. ASSUME NEW i \in DOMAIN put', NEW j \in DOMAIN put',
               put'[i].loop = 0, put'[j].loop = 0, i <= j
        PROVE  EchoOf(n, i, j)'
    <3>1. /\ DOMAIN put' = 1..(Len(put) + 1) /\ put'[Len(put) + 1] = c
          /\ \A k \in DOMAIN put : put'[k] = put[k]
          /\ Len(put) \in Nat /\ DOMAIN put = 1..Len(put)
      BY <1>1, <2>1
    <3>2. CASE j \in DOMAIN put
      <4>1. i \in DOMAIN put /\ put'[i] = put[i] /\ put'[j] = put[j]
        BY <2>4, <3>1, <3>2
      <4>2. EchoOf(n, i, j)
        BY <1>5, <2>4, <3>2, <4>1 DEF Echoed
      <4> QED
        BY <2>1, <4>1, <4>2 DEF EchoOf
    <3>3. CASE i \in DOMAIN put /\ j = Len(put) + 1
      <4>1. EchoOf(n - 1, i, i)
        BY <2>2, <2>4, <3>1, <3>3 DEF Echoed
      <4>2. PICK k \in 1..(n - 1) : broadcast[k].line = put[i].line
        BY <4>1 DEF EchoOf
      <4>3. k \in 1..n /\ n \in 1..n /\ k < n
        BY <2>2
      <4>4. /\ broadcast'[k].line = put'[i].line
            /\ broadcast'[n].line = put'[j].line
        BY <2>1, <2>2, <3>1, <3>3, <4>2
      <4> QED
        BY <4>3, <4>4 DEF EchoOf
    <3>4. CASE i = Len(put) + 1
      <4>1. j = i /\ ~ (i < j) /\ n \in 1..n /\ n <= n
        BY <2>2, <2>4, <3>1, <3>4
      <4>2. broadcast'[n].line = put'[i].line
        BY <2>1, <2>2, <3>1, <3>4
      <4> QED
        BY <4>1, <4>2 DEF EchoOf
    <3> QED
      BY <3>1, <3>2, <3>3, <3>4
  <2>5. EchoesInOrder'
    BY <1>4, <2>1, <2>4 DEF EchoesInOrder, Echoed
  <2> QED
    BY <2>3, <2>5 DEF EchoInv
<1>8. ASSUME NEW l \in DOMAIN loops, LoopPuts(l)
      PROVE  EchoInv'
  <2> DEFINE c == Chat(loops[l].hand, loops[l].from, l)
  <2>1. /\ c \in Chats /\ c.loop # 0
        /\ put' = Append(put, c) /\ broadcast' = broadcast
        /\ op' = op /\ arg' = arg
    BY <1>8, LoopChat DEF LoopPuts, Put, calls
  <2> HIDE DEF c
  <2>2. EchoesInOrder'
    <3>1. n <= n /\ n <= Len(broadcast)
      BY <1>4
    <3>2. Echoed(n)'
      BY <1>1, <1>5, <2>1, <3>1, EchoedStays
    <3> QED
      BY <1>4, <2>1, <3>2 DEF EchoesInOrder
  <2>3. ASSUME NEW t \in Task, op[t] = "echo"
        PROVE  /\ Len(broadcast) > 0 /\ broadcast[Len(broadcast)].line = arg[t]
               /\ Echoed(n - 1)'
    <3>1. /\ n > 0 /\ broadcast[n].line = arg[t] /\ Echoed(n - 1)
      BY <1>4, <2>3 DEF EchoInv
    <3>2. n - 1 \in Nat /\ n - 1 <= n - 1 /\ n - 1 <= Len(broadcast)
      BY <1>4, <3>1
    <3>3. Echoed(n - 1)'
      BY <1>1, <2>1, <3>1, <3>2, EchoedStays
    <3> QED
      BY <1>4, <3>1, <3>3
  <2>4. ASSUME NEW t \in Task, op[t] = "echo"
        PROVE  Echoed(Len(broadcast) - 1)'
    BY <1>4, <2>1, <2>3, <2>4
  <2> QED
    BY <2>1, <2>2, <2>3, <2>4 DEF EchoInv
<1> QED
  BY <1>3, <1>6, <1>7, <1>8, NextEcho

\* EchoesInOrder: the user sees the own lines in the order the room does,
\* however many tasks send, wait, are aborted or find the channel full.
THEOREM OwnLinesInOrder == Spec => []EchoesInOrder
<1>1. Init => EchoInv
  BY DEF Init, EchoInv, EchoesInOrder, Echoed
<1>2. ClientInv /\ EchoInv /\ [Next]_vars => EchoInv'
  <2>1. ASSUME EchoInv, UNCHANGED vars
        PROVE  EchoInv'
    BY <2>1 DEF vars, EchoInv, EchoesInOrder, Echoed, EchoOf
  <2> QED
    BY <2>1, NextEchoInv
<1>3. EchoInv => EchoesInOrder
  BY DEF EchoInv
<1> QED
  BY <1>1, <1>2, <1>3, ClientInvariant, PTL DEF Spec

---------------------------------------------------------------------------
(* The room a client sends into.                                           *)

\* No step leaves a sender without a receiver, but a failing announcement.
LEMMA NextHears ==
  ASSUME ClientInv, HearsWhereItSends, Next
  PROVE  HearsWhereItSends'
<1> DEFINE Kept == /\ UNCHANGED <<sender, halfway>>
                   /\ DOMAIN loops \subseteq DOMAIN loops'
                   /\ \A l \in DOMAIN loops : loops'[l].topic = loops[l].topic
<1> USE DEF history, backend
<1>1. loops \in Seq(Loop) /\ names \subseteq Peer
  BY DEF ClientInv, TypeOK
<1>2. ASSUME Kept
      PROVE  HearsWhereItSends'
  BY <1>2 DEF HearsWhereItSends
<1>3. ASSUME UNCHANGED <<sender, halfway, loops>>
      PROVE  Kept
  BY <1>3
<1>4. ASSUME NEW t \in Caller,
             \/ Open(t)
             \/ \E ticket \in Topic \cup {BadTicket} : Join(t, ticket)
             \/ \E line \in Line : Send(t, line)
             \/ Abort(t)
      PROVE  UNCHANGED <<sender, halfway, loops>>
  BY <1>4 DEF Open, Join, Send, Abort
<1>5. ASSUME NEW t \in Task, CallSteps(t) \/ JoinFails(t) \/ Echo(t)
      PROVE  UNCHANGED <<sender, halfway, loops>>
  BY <1>5 DEF CallSteps, JoinFails, Echo, BeginOpenRoom, BindFails,
     TicketRejected, JoinRoom, FinishTakes, FinishFindsNone, SendWithoutRoom,
     SendFails, Broadcast
<1>6. CASE NextMessage \/ \E topic \in Fresh : FinishStarts(topic)
  <2>1. UNCHANGED <<sender, halfway, loops>>
    BY <1>6 DEF NextMessage, FinishStarts
  <2> QED
    BY <1>2, <1>3, <2>1
<1>7. ASSUME NEW t \in Task, Joined(t)
      PROVE  HearsWhereItSends'
  <2>1. loops' = Append(loops, NewLoop(arg[t])) /\ sender' = arg[t]
    BY <1>7 DEF Joined
  <2>2. NewLoop(arg[t]).topic = arg[t]
    BY DEF NewLoop
  <2>3. /\ Len(loops) + 1 \in DOMAIN loops'
        /\ loops'[Len(loops) + 1] = NewLoop(arg[t])
    BY <1>1, <2>1
  <2> QED
    BY <2>1, <2>2, <2>3 DEF HearsWhereItSends
<1>8. ASSUME NEW t \in Task, AnnounceFails(t)
      PROVE  HearsWhereItSends'
  BY <1>8 DEF AnnounceFails, HearsWhereItSends
<1>9. ASSUME NEW topic \in Topic, NEW event \in Event, Deliver(topic, event)
      PROVE  HearsWhereItSends'
  <2>1. UNCHANGED <<sender, halfway>>
    BY <1>9 DEF Deliver
  <2>2. Kept
    BY <1>1, <1>9, <2>1, DeliverLoops
  <2> QED
    BY <1>2, <2>2
<1>10. ASSUME NEW l \in DOMAIN loops, LoopEnds(l) \/ LoopReads(l) \/ LoopPuts(l)
       PROVE  HearsWhereItSends'
  <2>1. UNCHANGED <<sender, halfway>>
    BY <1>10
       DEF LoopEnds, LoopReads, LoopAboutMe, LoopMessage, LoopOther, LoopPuts
  <2>2. Kept
    BY <1>1, <1>10, <2>1, LoopStep
  <2> QED
    BY <1>2, <2>2
<1> HIDE DEF history, backend, Kept
<1>11. ASSUME NEW topic \in Topic,
              \/ \E peer \in Peer, line \in Line : PeerSends(topic, peer, line)
              \/ \E event \in {AboutMe(peer) : peer \in Peer} \cup {Other} :
                   OtherThanLine(topic, event)
       PROVE  HearsWhereItSends'
  BY <1>9, <1>11, EventTypes DEF PeerSends, OtherThanLine
<1>12. ASSUME NEW t \in Task, CallSteps(t) \/ JoinEnds(t) \/ Echo(t)
       PROVE  HearsWhereItSends'
  BY <1>2, <1>3, <1>5, <1>7, <1>8, <1>12 DEF JoinEnds
<1> QED
  BY <1>2, <1>3, <1>4, <1>6, <1>10, <1>11, <1>12 DEF Next

\* HearsWhereItSends: a client that can send into a room has a receiver in
\* it, unless the announcement of its name failed.
THEOREM SenderHasReceiver == Spec => []HearsWhereItSends
<1>1. Init => HearsWhereItSends
  BY DEF Init, HearsWhereItSends
<1>2. ClientInv /\ HearsWhereItSends /\ [Next]_vars => HearsWhereItSends'
  <2>1. ASSUME HearsWhereItSends, UNCHANGED vars
        PROVE  HearsWhereItSends'
    BY <2>1 DEF vars, HearsWhereItSends
  <2> QED
    BY <2>1, NextHears
<1> QED
  BY <1>1, <1>2, ClientInvariant, PTL DEF Spec

---------------------------------------------------------------------------
(* The lines of the others.                                                *)

\* The lines a loop has put into the channel, each at its place there.
TextOf(l) == [i \in {j \in DOMAIN put : put[j].loop = l} |-> put[i].line]

\* Conveyed, of a loop that put this text.
ConveyedAs(loop, text) ==
  /\ loop.events = SubSeq(loop.delivered, Read(loop) + 1, Len(loop.delivered))
  /\ \A d \in 1..Read(loop) : loop.delivered[d].kind = "Message" =>
       \/ loop.delivered[d].line = loop.hand
       \/ \E i \in DOMAIN text : text[i] = loop.delivered[d].line
  /\ \A i \in DOMAIN text : \E d \in 1..Read(loop) : LineAt(loop, d, text[i])
  /\ \A i \in DOMAIN text, d, e \in 1..Read(loop) : LineAt(loop, d, text[i]) =>
       /\ LineAt(loop, e, loop.hand) => d < e
       /\ \A j \in DOMAIN text : i < j /\ LineAt(loop, e, text[j]) => d < e

\* No line is handed to a loop twice, what it was handed exists, it has met
\* every peer it has read of.
Told(loop, told, met) ==
  /\ Len(loop.events) <= Len(loop.delivered)
  /\ \A d, e \in DOMAIN loop.delivered :
       loop.delivered[e].kind = "Message" /\ LineAt(loop, d, loop.delivered[e].line)
         => d = e
  /\ \A d \in DOMAIN loop.delivered :
       loop.delivered[d].kind = "Message" => loop.delivered[d].line \in told
  /\ \A d \in 1..Read(loop) :
       loop.delivered[d].kind = "AboutMe" => loop.delivered[d].peer \in met

Known == {peer \in Peer : Announced(peer)}

\* ShownAs, of a client to which these peers are known.
Shown(loop, line, from, known) ==
  \A d \in DOMAIN loop.delivered : LineAt(loop, d, line) =>
    /\ (\E e \in 1..d : loop.delivered[e] = AboutMe(loop.delivered[d].peer)) =>
         from = "name"
    /\ from = "name" => loop.delivered[d].peer \in known

\* What a loop has in hand it has read, and will show as it should.
InHand(loop, known) ==
  loop.hand # None =>
    /\ \E d \in 1..Read(loop) : LineAt(loop, d, loop.hand)
    /\ Shown(loop, loop.hand, loop.from, known)

Kept(loop, text, told, met, known) ==
  Told(loop, told, met) /\ ConveyedAs(loop, text) /\ InHand(loop, known)

\* The lines of the loops are conveyed and named as they should, which needs
\* to know of each loop what it was handed and has in hand.
ConveyInv ==
  /\ \A l \in DOMAIN loops : Kept(loops[l], TextOf(l), used, names, Known)
  /\ \A i \in DOMAIN put : put[i].loop # 0 =>
       /\ put[i].loop \in DOMAIN loops
       /\ Shown(loops[put[i].loop], put[i].line, put[i].from, Known)
  /\ names \subseteq Known

\* What of all handed over is unread when the first r have been read.
Unread(events, delivered, r) ==
  /\ events \in Seq(Event) /\ delivered \in Seq(Event)
  /\ r \in Nat /\ r + Len(events) = Len(delivered)
  /\ events = SubSeq(delivered, r + 1, Len(delivered))

\* Reading takes the first of what is unread.
LEMMA UnreadTail ==
  ASSUME NEW S, NEW events \in Seq(S), NEW delivered \in Seq(S), events # <<>>,
         NEW r \in Nat, r + Len(events) = Len(delivered),
         events = SubSeq(delivered, r + 1, Len(delivered))
  PROVE  /\ r + 1 \in DOMAIN delivered /\ Head(events) = delivered[r + 1]
         /\ Tail(events) \in Seq(S) /\ Len(Tail(events)) = Len(events) - 1
         /\ Tail(events) = SubSeq(delivered, (r + 1) + 1, Len(delivered))
<1>1. /\ Len(events) \in Nat /\ Len(events) >= 1 /\ Len(delivered) \in Nat
      /\ Tail(events) \in Seq(S) /\ Len(Tail(events)) = Len(events) - 1
  OBVIOUS
<1>2. /\ r + 1 \in 1..Len(delivered)
      /\ Len(delivered) \in (r + 1)..Len(delivered)
  BY <1>1
<1>3. /\ Head(events) = delivered[r + 1]
      /\ Tail(events) = SubSeq(delivered, (r + 1) + 1, Len(delivered))
  BY <1>2, HeadTailOfSubSeq
<1> QED
  BY <1>1, <1>2, <1>3

\* Handing over adds a last one to what is unread.
LEMMA UnreadAppend ==
  ASSUME NEW events, NEW delivered, NEW r, Unread(events, delivered, r),
         NEW e \in Event
  PROVE  Unread(Append(events, e), Append(delivered, e), r)
<1> USE DEF Unread
<1> DEFINE more == Append(delivered, e)
           n == Len(delivered)
<1>1. /\ n \in Nat /\ more \in Seq(Event) /\ Len(more) = n + 1 /\ more[n + 1] = e
      /\ \A i \in 1..n : more[i] = delivered[i]
  BY AppendProperties
<1>2. Append(events, e) = events \o <<e>>
  BY AppendIsConcat
<1>3. /\ r + 1 \in 1..(n + 1) /\ n \in r..(n + 1) /\ n + 1 \in (r + 1)..(n + 1)
      /\ (n + 1) - 1 = n /\ (r = n \/ r + 1 \in 1..n)
  BY <1>1, LenProperties
<1>4. SubSeq(more, r + 1, n + 1) = SubSeq(more, r + 1, n) \o <<e>>
  <2>1. /\ r + 1 \in 1..Len(more) /\ n + 1 \in (r + 1)..Len(more)
    BY <1>1, <1>3
  <2> HIDE DEF more, n
  <2> QED
    BY <1>1, <1>3, <2>1, SubSeqRecursiveSecond
<1>5. SubSeq(more, r + 1, n) = SubSeq(delivered, r + 1, n)
  <2>1. CASE r = n
    <3>1. n < r + 1 /\ r + 1 \in Int /\ n \in Int
      BY <1>1, <2>1
    <3> QED
      BY <3>1, SubSeqEmpty
  <2>2. CASE r + 1 \in 1..n
    <3>1. more = delivered \o <<e>> /\ <<e>> \in Seq(Event) /\ n \in 1..n
      BY <1>1, <2>2, AppendIsConcat
    <3>2. r + 1 \in 1..Len(delivered) /\ n \in 1..Len(delivered)
      BY <2>2, <3>1
    <3> HIDE DEF more, n
    <3> QED
      BY <3>1, <3>2, SubSeqOfConcat1
  <2> QED
    BY <1>3, <2>1, <2>2
<1>6. Append(events, e) = SubSeq(more, r + 1, Len(more))
  BY <1>1, <1>2, <1>4, <1>5
<1>7. /\ Append(events, e) \in Seq(Event) /\ Len(Append(events, e)) = Len(events) + 1
      /\ Len(events) \in Nat
  BY AppendProperties
<1>8. r + Len(Append(events, e)) = Len(more)
  <2>1. r \in Nat /\ r + Len(events) = n
    OBVIOUS
  <2> HIDE DEF more, n
  <2> DEFINE k == Len(events)
  <2>2. Len(Append(events, e)) = k + 1 /\ k \in Nat /\ r \in Nat /\ r + k = n
    BY <1>7, <2>1
  <2> HIDE DEF k
  <2> QED
    BY ONLY <1>1, <2>2
<1> HIDE DEF Unread
<1>9. r \in Nat /\ more \in Seq(Event)
  BY <1>1 DEF Unread
<1> HIDE DEF more
<1>10. Unread(Append(events, e), more, r)
  BY ONLY <1>6, <1>7, <1>8, <1>9 DEF Unread
<1> QED
  BY <1>10 DEF more

\* A loop has read no more than it was handed.
LEMMA ReadBound ==
  ASSUME NEW loop \in Loop, NEW told, NEW met, Told(loop, told, met)
  PROVE  /\ Read(loop) \in Nat /\ Read(loop) <= Len(loop.delivered)
         /\ loop.delivered \in Seq(Event) /\ loop.events \in Seq(Event)
         /\ Len(loop.events) \in Nat /\ Len(loop.delivered) \in Nat
         /\ Read(loop) + Len(loop.events) = Len(loop.delivered)
         /\ DOMAIN loop.delivered = 1..Len(loop.delivered)
         /\ \A d \in 1..Read(loop) : d \in DOMAIN loop.delivered
<1>1. loop.delivered \in Seq(Event) /\ loop.events \in Seq(Event)
  BY DEF Loop
<1> DEFINE events == loop.events
           delivered == loop.delivered
           r == Len(delivered) - Len(events)
<1>2. Len(events) <= Len(delivered)
  BY DEF Told
<1>3. events \in Seq(Event) /\ delivered \in Seq(Event)
  BY <1>1
<1> HIDE DEF events, delivered
<1>4. /\ Len(events) \in Nat /\ Len(delivered) \in Nat
      /\ r \in Nat /\ r <= Len(delivered) /\ r + Len(events) = Len(delivered)
      /\ DOMAIN delivered = 1..Len(delivered)
      /\ \A d \in 1..r : d \in DOMAIN delivered
  BY <1>2, <1>3
<1>5. Read(loop) = r
  BY DEF Read, events, delivered
<1> HIDE DEF r
<1> QED
  BY <1>3, <1>4, <1>5 DEF events, delivered

\* The next event of a loop is the first of those it has not read.
LEMMA NextEvent ==
  ASSUME NEW loop \in Loop, NEW told, NEW met, Told(loop, told, met), NEW text,
         ConveyedAs(loop, text), loop.events # <<>>
  PROVE  /\ Read(loop) + 1 \in DOMAIN loop.delivered
         /\ Head(loop.events) = loop.delivered[Read(loop) + 1]
         /\ Len(Tail(loop.events)) = Len(loop.events) - 1
         /\ Tail(loop.events) =
              SubSeq(loop.delivered, (Read(loop) + 1) + 1, Len(loop.delivered))
<1>1. /\ Read(loop) \in Nat /\ Read(loop) + Len(loop.events) = Len(loop.delivered)
      /\ loop.delivered \in Seq(Event) /\ loop.events \in Seq(Event)
  BY ReadBound
<1> DEFINE events == loop.events
           delivered == loop.delivered
           r == Read(loop)
<1>2. events = SubSeq(delivered, r + 1, Len(delivered)) /\ events # <<>>
  BY DEF ConveyedAs
<1>3. /\ r \in Nat /\ r + Len(events) = Len(delivered)
      /\ delivered \in Seq(Event) /\ events \in Seq(Event)
  BY <1>1
<1> HIDE DEF events, delivered, r
<1>4. /\ r + 1 \in DOMAIN delivered /\ Head(events) = delivered[r + 1]
      /\ Len(Tail(events)) = Len(events) - 1
      /\ Tail(events) = SubSeq(delivered, (r + 1) + 1, Len(delivered))
  BY ONLY <1>2, <1>3, UnreadTail, SMTT(60)
<1> QED
  BY <1>4 DEF events, delivered, r

\* What is handed to a loop now is the last of what it has not read.
LEMMA LastEvent ==
  ASSUME NEW loop \in Loop, NEW told, NEW met, Told(loop, told, met), NEW text,
         ConveyedAs(loop, text), NEW event \in Event
  PROVE  Append(loop.events, event) =
           SubSeq(Append(loop.delivered, event), Read(loop) + 1,
                  Len(Append(loop.delivered, event)))
<1>1. /\ Read(loop) \in Nat /\ Read(loop) + Len(loop.events) = Len(loop.delivered)
      /\ loop.delivered \in Seq(Event) /\ loop.events \in Seq(Event)
  BY ReadBound
<1>2. loop.events = SubSeq(loop.delivered, Read(loop) + 1, Len(loop.delivered))
  BY DEF ConveyedAs
<1>3. Unread(loop.events, loop.delivered, Read(loop))
  BY <1>1, <1>2 DEF Unread
<1>4. Unread(Append(loop.events, event), Append(loop.delivered, event), Read(loop))
  BY ONLY event \in Event, <1>3, UnreadAppend
<1> QED
  BY <1>4 DEF Unread

\* A loop that was handed nothing, has read and put nothing, is kept, whatever
\* else comes to exist.
LEMMA KeptStill ==
  ASSUME NEW loop, NEW new, NEW text, NEW told, NEW met, NEW known,
         NEW told2, NEW met2, NEW known2, Kept(loop, text, told, met, known),
         told \subseteq told2, met \subseteq met2, known \subseteq known2,
         new.delivered = loop.delivered, new.events = loop.events,
         new.hand = loop.hand, new.from = loop.from
  PROVE  Kept(new, text, told2, met2, known2)
<1>1. Read(new) = Read(loop) /\ \A d, line : LineAt(new, d, line) <=> LineAt(loop, d, line)
  BY DEF Read, LineAt
<1>2. Told(new, told2, met2)
  BY <1>1 DEF Kept, Told
<1>3. ConveyedAs(new, text)
  BY <1>1 DEF Kept, ConveyedAs
<1>4. InHand(new, known2)
  BY <1>1 DEF Kept, InHand, Shown
<1> QED
  BY <1>2, <1>3, <1>4 DEF Kept

\* What is shown as it should stays so when more is known.
LEMMA ShownStill ==
  ASSUME NEW loop, NEW new, NEW line, NEW from, NEW known, NEW known2,
         Shown(loop, line, from, known), known \subseteq known2,
         new.delivered = loop.delivered
  PROVE  Shown(new, line, from, known2)
  BY DEF Shown, LineAt

\* A loop that starts has been handed nothing.
LEMMA KeptNew ==
  ASSUME NEW topic, NEW text, DOMAIN text = {}, NEW told, NEW met, NEW known
  PROVE  Kept(NewLoop(topic), text, told, met, known)
<1> DEFINE loop == NewLoop(topic)
<1>1. /\ loop.delivered = <<>> /\ loop.events = <<>> /\ loop.hand = None
      /\ Read(loop) = 0
  BY DEF NewLoop, Read
<1> HIDE DEF loop
<1>2. Told(loop, told, met)
  BY <1>1 DEF Told
<1>3. loop.events = SubSeq(loop.delivered, Read(loop) + 1, Len(loop.delivered))
  BY <1>1
<1>4. ConveyedAs(loop, text)
  BY <1>1, <1>3 DEF ConveyedAs
<1> QED
  BY <1>1, <1>2, <1>4 DEF Kept, InHand, loop

\* A loop that is handed an event has read and put what it had: no line that
\* existed comes with it.
LEMMA KeptGrown ==
  ASSUME NEW loop \in Loop, NEW new \in Loop, NEW text,
         NEW told, NEW met, NEW known, NEW told2, NEW known2,
         Kept(loop, text, told, met, known),
         told \subseteq told2, known \subseteq known2, NEW event \in Event,
         event.kind = "Message" => event.line \in told2 \ told,
         new.delivered = Append(loop.delivered, event),
         new.events = Append(loop.events, event),
         new.hand = loop.hand, new.from = loop.from
  PROVE  /\ Kept(new, text, told2, met, known2)
         /\ \A line \in told : \A from :
              Shown(loop, line, from, known) => Shown(new, line, from, known2)
<1> DEFINE n == Len(loop.delivered) + 1
<1>1. /\ Read(loop) \in Nat /\ Read(loop) < n /\ n \in Nat
      /\ loop.delivered \in Seq(Event) /\ loop.events \in Seq(Event)
      /\ Len(loop.events) \in Nat
      /\ Read(loop) + Len(loop.events) = Len(loop.delivered)
      /\ DOMAIN loop.delivered = 1..Len(loop.delivered)
      /\ \A d \in 1..Read(loop) : d \in DOMAIN loop.delivered
  BY ReadBound DEF Kept
<1>2. /\ DOMAIN new.delivered = DOMAIN loop.delivered \cup {n}
      /\ n \notin DOMAIN loop.delivered /\ new.delivered[n] = event
      /\ Len(new.delivered) = n
      /\ \A d \in DOMAIN loop.delivered : new.delivered[d] = loop.delivered[d] /\ d < n
  BY <1>1
<1>3. Len(new.events) = Len(loop.events) + 1
  BY <1>1
<1>4. Read(new) = Read(loop)
  BY <1>1, <1>2, <1>3 DEF Read
<1> HIDE DEF n
<1>5. /\ \A d \in DOMAIN loop.delivered : \A line :
           LineAt(new, d, line) <=> LineAt(loop, d, line)
      /\ \A line \in told : ~LineAt(new, n, line)
      /\ \A d \in DOMAIN new.delivered : \A line :
           LineAt(new, d, line) => d = n \/ LineAt(loop, d, line)
  BY <1>2 DEF LineAt
<1>6. /\ \A d \in DOMAIN loop.delivered :
           loop.delivered[d].kind = "Message" => loop.delivered[d].line \in told
      /\ \A d, line : LineAt(loop, d, line) => d \in DOMAIN loop.delivered /\ line \in told
  BY DEF Kept, Told, LineAt
<1>7. Told(new, told2, met)
  <2>1. ASSUME NEW d \in DOMAIN new.delivered, NEW e \in DOMAIN new.delivered,
               new.delivered[e].kind = "Message",
               LineAt(new, d, new.delivered[e].line)
        PROVE  d = e
    <3>1. CASE d # n /\ e # n
      BY <1>2, <1>5, <2>1, <3>1 DEF Kept, Told
    <3>2. CASE d = n /\ e # n
      BY <1>2, <1>5, <1>6, <2>1, <3>2
    <3>3. CASE d # n /\ e = n
      BY <1>2, <1>5, <1>6, <2>1, <3>3
    <3> QED
      BY <3>1, <3>2, <3>3
  <2>2. Len(new.events) <= Len(new.delivered)
    BY <1>1, <1>2, <1>3 DEF n
  <2>3. \A d \in DOMAIN new.delivered :
          new.delivered[d].kind = "Message" => new.delivered[d].line \in told2
    BY <1>2, <1>6
  <2>4. \A d \in 1..Read(new) :
          new.delivered[d].kind = "AboutMe" => new.delivered[d].peer \in met
    BY <1>1, <1>2, <1>4 DEF Kept, Told
  <2> QED
    BY <2>1, <2>2, <2>3, <2>4 DEF Told
<1>8. \A d \in 1..Read(loop) :
        /\ new.delivered[d] = loop.delivered[d]
        /\ \A line : LineAt(new, d, line) <=> LineAt(loop, d, line)
  BY <1>1, <1>2, <1>5
<1>9. ConveyedAs(new, text)
  <2>1. new.events = SubSeq(new.delivered, Read(new) + 1, Len(new.delivered))
    <3>1. Append(loop.events, event) =
            SubSeq(Append(loop.delivered, event), Read(loop) + 1,
                   Len(Append(loop.delivered, event)))
      BY LastEvent DEF Kept
    <3> QED
      BY <1>4, <3>1
  <2> QED
    BY <1>4, <1>8, <2>1 DEF Kept, ConveyedAs
<1>10. ASSUME NEW line \in told, NEW from, Shown(loop, line, from, known)
       PROVE  Shown(new, line, from, known2)
  <2> SUFFICES ASSUME NEW d \in DOMAIN new.delivered, LineAt(new, d, line)
               PROVE  /\ (\E e \in 1..d : new.delivered[e] = AboutMe(new.delivered[d].peer))
                           => from = "name"
                      /\ from = "name" => new.delivered[d].peer \in known2
    BY DEF Shown
  <2>1. d \in DOMAIN loop.delivered /\ LineAt(loop, d, line)
    BY <1>2, <1>5
  <2>2. \A e \in 1..d : new.delivered[e] = loop.delivered[e]
    BY <1>1, <1>2, <2>1
  <2>3. new.delivered[d] = loop.delivered[d]
    BY <1>2, <2>1
  <2>4. /\ (\E e \in 1..d : loop.delivered[e] = AboutMe(loop.delivered[d].peer))
             => from = "name"
        /\ from = "name" => loop.delivered[d].peer \in known
    BY <1>10, <2>1 DEF Shown
  <2> QED
    BY <2>2, <2>3, <2>4
<1>11. InHand(new, known2)
  BY <1>4, <1>6, <1>8, <1>10 DEF Kept, InHand
<1> QED
  BY <1>7, <1>9, <1>10, <1>11 DEF Kept

\* A loop that has read one more is one event further.
LEMMA ReadOne ==
  ASSUME NEW loop, NEW new, NEW r \in Nat, Len(loop.events) \in Nat,
         Len(loop.delivered) \in Nat, loop.events # <<>>,
         r + Len(loop.events) = Len(loop.delivered),
         new.delivered = loop.delivered, Len(new.events) = Len(loop.events) - 1
  PROVE  /\ Read(new) = r + 1 /\ Len(new.events) <= Len(new.delivered)
         /\ \A d \in 1..(r + 1) : d \in 1..r \/ d = r + 1
         /\ \A d \in 1..r : d \in 1..(r + 1) /\ d < r + 1
         /\ r + 1 \in 1..(r + 1)
<1> DEFINE events == Len(loop.events)
           delivered == Len(loop.delivered)
           less == Len(new.events)
<1>1. /\ events \in Nat /\ delivered \in Nat /\ r + events = delivered
      /\ less = events - 1
  OBVIOUS
<1>2. Read(new) = delivered - less /\ Len(new.delivered) = delivered
  BY DEF Read
<1> HIDE DEF events, delivered, less
<1>3. /\ delivered - less = r + 1 /\ less <= delivered
      /\ \A d \in 1..(r + 1) : d \in 1..r \/ d = r + 1
      /\ \A d \in 1..r : d \in 1..(r + 1) /\ d < r + 1
      /\ r + 1 \in 1..(r + 1)
  BY <1>1
<1> QED
  BY <1>2, <1>3 DEF less

\* A loop reads an event that is no line.
LEMMA KeptSkip ==
  ASSUME NEW loop \in Loop, NEW new \in Loop, NEW text,
         NEW told, NEW met, NEW known, NEW met2, NEW known2,
         Kept(loop, text, told, met, known),
         met \subseteq met2, known \subseteq known2,
         loop.hand = None, loop.events # <<>>,
         Head(loop.events).kind # "Message",
         Head(loop.events).kind = "AboutMe" => Head(loop.events).peer \in met2,
         new.delivered = loop.delivered, new.events = Tail(loop.events),
         new.hand = loop.hand, new.from = loop.from
  PROVE  Kept(new, text, told, met2, known2)
<1> DEFINE n == Read(loop) + 1
<1>1. /\ Read(loop) \in Nat /\ n \in DOMAIN loop.delivered
      /\ Len(loop.events) \in Nat /\ Len(loop.delivered) \in Nat
      /\ Read(loop) + Len(loop.events) = Len(loop.delivered)
      /\ Head(loop.events) = loop.delivered[n]
      /\ Len(new.events) = Len(loop.events) - 1
      /\ new.events = SubSeq(loop.delivered, n + 1, Len(loop.delivered))
  BY ReadBound, NextEvent DEF Kept
<1>2. /\ Read(new) = n /\ Len(new.events) <= Len(new.delivered)
      /\ \A d \in 1..n : d \in 1..Read(loop) \/ d = n
      /\ \A d \in 1..Read(loop) : d \in 1..n
  BY <1>1, ReadOne
<1>3. \A d, line : /\ LineAt(new, d, line) <=> LineAt(loop, d, line)
                   /\ ~LineAt(loop, n, line)
  BY <1>1 DEF LineAt
<1>4. loop.delivered[n].kind = "AboutMe" => loop.delivered[n].peer \in met2
  BY <1>1
<1> HIDE DEF n
<1>5. Told(new, told, met2)
  BY <1>2, <1>3, <1>4 DEF Kept, Told
<1>6. ConveyedAs(new, text)
  <2>1. new.events = SubSeq(new.delivered, Read(new) + 1, Len(new.delivered))
    BY <1>1, <1>2
  <2>2. \A d \in 1..Read(new) : new.delivered[d].kind = "Message" =>
          \/ new.delivered[d].line = new.hand
          \/ \E i \in DOMAIN text : text[i] = new.delivered[d].line
    BY <1>1, <1>2 DEF Kept, ConveyedAs
  <2>3. \A i \in DOMAIN text : \E d \in 1..Read(new) : LineAt(new, d, text[i])
    BY <1>2, <1>3 DEF Kept, ConveyedAs
  <2>4. \A i \in DOMAIN text, d, e \in 1..Read(new) : LineAt(new, d, text[i]) =>
          /\ LineAt(new, e, new.hand) => d < e
          /\ \A j \in DOMAIN text : i < j /\ LineAt(new, e, text[j]) => d < e
    <3> SUFFICES ASSUME NEW i \in DOMAIN text, NEW d \in 1..Read(new),
                        NEW e \in 1..Read(new), LineAt(new, d, text[i])
                 PROVE  /\ LineAt(new, e, new.hand) => d < e
                        /\ \A j \in DOMAIN text :
                             i < j /\ LineAt(new, e, text[j]) => d < e
      OBVIOUS
    <3>1. d \in 1..Read(loop) /\ LineAt(loop, d, text[i])
      BY <1>2, <1>3
    <3>2. \A line : LineAt(new, e, line) =>
            e \in 1..Read(loop) /\ LineAt(loop, e, line)
      BY <1>2, <1>3
    <3> QED
      BY <3>1, <3>2 DEF Kept, ConveyedAs
  <2> QED
    BY <2>1, <2>2, <2>3, <2>4 DEF ConveyedAs
<1>7. InHand(new, known2)
  BY DEF InHand
<1> QED
  BY <1>5, <1>6, <1>7 DEF Kept

\* A loop that has nothing in hand takes the message it is handed next.
Takes(loop, new, met) ==
  /\ loop.hand = None /\ loop.events # <<>>
  /\ Head(loop.events).kind = "Message"
  /\ new.delivered = loop.delivered /\ new.events = Tail(loop.events)
  /\ new.hand = Head(loop.events).line
  /\ new.from = "name" <=> Head(loop.events).peer \in met
  /\ new.from \in {"name", "id"}
  /\ None \notin Line

\* A loop takes a line in hand: it comes after all it has put.
LEMMA KeptTakes ==
  ASSUME NEW loop \in Loop, NEW new \in Loop, NEW text,
         NEW told, NEW met, NEW known, Kept(loop, text, told, met, known),
         met \subseteq known, Takes(loop, new, met)
  PROVE  Kept(new, text, told, met, known)
<1> USE DEF Takes
<1> DEFINE n == Read(loop) + 1
<1>1. /\ Read(loop) \in Nat /\ n \in DOMAIN loop.delivered
      /\ Len(loop.events) \in Nat /\ Len(loop.delivered) \in Nat
      /\ Read(loop) + Len(loop.events) = Len(loop.delivered)
      /\ Head(loop.events) = loop.delivered[n]
      /\ Len(new.events) = Len(loop.events) - 1
      /\ new.events = SubSeq(loop.delivered, n + 1, Len(loop.delivered))
      /\ \A d \in 1..Read(loop) : d \in DOMAIN loop.delivered
  BY ReadBound, NextEvent DEF Kept
<1>2. /\ Read(new) = n /\ Len(new.events) <= Len(new.delivered)
      /\ \A d \in 1..n : d \in 1..Read(loop) \/ d = n
      /\ \A d \in 1..Read(loop) : d \in 1..n /\ d < n
      /\ n \in 1..n
  BY <1>1, ReadOne
<1>3. /\ \A d, line : LineAt(new, d, line) <=> LineAt(loop, d, line)
      /\ LineAt(loop, n, new.hand) /\ loop.delivered[n].kind = "Message"
      /\ new.hand = loop.delivered[n].line
  BY <1>1 DEF LineAt
<1>4. \A d : LineAt(loop, d, new.hand) => d = n
  BY <1>1, <1>3 DEF Kept, Told, LineAt
<1> HIDE DEF n
<1>5. Told(new, told, met)
  BY <1>2, <1>3 DEF Kept, Told
<1>6. \A i \in DOMAIN text : \A d : LineAt(loop, d, text[i]) => d \in 1..Read(loop)
  <2> SUFFICES ASSUME NEW i \in DOMAIN text, NEW d, LineAt(loop, d, text[i])
               PROVE  d \in 1..Read(loop)
    OBVIOUS
  <2>1. PICK e \in 1..Read(loop) : LineAt(loop, e, text[i])
    BY DEF Kept, ConveyedAs
  <2>2. d = e
    BY <2>1 DEF Kept, Told, LineAt
  <2> QED
    BY <2>1, <2>2
<1>7. ConveyedAs(new, text)
  <2>1. new.events = SubSeq(new.delivered, Read(new) + 1, Len(new.delivered))
    BY <1>1, <1>2
  <2>2. \A d \in 1..Read(new) : new.delivered[d].kind = "Message" =>
          \/ new.delivered[d].line = new.hand
          \/ \E i \in DOMAIN text : text[i] = new.delivered[d].line
    <3>1. \A d \in 1..Read(loop) : loop.delivered[d].kind = "Message" =>
            loop.delivered[d].line \in Line
      BY <1>1, EventTypes DEF Loop
    <3> QED
      BY <1>2, <1>3, <3>1 DEF Kept, ConveyedAs
  <2>3. \A i \in DOMAIN text : \E d \in 1..Read(new) : LineAt(new, d, text[i])
    BY <1>2, <1>3 DEF Kept, ConveyedAs
  <2>4. \A i \in DOMAIN text, d, e \in 1..Read(new) : LineAt(new, d, text[i]) =>
          /\ LineAt(new, e, new.hand) => d < e
          /\ \A j \in DOMAIN text : i < j /\ LineAt(new, e, text[j]) => d < e
    BY <1>2, <1>3, <1>4, <1>6 DEF Kept, ConveyedAs
  <2> QED
    BY <2>1, <2>2, <2>3, <2>4 DEF ConveyedAs
<1>8. Shown(new, new.hand, new.from, known)
  <2> SUFFICES /\ (\E e \in 1..n : loop.delivered[e] = AboutMe(loop.delivered[n].peer))
                    => new.from = "name"
               /\ new.from = "name" => loop.delivered[n].peer \in known
    BY <1>3, <1>4 DEF Shown
  <2>1. ASSUME NEW e \in 1..n, loop.delivered[e] = AboutMe(loop.delivered[n].peer)
        PROVE  loop.delivered[n].peer \in met
    <3>1. loop.delivered[e].kind = "AboutMe" /\ loop.delivered[e].peer = loop.delivered[n].peer
      BY <2>1 DEF AboutMe
    <3>2. e \in 1..Read(loop)
      BY <1>2, <1>3, <3>1
    <3> QED
      BY <3>1, <3>2 DEF Kept, Told
  <2> QED
    BY <1>1, <2>1
<1>9. InHand(new, known)
  BY <1>2, <1>3, <1>8 DEF InHand
<1> QED
  BY <1>5, <1>7, <1>9 DEF Kept

\* A step in which the loop puts the line it had in hand.
PutsDown(loop, new) ==
  /\ loop.hand # None /\ new.hand = None
  /\ new.delivered = loop.delivered /\ new.events = loop.events

\* A text that is another with a line after it, at n.
Longer(text, text2, n, line) ==
  /\ n \in Nat /\ DOMAIN text \subseteq Nat
  /\ DOMAIN text2 = DOMAIN text \cup {n} /\ text2[n] = line
  /\ \A i \in DOMAIN text : text2[i] = text[i] /\ i < n

\* A loop puts what it has in hand behind all it has put.
LEMMA KeptPuts ==
  ASSUME NEW loop \in Loop, NEW new \in Loop, NEW text, NEW text2, NEW n,
         NEW told, NEW met, NEW known, Kept(loop, text, told, met, known),
         PutsDown(loop, new), Longer(text, text2, n, loop.hand)
  PROVE  Kept(new, text2, told, met, known)
<1> USE DEF PutsDown, Longer
<1>1. /\ Read(new) = Read(loop)
      /\ \A d, line : LineAt(new, d, line) <=> LineAt(loop, d, line)
  BY DEF Read, LineAt
<1>2. Told(new, told, met)
  BY <1>1 DEF Kept, Told
<1>3. \A d \in DOMAIN loop.delivered : ~LineAt(new, d, None)
  <2>1. \A d \in DOMAIN loop.delivered : loop.delivered[d] \in Event
    BY DEF Loop
  <2> QED
    BY <1>1, <2>1, EventTypes, ClientAssumption DEF LineAt
<1>4. ConveyedAs(new, text2)
  <2>1. new.events = SubSeq(new.delivered, Read(new) + 1, Len(new.delivered))
    BY <1>1 DEF Kept, ConveyedAs
  <2>2. \A d \in 1..Read(new) : new.delivered[d].kind = "Message" =>
          \/ new.delivered[d].line = new.hand
          \/ \E i \in DOMAIN text2 : text2[i] = new.delivered[d].line
    BY <1>1 DEF Kept, ConveyedAs
  <2>3. \A i \in DOMAIN text2 : \E d \in 1..Read(new) : LineAt(new, d, text2[i])
    BY <1>1 DEF Kept, ConveyedAs, InHand
  <2>4. \A i \in DOMAIN text2, d, e \in 1..Read(new) : LineAt(new, d, text2[i]) =>
          ~LineAt(new, e, new.hand)
    BY <1>3 DEF LineAt
  <2>5. \A i \in DOMAIN text2, d, e \in 1..Read(new), j \in DOMAIN text2 :
          LineAt(new, d, text2[i]) /\ i < j /\ LineAt(new, e, text2[j]) => d < e
    <3> SUFFICES ASSUME NEW i \in DOMAIN text2, NEW d \in 1..Read(new),
                        NEW e \in 1..Read(new), NEW j \in DOMAIN text2,
                        LineAt(new, d, text2[i]), i < j, LineAt(new, e, text2[j])
                 PROVE  d < e
      OBVIOUS
    <3>1. i \in DOMAIN text
      OBVIOUS
    <3> QED
      BY <1>1, <3>1 DEF Kept, ConveyedAs
  <2> QED
    BY <2>1, <2>2, <2>3, <2>4, <2>5 DEF ConveyedAs
<1>5. InHand(new, known)
  BY DEF InHand
<1> QED
  BY <1>2, <1>4, <1>5 DEF Kept

\* Another message in the channel is at the end of the text of its loop.
LEMMA TextGrows ==
  ASSUME put \in Seq(Chats), NEW c \in Chats, put' = Append(put, c)
  PROVE  /\ \A l : c.loop # l => TextOf(l)' = TextOf(l)
         /\ \A l : c.loop = l =>
              /\ DOMAIN TextOf(l)' = DOMAIN TextOf(l) \cup {Len(put) + 1}
              /\ DOMAIN TextOf(l) \subseteq Nat /\ Len(put) + 1 \in Nat
              /\ \A i \in DOMAIN TextOf(l) :
                   TextOf(l)'[i] = TextOf(l)[i] /\ i < Len(put) + 1
              /\ TextOf(l)'[Len(put) + 1] = c.line
         /\ DOMAIN put' = DOMAIN put \cup {Len(put) + 1}
         /\ put'[Len(put) + 1] = c
         /\ \A i \in DOMAIN put : put'[i] = put[i]
<1>1. /\ Len(put) \in Nat /\ DOMAIN put' = DOMAIN put \cup {Len(put) + 1}
      /\ DOMAIN put \subseteq Nat
      /\ Len(put) + 1 \notin DOMAIN put /\ put'[Len(put) + 1] = c
      /\ \A i \in DOMAIN put : put'[i] = put[i] /\ i < Len(put) + 1
  OBVIOUS
<1>2. ASSUME NEW l, c.loop # l
      PROVE  TextOf(l)' = TextOf(l)
  <2>1. {j \in DOMAIN put' : put'[j].loop = l} = {j \in DOMAIN put : put[j].loop = l}
    BY <1>1, <1>2
  <2> QED
    BY <1>1, <2>1 DEF TextOf
<1>3. ASSUME NEW l, c.loop = l
      PROVE  /\ DOMAIN TextOf(l)' = DOMAIN TextOf(l) \cup {Len(put) + 1}
             /\ DOMAIN TextOf(l) \subseteq Nat /\ Len(put) + 1 \in Nat
             /\ \A i \in DOMAIN TextOf(l) :
                  TextOf(l)'[i] = TextOf(l)[i] /\ i < Len(put) + 1
             /\ TextOf(l)'[Len(put) + 1] = c.line
  BY <1>1, <1>3 DEF TextOf
<1> QED
  BY <1>1, <1>2, <1>3

\* A peer that is known stays known: loops keep what they were handed.
LEMMA KnownStays ==
  ASSUME DOMAIN loops \subseteq DOMAIN loops',
         \A l \in DOMAIN loops :
           \A d \in DOMAIN loops[l].delivered :
             /\ d \in DOMAIN loops'[l].delivered
             /\ loops'[l].delivered[d] = loops[l].delivered[d]
  PROVE  Known \subseteq Known'
  BY DEF Known, Announced, ToSet

\* A step keeps the invariant when it keeps every loop, shows nothing anew of
\* the lines there were, and names what it puts as it should.
LEMMA ConveyStep ==
  ASSUME ConveyInv, put \in Seq(Chats), DOMAIN loops \subseteq DOMAIN loops',
         \A l \in DOMAIN loops' : Kept(loops'[l], TextOf(l)', used', names', Known'),
         \A l \in DOMAIN loops, line \in used : \A from :
           Shown(loops[l], line, from, Known) => Shown(loops'[l], line, from, Known'),
         \/ put' = put
         \/ \E c \in Chats :
              /\ put' = Append(put, c)
              /\ c.loop # 0 =>
                   /\ c.loop \in DOMAIN loops'
                   /\ Shown(loops'[c.loop], c.line, c.from, Known'),
         names' \subseteq Known'
  PROVE  ConveyInv'
<1>1. ASSUME NEW i \in DOMAIN put, put[i].loop # 0
      PROVE  /\ put[i].loop \in DOMAIN loops'
             /\ Shown(loops'[put[i].loop], put[i].line, put[i].from, Known')
  <2>1. /\ put[i].loop \in DOMAIN loops
        /\ Shown(loops[put[i].loop], put[i].line, put[i].from, Known)
    BY <1>1 DEF ConveyInv
  <2> DEFINE l == put[i].loop
  <2>2. Kept(loops[l], TextOf(l), used, names, Known)
    BY <2>1 DEF ConveyInv
  <2>3. i \in DOMAIN TextOf(l) /\ TextOf(l)[i] = put[i].line
    BY DEF TextOf
  <2> HIDE DEF l
  <2>4. PICK d \in 1..Read(loops[l]) : LineAt(loops[l], d, put[i].line)
    BY <2>2, <2>3 DEF Kept, ConveyedAs
  <2>5. put[i].line \in used
    BY <2>2, <2>4 DEF Kept, Told, LineAt
  <2> QED
    BY <2>1, <2>5
<1>2. \A i \in DOMAIN put' : put'[i].loop # 0 =>
        /\ put'[i].loop \in DOMAIN loops'
        /\ Shown(loops'[put'[i].loop], put'[i].line, put'[i].from, Known')
  <2>1. CASE put' = put
    BY <1>1, <2>1
  <2>2. ASSUME NEW c \in Chats, put' = Append(put, c),
               c.loop # 0 =>
                 /\ c.loop \in DOMAIN loops'
                 /\ Shown(loops'[c.loop], c.line, c.from, Known')
        PROVE  \A i \in DOMAIN put' : put'[i].loop # 0 =>
                 /\ put'[i].loop \in DOMAIN loops'
                 /\ Shown(loops'[put'[i].loop], put'[i].line, put'[i].from, Known')
    <3>1. /\ DOMAIN put' = DOMAIN put \cup {Len(put) + 1}
          /\ put'[Len(put) + 1] = c
          /\ \A i \in DOMAIN put : put'[i] = put[i]
      BY <2>2, TextGrows
    <3> QED
      BY <1>1, <2>2, <3>1
  <2> QED
    BY <2>1, <2>2
<1> QED
  BY <1>2 DEF ConveyInv

\* Steps that leave the loops and the names alone, and at most echo a line.
LEMMA ConveyElse ==
  ASSUME ConveyInv, loops \in Seq(Loop), put \in Seq(Chats),
         UNCHANGED <<loops, names>>, used \subseteq used',
         \/ put' = put
         \/ \E c \in Chats : c.loop = 0 /\ put' = Append(put, c)
  PROVE  ConveyInv'
<1>1. Known' = Known /\ 0 \notin DOMAIN loops
  BY DEF Known, Announced
<1>2. \A l \in DOMAIN loops : TextOf(l)' = TextOf(l)
  <2>1. CASE put' = put
    BY <2>1 DEF TextOf
  <2>2. ASSUME NEW c \in Chats, c.loop = 0, put' = Append(put, c)
        PROVE  \A l \in DOMAIN loops : TextOf(l)' = TextOf(l)
    BY <1>1, <2>2, TextGrows
  <2> QED
    BY <2>1, <2>2
<1>3. \A l \in DOMAIN loops : Kept(loops[l], TextOf(l), used', names, Known)
  <2> SUFFICES ASSUME NEW l \in DOMAIN loops
               PROVE  Kept(loops[l], TextOf(l), used', names, Known)
    OBVIOUS
  <2>1. Kept(loops[l], TextOf(l), used, names, Known)
    BY DEF ConveyInv
  <2> QED
    BY <2>1, KeptStill
<1> QED
  <2>1. names' \subseteq Known'
    BY <1>1 DEF ConveyInv
  <2>2. \A l \in DOMAIN loops' : Kept(loops'[l], TextOf(l)', used', names', Known')
    BY <1>1, <1>2, <1>3
  <2> QED
    BY <1>1, <2>1, <2>2, ConveyStep

\* A join spawns a loop that has put nothing.
LEMMA ConveyJoined ==
  ASSUME ClientInv, ConveyInv, NEW t \in Task, Joined(t)
  PROVE  ConveyInv'
<1>1. /\ loops \in Seq(Loop) /\ put \in Seq(Chats) /\ CallInv
      /\ loops' = Append(loops, NewLoop(arg[t]))
      /\ UNCHANGED <<names, used, put>>
  BY DEF ClientInv, TypeOK, Joined, history
<1>2. /\ Len(loops) \in Nat
      /\ DOMAIN loops = 1..Len(loops)
      /\ DOMAIN loops' = DOMAIN loops \cup {Len(loops) + 1}
      /\ Len(loops) + 1 \notin DOMAIN loops
      /\ loops'[Len(loops) + 1] = NewLoop(arg[t])
      /\ \A l \in DOMAIN loops : loops'[l] = loops[l]
  BY <1>1
<1>3. Known \subseteq Known'
  BY <1>2, KnownStays
<1>4. \A l : TextOf(l)' = TextOf(l)
  BY <1>1 DEF TextOf
<1>5. DOMAIN TextOf(Len(loops) + 1) = {}
  <2>1. ASSUME NEW i \in DOMAIN put, put[i].loop = Len(loops) + 1
        PROVE  FALSE
    <3>1. put[i].loop # 0
      BY <1>2, <2>1
    <3> QED
      BY <1>2, <2>1, <3>1 DEF ConveyInv
  <2> QED
    BY <2>1 DEF TextOf
<1>6. \A l \in DOMAIN loops' : Kept(loops'[l], TextOf(l)', used', names', Known')
  <2> SUFFICES ASSUME NEW l \in DOMAIN loops'
               PROVE  Kept(loops'[l], TextOf(l), used, names, Known')
    BY <1>1, <1>4
  <2>1. CASE l = Len(loops) + 1
    BY <1>2, <1>5, <2>1, KeptNew
  <2>2. CASE l \in DOMAIN loops
    <3>1. Kept(loops[l], TextOf(l), used, names, Known)
      BY <2>2 DEF ConveyInv
    <3>2. loops'[l] = loops[l]
      BY <1>2, <2>2
    <3> QED
      BY <1>3, <3>1, <3>2, KeptStill
  <2> QED
    BY <1>2, <2>1, <2>2
<1>7. \A l \in DOMAIN loops, line \in used : \A from :
        Shown(loops[l], line, from, Known) => Shown(loops'[l], line, from, Known')
  BY <1>2, <1>3, ShownStill
<1>8. names' \subseteq Known'
  BY <1>1, <1>3 DEF ConveyInv
<1> QED
  BY <1>1, <1>2, <1>6, <1>7, <1>8, ConveyStep

\* The gossip hands an event to the receivers of a topic.
LEMMA ConveyDeliver ==
  ASSUME ClientInv, ConveyInv, NEW topic \in Topic, NEW event \in Event,
         Deliver(topic, event), used \subseteq used',
         event.kind = "Message" => event.line \in used' \ used
  PROVE  ConveyInv'
<1>1. /\ loops \in Seq(Loop) /\ put \in Seq(Chats)
      /\ UNCHANGED <<names, put>>
  BY DEF ClientInv, TypeOK, Deliver
<1>2. /\ loops' \in Seq(Loop) /\ DOMAIN loops' = DOMAIN loops
      /\ \A l \in DOMAIN loops :
           /\ loops'[l].hand = loops[l].hand
           /\ loops'[l].from = loops[l].from
           /\ \/ loops'[l] = loops[l]
              \/ /\ loops'[l].events = Append(loops[l].events, event)
                 /\ loops'[l].delivered = Append(loops[l].delivered, event)
  BY <1>1, DeliverLoops
<1>3. \A l \in DOMAIN loops : loops[l] \in Loop /\ loops'[l] \in Loop
  BY <1>1, <1>2
<1>4. Known \subseteq Known'
  <2> SUFFICES ASSUME NEW l \in DOMAIN loops, NEW d \in DOMAIN loops[l].delivered
               PROVE  /\ d \in DOMAIN loops'[l].delivered
                      /\ loops'[l].delivered[d] = loops[l].delivered[d]
    BY <1>2, KnownStays
  <2>1. CASE loops'[l] = loops[l]
    BY <2>1
  <2>2. CASE loops'[l].delivered = Append(loops[l].delivered, event)
    <3>1. loops[l].delivered \in Seq(Event)
      BY <1>3 DEF Loop
    <3> QED
      BY <2>2, <3>1
  <2> QED
    BY <1>2, <2>1, <2>2
<1>5. \A l : TextOf(l)' = TextOf(l)
  BY <1>1 DEF TextOf
<1>6. ASSUME NEW l \in DOMAIN loops
      PROVE  /\ Kept(loops'[l], TextOf(l), used', names, Known')
             /\ \A line \in used : \A from :
                  Shown(loops[l], line, from, Known) =>
                    Shown(loops'[l], line, from, Known')
  <2>1. Kept(loops[l], TextOf(l), used, names, Known)
    BY DEF ConveyInv
  <2>2. CASE loops'[l] = loops[l]
    BY <1>4, <2>1, <2>2, KeptStill, ShownStill
  <2>3. CASE /\ loops'[l].events = Append(loops[l].events, event)
             /\ loops'[l].delivered = Append(loops[l].delivered, event)
    <3>1. /\ loops[l] \in Loop /\ loops'[l] \in Loop /\ event \in Event
          /\ loops'[l].hand = loops[l].hand /\ loops'[l].from = loops[l].from
          /\ event.kind = "Message" => event.line \in used' \ used
          /\ used \subseteq used'
      BY <1>2, <1>3
    <3> DEFINE loop == loops[l]
               new == loops'[l]
               text == TextOf(l)
               told2 == used'
               known == Known
               known2 == Known'
    <3>2. /\ loop \in Loop /\ new \in Loop /\ event \in Event
          /\ Kept(loop, text, used, names, known)
          /\ used \subseteq told2 /\ known \subseteq known2
          /\ event.kind = "Message" => event.line \in told2 \ used
          /\ new.delivered = Append(loop.delivered, event)
          /\ new.events = Append(loop.events, event)
          /\ new.hand = loop.hand /\ new.from = loop.from
      BY <1>4, <2>1, <2>3, <3>1
    <3> HIDE DEF loop, new, text, told2, known, known2
    <3>3. /\ Kept(new, text, told2, names, known2)
          /\ \A line \in used : \A from :
               Shown(loop, line, from, known) => Shown(new, line, from, known2)
      BY ONLY <3>2, KeptGrown, Zenon
    <3> QED
      BY <3>3 DEF loop, new, text, told2, known, known2
  <2> QED
    BY <1>2, <2>2, <2>3
<1>7. names' \subseteq Known'
  BY <1>1, <1>4 DEF ConveyInv
<1> QED
  BY <1>1, <1>2, <1>5, <1>6, <1>7, ConveyStep

\* A step of a loop.
LEMMA ConveyLoop ==
  ASSUME ClientInv, ConveyInv, NEW l \in DOMAIN loops,
         LoopEnds(l) \/ LoopReads(l) \/ LoopPuts(l)
  PROVE  ConveyInv'
<1>1. /\ loops \in Seq(Loop) /\ put \in Seq(Chats) /\ names \subseteq Peer
      /\ loops[l] \in Loop /\ used' = used /\ names \subseteq Known
  BY DEF ClientInv, TypeOK, ConveyInv, LoopEnds, LoopReads, LoopPuts, LoopAboutMe,
     LoopMessage, LoopOther, history
<1>2. /\ loops' \in Seq(Loop) /\ DOMAIN loops' = DOMAIN loops
      /\ \A k \in DOMAIN loops :
           /\ loops'[k].delivered = loops[k].delivered
           /\ k # l => loops'[k] = loops[k]
      /\ \/ /\ LoopEnds(l)
            /\ Becomes(l, loops[l].events, loops[l].hand, loops[l].from)
         \/ /\ LoopAboutMe(l) \/ LoopOther(l)
            /\ Becomes(l, Tail(loops[l].events), loops[l].hand, loops[l].from)
         \/ /\ LoopMessage(l)
            /\ Becomes(l, Tail(loops[l].events), Head(loops[l].events).line,
                       NameOf(Head(loops[l].events).peer))
            /\ loops'[l].from # None
         \/ LoopPuts(l) /\ Becomes(l, loops[l].events, None, None)
  BY <1>1, LoopStep
<1>3. Known' = Known
  BY <1>2 DEF Known, Announced
<1>4. loops'[l] \in Loop /\ Kept(loops[l], TextOf(l), used, names, Known)
  BY <1>2 DEF ConveyInv
<1>5. \A k \in DOMAIN loops, line \in used : \A from :
        Shown(loops[k], line, from, Known) => Shown(loops'[k], line, from, Known')
  BY <1>2, <1>3, ShownStill
<1>6. ASSUME \A k : k # l => TextOf(k)' = TextOf(k), names \subseteq names',
             Kept(loops'[l], TextOf(l)', used, names', Known)
      PROVE  \A k \in DOMAIN loops' : Kept(loops'[k], TextOf(k)', used', names', Known')
  <2> SUFFICES ASSUME NEW k \in DOMAIN loops, k # l
               PROVE  Kept(loops[k], TextOf(k), used, names', Known)
    BY <1>1, <1>2, <1>3, <1>6
  <2>1. Kept(loops[k], TextOf(k), used, names, Known)
    BY DEF ConveyInv
  <2> QED
    BY <1>6, <2>1, KeptStill
<1>7. ASSUME put' = put
      PROVE  \A k : TextOf(k)' = TextOf(k)
  BY <1>7 DEF TextOf
<1>8. CASE LoopEnds(l) /\ Becomes(l, loops[l].events, loops[l].hand, loops[l].from)
  <2>1. put' = put /\ names' = names
    BY <1>8 DEF LoopEnds, history
  <2>2. Kept(loops'[l], TextOf(l), used, names, Known)
    BY <1>2, <1>4, <1>8, KeptStill DEF Becomes
  <2> QED
    BY <1>1, <1>2, <1>3, <1>5, <1>6, <1>7, <2>1, <2>2, ConveyStep
<1>9. CASE /\ LoopAboutMe(l) \/ LoopOther(l)
           /\ Becomes(l, Tail(loops[l].events), loops[l].hand, loops[l].from)
  <2>1. /\ put' = put /\ names \subseteq names'
        /\ loops[l].hand = None /\ loops[l].events # <<>>
        /\ Head(loops[l].events).kind # "Message"
        /\ Head(loops[l].events).kind = "AboutMe" =>
             Head(loops[l].events).peer \in names'
    BY <1>9 DEF LoopAboutMe, LoopOther, AtEvent, history
  <2>2. Kept(loops'[l], TextOf(l), used, names', Known)
    BY <1>1, <1>2, <1>4, <1>9, <2>1, KeptSkip DEF Becomes
  <2>3. names' \subseteq Known'
    <3>1. CASE LoopOther(l)
      BY <1>1, <1>3, <3>1 DEF LoopOther
    <3>2. CASE LoopAboutMe(l)
      <4> DEFINE peer == Head(loops[l].events).peer
      <4>1. names' = names \cup {peer} /\ Head(loops[l].events).kind = "AboutMe"
        BY <3>2 DEF LoopAboutMe, AtEvent
      <4>2. /\ Read(loops[l]) + 1 \in DOMAIN loops[l].delivered
            /\ Head(loops[l].events) = loops[l].delivered[Read(loops[l]) + 1]
        BY <1>1, <1>4, <2>1, NextEvent DEF Kept
      <4>3. loops[l].delivered \in Seq(Event)
        BY <1>1 DEF Loop
      <4>4. Head(loops[l].events) \in Event
        BY <4>2, <4>3
      <4>5. peer \in Peer /\ Head(loops[l].events) = AboutMe(peer)
        BY <4>1, <4>4, EventTypes
      <4>6. peer \in Known
        BY <4>2, <4>5 DEF Known, Announced, ToSet
      <4> QED
        BY <1>1, <1>3, <4>1, <4>6
    <3> QED
      BY <1>9, <3>1, <3>2
  <2> QED
    BY <1>1, <1>2, <1>3, <1>5, <1>6, <1>7, <2>1, <2>2, <2>3, ConveyStep
<1>10. CASE /\ LoopMessage(l)
            /\ Becomes(l, Tail(loops[l].events), Head(loops[l].events).line,
                       NameOf(Head(loops[l].events).peer))
  <2>1. /\ put' = put /\ names' = names
        /\ loops[l].hand = None /\ loops[l].events # <<>>
        /\ Head(loops[l].events).kind = "Message"
    BY <1>10 DEF LoopMessage, AtEvent, history
  <2>2. /\ loops'[l].from \in {"name", "id"}
        /\ loops'[l].from = "name" <=> Head(loops[l].events).peer \in names
    BY <1>10 DEF Becomes, NameOf
  <2>3. None \notin Line
    BY ClientAssumption
  <2>4. Kept(loops'[l], TextOf(l), used, names, Known)
    <3> DEFINE loop == loops[l]
               new == loops'[l]
               text == TextOf(l)
               known == Known
    <3>1. /\ loop \in Loop /\ new \in Loop /\ names \subseteq known
          /\ Kept(loop, text, used, names, known)
      BY <1>1, <1>2, <1>4
    <3>2. /\ new.delivered = loop.delivered /\ new.events = Tail(loop.events)
          /\ new.hand = Head(loop.events).line
      BY <1>2, <1>10 DEF Becomes
    <3>3. /\ loop.hand = None /\ loop.events # <<>>
          /\ Head(loop.events).kind = "Message"
          /\ new.from \in {"name", "id"}
          /\ new.from = "name" <=> Head(loop.events).peer \in names
      BY <2>1, <2>2
    <3>4. Takes(loop, new, names)
      BY <2>3, <3>2, <3>3 DEF Takes
    <3> HIDE DEF loop, new, text, known
    <3>5. Kept(new, text, used, names, known)
      BY ONLY <3>1, <3>4, KeptTakes
    <3> QED
      BY <3>5 DEF new, text, known
  <2> QED
    BY <1>1, <1>2, <1>3, <1>5, <1>6, <1>7, <2>1, <2>4, ConveyStep
<1>11. CASE LoopPuts(l) /\ Becomes(l, loops[l].events, None, None)
  <2> DEFINE c == Chat(loops[l].hand, loops[l].from, l)
  <2>1. /\ put' = Append(put, c) /\ names' = names /\ loops[l].hand # None
        /\ c \in Chats /\ c.loop = l /\ c.line = loops[l].hand
        /\ c.from = loops[l].from
    BY <1>11, LoopChat DEF LoopPuts, Put, Chat
  <2> HIDE DEF c
  <2>2. /\ \A k : l # k => TextOf(k)' = TextOf(k)
        /\ DOMAIN TextOf(l)' = DOMAIN TextOf(l) \cup {Len(put) + 1}
        /\ DOMAIN TextOf(l) \subseteq Nat /\ Len(put) + 1 \in Nat
        /\ \A i \in DOMAIN TextOf(l) :
             TextOf(l)'[i] = TextOf(l)[i] /\ i < Len(put) + 1
        /\ TextOf(l)'[Len(put) + 1] = c.line
    <3>1. put \in Seq(Chats) /\ c \in Chats /\ put' = Append(put, c) /\ c.loop = l
      BY <1>1, <2>1
    <3> QED
      BY ONLY <3>1, TextGrows
  <2>3. /\ \A k : k # l => TextOf(k)' = TextOf(k)
        /\ DOMAIN TextOf(l)' = DOMAIN TextOf(l) \cup {Len(put) + 1}
        /\ DOMAIN TextOf(l) \subseteq Nat /\ Len(put) + 1 \in Nat
        /\ \A i \in DOMAIN TextOf(l) :
             TextOf(l)'[i] = TextOf(l)[i] /\ i < Len(put) + 1
        /\ TextOf(l)'[Len(put) + 1] = loops[l].hand
    BY ONLY <2>1, <2>2
  <2>4. Kept(loops'[l], TextOf(l)', used, names, Known)
    <3> DEFINE loop == loops[l]
               new == loops'[l]
               text == TextOf(l)
               text2 == TextOf(l)'
               known == Known
               n == Len(put) + 1
    <3>1. loop \in Loop /\ new \in Loop /\ Kept(loop, text, used, names, known)
      BY <1>1, <1>2, <1>4
    <3>2. PutsDown(loop, new)
      BY <1>2, <1>11, <2>1 DEF Becomes, PutsDown
    <3>3. Longer(text, text2, n, loop.hand)
      BY <2>3 DEF Longer
    <3> HIDE DEF loop, new, text, text2, known, n
    <3>4. Kept(new, text2, used, names, known)
      BY ONLY <3>1, <3>2, <3>3, KeptPuts
    <3> QED
      BY <3>4 DEF new, text2, known
  <2>5. Shown(loops'[l], c.line, c.from, Known')
    <3>1. Shown(loops[l], loops[l].hand, loops[l].from, Known)
      BY <1>4, <2>1 DEF Kept, InHand
    <3> QED
      BY <1>2, <1>3, <2>1, <3>1, ShownStill
  <2> QED
    BY <1>1, <1>2, <1>3, <1>5, <1>6, <2>1, <2>3, <2>4, <2>5, ConveyStep
<1> QED
  BY <1>2, <1>8, <1>9, <1>10, <1>11

\* No step loses, doubles or reorders a line of a peer, or names it wrongly.
LEMMA NextConvey ==
  ASSUME ClientInv, ConveyInv, Next
  PROVE  ConveyInv'
<1>1. loops \in Seq(Loop) /\ put \in Seq(Chats)
  BY DEF ClientInv, TypeOK
<1>2. ASSUME UNCHANGED <<loops, names, put>>, used \subseteq used'
      PROVE  ConveyInv'
  BY <1>1, <1>2, ConveyElse
<1>3. ASSUME NEW t \in Caller,
             \/ Open(t)
             \/ \E ticket \in Topic \cup {BadTicket} : Join(t, ticket)
             \/ \E line \in Line : Send(t, line)
             \/ Abort(t)
      PROVE  ConveyInv'
  BY <1>2, <1>3 DEF Open, Join, Send, Abort, history
<1>4. ASSUME NEW t \in Task, CallSteps(t)
      PROVE  ConveyInv'
  BY <1>2, <1>4 DEF CallSteps, BeginOpenRoom, BindFails, TicketRejected, JoinRoom,
     FinishTakes, FinishFindsNone, SendWithoutRoom, SendFails, Broadcast, history
<1>5. ASSUME NEW t \in Task, JoinFails(t) \/ AnnounceFails(t)
      PROVE  ConveyInv'
  BY <1>2, <1>5 DEF JoinFails, AnnounceFails, history
<1>6. ASSUME NEW t \in Task, Echo(t)
      PROVE  ConveyInv'
  <2> DEFINE c == Chat(arg[t], IF Named THEN "name" ELSE "id", 0)
  <2>1. arg[t] \in Line
    BY <1>6 DEF ClientInv, CallInv, Echo
  <2>2. /\ c \in Chats /\ c.loop = 0 /\ put' = Append(put, c)
        /\ UNCHANGED <<loops, names, used>>
    BY <1>6, <2>1, ClientAssumption DEF Echo, Put, Chat, Chats
  <2> HIDE DEF c
  <2> QED
    BY <1>1, <2>2, ConveyElse
<1>7. ASSUME NEW topic \in Topic,
             \/ \E peer \in Peer, line \in Line : PeerSends(topic, peer, line)
             \/ \E event \in {AboutMe(peer) : peer \in Peer} \cup {Other} :
                  OtherThanLine(topic, event)
      PROVE  ConveyInv'
  <2>1. ASSUME NEW peer \in Peer, NEW line \in Line, PeerSends(topic, peer, line)
        PROVE  ConveyInv'
    <3>1. /\ Message(peer, line) \in Event /\ Message(peer, line).line = line
          /\ line \in used' \ used /\ used \subseteq used'
          /\ Deliver(topic, Message(peer, line))
      BY <2>1, EventTypes DEF PeerSends, Message
    <3> QED
      BY <3>1, ConveyDeliver
  <2>2. ASSUME NEW event \in {AboutMe(peer) : peer \in Peer} \cup {Other},
               OtherThanLine(topic, event)
        PROVE  ConveyInv'
    <3>1. /\ event \in Event /\ event.kind # "Message"
          /\ used \subseteq used' /\ Deliver(topic, event)
      BY <2>2, EventTypes DEF OtherThanLine, AboutMe, Other
    <3> QED
      BY <3>1, ConveyDeliver
  <2> QED
    BY <1>7, <2>1, <2>2
<1>8. CASE NextMessage \/ \E topic \in Fresh : FinishStarts(topic)
  BY <1>2, <1>8 DEF NextMessage, FinishStarts, history
<1>9. ASSUME NEW t \in Task, CallSteps(t) \/ JoinEnds(t) \/ Echo(t)
      PROVE  ConveyInv'
  BY <1>4, <1>5, <1>6, <1>9, ConveyJoined DEF JoinEnds
<1> QED
  BY <1>3, <1>7, <1>8, <1>9, ConveyLoop DEF Next

\* What is conveyed is conveyed as the property says, what is shown is shown so.
LEMMA ConveyMeans ==
  ASSUME ClientInv, ConveyInv
  PROVE  NoLineDropped /\ NamedOnceAnnounced
<1>1. NoLineDropped
  <2> SUFFICES ASSUME NEW l \in DOMAIN loops
               PROVE  Conveyed(loops[l], l)
    BY DEF NoLineDropped
  <2> DEFINE own == {i \in DOMAIN put : put[i].loop = l}
  <2>1. ConveyedAs(loops[l], TextOf(l))
    BY DEF ConveyInv, Kept
  <2>2. /\ DOMAIN TextOf(l) = own
        /\ \A i \in own : TextOf(l)[i] = put[i].line
    BY DEF TextOf
  <2> HIDE DEF own
  <2>3. /\ loops[l].events = SubSeq(loops[l].delivered, Read(loops[l]) + 1,
                                    Len(loops[l].delivered))
        /\ \A d \in 1..Read(loops[l]) : loops[l].delivered[d].kind = "Message" =>
             \/ loops[l].delivered[d].line = loops[l].hand
             \/ \E i \in own : put[i].line = loops[l].delivered[d].line
    BY <2>1, <2>2 DEF ConveyedAs
  <2>4. \A i \in own : \E d \in 1..Read(loops[l]) : LineAt(loops[l], d, put[i].line)
    BY <2>1, <2>2 DEF ConveyedAs
  <2>5. \A i \in own, d, e \in 1..Read(loops[l]) :
          LineAt(loops[l], d, put[i].line) =>
            /\ LineAt(loops[l], e, loops[l].hand) => d < e
            /\ \A j \in own : i < j /\ LineAt(loops[l], e, put[j].line) => d < e
    BY <2>1, <2>2 DEF ConveyedAs
  <2> QED
    BY <2>3, <2>4, <2>5 DEF Conveyed, own
<1>2. NamedOnceAnnounced
  <2> SUFFICES ASSUME NEW i \in DOMAIN put, put[i].loop # 0
               PROVE  ShownAs(loops[put[i].loop], put[i].line, put[i].from)
    BY DEF NamedOnceAnnounced
  <2>1. Shown(loops[put[i].loop], put[i].line, put[i].from, Known)
    BY DEF ConveyInv
  <2> QED
    BY <2>1 DEF Shown, ShownAs, Known
<1> QED
  BY <1>1, <1>2

\* In every state of every behaviour the lines of the loops are conveyed.
LEMMA Conveyance == Spec => [](ClientInv /\ ConveyInv)
<1>1. Init => ConveyInv
  BY DEF Init, ConveyInv
<1>2. ClientInv /\ ConveyInv /\ [Next]_vars => ConveyInv'
  <2> SUFFICES ASSUME ClientInv, ConveyInv, [Next]_vars
               PROVE  ConveyInv'
    OBVIOUS
  <2>1. CASE UNCHANGED vars
    <3>1. UNCHANGED <<loops, names, used, put>>
      BY <2>1 DEF vars
    <3> QED
      BY <3>1, ConveyElse DEF ClientInv, TypeOK
  <2> QED
    BY <2>1, NextConvey
<1> QED
  BY <1>1, <1>2, ClientInvariant, PTL DEF Spec

\* NoLineDropped: whatever the tasks, the loops and the reader of the channel
\* do, what the gossip hands to a receiver is unread, in the hand of its
\* subscribe_loop or in the channel, in the order it was handed.
THEOREM LinesConveyed == Spec => []NoLineDropped
<1>1. ClientInv /\ ConveyInv => NoLineDropped
  BY ConveyMeans
<1> QED
  BY <1>1, Conveyance, PTL

\* NamedOnceAnnounced: a line of a peer that had announced itself before it
\* shows its name, and no line shows a name nobody announced.
THEOREM NamedAsAnnounced == Spec => []NamedOnceAnnounced
<1>1. ClientInv /\ ConveyInv => NamedOnceAnnounced
  BY ConveyMeans
<1> QED
  BY <1>1, Conveyance, PTL

---------------------------------------------------------------------------
(* The inbound port: every step of the client is one of the port, or none. *)

\* What a call is to the port.
PortCall(what) == IF what \in {"finish", "joining"} THEN "join" ELSE what

\* A task that goes on is seen to go on, and no other.
LEMMA PortCallsStep ==
  ASSUME op \in [Task -> Ops], NEW t \in Task, NEW what,
         op' = [op EXCEPT ![t] = what]
  PROVE  /\ PortCalls' = [PortCalls EXCEPT ![t] = PortCall(what)]
         /\ PortCalls[t] = PortCall(op[t])
  BY DEF PortCalls, PortCall

\* The client starts as the port does.
LEMMA PortInit == Init => Port!Init
  BY DEF Init, Port!Init, PortCalls, Task, Port!Task

\* A call that begins is made.
LEMMA PortBegin ==
  ASSUME ClientInv, NEW t \in Caller, NEW what \in {"open", "join", "send"},
         NEW with, Begin(t, what, with), UNCHANGED <<sender, channel>>
  PROVE  Port!Next
<1>1. op \in [Task -> Ops] /\ t \in Task
  BY DEF ClientInv, TypeOK, Ops, Task
<1>2. /\ op' = [op EXCEPT ![t] = what] /\ op[t] = "idle"
      /\ queue' = Append(queue, t)
  BY DEF Begin
<1>3. PortCall(what) = what /\ PortCall("idle") = "idle"
  BY DEF PortCall
<1>4. PortCalls[t] = "idle" /\ PortCalls' = [PortCalls EXCEPT ![t] = what]
  <2>1. PortCalls' = [PortCalls EXCEPT ![t] = PortCall(what)]
    BY ONLY <1>1, <1>2, PortCallsStep
  <2>2. PortCalls[t] = PortCall(op[t])
    BY ONLY <1>1, <1>2, PortCallsStep
  <2> QED
    BY ONLY <1>2, <1>3, <2>1, <2>2
<1>5. Port!Call(t, what)
  BY <1>2, <1>4 DEF Port!Call, Port!Waits
<1> QED
  BY <1>5 DEF Port!Next

\* A call that ends is over.
LEMMA PortReturn ==
  ASSUME ClientInv, NEW t \in Task, Return(t)
  PROVE  Port!Ends(t) /\ PortCalls[t] = PortCall(op[t])
<1>1. op \in [Task -> Ops]
  BY DEF ClientInv, TypeOK, Ops
<1>2. op' = [op EXCEPT ![t] = "idle"]
  BY DEF Return
<1>3. PortCall("idle") = "idle"
  BY DEF PortCall
<1>4. PortCalls' = [PortCalls EXCEPT ![t] = "idle"] /\ PortCalls[t] = PortCall(op[t])
  BY <1>1, <1>2, <1>3, PortCallsStep
<1> QED
  BY <1>4 DEF Return, RemoveAt, Port!Ends, Port!RemoveAt

\* Every step of the client is a step of the port or leaves it alone.
LEMMA PortStep ==
  ASSUME ClientInv, Next
  PROVE  [Port!Next]_(Port!vars)
<1> USE DEF history, backend
<1>1. /\ op \in [Task -> Ops] /\ CallInv /\ DataTypes /\ LoopInv
  BY DEF ClientInv, TypeOK, DataTypes, Ops
<1>2. Port!Task = Task
  BY DEF Port!Task, Task
<1>3. ASSUME UNCHANGED <<op, queue, sender, channel>>
      PROVE  UNCHANGED Port!vars
  BY <1>3 DEF Port!vars, PortCalls
<1>4. ASSUME NEW t \in Caller,
             \/ Open(t)
             \/ \E ticket \in Topic \cup {BadTicket} : Join(t, ticket)
             \/ \E line \in Line : Send(t, line)
      PROVE  Port!Next
  BY <1>4, PortBegin DEF Open, Join, Send
<1>5. ASSUME NEW t \in Caller, Abort(t)
      PROVE  Port!Next
  <2>1. Port!Ends(t) /\ PortCalls[t] = PortCall(op[t])
    BY <1>5, PortReturn DEF Abort, Task
  <2>2. PortCalls[t] \in {"send", "echo"}
    BY <1>5, <2>1 DEF Abort, PortCall
  <2>3. Port!Dropped(t)
    BY <1>5, <2>1, <2>2 DEF Abort, Port!Dropped
  <2> QED
    BY <2>3 DEF Port!Next
<1>6. ASSUME NEW t \in Task, NEW topic \in Fresh, BeginOpenRoom(t, topic)
      PROVE  Port!Next
  <2>1. t \in Caller /\ op[topic] = "idle" /\ topic \in Task
    BY <1>1, <1>6 DEF BeginOpenRoom, CallInv, Task
  <2>2. /\ PortCalls[t] = "open" /\ PortCalls[topic] = "idle"
        /\ PortCalls' = [PortCalls EXCEPT ![t] = "idle", ![topic] = "spawned"]
    BY <1>1, <1>6, <2>1 DEF BeginOpenRoom, PortCalls
  <2>3. Port!OpenReturns(t, topic)
    BY <1>6, <2>1, <2>2 DEF BeginOpenRoom, Holds, Port!OpenReturns, Port!Served
  <2> QED
    BY <1>2, <2>1, <2>3 DEF Port!Next, Port!Serves
<1>7. ASSUME NEW t \in Task,
             \/ BindFails(t) \/ TicketRejected(t) \/ FinishFindsNone(t)
             \/ SendWithoutRoom(t) \/ SendFails(t) \/ JoinFails(t)
      PROVE  Port!Next
  <2>1. /\ Return(t) /\ Holds(t) /\ UNCHANGED <<sender, channel>>
        /\ op[t] \in {"open", "join", "finish", "joining", "send"}
    BY <1>7 DEF BindFails, TicketRejected, FinishFindsNone, SendWithoutRoom,
       SendFails, JoinFails
  <2>2. Port!Ends(t) /\ PortCalls[t] \in {"open", "join", "send"}
    BY <2>1, PortReturn DEF PortCall
  <2>3. Port!Returns(t)
    BY <2>1, <2>2 DEF Port!Returns, Port!Served, Holds
  <2> QED
    BY <1>2, <2>3 DEF Port!Next, Port!Serves
<1>8. ASSUME NEW t \in Task, JoinRoom(t) \/ FinishTakes(t)
      PROVE  UNCHANGED Port!vars
  <2>1. /\ op[t] \in {"join", "finish"} /\ op' = [op EXCEPT ![t] = "joining"]
        /\ UNCHANGED <<queue, sender, channel>>
    BY <1>8 DEF JoinRoom, FinishTakes, Step
  <2>2. PortCalls' = PortCalls
    BY <1>1, <2>1 DEF PortCalls
  <2> QED
    BY <2>1, <2>2 DEF Port!vars
<1>9. ASSUME NEW t \in Task, Broadcast(t)
      PROVE  Port!Next
  <2>1. /\ op[t] = "send" /\ op' = [op EXCEPT ![t] = "echo"] /\ Holds(t)
        /\ sender # None /\ UNCHANGED <<queue, sender, channel>>
    BY <1>9 DEF Broadcast, Step
  <2>2. PortCalls[t] = "send" /\ PortCalls' = [PortCalls EXCEPT ![t] = "echo"]
    BY <1>1, <2>1, PortCallsStep DEF PortCall
  <2>3. Port!Broadcasts(t)
    BY <2>1, <2>2 DEF Port!Broadcasts, Port!Served, Holds
  <2> QED
    BY <1>2, <2>3 DEF Port!Next, Port!Serves
<1>10. ASSUME NEW t \in Task, Joined(t) \/ AnnounceFails(t)
       PROVE  Port!Next
  <2>1. /\ Return(t) /\ Holds(t) /\ op[t] = "joining" /\ sender' = arg[t]
        /\ UNCHANGED channel
    BY <1>10 DEF Joined, AnnounceFails
  <2>2. sender' # None
    BY <1>1, <2>1, ClientAssumption DEF CallInv
  <2>3. Port!Ends(t) /\ PortCalls[t] = "join"
    BY <2>1, PortReturn DEF PortCall
  <2>4. Port!JoinReturns(t)
    BY <2>1, <2>2, <2>3 DEF Port!JoinReturns, Port!Served, Holds
  <2> QED
    BY <1>2, <2>4 DEF Port!Next, Port!Serves
<1>11. ASSUME NEW t \in Task, Echo(t)
       PROVE  Port!Next
  <2> DEFINE c == Chat(arg[t], IF Named THEN "name" ELSE "id", 0)
  <2>1. /\ Return(t) /\ op[t] = "echo" /\ Put(c) /\ sender' = sender
    BY <1>11 DEF Echo
  <2>2. c \in Chats
    BY <1>1, <2>1, ClientAssumption DEF CallInv, Chat, Chats
  <2> HIDE DEF c
  <2>3. t \in Caller /\ Holds(t)
    BY <1>1, <2>1 DEF CallInv, Task
  <2>4. Port!Ends(t) /\ PortCalls[t] = "echo"
    BY <2>1, PortReturn DEF PortCall
  <2>5. Port!Echo(t, c)
    BY <2>1, <2>3, <2>4 DEF Port!Echo, Port!Served, Port!Put, Put, Holds
  <2> QED
    BY <2>2, <2>3, <2>5 DEF Port!Next
<1>12. ASSUME NEW topic \in Fresh, FinishStarts(topic)
       PROVE  Port!Next
  <2>1. /\ op[topic] = "spawned" /\ op' = [op EXCEPT ![topic] = "finish"]
        /\ queue' = Append(queue, topic) /\ UNCHANGED <<sender, channel>>
        /\ topic \in Task
    BY <1>12 DEF FinishStarts, Task
  <2>2. PortCalls[topic] = "spawned" /\ PortCalls' = [PortCalls EXCEPT ![topic] = "join"]
    BY <1>1, <2>1, PortCallsStep DEF PortCall
  <2>3. Port!FinishStarts(topic)
    BY <2>1, <2>2 DEF Port!FinishStarts, Port!Waits
  <2> QED
    BY <2>3 DEF Port!Next
<1>13. ASSUME NEW topic \in Topic, NEW event, Deliver(topic, event)
       PROVE  UNCHANGED Port!vars
  BY <1>3, <1>13 DEF Deliver, calls
<1>14. ASSUME NEW l \in DOMAIN loops, LoopEnds(l) \/ LoopReads(l)
       PROVE  UNCHANGED Port!vars
  <2>1. UNCHANGED <<op, queue, sender, channel>>
    BY <1>14
       DEF LoopEnds, LoopReads, LoopAboutMe, LoopMessage, LoopOther, calls
  <2> QED
    BY <1>3, <2>1
<1>15. ASSUME NEW l \in DOMAIN loops, LoopPuts(l)
       PROVE  Port!Next
  <2> DEFINE c == Chat(loops[l].hand, loops[l].from, l)
  <2>1. /\ UNCHANGED <<op, queue, sender>> /\ Put(c)
    BY <1>15 DEF LoopPuts, calls
  <2>2. c \in Chats
    BY <1>15, LoopChat
  <2> HIDE DEF c
  <2>3. PortCalls' = PortCalls
    BY <2>1 DEF PortCalls
  <2>4. sender # None
    BY <1>1 DEF LoopInv
  <2>5. Port!LineArrives(c)
    BY <2>1, <2>3, <2>4 DEF Port!LineArrives, Port!Put, Put
  <2> QED
    BY <2>2, <2>5 DEF Port!Next
<1>16. CASE NextMessage
  <2>1. /\ channel # <<>> /\ channel' = Tail(channel)
        /\ UNCHANGED <<op, queue, sender>>
    BY <1>16 DEF NextMessage, calls
  <2>2. PortCalls' = PortCalls
    BY <2>1 DEF PortCalls
  <2>3. Port!NextMessage
    BY <2>1, <2>2 DEF Port!NextMessage
  <2> QED
    BY <2>3 DEF Port!Next
<1> HIDE DEF history, backend
<1>17. ASSUME NEW t \in Task, CallSteps(t) \/ JoinEnds(t) \/ Echo(t)
       PROVE  [Port!Next]_(Port!vars)
  BY <1>6, <1>7, <1>8, <1>9, <1>10, <1>11, <1>17 DEF CallSteps, JoinEnds
<1>18. ASSUME NEW topic \in Topic,
              \/ \E peer \in Peer, line \in Line : PeerSends(topic, peer, line)
              \/ \E event \in {AboutMe(peer) : peer \in Peer} \cup {Other} :
                   OtherThanLine(topic, event)
       PROVE  [Port!Next]_(Port!vars)
  BY <1>13, <1>18 DEF PeerSends, OtherThanLine
<1> QED
  BY <1>4, <1>5, <1>12, <1>14, <1>15, <1>16, <1>17, <1>18 DEF Next

\* ImplementsPort: the service over the gossip backend keeps the promise of
\* the inbound port, whatever the topics, peers, names and loops do.
THEOREM PortImplemented == Spec => ImplementsPort
<1>1. Init => Port!Init
  BY PortInit
<1>2. ClientInv /\ [Next]_vars => [Port!Next]_(Port!vars)
  <2>1. ASSUME UNCHANGED vars
        PROVE  UNCHANGED Port!vars
    BY <2>1 DEF vars, Port!vars, PortCalls
  <2> QED
    BY <2>1, PortStep
<1> QED
  BY <1>1, <1>2, ClientInvariant, PTL DEF Spec, ImplementsPort, Port!Spec
=============================================================================
