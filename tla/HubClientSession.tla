-------------------------- MODULE HubClientSession --------------------------
(***************************************************************************)
(* What a client of the chat may rely on: the inbound port                 *)
(* (src/guyos_core/src/ports/inbound/hub_client_session.rs) as             *)
(* ClientChatService serves it over any RelayChatBackend, without topics,  *)
(* endpoints, gossip and names.                                            *)
(*                                                                         *)
(* open, join and send are calls of tasks that are served one at a time,   *)
(* in the order they were made; open leaves a task behind that joins the   *)
(* room.  A send that has broadcast its line puts it into a bounded        *)
(* channel before the next call is served; once a room is joined, lines    *)
(* of others come into the same channel.  next_message takes the oldest.   *)
(***************************************************************************)
EXTENDS Naturals, Sequences, SequencesExt

CONSTANTS
  Caller,     \* tasks that call, one call at a time
  Finisher,   \* tasks that opens leave behind
  Entry,      \* the messages next_message may return
  Capacity    \* of the channel

VARIABLES
  calls,      \* what each task waits for
  queue,      \* the tasks in the order they are served, the first one is
  joined,     \* there is a room to send to
  channel     \* the messages next_message has yet to return

vars == <<calls, queue, joined, channel>>

Task == Caller \cup Finisher

Init ==
  /\ calls = [t \in Task |-> "idle"]
  /\ queue = <<>>
  /\ joined = FALSE
  /\ channel = <<>>

Served(t) == queue # <<>> /\ Head(queue) = t

Waits(t, for) ==
  /\ calls' = [calls EXCEPT ![t] = for]
  /\ queue' = Append(queue, t)

Ends(t) ==
  /\ calls' = [calls EXCEPT ![t] = "idle"]
  /\ \E i \in DOMAIN queue : queue[i] = t /\ queue' = RemoveAt(queue, i)

Call(t, what) ==
  /\ t \in Caller /\ calls[t] = "idle"
  /\ Waits(t, what)
  /\ UNCHANGED <<joined, channel>>

\* The ticket is returned, and the task f is to join the room.
OpenReturns(t, f) ==
  /\ Served(t) /\ calls[t] = "open"
  /\ calls[f] = "idle"
  /\ calls' = [calls EXCEPT ![t] = "idle", ![f] = "spawned"]
  /\ queue' = Tail(queue)
  /\ UNCHANGED <<joined, channel>>

FinishStarts(f) ==
  /\ f \in Finisher /\ calls[f] = "spawned"
  /\ Waits(f, "join")
  /\ UNCHANGED <<joined, channel>>

\* The room is joined, for better or worse: what follows may still fail.
JoinReturns(t) ==
  /\ Served(t) /\ calls[t] = "join"
  /\ joined' = TRUE
  /\ Ends(t)
  /\ UNCHANGED channel

\* An error, or a send that has no room to send to.
Returns(t) ==
  /\ Served(t) /\ calls[t] \in {"open", "join", "send"}
  /\ Ends(t)
  /\ UNCHANGED <<joined, channel>>

Broadcasts(t) ==
  /\ Served(t) /\ calls[t] = "send"
  /\ joined
  /\ calls' = [calls EXCEPT ![t] = "echo"]
  /\ UNCHANGED <<queue, joined, channel>>

\* Mutated form: an unbounded channel.
Put_Unbounded(message) == channel' = Append(channel, message)

Put(message) ==
  /\ Len(channel) < Capacity
  /\ channel' = Append(channel, message)

Echo(t, message) ==
  /\ Served(t) /\ calls[t] = "echo"
  /\ Put(message)
  /\ Ends(t)
  /\ UNCHANGED joined

\* The caller is aborted in the middle of a send.
Dropped(t) ==
  /\ t \in Caller /\ calls[t] \in {"send", "echo"}
  /\ Ends(t)
  /\ UNCHANGED <<joined, channel>>

LineArrives(message) ==
  /\ joined
  /\ Put(message)
  /\ UNCHANGED <<calls, queue, joined>>

NextMessage ==
  /\ channel # <<>>
  /\ channel' = Tail(channel)
  /\ UNCHANGED <<calls, queue, joined>>

Serves(t) ==
  \/ \E f \in Finisher : t \in Caller /\ OpenReturns(t, f)
  \/ JoinReturns(t) \/ Returns(t) \/ Broadcasts(t)

Next ==
  \/ \E t \in Caller :
       \/ \E what \in {"open", "join", "send"} : Call(t, what)
       \/ Dropped(t)
       \/ \E message \in Entry : Echo(t, message)
  \/ \E t \in Task : Serves(t)
  \/ \E f \in Finisher : FinishStarts(f)
  \/ \E message \in Entry : LineArrives(message)
  \/ NextMessage

Spec == Init /\ [][Next]_vars

\* Every call is served once its turn has come, as far as the channel lets
\* it; that someone takes the messages is up to the caller.
FairSpec ==
  /\ Spec
  /\ \A t \in Task : WF_vars(Serves(t))
  /\ \A t \in Caller : SF_vars(\E message \in Entry : Echo(t, message))
  /\ \A f \in Finisher : WF_vars(FinishStarts(f))
=============================================================================
