----------------------------- MODULE GuyosHub ------------------------------
(***************************************************************************)
(* A hub that serves several streams with the wire v1 domain code: each    *)
(* stream has a GuyosWireSession, every stream of a room shares one shard  *)
(* of the publish ledger, and handle_client_message                        *)
(* (src/guyos_core/src/domain/guyos_wire_v1.rs) runs once per inbound       *)
(* message, without interruption (it is synchronous and borrows the        *)
(* ledger mutably).                                                        *)
(*                                                                         *)
(* The repository holds no connection loop yet.  The one here does what    *)
(* the comments on GuyosWireInboundOutcome and RoomPublishLedger demand of *)
(* it and nothing more: a reply is written to its stream before the next   *)
(* message of that stream is read, an observer_chat goes to every other    *)
(* stream attached to the room at the acceptance, and the copies are       *)
(* written later, in any order, while other streams are being handled.     *)
(* A stream may end between any two steps, and its client may return on a  *)
(* new one and publish again what it is not sure was accepted.             *)
(***************************************************************************)
EXTENDS GuyosWireV1, Sequences, FiniteSets, SequencesExt

CONSTANTS
  Stream,     \* slots for application streams
  HubKey,     \* the key the hub verifies tickets with
  Policy,     \* its GuyosWireAttachPolicy
  Bodies,     \* the bodies clients send
  MaxTime     \* bound on the clock

ASSUME HubAssumption ==
  /\ HubKey \in Key
  /\ Policy \in [supported_major : Nat, hub_minor_ceiling : Nat,
                 max_frame_bytes : Nat, max_message_bytes : Nat]
  /\ Bodies \subseteq Body
  /\ MaxTime \in Nat

VARIABLES
  session,    \* the GuyosWireSession of each stream
  ledger,     \* the RoomShard of each room
  reply,      \* the reply a stream's task has yet to write
  fanout,     \* the chat_message copies not written yet
  chats,      \* the chat_messages written on each stream, in order
  now,        \* the hub's clock, in seconds
  \* History: read by properties, never by an action's guard.
  since,      \* next_seq of the room when the stream attached
  own,        \* the ids first accepted from the stream
  told,       \* every (room, id, seq) a publish_ack or chat_message stated
  detached    \* the stream sent detach after it attached

vars == <<session, ledger, reply, fanout, chats, now, since, own, told,
          detached>>

Closed == [phase |-> "Closed"]
AwaitingAttach == [phase |-> "AwaitingAttach"]
Attached(room_id, max_frame_bytes, max_message_bytes) ==
  [phase |-> "Attached", room_id |-> room_id,
   max_frame_bytes |-> max_frame_bytes,
   max_message_bytes |-> max_message_bytes]

NoReply == [type |-> "none"]
Error(code) == [type |-> "error", code |-> code]
PublishAck(id, seq) ==
  [type |-> "publish_ack", client_message_id |-> id, seq |-> seq]

Init ==
  /\ session = [s \in Stream |-> Closed]
  /\ ledger = [r \in Room |-> EmptyShard]
  /\ reply = [s \in Stream |-> NoReply]
  /\ fanout = {}
  /\ chats = [s \in Stream |-> <<>>]
  /\ now = 0
  /\ since = [s \in Stream |-> 0]
  /\ own = [s \in Stream |-> {}]
  /\ told = {}
  /\ detached = [s \in Stream |-> FALSE]

IsAttached(s) == session[s].phase = "Attached"
InRoom(s, r) == IsAttached(s) /\ session[s].room_id = r

---------------------------------------------------------------------------
(* One inbound message.                                                    *)

\* The task of s has written its last reply and pops the frame of body.  A
\* publish whose own frame is over the limit never gets this far.
Reads(s, body) ==
  /\ session[s].phase # "Closed"
  /\ reply[s] = NoReply
  /\ body.type = "publish" =>
       PublishBodyBytes(body.text) <= Policy.max_frame_bytes

Decodes(s, body) ==
  Reads(s, body) /\ decode_guyos_wire_v1_json(body) = "none"

Answer(s, message) == reply' = [reply EXCEPT ![s] = message]

\* outbound_error_from_message_error: one error, the session as it was.
DecodeRejected(s, body) ==
  /\ Reads(s, body)
  /\ decode_guyos_wire_v1_json(body) # "none"
  /\ Answer(s, Error(decode_guyos_wire_v1_json(body)))
  /\ UNCHANGED <<session, ledger, fanout, chats, now, since, own, told, detached>>

AttachResult(body) == accept_attach(body, Policy, HubKey, now)

AttachAccepted(s, body) ==
  /\ Decodes(s, body)
  /\ session[s] = AwaitingAttach
  /\ body.type = "attach"
  /\ AttachResult(body) = "none"
  /\ LET ack == AttachAck(body, Policy) IN
       /\ session' = [session EXCEPT ![s] =
            Attached(ack.room_id, ack.max_frame_bytes, ack.max_message_bytes)]
       /\ Answer(s, ack)
       /\ since' = [since EXCEPT ![s] = ledger[ack.room_id].next_seq]
  /\ UNCHANGED <<ledger, fanout, chats, now, own, told, detached>>

AttachRefused(s, body) ==
  /\ Decodes(s, body)
  /\ session[s] = AwaitingAttach
  /\ body.type = "attach"
  /\ AttachResult(body) # "none"
  /\ Answer(s, Error(AttachResult(body)))
  /\ UNCHANGED <<session, ledger, fanout, chats, now, since, own, told, detached>>

\* Anything but attach, detach and keepalive on a stream that is not attached.
AttachRequired(s, body) ==
  /\ Decodes(s, body)
  /\ session[s] = AwaitingAttach
  /\ body.type \notin {"attach", "detach", "keepalive"}
  /\ Answer(s, Error("attach_required"))
  /\ UNCHANGED <<session, ledger, fanout, chats, now, since, own, told, detached>>

DuplicateAttach(s, body) ==
  /\ Decodes(s, body)
  /\ IsAttached(s)
  /\ body.type = "attach"
  /\ Answer(s, Error("invalid_attach"))
  /\ UNCHANGED <<session, ledger, fanout, chats, now, since, own, told, detached>>

\* NoReply: detach and keepalive in both phases, a hub's message type when
\* attached.  The session keeps its phase, after a detach as well.
Ignored(s, body) ==
  /\ Decodes(s, body)
  /\ \/ body.type \in {"detach", "keepalive"}
     \/ IsAttached(s) /\ body.type \in HubTypes
  /\ detached' = [detached EXCEPT
       ![s] = @ \/ (IsAttached(s) /\ body.type = "detach")]
  /\ UNCHANGED <<session, ledger, reply, fanout, chats, now, since, own, told>>

\* A publish on an attached stream, as far as dispatch_publish_for_room.
Publishes(s, body) ==
  /\ Decodes(s, body)
  /\ IsAttached(s)
  /\ body.type = "publish"

\* Mutated form: the ledger is consulted before the text is measured.
PublishTooLarge_LedgerFirst(s, body) ==
  /\ Publishes(s, body)
  /\ ~TextFits(body.text, session[s].max_message_bytes)
  /\ Answer(s, Error("message_too_large"))
  /\ IsFirstAcceptance(ledger[session[s].room_id], body.client_message_id)
  /\ ledger' = [ledger EXCEPT
       ![session[s].room_id] = Insert(@, body.client_message_id)]
  /\ UNCHANGED <<session, fanout, chats, now, since, own, told, detached>>

PublishTooLarge(s, body) ==
  /\ Publishes(s, body)
  /\ ~TextFits(body.text, session[s].max_message_bytes)
  /\ Answer(s, Error("message_too_large"))
  /\ UNCHANGED <<session, ledger, fanout, chats, now, since, own, told, detached>>

\* accept_or_replay is reached.
Accepts(s, body) ==
  Publishes(s, body) /\ TextFits(body.text, session[s].max_message_bytes)

\* Mutated forms: the publisher is an observer; every room is one room.
Observers_Echo(s) == {t \in Stream : InRoom(t, session[s].room_id)}
Observers_AllRooms(s) == {t \in Stream \ {s} : IsAttached(t)}

\* The streams an observer_chat of s goes to: never s itself.
Observers(s) == {t \in Stream \ {s} : InRoom(t, session[s].room_id)}

\* Mutated form: observer_chat is None on a first acceptance.
ObserverChat_None(s, body, seq) == {}

ObserverChat(s, body, seq) ==
  {[to |-> t, room_id |-> session[s].room_id, seq |-> seq,
    client_message_id |-> body.client_message_id, text |-> body.text] :
     t \in Observers(s)}

PublishFirst(s, body) ==
  LET r == session[s].room_id
      id == body.client_message_id
      seq == DecisionSeq(ledger[r], id)
  IN  /\ Accepts(s, body)
      /\ IsFirstAcceptance(ledger[r], id)
      /\ ledger' = [ledger EXCEPT ![r] = Insert(@, id)]
      /\ Answer(s, PublishAck(id, seq))
      /\ fanout' = fanout \cup ObserverChat(s, body, seq)
      /\ own' = [own EXCEPT ![s] = @ \cup {id}]
      /\ UNCHANGED <<session, chats, now, since, told, detached>>

\* The text of a replay is not compared with the text first accepted.
PublishReplay(s, body) ==
  LET r == session[s].room_id
      id == body.client_message_id
  IN  /\ Accepts(s, body)
      /\ IsReplay(ledger[r], id)
      /\ Answer(s, PublishAck(id, DecisionSeq(ledger[r], id)))
      /\ UNCHANGED <<session, ledger, fanout, chats, now, since, own, told, detached>>

---------------------------------------------------------------------------
(* Streams, writes and the clock.                                          *)

\* All that is left of a stream when it is dropped: nothing.
Forget(s) ==
  /\ session' = [session EXCEPT ![s] = Closed]
  /\ reply' = [reply EXCEPT ![s] = NoReply]
  /\ fanout' = {c \in fanout : c.to # s}
  /\ chats' = [chats EXCEPT ![s] = <<>>]
  /\ since' = [since EXCEPT ![s] = 0]
  /\ own' = [own EXCEPT ![s] = {}]
  /\ detached' = [detached EXCEPT ![s] = FALSE]
  /\ UNCHANGED <<ledger, now, told>>

\* The expect on checked_add panics: the task of the stream unwinds.
PublishPanics(s, body) ==
  /\ Accepts(s, body)
  /\ Overflows(ledger[session[s].room_id], body.client_message_id)
  /\ Forget(s)

\* The peer closes, the transport fails or a frame cannot be read.
StreamEnds(s) ==
  /\ session[s].phase # "Closed"
  /\ Forget(s)

Connect(s) ==
  /\ session[s] = Closed
  /\ session' = [session EXCEPT ![s] = AwaitingAttach]
  /\ UNCHANGED <<ledger, reply, fanout, chats, now, since, own, told, detached>>

Fact(room_id, id, seq) ==
  [room_id |-> room_id, client_message_id |-> id, seq |-> seq]

WriteReply(s) ==
  /\ reply[s] # NoReply
  /\ told' = IF reply[s].type = "publish_ack"
             THEN told \cup {Fact(session[s].room_id,
                                  reply[s].client_message_id, reply[s].seq)}
             ELSE told
  /\ reply' = [reply EXCEPT ![s] = NoReply]
  /\ UNCHANGED <<session, ledger, fanout, chats, now, since, own, detached>>

ChatFits(c) ==
  ChatEncodes(c.text, SeqDigits(c.seq), session[c.to].max_frame_bytes,
              session[c.to].max_message_bytes)

WriteChat(c) ==
  /\ c \in fanout
  /\ ChatFits(c)
  /\ fanout' = fanout \ {c}
  /\ chats' = [chats EXCEPT ![c.to] =
       Append(@, [seq |-> c.seq, client_message_id |-> c.client_message_id])]
  /\ told' = told \cup {Fact(c.room_id, c.client_message_id, c.seq)}
  /\ UNCHANGED <<session, ledger, reply, now, since, own, detached>>

\* JsonBodyTooLarge: the line is in the ledger, its chat_message has no frame.
ChatUnencodable(c) ==
  /\ c \in fanout
  /\ ~ChatFits(c)
  /\ fanout' = fanout \ {c}
  /\ UNCHANGED <<session, ledger, reply, chats, now, since, own, told, detached>>

Tick ==
  /\ now < MaxTime
  /\ now' = now + 1
  /\ UNCHANGED <<session, ledger, reply, fanout, chats, since, own, told, detached>>

---------------------------------------------------------------------------
handle_client_message(s, body) ==
  \/ AttachAccepted(s, body)
  \/ AttachRefused(s, body)
  \/ AttachRequired(s, body)
  \/ DuplicateAttach(s, body)
  \/ Ignored(s, body)
  \/ PublishTooLarge(s, body)
  \/ PublishFirst(s, body)
  \/ PublishReplay(s, body)
  \/ PublishPanics(s, body)

Next ==
  \/ \E s \in Stream, body \in Bodies :
       DecodeRejected(s, body) \/ handle_client_message(s, body)
  \/ \E s \in Stream : Connect(s) \/ StreamEnds(s) \/ WriteReply(s)
  \/ \E c \in fanout : WriteChat(c) \/ ChatUnencodable(c)
  \/ Tick

Spec == Init /\ [][Next]_vars
---------------------------------------------------------------------------
(* Properties.                                                             *)

Sessions ==
  {Closed, AwaitingAttach} \cup
  [phase : {"Attached"}, room_id : Room, max_frame_bytes : Nat,
   max_message_bytes : Nat]

ErrorCodes ==
  {"malformed_json", "unknown_message_type", "invalid_attach",
   "invalid_client_message_id", "protocol_major_unsupported",
   "ticket_decode_failed", "invalid_ticket", "attach_required",
   "message_too_large"}

Replies ==
  {NoReply} \cup {Error(code) : code \in ErrorCodes} \cup
  [type : {"publish_ack"}, client_message_id : MsgId, seq : 0..U64_MAX] \cup
  [type : {"attach_ack"}, room_id : Room, max_frame_bytes : Nat,
   max_message_bytes : Nat, protocol_major : Nat, server_protocol_minor : Nat]

Chat == [to : Stream, room_id : Room, seq : 0..U64_MAX,
         client_message_id : MsgId, text : Text]
Line == [seq : 0..U64_MAX, client_message_id : MsgId]
Facts == [room_id : Room, client_message_id : MsgId, seq : 0..U64_MAX]

\* Type correctness of the hub: sessions, shards and replies have the shapes
\* of the enums and structs that hold them.
TypeOK ==
  /\ session \in [Stream -> Sessions]
  /\ ledger \in [Room -> RoomShard]
  /\ reply \in [Stream -> Replies]
  /\ fanout \subseteq Chat
  /\ chats \in [Stream -> Seq(Line)]
  /\ now \in 0..MaxTime
  /\ since \in [Stream -> 0..U64_MAX]
  /\ own \in [Stream -> SUBSET MsgId]
  /\ told \subseteq Facts
  /\ detached \in [Stream -> BOOLEAN]

\* O1: in every room the accepted ids are numbered 0, 1, 2, ... without a
\* gap and without two ids sharing a number (accept_or_replay).
LedgerDense == \A r \in Room : Dense(ledger[r])

\* R3 and D2: whatever the hub ever told anyone about a line of a room, on
\* any stream, in a first acknowledgement, a replay or a chat_message, the
\* same id always had the same seq and the same seq the same id.
SeqAgreement ==
  \A f, g \in told :
    f.room_id = g.room_id =>
      (f.client_message_id = g.client_message_id <=> f.seq = g.seq)

\* The strengthening of SeqAgreement that is inductive: what has been told,
\* and what is about to be, is what the ledger holds.
Holds(rooms, r, id, seq) ==
  id \in Accepted(rooms[r]) /\ rooms[r].by_client_id[id] = seq

AgreesWithLedger ==
  /\ \A s \in Stream : reply[s].type = "publish_ack" =>
       /\ IsAttached(s)
       /\ Holds(ledger, session[s].room_id, reply[s].client_message_id,
               reply[s].seq)
  /\ \A c \in fanout : Holds(ledger, c.room_id, c.client_message_id, c.seq)
  /\ \A f \in told : Holds(ledger, f.room_id, f.client_message_id, f.seq)

HubInv == TypeOK /\ LedgerDense /\ AgreesWithLedger

\* A stream's chat_messages: each line at most once, never one the stream
\* had accepted itself (no hub echo), none older than its attach.
OneCopyPerObserver ==
  \A s \in Stream :
    /\ \A i, j \in DOMAIN chats[s] :
         i # j => chats[s][i].client_message_id # chats[s][j].client_message_id
    /\ \A i \in DOMAIN chats[s] :
         /\ chats[s][i].client_message_id \notin own[s]
         /\ chats[s][i].seq >= since[s]

\* A stream attached to a room has received, or is about to be sent, every
\* line the room accepted since from other streams, and nothing else.
NoLineLost ==
  \A s \in Stream : IsAttached(s) =>
    LET shard == ledger[session[s].room_id] IN
      {id \in Accepted(shard) : shard.by_client_id[id] >= since[s]} \ own[s] =
      {line.client_message_id : line \in ToSet(chats[s])} \cup
      {c.client_message_id : c \in {d \in fanout : d.to = s}}

\* What is accepted stays: no step forgets an id of a room or renumbers it,
\* and next_seq never goes back.
AcceptedStays ==
  [][\A r \in Room :
       /\ ledger'[r].next_seq >= ledger[r].next_seq
       /\ \A id \in Accepted(ledger[r]) :
            /\ id \in Accepted(ledger'[r])
            /\ ledger'[r].by_client_id[id] = ledger[r].by_client_id[id]]_vars

\* A stream enters a room only if clients hold a ticket the hub's key signed
\* for that room and that has not expired, and leaves it only by ending: no
\* second attach moves it or renegotiates its limits.
RoomByTicketOnly ==
  [][\A s \in Stream :
       session'[s].phase = "Attached" =>
         \/ session'[s] = session[s]
         \/ /\ session[s] = AwaitingAttach
            /\ \E body \in Bodies :
                 /\ body.ticket = encode_reference_v1(HubKey,
                      session'[s].room_id, body.ticket.body.expires_unix)
                 /\ \/ body.ticket.body.expires_unix = 0
                    \/ body.ticket.body.expires_unix >= now]_vars

\* A message answered with an error leaves no trace but the error: the
\* session, the ledger and the fan-out are as they were.
RefusalLeavesNoTrace ==
  [][\A s \in Stream :
       reply[s] = NoReply /\ reply'[s].type = "error" =>
         UNCHANGED <<session, ledger, fanout, since, own>>]_vars

\* ADR 0003 (DT1): a detach releases the room on that connection, so a
\* stream that detached adds no line to it.
NoLineAfterDetach ==
  [][\A s \in Stream : detached[s] => own'[s] \subseteq own[s]]_vars

\* The hub implements the promise of RoomLog.
LogOf(shard) ==
  [n \in 1..shard.next_seq |->
     CHOOSE id \in Accepted(shard) : shard.by_client_id[id] = n - 1]

Logs == [r \in Room |-> LogOf(ledger[r])]
RoomsOf == [s \in Stream |-> IF IsAttached(s) THEN {session[s].room_id} ELSE {}]
Positions(seen) == [i \in DOMAIN seen |-> seen[i].seq + 1]
Received == [s \in Stream |-> Positions(chats[s])]

Promise == INSTANCE RoomLog WITH
  Line <- MsgId,
  Reader <- Stream,
  MaxLength <- U64_MAX,
  log <- Logs,
  room <- RoomsOf,
  from <- since,
  own <- own,
  got <- Received

ImplementsRoomLog == Promise!Spec
=============================================================================
