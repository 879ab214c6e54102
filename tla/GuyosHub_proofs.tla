-------------------------- MODULE GuyosHub_proofs --------------------------
(***************************************************************************)
(* Theorems about GuyosHub, for any number of streams, rooms and ids, any  *)
(* u64 limit, any policy and any set of bodies.                            *)
(***************************************************************************)
EXTENDS GuyosHub, GuyosWireV1_proofs

---------------------------------------------------------------------------
(* The shard of a room.                                                    *)

\* An empty shard is a shard and is dense.
LEMMA EmptyShardOK == EmptyShard \in RoomShard /\ Dense(EmptyShard)
<1>1. [id \in {} |-> 0] \in [{} -> 0..U64_MAX]
  OBVIOUS
<1>2. 0 \in 0..U64_MAX
  BY U64MaxAssumption
<1>3. EmptyShard \in RoomShard
  BY <1>1, <1>2 DEF EmptyShard, RoomShard
<1> QED
  BY <1>3 DEF Dense, EmptyShard, Accepted

\* The fields of a shard.
LEMMA ShardFields ==
  ASSUME NEW shard \in RoomShard
  PROVE  /\ shard.next_seq \in 0..U64_MAX
         /\ Accepted(shard) \subseteq MsgId
         /\ shard.by_client_id \in [Accepted(shard) -> 0..U64_MAX]
  BY DEF RoomShard, Accepted

\* A first acceptance leaves a shard: the counter stays within a u64.
LEMMA InsertOK ==
  ASSUME NEW shard \in RoomShard, NEW id \in MsgId,
         IsFirstAcceptance(shard, id)
  PROVE  /\ Insert(shard, id) \in RoomShard
         /\ Accepted(Insert(shard, id)) = Accepted(shard) \cup {id}
<1> DEFINE ids == Accepted(shard) \cup {id}
           map == [i \in ids |-> IF i = id THEN shard.next_seq
                                 ELSE shard.by_client_id[i]]
<1>1. shard.next_seq + 1 \in 0..U64_MAX
  BY ShardFields, U64MaxAssumption DEF IsFirstAcceptance, Overflows
<1>2. ids \in SUBSET MsgId
  BY ShardFields
<1>3. map \in [ids -> 0..U64_MAX]
  BY ShardFields
<1>4. Insert(shard, id) = [next_seq |-> shard.next_seq + 1, by_client_id |-> map]
  BY DEF Insert
<1> HIDE DEF map, ids
<1>5. map \in UNION {[i -> 0..U64_MAX] : i \in SUBSET MsgId}
  BY <1>2, <1>3
<1> QED
  BY <1>1, <1>3, <1>4, <1>5 DEF RoomShard, Accepted, ids

\* A first acceptance extends the numbering by one, without a gap.
LEMMA InsertDense ==
  ASSUME NEW shard \in RoomShard, NEW id \in MsgId,
         IsFirstAcceptance(shard, id), Dense(shard)
  PROVE  Dense(Insert(shard, id))
<1> DEFINE new == Insert(shard, id)
<1>1. /\ shard.next_seq \in Nat
      /\ \A i \in Accepted(shard) : shard.by_client_id[i] \in Nat
  BY ShardFields, U64MaxAssumption
<1>2. /\ Accepted(new) = Accepted(shard) \cup {id}
      /\ id \notin Accepted(shard)
  BY InsertOK DEF IsFirstAcceptance, IsReplay
<1>3. /\ new.next_seq = shard.next_seq + 1
      /\ new.by_client_id[id] = shard.next_seq
      /\ \A i \in Accepted(shard) : new.by_client_id[i] = shard.by_client_id[i]
  BY <1>2 DEF Insert
<1> HIDE DEF new
<1>4. \A i, j \in Accepted(new) :
        new.by_client_id[i] = new.by_client_id[j] => i = j
  BY <1>1, <1>2, <1>3 DEF Dense
<1>5. \A i \in Accepted(new) : new.by_client_id[i] < new.next_seq
  BY <1>1, <1>2, <1>3 DEF Dense
<1>6. ASSUME NEW n \in 0..U64_MAX, n < new.next_seq
      PROVE  \E i \in Accepted(new) : new.by_client_id[i] = n
  <2>1. CASE n = shard.next_seq
    BY <1>2, <1>3, <2>1
  <2>2. CASE n # shard.next_seq
    <3>1. n < shard.next_seq
      BY <1>1, <1>3, <1>6, <2>2, U64MaxAssumption
    <3> QED
      BY <1>2, <1>3, <3>1 DEF Dense
  <2> QED
    BY <2>1, <2>2
<1> QED
  BY <1>4, <1>5, <1>6 DEF Dense, new

\* A first acceptance keeps what the shard says of the ids it holds.
LEMMA InsertKeeps ==
  ASSUME NEW shard \in RoomShard, NEW id \in MsgId,
         IsFirstAcceptance(shard, id), NEW i \in Accepted(shard)
  PROVE  /\ i \in Accepted(Insert(shard, id))
         /\ Insert(shard, id).by_client_id[i] = shard.by_client_id[i]
  BY InsertOK DEF Insert, IsFirstAcceptance, IsReplay

\* The seq of either decision is a u64, and it is what the shard holds for
\* the id once the decision is made.
LEMMA DecisionSeqOK ==
  ASSUME NEW shard \in RoomShard, NEW id \in MsgId
  PROVE  /\ IsReplay(shard, id) \/ IsFirstAcceptance(shard, id) =>
              DecisionSeq(shard, id) \in 0..U64_MAX
         /\ IsFirstAcceptance(shard, id) =>
              /\ id \in Accepted(Insert(shard, id))
              /\ Insert(shard, id).by_client_id[id] = DecisionSeq(shard, id)
<1>1. DecisionSeq(shard, id) \in 0..U64_MAX
  BY ShardFields DEF DecisionSeq, IsReplay
<1>2. ASSUME IsFirstAcceptance(shard, id)
      PROVE  /\ id \in Accepted(Insert(shard, id))
             /\ Insert(shard, id).by_client_id[id] = DecisionSeq(shard, id)
  BY <1>2, InsertOK DEF Insert, DecisionSeq, IsFirstAcceptance
<1> QED
  BY <1>1, <1>2

---------------------------------------------------------------------------
(* The bodies clients send.                                                *)

\* A publish that decodes carries a canonical id.
LEMMA PublishDecodes ==
  ASSUME NEW body \in Bodies, body.type = "publish",
         decode_guyos_wire_v1_json(body) = "none"
  PROVE  body.client_message_id \in MsgId /\ body.text \in Text
<1>1. body \in Body
  BY HubAssumption
<1>2. body.client_message_id \notin {"not_a_string", "not_canonical"}
  BY <1>1, DecodesAsWanted DEF Wanted
<1> QED
  BY <1>1, <1>2 DEF Body

\* Every error the decoder or the attach checks return is a portable code.
LEMMA ErrorCodesOK ==
  ASSUME NEW body \in Bodies, NEW time
  PROVE  /\ decode_guyos_wire_v1_json(body) \in ErrorCodes \cup {"none"}
         /\ accept_attach(body, Policy, HubKey, time) \in
              ErrorCodes \cup {"none"}
<1>1. body \in Body
  BY HubAssumption
<1>2. decode_guyos_wire_v1_json(body) \in ErrorCodes \cup {"none"}
  BY <1>1, ErrorFitsFrame DEF ErrorCodes
<1>3. accept_attach(body, Policy, HubKey, time) \in ErrorCodes \cup {"none"}
  BY DEF accept_attach, decode_reference_v1, ErrorCodes
<1> QED
  BY <1>2, <1>3

---------------------------------------------------------------------------
(* Type correctness.                                                       *)

\* An error reply is well typed when its code is portable.
LEMMA ErrorReply ==
  ASSUME TypeOK, NEW s \in Stream, NEW code \in ErrorCodes,
         Answer(s, Error(code))
  PROVE  reply' \in [Stream -> Replies]
<1>1. Error(code) \in Replies
  BY DEF Replies
<1> QED
  BY <1>1 DEF TypeOK, Answer

\* What is left after a stream is dropped is well typed.
LEMMA ForgetTypeOK ==
  ASSUME TypeOK, NEW s \in Stream, Forget(s)
  PROVE  TypeOK'
<1>1. session' \in [Stream -> Sessions]
  BY DEF TypeOK, Forget, Sessions
<1>2. reply' \in [Stream -> Replies]
  BY DEF TypeOK, Forget, Replies
<1>3. chats' \in [Stream -> Seq(Line)]
  BY DEF TypeOK, Forget
<1>4. /\ since' \in [Stream -> 0..U64_MAX]
      /\ own' \in [Stream -> SUBSET MsgId]
      /\ detached' \in [Stream -> BOOLEAN]
  BY U64MaxAssumption DEF TypeOK, Forget
<1>5. fanout' \subseteq Chat
  BY DEF TypeOK, Forget
<1> QED
  BY <1>1, <1>2, <1>3, <1>4, <1>5 DEF TypeOK, Forget

\* The room and the limits of an attached stream.
LEMMA AttachedFields ==
  ASSUME TypeOK, NEW s \in Stream, IsAttached(s)
  PROVE  /\ session[s] \in [phase : {"Attached"}, room_id : Room,
                            max_frame_bytes : Nat, max_message_bytes : Nat]
         /\ session[s].room_id \in Room
         /\ ledger[session[s].room_id] \in RoomShard
  BY DEF TypeOK, IsAttached, Sessions, Closed, AwaitingAttach

\* The ack of a publish that reached the ledger is well typed.
LEMMA PublishAckOK ==
  ASSUME NEW id \in MsgId, NEW seq \in 0..U64_MAX
  PROVE  PublishAck(id, seq) \in Replies
  BY DEF PublishAck, Replies

\* The fields of a publish_ack.
LEMMA PublishAckFields ==
  ASSUME NEW m \in Replies, m.type = "publish_ack"
  PROVE  m.client_message_id \in MsgId /\ m.seq \in 0..U64_MAX
<1>1. m # NoReply
  BY DEF NoReply
<1>2. m \notin {Error(code) : code \in ErrorCodes}
  BY DEF Error
<1> QED
  BY <1>1, <1>2 DEF Replies

\* An attach that is accepted yields a well-typed session and attach_ack.
LEMMA AttachTypes ==
  ASSUME NEW body \in Bodies, body.type = "attach", body.json = "object",
         decode_guyos_wire_v1_json(body) = "none"
  PROVE  LET ack == AttachAck(body, Policy) IN
           /\ ack \in Replies
           /\ ack.room_id \in Room
           /\ Attached(ack.room_id, ack.max_frame_bytes, ack.max_message_bytes)
                \in Sessions
<1> DEFINE ack == AttachAck(body, Policy)
<1>1. attach_from_decoded_map(body)
  BY DEF decode_guyos_wire_v1_json
<1>2. body.protocol_major \in Nat /\ body.protocol_minor \in Nat
  BY <1>1, U31MaxAssumption DEF attach_from_decoded_map, require_attach_u31
<1>3. body.ticket.body.room_id \in Room
  BY HubAssumption DEF Body, Ticket, TicketBody
<1>4. /\ Policy.max_frame_bytes \in Nat /\ Policy.max_message_bytes \in Nat
      /\ Policy.hub_minor_ceiling \in Nat
  BY HubAssumption
<1>5. ack \in [type : {"attach_ack"}, room_id : Room, max_frame_bytes : Nat,
               max_message_bytes : Nat, protocol_major : Nat,
               server_protocol_minor : Nat]
  BY <1>2, <1>3, <1>4 DEF AttachAck
<1>6. Attached(ack.room_id, ack.max_frame_bytes, ack.max_message_bytes)
        \in Sessions
  BY <1>5 DEF Attached, Sessions
<1> QED
  BY <1>5, <1>6 DEF Replies

\* Every step keeps the types.
LEMMA NextTypeOK ==
  ASSUME TypeOK, AgreesWithLedger, [Next]_vars
  PROVE  TypeOK'
<1>1. ASSUME NEW s \in Stream, NEW body \in Bodies, DecodeRejected(s, body)
      PROVE  TypeOK'
  <2>1. reply' \in [Stream -> Replies]
    BY <1>1, ErrorReply, ErrorCodesOK DEF DecodeRejected
  <2> QED
    BY <1>1, <2>1 DEF TypeOK, DecodeRejected
<1>2. ASSUME NEW s \in Stream, NEW body \in Bodies, AttachAccepted(s, body)
      PROVE  TypeOK'
  <2> DEFINE ack == AttachAck(body, Policy)
  <2>1. body.json = "object"
    BY <1>2 DEF AttachAccepted, Decodes, decode_guyos_wire_v1_json
  <2>2. /\ ack \in Replies
        /\ ack.room_id \in Room
        /\ Attached(ack.room_id, ack.max_frame_bytes, ack.max_message_bytes)
             \in Sessions
    BY <1>2, <2>1, AttachTypes DEF AttachAccepted, Decodes
  <2>3. ledger[ack.room_id].next_seq \in 0..U64_MAX
    BY <2>2, ShardFields DEF TypeOK
  <2> HIDE DEF ack
  <2>4. /\ session' \in [Stream -> Sessions]
        /\ reply' \in [Stream -> Replies]
        /\ since' \in [Stream -> 0..U64_MAX]
    BY <1>2, <2>2, <2>3 DEF AttachAccepted, Answer, TypeOK, ack
  <2> QED
    BY <1>2, <2>4 DEF TypeOK, AttachAccepted
<1>3. ASSUME NEW s \in Stream, NEW body \in Bodies, AttachRefused(s, body)
      PROVE  TypeOK'
  <2>1. reply' \in [Stream -> Replies]
    BY <1>3, ErrorReply, ErrorCodesOK DEF AttachRefused, AttachResult
  <2> QED
    BY <1>3, <2>1 DEF TypeOK, AttachRefused
<1>4. ASSUME NEW s \in Stream, NEW body \in Bodies, AttachRequired(s, body)
      PROVE  TypeOK'
  <2>1. reply' \in [Stream -> Replies]
    BY <1>4, ErrorReply DEF AttachRequired, ErrorCodes
  <2> QED
    BY <1>4, <2>1 DEF TypeOK, AttachRequired
<1>5. ASSUME NEW s \in Stream, NEW body \in Bodies, DuplicateAttach(s, body)
      PROVE  TypeOK'
  <2>1. reply' \in [Stream -> Replies]
    BY <1>5, ErrorReply DEF DuplicateAttach, ErrorCodes
  <2> QED
    BY <1>5, <2>1 DEF TypeOK, DuplicateAttach
<1>6. ASSUME NEW s \in Stream, NEW body \in Bodies, Ignored(s, body)
      PROVE  TypeOK'
  <2>1. detached' \in [Stream -> BOOLEAN]
    BY <1>6, Zenon DEF Ignored, TypeOK, IsAttached
  <2> QED
    BY <1>6, <2>1 DEF TypeOK, Ignored
<1>7. ASSUME NEW s \in Stream, NEW body \in Bodies, PublishTooLarge(s, body)
      PROVE  TypeOK'
  <2>1. reply' \in [Stream -> Replies]
    BY <1>7, ErrorReply DEF PublishTooLarge, ErrorCodes
  <2> QED
    BY <1>7, <2>1 DEF TypeOK, PublishTooLarge
<1>8. ASSUME NEW s \in Stream, NEW body \in Bodies, PublishFirst(s, body)
      PROVE  TypeOK'
  <2> DEFINE r == session[s].room_id
             id == body.client_message_id
             seq == DecisionSeq(ledger[r], id)
  <2>1. /\ id \in MsgId
        /\ body.text \in Text
    BY <1>8, PublishDecodes DEF PublishFirst, Accepts, Publishes, Decodes
  <2>2. r \in Room /\ ledger[r] \in RoomShard
    BY <1>8, AttachedFields DEF PublishFirst, Accepts, Publishes
  <2>3. /\ seq \in 0..U64_MAX
        /\ Insert(ledger[r], id) \in RoomShard
    BY <1>8, <2>1, <2>2, DecisionSeqOK, InsertOK DEF PublishFirst
  <2>4. ledger' \in [Room -> RoomShard]
    BY <1>8, <2>2, <2>3 DEF PublishFirst, TypeOK
  <2>5. PublishAck(id, seq) \in Replies
    BY <2>1, <2>3, PublishAckOK
  <2>6. reply' \in [Stream -> Replies]
    BY <1>8, <2>5 DEF PublishFirst, Answer, TypeOK
  <2>7. ObserverChat(s, body, seq) \subseteq Chat
    BY <2>1, <2>2, <2>3 DEF ObserverChat, Observers, Chat
  <2>8. fanout' \subseteq Chat
    BY <1>8, <2>7 DEF PublishFirst, TypeOK
  <2>9. own' \in [Stream -> SUBSET MsgId]
    BY <1>8, <2>1 DEF PublishFirst, TypeOK
  <2> QED
    BY <1>8, <2>4, <2>6, <2>8, <2>9 DEF TypeOK, PublishFirst
<1>9. ASSUME NEW s \in Stream, NEW body \in Bodies, PublishReplay(s, body)
      PROVE  TypeOK'
  <2> DEFINE r == session[s].room_id
             id == body.client_message_id
  <2>1. id \in MsgId
    BY <1>9, PublishDecodes DEF PublishReplay, Accepts, Publishes, Decodes
  <2>2. r \in Room /\ ledger[r] \in RoomShard
    BY <1>9, AttachedFields DEF PublishReplay, Accepts, Publishes
  <2>3. DecisionSeq(ledger[r], id) \in 0..U64_MAX
    BY <1>9, <2>1, <2>2, DecisionSeqOK DEF PublishReplay
  <2>4. PublishAck(id, DecisionSeq(ledger[r], id)) \in Replies
    BY <2>1, <2>3, PublishAckOK
  <2>5. reply' \in [Stream -> Replies]
    BY <1>9, <2>4 DEF PublishReplay, Answer, TypeOK
  <2> QED
    BY <1>9, <2>5 DEF TypeOK, PublishReplay
<1>10. ASSUME NEW s \in Stream, NEW body \in Bodies, PublishPanics(s, body)
       PROVE  TypeOK'
  BY <1>10, ForgetTypeOK DEF PublishPanics
<1>11. ASSUME NEW s \in Stream, Connect(s)
       PROVE  TypeOK'
  <2>1. session' \in [Stream -> Sessions]
    BY <1>11 DEF Connect, TypeOK, Sessions
  <2> QED
    BY <1>11, <2>1 DEF TypeOK, Connect
<1>12. ASSUME NEW s \in Stream, StreamEnds(s)
       PROVE  TypeOK'
  BY <1>12, ForgetTypeOK DEF StreamEnds
<1>13. ASSUME NEW s \in Stream, WriteReply(s)
       PROVE  TypeOK'
  <2>1. reply' \in [Stream -> Replies]
    BY <1>13 DEF WriteReply, TypeOK, Replies
  <2>2. CASE reply[s].type = "publish_ack"
    <3>1. session[s].room_id \in Room
      BY <2>2, AttachedFields DEF AgreesWithLedger
    <3>2. /\ reply[s].client_message_id \in MsgId
          /\ reply[s].seq \in 0..U64_MAX
      BY <2>2, PublishAckFields DEF TypeOK
    <3>3. told' \subseteq Facts
      BY <1>13, <2>2, <3>1, <3>2 DEF WriteReply, TypeOK, Fact, Facts
    <3> QED
      BY <1>13, <2>1, <3>3 DEF TypeOK, WriteReply
  <2>3. CASE reply[s].type # "publish_ack"
    BY <1>13, <2>1, <2>3 DEF TypeOK, WriteReply
  <2> QED
    BY <2>2, <2>3
<1>14. ASSUME NEW c \in fanout, WriteChat(c)
       PROVE  TypeOK'
  <2>1. c \in Chat
    BY DEF TypeOK
  <2> DEFINE line == [seq |-> c.seq, client_message_id |-> c.client_message_id]
  <2>2. line \in Line /\ c.to \in Stream
    BY <2>1 DEF Chat, Line
  <2> HIDE DEF line
  <2>3. Append(chats[c.to], line) \in Seq(Line)
    BY <2>2 DEF TypeOK
  <2>4. chats' \in [Stream -> Seq(Line)]
    BY <1>14, <2>3 DEF WriteChat, TypeOK, line
  <2>5. told' \subseteq Facts
    BY <1>14, <2>1 DEF WriteChat, TypeOK, Fact, Facts, Chat
  <2>6. fanout' \subseteq Chat
    BY <1>14 DEF WriteChat, TypeOK
  <2> QED
    BY <1>14, <2>4, <2>5, <2>6 DEF TypeOK, WriteChat
<1>15. ASSUME NEW c \in fanout, ChatUnencodable(c)
       PROVE  TypeOK'
  BY <1>15 DEF TypeOK, ChatUnencodable
<1>16. CASE Tick
  BY <1>16, HubAssumption DEF TypeOK, Tick
<1>17. CASE UNCHANGED vars
  BY <1>17 DEF TypeOK, vars
<1> QED
  BY <1>1, <1>2, <1>3, <1>4, <1>5, <1>6, <1>7, <1>8, <1>9, <1>10, <1>11,
     <1>12, <1>13, <1>14, <1>15, <1>16, <1>17 DEF Next, handle_client_message

---------------------------------------------------------------------------
(* The ledger, and what the hub says about it.                             *)

\* The one kind of step that changes the ledger, and how.
LEMMA LedgerChanges ==
  ASSUME TypeOK, [Next]_vars, ledger' # ledger
  PROVE  \E s \in Stream, body \in Bodies :
           LET r == session[s].room_id
               id == body.client_message_id
           IN  /\ PublishFirst(s, body)
               /\ r \in Room
               /\ id \in MsgId
               /\ ledger[r] \in RoomShard
               /\ IsFirstAcceptance(ledger[r], id)
               /\ ledger' = [ledger EXCEPT ![r] = Insert(ledger[r], id)]
<1>1. PICK s \in Stream, body \in Bodies : PublishFirst(s, body)
  <2>1. ASSUME NEW s \in Stream, NEW body \in Bodies,
               handle_client_message(s, body) \/ DecodeRejected(s, body),
               ~PublishFirst(s, body)
        PROVE  FALSE
    BY <2>1 DEF handle_client_message, DecodeRejected, AttachAccepted,
       AttachRefused, AttachRequired, DuplicateAttach, Ignored,
       PublishTooLarge, PublishReplay, PublishPanics, Forget
  <2>2. ASSUME NEW s \in Stream, Connect(s) \/ StreamEnds(s) \/ WriteReply(s)
        PROVE  FALSE
    BY <2>2 DEF Connect, StreamEnds, Forget, WriteReply
  <2>3. ASSUME NEW c \in fanout, WriteChat(c) \/ ChatUnencodable(c)
        PROVE  FALSE
    BY <2>3 DEF WriteChat, ChatUnencodable
  <2>4. ASSUME Tick \/ UNCHANGED vars
        PROVE  FALSE
    BY <2>4 DEF Tick, vars
  <2> QED
    BY <2>1, <2>2, <2>3, <2>4 DEF Next
<1>2. session[s].room_id \in Room /\ ledger[session[s].room_id] \in RoomShard
  BY <1>1, AttachedFields DEF PublishFirst, Accepts, Publishes
<1>3. body.client_message_id \in MsgId
  BY <1>1, PublishDecodes DEF PublishFirst, Accepts, Publishes, Decodes
<1> QED
  BY <1>1, <1>2, <1>3 DEF PublishFirst

\* Every step keeps the numbering of every room dense.
LEMMA NextDense ==
  ASSUME TypeOK, LedgerDense, [Next]_vars
  PROVE  LedgerDense'
<1>1. CASE ledger' = ledger
  BY <1>1 DEF LedgerDense
<1>2. CASE ledger' # ledger
  <2>1. PICK s \in Stream, body \in Bodies :
          LET r == session[s].room_id
              id == body.client_message_id
          IN  /\ r \in Room
              /\ id \in MsgId
              /\ ledger[r] \in RoomShard
              /\ IsFirstAcceptance(ledger[r], id)
              /\ ledger' = [ledger EXCEPT ![r] = Insert(ledger[r], id)]
    BY <1>2, LedgerChanges
  <2> DEFINE r == session[s].room_id
  <2>2. Dense(Insert(ledger[r], body.client_message_id))
    BY <2>1, InsertDense DEF LedgerDense
  <2>3. ASSUME NEW q \in Room PROVE Dense(ledger'[q])
    <3>1. CASE q = r
      BY <2>1, <2>2, <3>1 DEF TypeOK
    <3>2. CASE q # r
      BY <2>1, <3>2 DEF TypeOK, LedgerDense
    <3> QED
      BY <3>1, <3>2
  <2> QED
    BY <2>3 DEF LedgerDense
<1> QED
  BY <1>1, <1>2

\* What the ledger of a room holds, it holds after every step.
LEMMA HoldsForever ==
  ASSUME TypeOK, [Next]_vars, NEW r \in Room, NEW id, NEW seq,
         Holds(ledger, r, id, seq)
  PROVE  Holds(ledger', r, id, seq)
<1>1. CASE ledger' = ledger
  BY <1>1 DEF Holds
<1>2. CASE ledger' # ledger
  <2>1. PICK s \in Stream, body \in Bodies :
          LET q == session[s].room_id
              new == body.client_message_id
          IN  /\ q \in Room
              /\ new \in MsgId
              /\ ledger[q] \in RoomShard
              /\ IsFirstAcceptance(ledger[q], new)
              /\ ledger' = [ledger EXCEPT ![q] = Insert(ledger[q], new)]
    BY <1>2, LedgerChanges
  <2> DEFINE q == session[s].room_id
  <2>2. CASE r = q
    <3>1. ledger'[r] = Insert(ledger[r], body.client_message_id)
      BY <2>1, <2>2 DEF TypeOK
    <3> QED
      BY <2>1, <2>2, <3>1, InsertKeeps DEF Holds
  <2>3. CASE r # q
    <3>1. ledger'[r] = ledger[r]
      BY <2>1, <2>3 DEF TypeOK
    <3> QED
      BY <3>1 DEF Holds
  <2> QED
    BY <2>2, <2>3
<1> QED
  BY <1>1, <1>2

\* To see that AgreesWithLedger is kept it is enough to look at what is new:
\* the replies, the chat_messages to write and the facts told.
LEMMA AgreesFrame ==
  ASSUME TypeOK, AgreesWithLedger, [Next]_vars,
         \A s \in Stream : reply'[s].type = "publish_ack" =>
           \/ reply'[s] = reply[s] /\ session'[s] = session[s]
           \/ /\ session'[s].phase = "Attached"
              /\ Holds(ledger', session'[s].room_id,
                       reply'[s].client_message_id, reply'[s].seq),
         \A c \in fanout' :
           c \in fanout \/ Holds(ledger', c.room_id, c.client_message_id, c.seq),
         \A f \in told' :
           f \in told \/ Holds(ledger', f.room_id, f.client_message_id, f.seq)
  PROVE  AgreesWithLedger'
<1>1. ASSUME NEW s \in Stream, reply'[s].type = "publish_ack"
      PROVE  /\ session'[s].phase = "Attached"
             /\ Holds(ledger', session'[s].room_id,
                      reply'[s].client_message_id, reply'[s].seq)
  <2>1. CASE reply'[s] = reply[s] /\ session'[s] = session[s]
    <3>1. /\ IsAttached(s)
          /\ Holds(ledger, session[s].room_id, reply[s].client_message_id,
                   reply[s].seq)
      BY <1>1, <2>1 DEF AgreesWithLedger
    <3>2. session[s].room_id \in Room
      BY <3>1, AttachedFields
    <3>3. Holds(ledger', session[s].room_id, reply[s].client_message_id,
                reply[s].seq)
      BY <3>1, <3>2, HoldsForever
    <3> QED
      BY <2>1, <3>1, <3>3 DEF IsAttached
  <2> QED
    BY <1>1, <2>1
<1>2. ASSUME NEW c \in fanout'
      PROVE  Holds(ledger', c.room_id, c.client_message_id, c.seq)
  <2>1. CASE c \in fanout
    BY <2>1, HoldsForever DEF AgreesWithLedger, TypeOK, Chat
  <2> QED
    BY <1>2, <2>1
<1>3. ASSUME NEW f \in told'
      PROVE  Holds(ledger', f.room_id, f.client_message_id, f.seq)
  <2>1. CASE f \in told
    BY <2>1, HoldsForever DEF AgreesWithLedger, TypeOK, Facts
  <2> QED
    BY <1>3, <2>1
<1> QED
  BY <1>1, <1>2, <1>3 DEF AgreesWithLedger, IsAttached

\* A step that answers nothing but an error adds nothing to agree with.
LEMMA AgreesError ==
  ASSUME TypeOK, AgreesWithLedger, [Next]_vars, NEW s \in Stream, NEW code,
         Answer(s, Error(code)), UNCHANGED <<session, fanout, told>>
  PROVE  AgreesWithLedger'
<1>1. \A t \in Stream : reply'[t].type = "publish_ack" =>
        reply'[t] = reply[t] /\ session'[t] = session[t]
  BY DEF Answer, Error, TypeOK
<1> QED
  BY <1>1, AgreesFrame

\* A step that drops a stream leaves only replies and copies that were there.
LEMMA AgreesForget ==
  ASSUME TypeOK, AgreesWithLedger, [Next]_vars, NEW s \in Stream, Forget(s)
  PROVE  AgreesWithLedger'
<1>1. \A t \in Stream : reply'[t].type = "publish_ack" =>
        reply'[t] = reply[t] /\ session'[t] = session[t]
  BY DEF Forget, NoReply, TypeOK
<1> QED
  BY <1>1, AgreesFrame DEF Forget

\* Every step keeps what has been told in agreement with the ledger.
LEMMA NextAgrees ==
  ASSUME TypeOK, AgreesWithLedger, [Next]_vars
  PROVE  AgreesWithLedger'
<1>1. ASSUME NEW s \in Stream, NEW body \in Bodies,
             \/ DecodeRejected(s, body) \/ AttachRefused(s, body)
             \/ AttachRequired(s, body) \/ DuplicateAttach(s, body)
             \/ PublishTooLarge(s, body)
      PROVE  AgreesWithLedger'
  BY <1>1, AgreesError DEF DecodeRejected, AttachRefused, AttachRequired,
     DuplicateAttach, PublishTooLarge
<1>2. ASSUME NEW s \in Stream, NEW body \in Bodies, AttachAccepted(s, body)
      PROVE  AgreesWithLedger'
  <2>1. \A t \in Stream : reply'[t].type = "publish_ack" =>
          reply'[t] = reply[t] /\ session'[t] = session[t]
    BY <1>2 DEF AttachAccepted, Answer, AttachAck, TypeOK
  <2> QED
    BY <1>2, <2>1, AgreesFrame DEF AttachAccepted
<1>3. ASSUME NEW s \in Stream, NEW body \in Bodies, Ignored(s, body)
      PROVE  AgreesWithLedger'
  BY <1>3, AgreesFrame DEF Ignored
<1>4. ASSUME NEW s \in Stream, NEW body \in Bodies, PublishFirst(s, body)
      PROVE  AgreesWithLedger'
  <2> DEFINE r == session[s].room_id
             id == body.client_message_id
             seq == DecisionSeq(ledger[r], id)
  <2>1. r \in Room /\ ledger[r] \in RoomShard
    BY <1>4, AttachedFields DEF PublishFirst, Accepts, Publishes
  <2>2. id \in MsgId
    BY <1>4, PublishDecodes DEF PublishFirst, Accepts, Publishes, Decodes
  <2>3. Holds(ledger', r, id, seq)
    <3>1. ledger'[r] = Insert(ledger[r], id)
      BY <1>4, <2>1 DEF PublishFirst, TypeOK
    <3> QED
      BY <1>4, <2>1, <2>2, <3>1, DecisionSeqOK DEF PublishFirst, Holds
  <2>4. /\ session[s].phase = "Attached" /\ session' = session
        /\ reply' = [reply EXCEPT ![s] = PublishAck(id, seq)]
        /\ fanout' = fanout \cup ObserverChat(s, body, seq)
        /\ told' = told
    BY <1>4 DEF PublishFirst, Accepts, Publishes, IsAttached, Answer
  <2>5. ASSUME NEW t \in Stream, reply'[t].type = "publish_ack"
        PROVE  \/ reply'[t] = reply[t] /\ session'[t] = session[t]
               \/ /\ session'[t].phase = "Attached"
                  /\ Holds(ledger', session'[t].room_id,
                           reply'[t].client_message_id, reply'[t].seq)
    <3>1. CASE t = s
      BY <2>3, <2>4, <3>1 DEF PublishAck, TypeOK
    <3>2. CASE t # s
      BY <2>4, <3>2 DEF TypeOK
    <3> QED
      BY <3>1, <3>2
  <2>6. ASSUME NEW c \in ObserverChat(s, body, seq)
        PROVE  Holds(ledger', c.room_id, c.client_message_id, c.seq)
    <3>1. c.room_id = r /\ c.client_message_id = id /\ c.seq = seq
      BY DEF ObserverChat
    <3> QED
      BY <2>3, <3>1
  <2> QED
    BY <2>4, <2>5, <2>6, AgreesFrame
<1>5. ASSUME NEW s \in Stream, NEW body \in Bodies, PublishReplay(s, body)
      PROVE  AgreesWithLedger'
  <2> DEFINE r == session[s].room_id
             id == body.client_message_id
             seq == DecisionSeq(ledger[r], id)
  <2>1. /\ session[s].phase = "Attached" /\ session' = session
        /\ reply' = [reply EXCEPT ![s] = PublishAck(id, seq)]
        /\ fanout' = fanout /\ told' = told /\ ledger' = ledger
    BY <1>5 DEF PublishReplay, Accepts, Publishes, IsAttached, Answer
  <2>2. Holds(ledger', r, id, seq)
    BY <1>5, <2>1 DEF PublishReplay, Holds, DecisionSeq, IsReplay
  <2>3. ASSUME NEW t \in Stream, reply'[t].type = "publish_ack"
        PROVE  \/ reply'[t] = reply[t] /\ session'[t] = session[t]
               \/ /\ session'[t].phase = "Attached"
                  /\ Holds(ledger', session'[t].room_id,
                           reply'[t].client_message_id, reply'[t].seq)
    <3>1. CASE t = s
      BY <2>1, <2>2, <3>1 DEF PublishAck, TypeOK
    <3>2. CASE t # s
      BY <2>1, <3>2 DEF TypeOK
    <3> QED
      BY <3>1, <3>2
  <2> QED
    BY <2>1, <2>3, AgreesFrame
<1>6. ASSUME NEW s \in Stream, NEW body \in Bodies, PublishPanics(s, body)
      PROVE  AgreesWithLedger'
  BY <1>6, AgreesForget DEF PublishPanics
<1>7. ASSUME NEW s \in Stream, Connect(s)
      PROVE  AgreesWithLedger'
  <2>1. ~IsAttached(s)
    BY <1>7 DEF Connect, IsAttached, Closed
  <2>2. \A t \in Stream : reply'[t].type = "publish_ack" =>
          reply'[t] = reply[t] /\ session'[t] = session[t]
    BY <1>7, <2>1 DEF Connect, TypeOK, AgreesWithLedger
  <2> QED
    BY <1>7, <2>2, AgreesFrame DEF Connect
<1>8. ASSUME NEW s \in Stream, StreamEnds(s)
      PROVE  AgreesWithLedger'
  BY <1>8, AgreesForget DEF StreamEnds
<1>9. ASSUME NEW s \in Stream, WriteReply(s)
      PROVE  AgreesWithLedger'
  <2>1. \A t \in Stream : reply'[t].type = "publish_ack" =>
          reply'[t] = reply[t] /\ session'[t] = session[t]
    BY <1>9 DEF WriteReply, NoReply, TypeOK
  <2>2. ASSUME NEW f \in told', f \notin told
        PROVE  Holds(ledger', f.room_id, f.client_message_id, f.seq)
    BY <1>9, <2>2 DEF WriteReply, Fact, AgreesWithLedger
  <2> QED
    BY <1>9, <2>1, <2>2, AgreesFrame DEF WriteReply
<1>10. ASSUME NEW c \in fanout, WriteChat(c)
       PROVE  AgreesWithLedger'
  <2>1. ASSUME NEW f \in told', f \notin told
        PROVE  Holds(ledger', f.room_id, f.client_message_id, f.seq)
    BY <1>10, <2>1 DEF WriteChat, Fact, AgreesWithLedger
  <2> QED
    BY <1>10, <2>1, AgreesFrame DEF WriteChat
<1>11. ASSUME NEW c \in fanout, ChatUnencodable(c)
       PROVE  AgreesWithLedger'
  BY <1>11, AgreesFrame DEF ChatUnencodable
<1>12. CASE Tick
  BY <1>12, AgreesFrame DEF Tick
<1>13. CASE UNCHANGED vars
  BY <1>13, AgreesFrame DEF vars
<1> QED
  BY <1>1, <1>2, <1>3, <1>4, <1>5, <1>6, <1>7, <1>8, <1>9, <1>10, <1>11,
     <1>12, <1>13 DEF Next, handle_client_message

---------------------------------------------------------------------------
(* The theorems.                                                           *)

\* The inductive invariant holds initially.
LEMMA InitHubInv == Init => HubInv
<1> SUFFICES ASSUME Init PROVE HubInv
  OBVIOUS
<1>1. /\ session \in [Stream -> Sessions]
      /\ reply \in [Stream -> Replies]
  BY DEF Init, Sessions, Replies
<1>2. ledger \in [Room -> RoomShard] /\ LedgerDense
  BY EmptyShardOK DEF Init, LedgerDense
<1>3. /\ chats \in [Stream -> Seq(Line)]
      /\ now \in 0..MaxTime
      /\ since \in [Stream -> 0..U64_MAX]
      /\ own \in [Stream -> SUBSET MsgId]
      /\ fanout \subseteq Chat /\ told \subseteq Facts
      /\ detached \in [Stream -> BOOLEAN]
  BY HubAssumption, U64MaxAssumption DEF Init
<1>4. AgreesWithLedger
  BY DEF Init, AgreesWithLedger, NoReply
<1> QED
  BY <1>1, <1>2, <1>3, <1>4 DEF HubInv, TypeOK

\* The inductive invariant: types, dense numbering, and the agreement of all
\* that was told with the ledger, hold together in every reachable state.
THEOREM HubInvariant == Spec => []HubInv
<1>1. HubInv /\ [Next]_vars => HubInv'
  BY NextTypeOK, NextDense, NextAgrees DEF HubInv
<1> QED
  BY InitHubInv, <1>1, PTL DEF Spec

\* Type correctness of the hub.
THEOREM TypeCorrect == Spec => []TypeOK
<1>1. HubInv => TypeOK
  BY DEF HubInv
<1> QED
  BY HubInvariant, <1>1, PTL

\* O1: in every room the accepted ids are numbered 0, 1, 2, ..., without a
\* gap or a repetition, whatever streams do and whenever they end.
THEOREM DenseNumbering == Spec => []LedgerDense
<1>1. HubInv => LedgerDense
  BY DEF HubInv
<1> QED
  BY HubInvariant, <1>1, PTL

\* R3 and D2: acks, replays and chat_messages on any streams, at any time,
\* agree on the seq of a line and on the line of a seq.
THEOREM Agreement == Spec => []SeqAgreement
<1>1. ASSUME HubInv PROVE SeqAgreement
  <2> SUFFICES ASSUME NEW f \in told, NEW g \in told, f.room_id = g.room_id
               PROVE  f.client_message_id = g.client_message_id <=> f.seq = g.seq
    BY DEF SeqAgreement
  <2>1. /\ Holds(ledger, f.room_id, f.client_message_id, f.seq)
        /\ Holds(ledger, f.room_id, g.client_message_id, g.seq)
        /\ Dense(ledger[f.room_id])
    BY <1>1 DEF HubInv, AgreesWithLedger, LedgerDense, TypeOK, Facts
  <2> QED
    BY <2>1 DEF Holds, Dense
<1> QED
  BY HubInvariant, <1>1, PTL

\* What a room accepted it keeps, under the number it was given.
THEOREM AcceptedForever == Spec => AcceptedStays
<1>1. ASSUME HubInv, [Next]_vars, NEW r \in Room
      PROVE  /\ ledger'[r].next_seq >= ledger[r].next_seq
             /\ \A id \in Accepted(ledger[r]) :
                  /\ id \in Accepted(ledger'[r])
                  /\ ledger'[r].by_client_id[id] = ledger[r].by_client_id[id]
  <2>1. TypeOK /\ ledger[r] \in RoomShard
    BY <1>1 DEF HubInv, TypeOK
  <2>2. ASSUME NEW id \in Accepted(ledger[r])
        PROVE  /\ id \in Accepted(ledger'[r])
               /\ ledger'[r].by_client_id[id] = ledger[r].by_client_id[id]
    <3>1. Holds(ledger, r, id, ledger[r].by_client_id[id])
      BY DEF Holds
    <3>2. Holds(ledger', r, id, ledger[r].by_client_id[id])
      BY <1>1, <2>1, <3>1, HoldsForever
    <3> QED
      BY <3>2 DEF Holds
  <2>3. ledger[r].next_seq \in Nat
    BY <2>1, ShardFields, U64MaxAssumption
  <2>4. ledger'[r].next_seq >= ledger[r].next_seq
    <3>1. CASE ledger' = ledger
      BY <2>3, <3>1
    <3>2. CASE ledger' # ledger
      <4>1. PICK s \in Stream, body \in Bodies :
              LET q == session[s].room_id
                  new == body.client_message_id
              IN  /\ q \in Room
                  /\ ledger' = [ledger EXCEPT ![q] = Insert(ledger[q], new)]
        BY <1>1, <2>1, <3>2, LedgerChanges
      <4>2. CASE r = session[s].room_id
        <5>1. ledger'[r] = Insert(ledger[r], body.client_message_id)
          BY <2>1, <4>1, <4>2 DEF TypeOK
        <5> QED
          BY <2>3, <5>1 DEF Insert
      <4>3. CASE r # session[s].room_id
        BY <2>1, <2>3, <4>1, <4>3 DEF TypeOK
      <4> QED
        BY <4>2, <4>3
    <3> QED
      BY <3>1, <3>2
  <2> QED
    BY <2>2, <2>4
<1>2. HubInv /\ [Next]_vars =>
        [\A r \in Room :
          /\ ledger'[r].next_seq >= ledger[r].next_seq
          /\ \A id \in Accepted(ledger[r]) :
               /\ id \in Accepted(ledger'[r])
               /\ ledger'[r].by_client_id[id] = ledger[r].by_client_id[id]]_vars
  BY <1>1
<1> QED
  BY HubInvariant, <1>2, PTL DEF Spec, AcceptedStays
=============================================================================
