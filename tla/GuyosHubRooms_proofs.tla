----------------------- MODULE GuyosHubRooms_proofs ------------------------
(***************************************************************************)
(* More theorems about GuyosHub, for any number of streams, rooms and ids, *)
(* any u64 limit, any policy and any set of bodies: what the streams of a  *)
(* room receive, and that the hub keeps the promise of RoomLog.            *)
(***************************************************************************)
EXTENDS GuyosHub_proofs, SequenceTheorems

---------------------------------------------------------------------------
(* A stream and its room.  The operators of this part speak of the shard   *)
(* of a room and of one stream attached to it: the seq it attached at, the *)
(* ids first accepted from it, the lines written on it and the copies due. *)

\* The copies still to be written on a stream.
Copies(s) == {c \in fanout : c.to = s}

\* The shard has this line.
Has(shard, line) ==
  /\ line.client_message_id \in Accepted(shard)
  /\ shard.by_client_id[line.client_message_id] = line.seq

\* What may be written on a stream: lines of the room, of others, not older
\* than the attach.
Meant(shard, from, mine, line) ==
  /\ Has(shard, line)
  /\ line.client_message_id \notin mine
  /\ line.seq >= from

Inside(shard, from, mine, seen, due) ==
  /\ from <= shard.next_seq
  /\ mine \subseteq Accepted(shard)
  /\ \A i \in DOMAIN seen : Meant(shard, from, mine, seen[i])
  /\ \A c \in due : Meant(shard, from, mine, c)
  /\ \A i, j \in DOMAIN seen :
       i # j => seen[i].client_message_id # seen[j].client_message_id
  /\ \A c \in due, i \in DOMAIN seen :
       c.client_message_id # seen[i].client_message_id
  /\ \A c, d \in due : c.client_message_id = d.client_message_id => c = d

\* Every line the room accepted from others since is written or due.
Complete(shard, from, mine, seen, due) ==
  \A id \in Accepted(shard) :
    shard.by_client_id[id] >= from /\ id \notin mine =>
      \/ \E i \in DOMAIN seen : seen[i].client_message_id = id
      \/ \E c \in due : c.client_message_id = id

\* What is due to a stream is due to it in its room, and nothing is kept for
\* or of a stream that is in none.
StreamInv(s) ==
  IF IsAttached(s)
  THEN /\ Inside(ledger[session[s].room_id], since[s], own[s], chats[s], Copies(s))
       /\ \A c \in Copies(s) : c.room_id = session[s].room_id
  ELSE chats[s] = <<>> /\ own[s] = {} /\ since[s] = 0 /\ Copies(s) = {}

RoomsInv == \A s \in Stream : StreamInv(s)

\* An attached stream has the limits of the policy, and what is due to it is
\* within them.
LimitsInv ==
  \A s \in Stream :
    /\ IsAttached(s) =>
         /\ session[s].max_frame_bytes = Policy.max_frame_bytes
         /\ session[s].max_message_bytes = Policy.max_message_bytes
    /\ \A c \in Copies(s) : TextFits(c.text, Policy.max_message_bytes)

CompleteInv ==
  \A s \in Stream : IsAttached(s) =>
    Complete(ledger[session[s].room_id], since[s], own[s], chats[s], Copies(s))

\* A stream that joins a room is due what comes from then on.
LEMMA InsideJoin ==
  ASSUME NEW shard \in RoomShard, Dense(shard)
  PROVE  /\ Inside(shard, shard.next_seq, {}, <<>>, {})
         /\ Complete(shard, shard.next_seq, {}, <<>>, {})
<1>1. /\ shard.next_seq \in Nat
      /\ \A id \in Accepted(shard) :
           shard.by_client_id[id] \in Nat /\ shard.by_client_id[id] < shard.next_seq
  BY ShardFields, U64MaxAssumption DEF Dense
<1> QED
  BY <1>1 DEF Inside, Complete

\* What was meant for a stream is meant for it after a first acceptance, and
\* the new line is another.
LEMMA MeantStill ==
  ASSUME NEW shard \in RoomShard, NEW id \in MsgId, IsFirstAcceptance(shard, id),
         NEW from, NEW mine, NEW line, Meant(shard, from, mine, line)
  PROVE  /\ line.client_message_id # id
         /\ Meant(Insert(shard, id), from, mine, line)
         /\ Meant(Insert(shard, id), from, mine \cup {id}, line)
<1>1. line.client_message_id # id
  BY DEF Meant, Has, IsFirstAcceptance, IsReplay
<1>2. Has(Insert(shard, id), line)
  BY InsertKeeps DEF Meant, Has
<1> QED
  BY <1>1, <1>2 DEF Meant

\* A first acceptance, seen by its publisher and by an observer.
LEMMA InsideInsert ==
  ASSUME NEW shard \in RoomShard, NEW id \in MsgId, IsFirstAcceptance(shard, id),
         NEW from \in Nat, NEW mine, NEW seen, NEW due,
         Inside(shard, from, mine, seen, due)
  PROVE  /\ Inside(Insert(shard, id), from, mine \cup {id}, seen, due)
         /\ \A c : c.client_message_id = id /\ c.seq = DecisionSeq(shard, id) =>
              Inside(Insert(shard, id), from, mine, seen, due \cup {c})
<1> DEFINE new == Insert(shard, id)
<1>1. /\ Accepted(new) = Accepted(shard) \cup {id} /\ id \notin Accepted(shard)
      /\ shard.next_seq \in Nat /\ new.next_seq = shard.next_seq + 1
      /\ new.by_client_id[id] = shard.next_seq
      /\ DecisionSeq(shard, id) = shard.next_seq
  BY InsertOK, ShardFields, U64MaxAssumption
     DEF Insert, IsFirstAcceptance, IsReplay, DecisionSeq
<1>2. \A line : Meant(shard, from, mine, line) =>
        /\ line.client_message_id # id
        /\ Meant(new, from, mine, line)
        /\ Meant(new, from, mine \cup {id}, line)
  BY MeantStill
<1> HIDE DEF new
<1>3. Inside(new, from, mine \cup {id}, seen, due)
  <2>1. from <= new.next_seq /\ mine \cup {id} \subseteq Accepted(new)
    BY <1>1 DEF Inside
  <2>2. /\ \A i \in DOMAIN seen : Meant(new, from, mine \cup {id}, seen[i])
        /\ \A c \in due : Meant(new, from, mine \cup {id}, c)
    BY <1>2 DEF Inside
  <2> QED
    BY <2>1, <2>2 DEF Inside
<1>4. ASSUME NEW c, c.client_message_id = id, c.seq = DecisionSeq(shard, id)
      PROVE  Inside(new, from, mine, seen, due \cup {c})
  <2>1. Meant(new, from, mine, c)
    BY <1>1, <1>4 DEF Inside, Meant, Has
  <2>2. /\ \A i \in DOMAIN seen : seen[i].client_message_id # id
        /\ \A d \in due : d.client_message_id # id
    BY <1>2 DEF Inside
  <2> QED
    BY <1>1, <1>2, <1>4, <2>1, <2>2 DEF Inside
<1> QED
  BY <1>3, <1>4 DEF new

\* ... and nothing is missed: the publisher's line is its own, the observer's
\* is due.
LEMMA CompleteInsert ==
  ASSUME NEW shard \in RoomShard, NEW id \in MsgId, IsFirstAcceptance(shard, id),
         NEW from, NEW mine, NEW seen, NEW due, Complete(shard, from, mine, seen, due)
  PROVE  /\ Complete(Insert(shard, id), from, mine \cup {id}, seen, due)
         /\ \A c : c.client_message_id = id =>
              Complete(Insert(shard, id), from, mine, seen, due \cup {c})
<1>1. /\ Accepted(Insert(shard, id)) = Accepted(shard) \cup {id}
      /\ \A i \in Accepted(shard) :
           Insert(shard, id).by_client_id[i] = shard.by_client_id[i]
  BY InsertOK, InsertKeeps
<1> QED
  BY <1>1 DEF Complete

\* A copy that is written is no longer due.
LEMMA InsideWrite ==
  ASSUME NEW shard, NEW from, NEW mine, NEW seen \in Seq(Line), NEW due, NEW c \in due,
         c.seq \in 0..U64_MAX, c.client_message_id \in MsgId,
         Inside(shard, from, mine, seen, due),
         NEW line, line = [seq |-> c.seq, client_message_id |-> c.client_message_id]
  PROVE  /\ Inside(shard, from, mine, Append(seen, line), due \ {c})
         /\ Complete(shard, from, mine, seen, due) =>
              Complete(shard, from, mine, Append(seen, line), due \ {c})
<1> DEFINE more == Append(seen, line)
           n == Len(seen) + 1
<1>1. line \in Line
  BY DEF Line
<1>2. /\ DOMAIN more = DOMAIN seen \cup {n} /\ n \notin DOMAIN seen
      /\ more[n] = line /\ \A i \in DOMAIN seen : more[i] = seen[i]
  BY <1>1
<1>3. line.client_message_id = c.client_message_id /\ line.seq = c.seq
  OBVIOUS
<1> HIDE DEF more, n
<1>4. /\ \A i \in DOMAIN more : Meant(shard, from, mine, more[i])
      /\ \A d \in due \ {c} : Meant(shard, from, mine, d)
  BY <1>2, <1>3 DEF Inside, Meant, Has
<1>5. \A i, j \in DOMAIN more :
        i # j => more[i].client_message_id # more[j].client_message_id
  BY <1>2, <1>3 DEF Inside
<1>6. \A d \in due \ {c}, i \in DOMAIN more :
        d.client_message_id # more[i].client_message_id
  BY <1>2, <1>3 DEF Inside
<1>7. Inside(shard, from, mine, more, due \ {c})
  BY <1>4, <1>5, <1>6 DEF Inside
<1>8. ASSUME Complete(shard, from, mine, seen, due)
      PROVE  Complete(shard, from, mine, more, due \ {c})
  <2> SUFFICES ASSUME NEW id \in Accepted(shard),
                      shard.by_client_id[id] >= from, id \notin mine
               PROVE  \/ \E i \in DOMAIN more : more[i].client_message_id = id
                      \/ \E d \in due \ {c} : d.client_message_id = id
    BY DEF Complete
  <2>1. CASE \E i \in DOMAIN seen : seen[i].client_message_id = id
    BY <1>2, <2>1
  <2>2. CASE \E d \in due : d.client_message_id = id
    BY <1>2, <1>3, <2>2
  <2> QED
    BY <1>8, <2>1, <2>2 DEF Complete
<1> QED
  BY <1>7, <1>8 DEF more

---------------------------------------------------------------------------
(* The steps.                                                              *)

\* The facts about a stream in a room that every step starts from.
LEMMA InRoomFacts ==
  ASSUME HubInv, NEW s \in Stream, IsAttached(s)
  PROVE  /\ session[s].room_id \in Room
         /\ ledger[session[s].room_id] \in RoomShard
         /\ Dense(ledger[session[s].room_id])
         /\ since[s] \in Nat /\ chats[s] \in Seq(Line) /\ own[s] \subseteq MsgId
<1>1. TypeOK /\ LedgerDense
  BY DEF HubInv
<1>2. since[s] \in 0..U64_MAX /\ chats[s] \in Seq(Line) /\ own[s] \subseteq MsgId
  BY <1>1 DEF TypeOK
<1> QED
  BY <1>1, <1>2, AttachedFields, U64MaxAssumption DEF LedgerDense

\* Steps that leave a stream alone, but for copies that are given up.
LEMMA StreamStays ==
  ASSUME NEW t, StreamInv(t), IsAttached(t)' <=> IsAttached(t),
         IsAttached(t) =>
           /\ session'[t] = session[t]
           /\ ledger'[session[t].room_id] = ledger[session[t].room_id],
         since'[t] = since[t], own'[t] = own[t], chats'[t] = chats[t],
         fanout' \subseteq fanout
  PROVE  StreamInv(t)'
<1>1. Copies(t)' \subseteq Copies(t)
  BY DEF Copies
<1>2. CASE IsAttached(t)
  <2>1. Inside(ledger[session[t].room_id], since[t], own[t], chats[t], Copies(t)')
    BY <1>1, <1>2 DEF StreamInv, Inside
  <2> QED
    BY <1>1, <1>2, <2>1 DEF StreamInv
<1>3. CASE ~IsAttached(t)
  BY <1>1, <1>3 DEF StreamInv
<1> QED
  BY <1>2, <1>3

\* Steps that leave the rooms alone, but for copies that are given up.
LEMMA RoomsStay ==
  ASSUME RoomsInv, UNCHANGED <<ledger, since, own, chats>>, fanout' \subseteq fanout,
         \A t \in Stream : \/ session'[t] = session[t]
                           \/ ~IsAttached(t) /\ ~IsAttached(t)'
  PROVE  RoomsInv'
<1> SUFFICES ASSUME NEW t \in Stream PROVE StreamInv(t)'
  BY DEF RoomsInv
<1>1. StreamInv(t)
  BY DEF RoomsInv
<1>2. /\ IsAttached(t)' <=> IsAttached(t)
      /\ IsAttached(t) => session'[t] = session[t]
  BY DEF IsAttached
<1> QED
  BY <1>1, <1>2, StreamStays

\* The steps that do.
Quiet ==
  \/ \E s \in Stream, body \in Bodies :
       \/ DecodeRejected(s, body) \/ AttachRefused(s, body)
       \/ AttachRequired(s, body) \/ DuplicateAttach(s, body)
       \/ Ignored(s, body) \/ PublishTooLarge(s, body) \/ PublishReplay(s, body)
  \/ \E s \in Stream : Connect(s) \/ WriteReply(s)
  \/ \E c \in fanout : ChatUnencodable(c)
  \/ Tick
  \/ UNCHANGED vars

\* A quiet step accepts nothing and writes no line: it may drop copies, and
\* it attaches and detaches no stream.
LEMMA QuietSteps ==
  ASSUME TypeOK, Quiet
  PROVE  /\ UNCHANGED <<ledger, since, own, chats>> /\ fanout' \subseteq fanout
         /\ \A t \in Stream : \/ session'[t] = session[t]
                              \/ ~IsAttached(t) /\ ~IsAttached(t)'
<1>1. ASSUME NEW s \in Stream, Connect(s)
      PROVE  \A t \in Stream : \/ session'[t] = session[t]
                               \/ ~IsAttached(t) /\ ~IsAttached(t)'
  BY <1>1 DEF Connect, TypeOK, IsAttached, Closed, AwaitingAttach
<1>2. ASSUME NEW s \in Stream, Connect(s)
      PROVE  UNCHANGED <<ledger, since, own, chats, fanout>>
  BY <1>2 DEF Connect
<1> QED
  BY <1>1, <1>2 DEF Quiet, DecodeRejected, AttachRefused, AttachRequired,
     DuplicateAttach, Ignored, PublishTooLarge, PublishReplay, WriteReply,
     ChatUnencodable, Tick, vars

\* Every step is quiet, ends a stream, attaches one, accepts or writes a line.
LEMMA NextKinds ==
  ASSUME [Next]_vars
  PROVE  \/ Quiet
         \/ \E s \in Stream : Forget(s)
         \/ \E s \in Stream, body \in Bodies :
              AttachAccepted(s, body) \/ PublishFirst(s, body)
         \/ \E c \in fanout : WriteChat(c)
  BY DEF Next, handle_client_message, Quiet, StreamEnds, PublishPanics

\* A stream that is dropped leaves nothing due to it.
LEMMA RoomsForget ==
  ASSUME TypeOK, RoomsInv, NEW s \in Stream, Forget(s)
  PROVE  RoomsInv'
<1> SUFFICES ASSUME NEW t \in Stream PROVE StreamInv(t)'
  BY DEF RoomsInv
<1>1. StreamInv(t)
  BY DEF RoomsInv
<1>2. CASE t = s
  BY <1>2 DEF Forget, TypeOK, StreamInv, IsAttached, Closed, Copies
<1>3. CASE t # s
  <2>1. /\ session'[t] = session[t] /\ since'[t] = since[t]
        /\ own'[t] = own[t] /\ chats'[t] = chats[t]
        /\ ledger' = ledger /\ fanout' \subseteq fanout
    BY <1>3 DEF Forget, TypeOK
  <2> QED
    BY <1>1, <2>1, StreamStays DEF IsAttached
<1> QED
  BY <1>2, <1>3

\* What an accepted attach does to the stream, and to no other.
LEMMA AttachEffect ==
  ASSUME HubInv, RoomsInv, NEW s \in Stream, NEW body \in Bodies,
         AttachAccepted(s, body)
  PROVE  LET r == body.ticket.body.room_id
         IN  /\ r \in Room /\ ledger[r] \in RoomShard /\ Dense(ledger[r])
             /\ ~IsAttached(s) /\ session[s] = AwaitingAttach
             /\ session' = [session EXCEPT ![s] =
                  Attached(r, Policy.max_frame_bytes, Policy.max_message_bytes)]
             /\ IsAttached(s)' /\ session'[s].room_id = r
             /\ since' = [since EXCEPT ![s] = ledger[r].next_seq]
             /\ since'[s] = ledger[r].next_seq
             /\ chats[s] = <<>> /\ own[s] = {} /\ Copies(s) = {}
             /\ UNCHANGED <<ledger, fanout, chats, own>>
             /\ \A t \in Stream : t # s =>
                  session'[t] = session[t] /\ since'[t] = since[t]
<1> DEFINE r == body.ticket.body.room_id
<1>1. body \in Body
  BY HubAssumption
<1>2. r \in Room
  BY <1>1 DEF Body, Ticket, TicketBody
<1>3. /\ TypeOK /\ ledger[r] \in RoomShard /\ Dense(ledger[r])
      /\ session \in [Stream -> Sessions] /\ since \in [Stream -> 0..U64_MAX]
  BY <1>2 DEF HubInv, TypeOK, LedgerDense
<1>4. ~IsAttached(s) /\ session[s] = AwaitingAttach
  BY DEF AttachAccepted, IsAttached, AwaitingAttach
<1>5. chats[s] = <<>> /\ own[s] = {} /\ Copies(s) = {}
  BY <1>4 DEF RoomsInv, StreamInv
<1>6. /\ session' = [session EXCEPT ![s] =
           Attached(r, Policy.max_frame_bytes, Policy.max_message_bytes)]
      /\ since' = [since EXCEPT ![s] = ledger[r].next_seq]
      /\ UNCHANGED <<ledger, fanout, chats, own>>
  BY DEF AttachAccepted, AttachAck
<1> HIDE DEF r
<1>7. IsAttached(s)' /\ session'[s].room_id = r /\ since'[s] = ledger[r].next_seq
  BY <1>3, <1>6 DEF IsAttached, Attached
<1>8. \A t \in Stream : t # s =>
        session'[t] = session[t] /\ since'[t] = since[t]
  BY <1>3, <1>6
<1> QED
  BY <1>2, <1>3, <1>4, <1>5, <1>6, <1>7, <1>8 DEF r

\* A stream that attaches begins with nothing written and nothing due.
LEMMA RoomsAttach ==
  ASSUME HubInv, RoomsInv, NEW s \in Stream, NEW body \in Bodies,
         AttachAccepted(s, body)
  PROVE  RoomsInv'
<1> DEFINE r == body.ticket.body.room_id
<1>1. /\ r \in Room /\ ledger[r] \in RoomShard /\ Dense(ledger[r])
      /\ IsAttached(s)' /\ session'[s].room_id = r
      /\ since'[s] = ledger[r].next_seq
      /\ chats[s] = <<>> /\ own[s] = {} /\ Copies(s) = {}
      /\ UNCHANGED <<ledger, fanout, chats, own>>
      /\ \A t \in Stream : t # s =>
           session'[t] = session[t] /\ since'[t] = since[t]
  BY AttachEffect
<1> HIDE DEF r
<1> SUFFICES ASSUME NEW t \in Stream PROVE StreamInv(t)'
  BY DEF RoomsInv
<1>2. CASE t = s
  <2>1. Inside(ledger[r], ledger[r].next_seq, {}, <<>>, {})
    BY <1>1, InsideJoin
  <2>2. Copies(s)' = {}
    BY <1>1 DEF Copies
  <2> QED
    BY <1>1, <1>2, <2>1, <2>2 DEF StreamInv
<1>3. CASE t # s
  <2>1. StreamInv(t)
    BY DEF RoomsInv
  <2> QED
    BY <1>1, <1>3, <2>1, StreamStays DEF IsAttached
<1> QED
  BY <1>2, <1>3

\* What a first acceptance does: the shard gains the id, the publisher owns
\* it, every other stream of the room is due one copy, and no other stream.
LEMMA PublishEffect ==
  ASSUME HubInv, NEW s \in Stream, NEW body \in Bodies, PublishFirst(s, body)
  PROVE  LET r == session[s].room_id
             id == body.client_message_id
             seq == DecisionSeq(ledger[r], id)
         IN  /\ r \in Room /\ id \in MsgId /\ IsAttached(s) /\ seq \in 0..U64_MAX
             /\ ledger[r] \in RoomShard /\ Dense(ledger[r])
             /\ IsFirstAcceptance(ledger[r], id)
             /\ ledger' = [ledger EXCEPT ![r] = Insert(ledger[r], id)]
             /\ ledger'[r] = Insert(ledger[r], id)
             /\ \A q \in Room : q # r => ledger'[q] = ledger[q]
             /\ own' = [own EXCEPT ![s] = @ \cup {id}]
             /\ own'[s] = own[s] \cup {id}
             /\ \A t \in Stream : t # s => own'[t] = own[t]
             /\ UNCHANGED <<session, chats, since>>
             /\ Copies(s)' = Copies(s)
             /\ \A t \in Stream : IsAttached(t) /\ session[t].room_id # r =>
                  Copies(t)' = Copies(t)
             /\ \A t \in Stream : ~IsAttached(t) => Copies(t)' = Copies(t)
             /\ \A t \in Stream : t # s /\ InRoom(t, r) =>
                  \E c : /\ Copies(t)' = Copies(t) \cup {c}
                         /\ c.to = t /\ c.room_id = r /\ c.text = body.text
                         /\ c.client_message_id = id /\ c.seq = seq
<1> DEFINE r == session[s].room_id
           id == body.client_message_id
           seq == DecisionSeq(ledger[r], id)
<1>1. IsAttached(s) /\ TypeOK
  BY DEF PublishFirst, Accepts, Publishes, HubInv
<1>2. r \in Room /\ ledger[r] \in RoomShard /\ Dense(ledger[r])
  BY <1>1, InRoomFacts
<1>3. id \in MsgId
  BY PublishDecodes DEF PublishFirst, Accepts, Publishes, Decodes
<1>4. /\ IsFirstAcceptance(ledger[r], id)
      /\ ledger' = [ledger EXCEPT ![r] = Insert(ledger[r], id)]
      /\ own' = [own EXCEPT ![s] = @ \cup {id}]
      /\ UNCHANGED <<session, chats, since>>
      /\ fanout' = fanout \cup ObserverChat(s, body, seq)
  BY DEF PublishFirst
<1>5. seq \in 0..U64_MAX
  BY <1>2, <1>3, <1>4, DecisionSeqOK
<1>6. /\ ledger'[r] = Insert(ledger[r], id)
      /\ \A q \in Room : q # r => ledger'[q] = ledger[q]
      /\ own'[s] = own[s] \cup {id}
      /\ \A t \in Stream : t # s => own'[t] = own[t]
  BY <1>1, <1>2, <1>4 DEF TypeOK
<1> HIDE DEF id, seq
<1>7. \A c \in ObserverChat(s, body, seq) : c.to \in Observers(s)
  BY DEF ObserverChat
<1>8. \A t \in Stream : t \notin Observers(s) => Copies(t)' = Copies(t)
  BY <1>4, <1>7 DEF Copies
<1>9. \A t \in Observers(s) : t # s /\ InRoom(t, r)
  BY DEF Observers
<1>10. /\ Copies(s)' = Copies(s)
       /\ \A t \in Stream : IsAttached(t) /\ session[t].room_id # r =>
            Copies(t)' = Copies(t)
       /\ \A t \in Stream : ~IsAttached(t) => Copies(t)' = Copies(t)
  BY <1>8, <1>9 DEF InRoom
<1>11. ASSUME NEW t \in Stream, t # s, InRoom(t, r)
       PROVE  \E c : /\ Copies(t)' = Copies(t) \cup {c}
                     /\ c.to = t /\ c.room_id = r /\ c.text = body.text
                     /\ c.client_message_id = id /\ c.seq = seq
  <2> DEFINE c == [to |-> t, room_id |-> r, seq |-> seq,
                   client_message_id |-> id, text |-> body.text]
  <2>1. t \in Observers(s)
    BY <1>11 DEF Observers
  <2>2. c \in ObserverChat(s, body, seq)
    BY <2>1 DEF ObserverChat, id
  <2>3. \A d \in ObserverChat(s, body, seq) : d.to = t => d = c
    BY DEF ObserverChat, id
  <2>4. Copies(t)' = Copies(t) \cup {c}
    <3>1. c.to = t
      OBVIOUS
    <3> HIDE DEF c
    <3> QED
      BY <1>4, <2>2, <2>3, <3>1 DEF Copies
  <2>5. /\ c.to = t /\ c.room_id = r /\ c.text = body.text
        /\ c.client_message_id = id /\ c.seq = seq
    OBVIOUS
  <2> HIDE DEF c
  <2> QED
    BY <2>4, <2>5
<1> QED
  BY <1>1, <1>2, <1>3, <1>4, <1>5, <1>6, <1>10, <1>11 DEF id, seq

\* A first acceptance makes one copy due to each other stream of the room
\* and none to the publisher (publish in guyos_wire_v1.rs).
LEMMA RoomsPublish ==
  ASSUME HubInv, RoomsInv, NEW s \in Stream, NEW body \in Bodies,
         PublishFirst(s, body)
  PROVE  RoomsInv'
<1> DEFINE r == session[s].room_id
           id == body.client_message_id
           seq == DecisionSeq(ledger[r], id)
<1>1. /\ r \in Room /\ id \in MsgId /\ IsAttached(s)
      /\ ledger[r] \in RoomShard /\ IsFirstAcceptance(ledger[r], id)
      /\ ledger'[r] = Insert(ledger[r], id)
      /\ \A q \in Room : q # r => ledger'[q] = ledger[q]
      /\ own'[s] = own[s] \cup {id}
      /\ \A t \in Stream : t # s => own'[t] = own[t]
      /\ UNCHANGED <<session, chats, since>>
      /\ Copies(s)' = Copies(s)
      /\ \A t \in Stream : IsAttached(t) /\ session[t].room_id # r =>
           Copies(t)' = Copies(t)
      /\ \A t \in Stream : ~IsAttached(t) => Copies(t)' = Copies(t)
  BY PublishEffect
<1>2. \A t \in Stream : t # s /\ InRoom(t, r) =>
        \E c : /\ Copies(t)' = Copies(t) \cup {c} /\ c.room_id = r
               /\ c.client_message_id = id /\ c.seq = seq
  BY PublishEffect
<1> SUFFICES ASSUME NEW t \in Stream PROVE StreamInv(t)'
  BY DEF RoomsInv
<1>3. StreamInv(t) /\ (IsAttached(t)' <=> IsAttached(t))
  BY <1>1 DEF RoomsInv, IsAttached
<1> HIDE DEF r, id, seq
<1>4. CASE ~IsAttached(t)
  <2>1. t # s
    BY <1>1, <1>4
  <2> QED
    BY <1>1, <1>3, <1>4, <2>1 DEF StreamInv
<1>5. CASE IsAttached(t) /\ session[t].room_id # r
  <2>1. t # s /\ ledger'[session[t].room_id] = ledger[session[t].room_id]
    BY <1>1, <1>5, InRoomFacts DEF r
  <2> QED
    BY <1>1, <1>3, <1>5, <2>1 DEF StreamInv
<1>6. CASE IsAttached(t) /\ session[t].room_id = r
  <2>1. /\ Inside(ledger[r], since[t], own[t], chats[t], Copies(t))
        /\ \A c \in Copies(t) : c.room_id = r
        /\ since[t] \in Nat
    BY <1>3, <1>6, InRoomFacts DEF StreamInv
  <2>2. CASE t = s
    <3>1. Inside(ledger'[r], since[t], own[t] \cup {id}, chats[t], Copies(t))
      BY <1>1, <2>1, InsideInsert
    <3> QED
      BY <1>1, <1>3, <1>6, <2>1, <2>2, <3>1 DEF StreamInv
  <2>3. CASE t # s
    <3>1. PICK c : /\ Copies(t)' = Copies(t) \cup {c} /\ c.room_id = r
                   /\ c.client_message_id = id /\ c.seq = seq
      BY <1>2, <1>6, <2>3 DEF InRoom
    <3>2. \A d : d.client_message_id = id /\ d.seq = DecisionSeq(ledger[r], id) =>
            Inside(Insert(ledger[r], id), since[t], own[t], chats[t],
                   Copies(t) \cup {d})
      BY <1>1, <2>1, InsideInsert
    <3>3. Inside(ledger'[r], since[t], own[t], chats[t], Copies(t) \cup {c})
      BY <1>1, <3>1, <3>2 DEF seq
    <3> QED
      BY <1>1, <1>3, <1>6, <2>1, <2>3, <3>1, <3>3 DEF StreamInv
  <2> QED
    BY <2>2, <2>3
<1> QED
  BY <1>4, <1>5, <1>6

\* What writing a copy does.
LEMMA WriteEffect ==
  ASSUME HubInv, RoomsInv, NEW c \in fanout, WriteChat(c)
  PROVE  LET s == c.to
             line == [seq |-> c.seq, client_message_id |-> c.client_message_id]
         IN  /\ s \in Stream /\ IsAttached(s) /\ c \in Copies(s)
             /\ c.room_id = session[s].room_id
             /\ c.seq \in 0..U64_MAX /\ c.client_message_id \in MsgId
             /\ Inside(ledger[session[s].room_id], since[s], own[s], chats[s],
                       Copies(s))
             /\ chats' = [chats EXCEPT ![s] = Append(chats[s], line)]
             /\ chats'[s] = Append(chats[s], line)
             /\ \A t \in Stream : t # s =>
                  chats'[t] = chats[t] /\ Copies(t)' = Copies(t)
             /\ Copies(s)' = Copies(s) \ {c}
             /\ UNCHANGED <<session, ledger, since, own>>
<1> DEFINE s == c.to
           line == [seq |-> c.seq, client_message_id |-> c.client_message_id]
<1>1. TypeOK
  BY DEF HubInv
<1>2. /\ s \in Stream /\ c \in Copies(s)
      /\ c.seq \in 0..U64_MAX /\ c.client_message_id \in MsgId
  BY <1>1 DEF TypeOK, Chat, Copies
<1>3. StreamInv(s)
  BY <1>2 DEF RoomsInv
<1>4. /\ IsAttached(s) /\ c.room_id = session[s].room_id
      /\ Inside(ledger[session[s].room_id], since[s], own[s], chats[s], Copies(s))
  BY <1>2, <1>3 DEF StreamInv
<1>5. /\ chats' = [chats EXCEPT ![s] = Append(chats[s], line)]
      /\ fanout' = fanout \ {c}
      /\ UNCHANGED <<session, ledger, since, own>>
  BY DEF WriteChat
<1> HIDE DEF line
<1>6. /\ chats'[s] = Append(chats[s], line)
      /\ \A t \in Stream : t # s =>
           chats'[t] = chats[t] /\ Copies(t)' = Copies(t)
      /\ Copies(s)' = Copies(s) \ {c}
  BY <1>1, <1>2, <1>5 DEF TypeOK, Copies
<1> QED
  BY <1>2, <1>4, <1>5, <1>6 DEF line

\* A copy that is written was due, and is due no longer.
LEMMA RoomsWrite ==
  ASSUME HubInv, RoomsInv, NEW c \in fanout, WriteChat(c)
  PROVE  RoomsInv'
<1> DEFINE s == c.to
           line == [seq |-> c.seq, client_message_id |-> c.client_message_id]
<1>1. /\ s \in Stream /\ IsAttached(s) /\ c \in Copies(s)
      /\ c.seq \in 0..U64_MAX /\ c.client_message_id \in MsgId
      /\ Inside(ledger[session[s].room_id], since[s], own[s], chats[s], Copies(s))
      /\ chats'[s] = Append(chats[s], line)
      /\ \A t \in Stream : t # s =>
           chats'[t] = chats[t] /\ Copies(t)' = Copies(t)
      /\ Copies(s)' = Copies(s) \ {c}
      /\ UNCHANGED <<session, ledger, since, own>>
  BY WriteEffect
<1>2. chats[s] \in Seq(Line)
  BY <1>1, InRoomFacts
<1>3. Inside(ledger[session[s].room_id], since[s], own[s], Append(chats[s], line),
             Copies(s) \ {c})
  BY <1>1, <1>2, InsideWrite
<1> HIDE DEF s, line
<1> SUFFICES ASSUME NEW t \in Stream PROVE StreamInv(t)'
  BY DEF RoomsInv
<1>4. StreamInv(t) /\ (IsAttached(t)' <=> IsAttached(t))
  BY <1>1 DEF RoomsInv, IsAttached
<1>5. CASE t = s
  BY <1>1, <1>3, <1>4, <1>5 DEF StreamInv
<1>6. CASE t # s
  BY <1>1, <1>4, <1>6 DEF StreamInv
<1> QED
  BY <1>5, <1>6

\* Every step keeps what is due to the streams of a room in order.
LEMMA NextRooms ==
  ASSUME HubInv, RoomsInv, [Next]_vars
  PROVE  RoomsInv'
<1>1. TypeOK
  BY DEF HubInv
<1>2. CASE Quiet
  BY <1>1, <1>2, QuietSteps, RoomsStay
<1> QED
  BY <1>1, <1>2, NextKinds, RoomsForget, RoomsAttach, RoomsPublish, RoomsWrite

\* The rooms are in order in every state of every behaviour.
THEOREM RoomsInvariant == Spec => [](HubInv /\ RoomsInv)
<1>1. Init => RoomsInv
  <2> SUFFICES ASSUME Init, NEW s \in Stream PROVE StreamInv(s)
    BY DEF RoomsInv
  <2>1. ~IsAttached(s)
    BY DEF Init, IsAttached, Closed
  <2> QED
    BY <2>1 DEF Init, StreamInv, Copies
<1>2. HubInv /\ RoomsInv /\ [Next]_vars => RoomsInv'
  BY NextRooms
<1> QED
  BY <1>1, <1>2, HubInvariant, PTL DEF Spec

\* OneCopyPerObserver: whatever is retried, however the writes and the
\* acceptances of several streams interleave, a stream is sent each line once,
\* none of its own and none older than its attach.
THEOREM OneCopyEach == Spec => []OneCopyPerObserver
<1>1. ASSUME HubInv, RoomsInv
      PROVE  OneCopyPerObserver
  <2> SUFFICES ASSUME NEW s \in Stream
               PROVE  /\ \A i, j \in DOMAIN chats[s] : i # j =>
                           chats[s][i].client_message_id
                             # chats[s][j].client_message_id
                      /\ \A i \in DOMAIN chats[s] :
                           /\ chats[s][i].client_message_id \notin own[s]
                           /\ chats[s][i].seq >= since[s]
    BY DEF OneCopyPerObserver
  <2>1. StreamInv(s)
    BY <1>1 DEF RoomsInv
  <2>2. CASE IsAttached(s)
    BY <2>1, <2>2 DEF StreamInv, Inside, Meant
  <2>3. CASE ~IsAttached(s)
    BY <2>1, <2>3 DEF StreamInv
  <2> QED
    BY <2>2, <2>3
<1> QED
  BY <1>1, RoomsInvariant, PTL

---------------------------------------------------------------------------
(* No line is lost, where every line that is accepted has a frame.         *)

\* The frame limit has room for the longest chat_message of a line within the
\* message limit: its JSON, the 20 digits of a u64, six characters for a byte.
RoomyPolicy ==
  /\ U64_MAX < 10^20
  /\ CHAT_ENVELOPE + 20 + 6 * Policy.max_message_bytes <= Policy.max_frame_bytes

\* With such a policy every copy of a line that was accepted can be written.
LEMMA RoomyFits ==
  ASSUME RoomyPolicy, TypeOK, LimitsInv, NEW c \in fanout, IsAttached(c.to)
  PROVE  ChatFits(c)
<1>1. /\ c.to \in Stream /\ c.text \in Text /\ c.seq \in 0..U64_MAX
      /\ c \in Copies(c.to)
  BY DEF TypeOK, Chat, Copies
<1>2. /\ session[c.to].max_frame_bytes = Policy.max_frame_bytes
      /\ session[c.to].max_message_bytes = Policy.max_message_bytes
      /\ TextFits(c.text, Policy.max_message_bytes)
  BY <1>1 DEF LimitsInv
<1>3. c.seq \in Nat /\ c.seq < 10^20
  <2> DEFINE limit == 10^20
  <2>1. limit \in Int
    BY ONLY TenToThe
  <2>2. U64_MAX < limit
    BY DEF RoomyPolicy
  <2> HIDE DEF limit
  <2>3. c.seq \in Nat /\ c.seq < limit
    BY ONLY <1>1, <2>1, <2>2, U64MaxAssumption
  <2> QED
    BY <2>3 DEF limit
<1>4. /\ Policy.max_message_bytes \in Nat /\ Policy.max_frame_bytes \in Nat
      /\ CHAT_ENVELOPE + 20 + 6 * Policy.max_message_bytes <= Policy.max_frame_bytes
  BY HubAssumption DEF RoomyPolicy
<1>5. ChatEncodes(c.text, SeqDigits(c.seq), Policy.max_frame_bytes,
                  Policy.max_message_bytes)
  BY ONLY <1>1, <1>2, <1>3, <1>4, LineGoesOut
<1> QED
  BY <1>2, <1>5 DEF ChatFits

\* Every step keeps the limits.
LEMMA NextLimits ==
  ASSUME HubInv, RoomsInv, LimitsInv, [Next]_vars
  PROVE  LimitsInv'
<1>1. TypeOK
  BY DEF HubInv
<1>2. ASSUME fanout' \subseteq fanout,
             \A t \in Stream : session'[t] = session[t] \/ ~IsAttached(t)'
      PROVE  LimitsInv'
  <2>1. \A t \in Stream : Copies(t)' \subseteq Copies(t)
    BY <1>2 DEF Copies
  <2> QED
    BY <1>2, <2>1 DEF LimitsInv, IsAttached
<1>3. CASE Quiet
  BY <1>1, <1>2, <1>3, QuietSteps
<1>4. ASSUME NEW s \in Stream, Forget(s)
      PROVE  LimitsInv'
  BY <1>1, <1>2, <1>4 DEF Forget, TypeOK, IsAttached, Closed
<1>5. ASSUME NEW c \in fanout, WriteChat(c)
      PROVE  LimitsInv'
  BY <1>2, <1>5 DEF WriteChat
<1>6. ASSUME NEW s \in Stream, NEW body \in Bodies, AttachAccepted(s, body)
      PROVE  LimitsInv'
  <2> DEFINE new == Attached(body.ticket.body.room_id, Policy.max_frame_bytes,
                             Policy.max_message_bytes)
  <2>1. /\ session' = [session EXCEPT ![s] = new]
        /\ fanout' = fanout
    BY <1>6, AttachEffect
  <2>2. /\ new.max_frame_bytes = Policy.max_frame_bytes
        /\ new.max_message_bytes = Policy.max_message_bytes
    BY DEF Attached
  <2> HIDE DEF new
  <2>3. \A t \in Stream : session'[t] = session[t] \/ session'[t] = new
    BY <1>1, <2>1 DEF TypeOK
  <2> QED
    BY <2>1, <2>2, <2>3 DEF LimitsInv, IsAttached, Copies
<1>7. ASSUME NEW s \in Stream, NEW body \in Bodies, PublishFirst(s, body)
      PROVE  LimitsInv'
  <2>1. /\ IsAttached(s) /\ session' = session
        /\ Copies(s)' = Copies(s)
        /\ \A t \in Stream : IsAttached(t) /\ session[t].room_id # session[s].room_id =>
             Copies(t)' = Copies(t)
        /\ \A t \in Stream : ~IsAttached(t) => Copies(t)' = Copies(t)
        /\ \A t \in Stream : t # s /\ InRoom(t, session[s].room_id) =>
             \E c : Copies(t)' = Copies(t) \cup {c} /\ c.text = body.text
    BY <1>7, PublishEffect
  <2>2. TextFits(body.text, session[s].max_message_bytes)
    BY <1>7 DEF PublishFirst, Accepts
  <2>3. TextFits(body.text, Policy.max_message_bytes)
    BY <2>1, <2>2 DEF LimitsInv
  <2>4. \A t \in Stream : \A c \in Copies(t)' :
          TextFits(c.text, Policy.max_message_bytes)
    BY <2>1, <2>3 DEF LimitsInv, InRoom
  <2> QED
    BY <2>1, <2>4 DEF LimitsInv, IsAttached
<1> QED
  BY <1>3, <1>4, <1>5, <1>6, <1>7, NextKinds

\* With such a policy no step loses a line.
LEMMA NextComplete ==
  ASSUME RoomyPolicy, HubInv, RoomsInv, LimitsInv, CompleteInv, [Next]_vars
  PROVE  CompleteInv'
<1>1. TypeOK
  BY DEF HubInv
<1>2. ASSUME UNCHANGED <<ledger, since, own, chats, fanout>>,
             \A t \in Stream : session'[t] = session[t] \/ ~IsAttached(t)'
      PROVE  CompleteInv'
  <2>1. \A t \in Stream : Copies(t)' = Copies(t)
    BY <1>2 DEF Copies
  <2> QED
    BY <1>2, <2>1 DEF CompleteInv, IsAttached
<1>3. CASE Quiet
  <2>1. ASSUME NEW c \in fanout, ChatUnencodable(c)
        PROVE  FALSE
    <3>1. c.to \in Stream /\ c \in Copies(c.to)
      BY <1>1 DEF TypeOK, Chat, Copies
    <3>2. IsAttached(c.to)
      BY <3>1 DEF RoomsInv, StreamInv
    <3> QED
      BY <1>1, <2>1, <3>2, RoomyFits DEF ChatUnencodable
  <2>2. fanout' = fanout
    BY <1>3, <2>1 DEF Quiet, DecodeRejected, AttachRefused, AttachRequired,
       DuplicateAttach, Ignored, PublishTooLarge, PublishReplay, Connect,
       WriteReply, Tick, vars
  <2> QED
    BY <1>1, <1>2, <1>3, <2>2, QuietSteps
<1>4. ASSUME NEW s \in Stream, Forget(s)
      PROVE  CompleteInv'
  <2>1. /\ UNCHANGED ledger /\ ~IsAttached(s)'
        /\ \A t \in Stream : t # s =>
             /\ session'[t] = session[t] /\ since'[t] = since[t]
             /\ own'[t] = own[t] /\ chats'[t] = chats[t]
             /\ Copies(t)' = Copies(t)
    BY <1>1, <1>4 DEF Forget, TypeOK, IsAttached, Closed, Copies
  <2> QED
    BY <2>1 DEF CompleteInv, IsAttached
<1>5. ASSUME NEW c \in fanout, WriteChat(c)
      PROVE  CompleteInv'
  <2> DEFINE s == c.to
             line == [seq |-> c.seq, client_message_id |-> c.client_message_id]
  <2>1. /\ s \in Stream /\ IsAttached(s) /\ c \in Copies(s)
        /\ c.seq \in 0..U64_MAX /\ c.client_message_id \in MsgId
        /\ Inside(ledger[session[s].room_id], since[s], own[s], chats[s], Copies(s))
        /\ chats'[s] = Append(chats[s], line)
        /\ \A t \in Stream : t # s =>
             chats'[t] = chats[t] /\ Copies(t)' = Copies(t)
        /\ Copies(s)' = Copies(s) \ {c}
        /\ UNCHANGED <<session, ledger, since, own>>
    BY <1>5, WriteEffect
  <2>2. chats[s] \in Seq(Line)
    BY <2>1, InRoomFacts
  <2>3. Complete(ledger[session[s].room_id], since[s], own[s], chats[s], Copies(s))
    BY <2>1 DEF CompleteInv
  <2>4. Complete(ledger[session[s].room_id], since[s], own[s],
                 Append(chats[s], line), Copies(s) \ {c})
    BY <2>1, <2>2, <2>3, InsideWrite
  <2> HIDE DEF s, line
  <2> QED
    BY <2>1, <2>4 DEF CompleteInv, IsAttached
<1>6. ASSUME NEW s \in Stream, NEW body \in Bodies, AttachAccepted(s, body)
      PROVE  CompleteInv'
  <2> DEFINE r == body.ticket.body.room_id
  <2>1. /\ r \in Room /\ ledger[r] \in RoomShard /\ Dense(ledger[r])
        /\ session'[s].room_id = r
        /\ since'[s] = ledger[r].next_seq
        /\ chats[s] = <<>> /\ own[s] = {} /\ Copies(s) = {}
        /\ UNCHANGED <<ledger, fanout, chats, own>>
        /\ \A t \in Stream : t # s =>
             session'[t] = session[t] /\ since'[t] = since[t]
    BY <1>6, AttachEffect
  <2> HIDE DEF r
  <2>2. Complete(ledger[r], ledger[r].next_seq, {}, <<>>, {})
    BY <2>1, InsideJoin
  <2>3. \A t : Copies(t)' = Copies(t)
    BY <2>1 DEF Copies
  <2> QED
    BY <2>1, <2>2, <2>3 DEF CompleteInv, IsAttached
<1>7. ASSUME NEW s \in Stream, NEW body \in Bodies, PublishFirst(s, body)
      PROVE  CompleteInv'
  <2> DEFINE r == session[s].room_id
             id == body.client_message_id
  <2>1. /\ r \in Room /\ id \in MsgId /\ IsAttached(s)
        /\ ledger[r] \in RoomShard /\ IsFirstAcceptance(ledger[r], id)
        /\ ledger'[r] = Insert(ledger[r], id)
        /\ \A q \in Room : q # r => ledger'[q] = ledger[q]
        /\ own'[s] = own[s] \cup {id}
        /\ \A t \in Stream : t # s => own'[t] = own[t]
        /\ UNCHANGED <<session, chats, since>>
        /\ Copies(s)' = Copies(s)
        /\ \A t \in Stream : IsAttached(t) /\ session[t].room_id # r =>
             Copies(t)' = Copies(t)
        /\ \A t \in Stream : t # s /\ InRoom(t, r) =>
             \E c : /\ Copies(t)' = Copies(t) \cup {c}
                    /\ c.client_message_id = id
    BY <1>7, PublishEffect
  <2> HIDE DEF r, id
  <2> SUFFICES ASSUME NEW t \in Stream, IsAttached(t)
               PROVE  Complete(ledger'[session[t].room_id], since[t], own'[t],
                               chats[t], Copies(t)')
    BY <2>1 DEF CompleteInv, IsAttached
  <2>2. Complete(ledger[session[t].room_id], since[t], own[t], chats[t], Copies(t))
    BY DEF CompleteInv
  <2>3. CASE session[t].room_id # r
    <3>1. t # s /\ ledger'[session[t].room_id] = ledger[session[t].room_id]
      BY <2>1, <2>3, InRoomFacts DEF r
    <3> QED
      BY <2>1, <2>2, <2>3, <3>1
  <2>4. CASE session[t].room_id = r /\ t = s
    <3>1. Complete(Insert(ledger[r], id), since[t], own[t] \cup {id}, chats[t],
                   Copies(t))
      BY <2>1, <2>2, <2>4, CompleteInsert
    <3> QED
      BY <2>1, <2>4, <3>1
  <2>5. CASE session[t].room_id = r /\ t # s
    <3>1. PICK c : Copies(t)' = Copies(t) \cup {c} /\ c.client_message_id = id
      BY <2>1, <2>5 DEF InRoom
    <3>2. \A d : d.client_message_id = id =>
            Complete(Insert(ledger[r], id), since[t], own[t], chats[t],
                     Copies(t) \cup {d})
      BY <2>1, <2>2, <2>5, CompleteInsert
    <3> QED
      BY <2>1, <2>5, <3>1, <3>2
  <2> QED
    BY <2>3, <2>4, <2>5
<1> QED
  BY <1>3, <1>4, <1>5, <1>6, <1>7, NextKinds

\* What NoLineLost says, of one stream.
LEMMA CompleteMeans ==
  ASSUME HubInv, RoomsInv, CompleteInv
  PROVE  NoLineLost
<1> SUFFICES ASSUME NEW s \in Stream, IsAttached(s)
             PROVE  LET shard == ledger[session[s].room_id] IN
                      {id \in Accepted(shard) : shard.by_client_id[id] >= since[s]}
                        \ own[s] =
                      {line.client_message_id : line \in ToSet(chats[s])} \cup
                      {c.client_message_id : c \in {d \in fanout : d.to = s}}
  BY DEF NoLineLost
<1> DEFINE shard == ledger[session[s].room_id]
           due == Copies(s)
<1>1. /\ Inside(shard, since[s], own[s], chats[s], due)
      /\ Complete(shard, since[s], own[s], chats[s], due)
  BY DEF RoomsInv, StreamInv, CompleteInv
<1>2. due = {d \in fanout : d.to = s}
  BY DEF Copies
<1> HIDE DEF shard, due
<1>3. ASSUME NEW id \in Accepted(shard), shard.by_client_id[id] >= since[s],
             id \notin own[s]
      PROVE  \/ \E line \in ToSet(chats[s]) : line.client_message_id = id
             \/ \E c \in due : c.client_message_id = id
  BY <1>1, <1>3 DEF Complete, ToSet
<1>4. ASSUME NEW line, line \in ToSet(chats[s]) \/ line \in due
      PROVE  /\ line.client_message_id \in Accepted(shard)
             /\ shard.by_client_id[line.client_message_id] >= since[s]
             /\ line.client_message_id \notin own[s]
  BY <1>1, <1>4 DEF Inside, Meant, Has, ToSet
<1>5. {id \in Accepted(shard) : shard.by_client_id[id] >= since[s]} \ own[s] =
      {line.client_message_id : line \in ToSet(chats[s])} \cup
      {c.client_message_id : c \in due}
  BY <1>3, <1>4
<1> QED
  BY <1>2, <1>5 DEF shard

\* NoLineLost: under a policy whose frames hold every line its message limit
\* admits, an attached stream has been sent, or will be, every line the others
\* had accepted in its room since it attached, and nothing else.  Without that
\* premise it does not hold: encoding the copy may fail after the acceptance.
THEOREM NothingLost ==
  ASSUME RoomyPolicy
  PROVE  Spec => []NoLineLost
<1>1. Init => LimitsInv /\ CompleteInv
  BY DEF Init, LimitsInv, CompleteInv, IsAttached, Closed, Copies
<1>2. HubInv /\ RoomsInv /\ LimitsInv /\ CompleteInv /\ [Next]_vars =>
        LimitsInv' /\ CompleteInv'
  BY NextLimits, NextComplete
<1>3. HubInv /\ RoomsInv /\ CompleteInv => NoLineLost
  BY CompleteMeans
<1> QED
  BY <1>1, <1>2, <1>3, RoomsInvariant, PTL DEF Spec

---------------------------------------------------------------------------
(* What a step may never do.                                               *)

\* A ticket that decodes is one the key signed for its room, still in force.
LEMMA TicketDecodes ==
  ASSUME NEW ticket \in Ticket, decode_reference_v1(ticket, HubKey, now) = "none",
         now \in Nat
  PROVE  /\ ticket = encode_reference_v1(HubKey, ticket.body.room_id,
                                         ticket.body.expires_unix)
         /\ ticket.body.expires_unix = 0 \/ ticket.body.expires_unix >= now
<1>1. /\ Structural(ticket) /\ Genuine(ticket, HubKey) /\ ~Expired(ticket, now)
  BY DEF decode_reference_v1
<1>2. ticket.body.expires_unix \in Nat
  BY DEF Ticket, TicketBody
<1>3. ticket.body.expires_unix = 0 \/ ticket.body.expires_unix >= now
  BY <1>1, <1>2 DEF Expired
<1> QED
  BY <1>1, <1>3, MadeByIssuer

\* RoomByTicketOnly: a stream enters a room by a ticket the hub's key signed
\* for the room and that has not expired, and nothing moves it to another or
\* gives it other limits.
THEOREM EntryByTicket == Spec => RoomByTicketOnly
<1>1. ASSUME HubInv, RoomsInv, [Next]_vars, NEW s \in Stream,
             session'[s].phase = "Attached"
      PROVE  \/ session'[s] = session[s]
             \/ /\ session[s] = AwaitingAttach
                /\ \E body \in Bodies :
                     /\ body.ticket = encode_reference_v1(HubKey,
                          session'[s].room_id, body.ticket.body.expires_unix)
                     /\ \/ body.ticket.body.expires_unix = 0
                        \/ body.ticket.body.expires_unix >= now
  <2>1. TypeOK /\ now \in Nat
    BY <1>1, HubAssumption DEF HubInv, TypeOK
  <2>2. CASE Quiet
    BY <1>1, <2>1, <2>2, QuietSteps DEF IsAttached
  <2>3. ASSUME NEW t \in Stream, Forget(t)
        PROVE  session'[s] = session[s]
    BY <1>1, <2>1, <2>3 DEF Forget, TypeOK, Closed
  <2>4. ASSUME NEW t \in Stream, NEW body \in Bodies, AttachAccepted(t, body)
        PROVE  \/ session'[s] = session[s]
               \/ /\ session[s] = AwaitingAttach
                  /\ body.ticket = encode_reference_v1(HubKey,
                       session'[s].room_id, body.ticket.body.expires_unix)
                  /\ \/ body.ticket.body.expires_unix = 0
                     \/ body.ticket.body.expires_unix >= now
    <3>1. /\ session[t] = AwaitingAttach
          /\ session'[t].room_id = body.ticket.body.room_id
          /\ \A u \in Stream : u # t => session'[u] = session[u]
      BY <1>1, <2>4, AttachEffect
    <3>2. decode_reference_v1(body.ticket, HubKey, now) = "none"
      BY <2>4 DEF AttachAccepted, AttachResult, accept_attach
    <3>3. body.ticket \in Ticket
      BY HubAssumption DEF Body
    <3> QED
      BY <2>1, <3>1, <3>2, <3>3, TicketDecodes
  <2>5. ASSUME NEW t \in Stream, NEW body \in Bodies, PublishFirst(t, body)
        PROVE  session'[s] = session[s]
    BY <2>5 DEF PublishFirst
  <2>6. ASSUME NEW c \in fanout, WriteChat(c)
        PROVE  session'[s] = session[s]
    BY <2>6 DEF WriteChat
  <2> QED
    BY <1>1, <2>2, <2>3, <2>4, <2>5, <2>6, NextKinds
<1>2. HubInv /\ RoomsInv /\ [Next]_vars =>
        [\A s \in Stream :
           session'[s].phase = "Attached" =>
             \/ session'[s] = session[s]
             \/ /\ session[s] = AwaitingAttach
                /\ \E body \in Bodies :
                     /\ body.ticket = encode_reference_v1(HubKey,
                          session'[s].room_id, body.ticket.body.expires_unix)
                     /\ \/ body.ticket.body.expires_unix = 0
                        \/ body.ticket.body.expires_unix >= now]_vars
  BY <1>1
<1> QED
  BY <1>2, RoomsInvariant, PTL DEF Spec, RoomByTicketOnly

\* RefusalLeavesNoTrace: the step that answers a message with an error is that
\* of a decoder or dispatcher that changed nothing.
THEOREM RefusalWithoutTrace == Spec => RefusalLeavesNoTrace
<1>1. ASSUME HubInv, [Next]_vars, NEW s \in Stream, reply[s] = NoReply,
             reply'[s].type = "error"
      PROVE  UNCHANGED <<session, ledger, fanout, since, own>>
  <2>1. TypeOK /\ reply[s].type # "error"
    BY <1>1 DEF HubInv, NoReply
  <2>2. reply'[s] # reply[s]
    BY <1>1, <2>1
  <2>3. ASSUME NEW t \in Stream, NEW message, Answer(t, message),
               message.type # "error"
        PROVE  FALSE
    BY <1>1, <2>1, <2>2, <2>3 DEF Answer, TypeOK
  <2>4. ASSUME NEW t \in Stream, NEW body \in Bodies,
               AttachAccepted(t, body) \/ PublishFirst(t, body) \/ PublishReplay(t, body)
        PROVE  FALSE
    BY <2>3, <2>4 DEF AttachAccepted, PublishFirst, PublishReplay, AttachAck,
       PublishAck
  <2>5. ASSUME NEW t \in Stream, Forget(t) \/ WriteReply(t)
        PROVE  FALSE
    BY <1>1, <2>1, <2>2, <2>5 DEF Forget, WriteReply, TypeOK, NoReply
  <2>6. ASSUME NEW t \in Stream, Connect(t)
        PROVE  FALSE
    BY <2>2, <2>6 DEF Connect
  <2>7. ASSUME NEW c \in fanout, WriteChat(c) \/ ChatUnencodable(c)
        PROVE  FALSE
    BY <2>2, <2>7 DEF WriteChat, ChatUnencodable
  <2>8. CASE Tick \/ UNCHANGED vars
    BY <2>2, <2>8 DEF Tick, vars
  <2>9. ASSUME NEW t \in Stream, NEW body \in Bodies,
               \/ DecodeRejected(t, body) \/ AttachRefused(t, body)
               \/ AttachRequired(t, body) \/ DuplicateAttach(t, body)
               \/ Ignored(t, body) \/ PublishTooLarge(t, body)
        PROVE  UNCHANGED <<session, ledger, fanout, since, own>>
    BY <2>9 DEF DecodeRejected, AttachRefused, AttachRequired, DuplicateAttach,
       Ignored, PublishTooLarge
  <2> QED
    BY <1>1, <2>4, <2>5, <2>6, <2>7, <2>8, <2>9
       DEF Next, handle_client_message, StreamEnds, PublishPanics
<1>2. HubInv /\ [Next]_vars =>
        [\A s \in Stream :
           reply[s] = NoReply /\ reply'[s].type = "error" =>
             UNCHANGED <<session, ledger, fanout, since, own>>]_vars
  BY <1>1
<1> QED
  BY <1>2, HubInvariant, PTL DEF Spec, RefusalLeavesNoTrace

---------------------------------------------------------------------------
(* The hub keeps the promise of RoomLog: the log of a room is its shard    *)
(* read in the order of the numbers.                                       *)

\* A dense shard is a sequence: the id numbered n stands at n + 1.
LEMMA LogFacts ==
  ASSUME NEW shard \in RoomShard, Dense(shard)
  PROVE  /\ LogOf(shard) \in Seq(MsgId) /\ Len(LogOf(shard)) = shard.next_seq
         /\ DOMAIN LogOf(shard) = 1..shard.next_seq
         /\ \A n \in 1..shard.next_seq :
              /\ LogOf(shard)[n] \in Accepted(shard)
              /\ shard.by_client_id[LogOf(shard)[n]] = n - 1
         /\ \A id \in Accepted(shard) :
              /\ shard.by_client_id[id] + 1 \in 1..shard.next_seq
              /\ LogOf(shard)[shard.by_client_id[id] + 1] = id
<1> DEFINE next == shard.next_seq
           log == LogOf(shard)
<1>1. /\ next \in Nat /\ next <= U64_MAX /\ U64_MAX \in Nat
      /\ Accepted(shard) \subseteq MsgId
      /\ \A id \in Accepted(shard) : shard.by_client_id[id] \in Nat
  BY ShardFields, U64MaxAssumption
<1>2. log = [n \in 1..next |->
               CHOOSE id \in Accepted(shard) : shard.by_client_id[id] = n - 1]
  BY DEF LogOf
<1>3. ASSUME NEW n \in 1..next
      PROVE  log[n] \in Accepted(shard) /\ shard.by_client_id[log[n]] = n - 1
  <2>1. n - 1 \in 0..U64_MAX /\ n - 1 < next
    BY <1>1
  <2>2. \E id \in Accepted(shard) : shard.by_client_id[id] = n - 1
    BY <2>1 DEF Dense
  <2>3. log[n] = CHOOSE id \in Accepted(shard) : shard.by_client_id[id] = n - 1
    BY <1>2
  <2> QED
    BY <2>2, <2>3
<1> HIDE DEF next, log
<1>4. log \in Seq(MsgId) /\ Len(log) = next /\ DOMAIN log = 1..next
  <2>1. DOMAIN log = 1..next /\ \A n \in 1..next : log[n] \in MsgId
    BY <1>1, <1>2, <1>3
  <2>2. log = [n \in 1..next |-> log[n]]
    BY <1>2
  <2> QED
    BY <1>1, <2>1, <2>2
<1>5. ASSUME NEW id \in Accepted(shard)
      PROVE  /\ shard.by_client_id[id] + 1 \in 1..next
             /\ log[shard.by_client_id[id] + 1] = id
  <2> DEFINE n == shard.by_client_id[id] + 1
  <2>1. shard.by_client_id[id] \in Nat /\ shard.by_client_id[id] < next
    BY <1>1 DEF Dense, next
  <2>2. n \in 1..next /\ n - 1 = shard.by_client_id[id]
    BY <1>1, <2>1
  <2>3. log[n] \in Accepted(shard) /\ shard.by_client_id[log[n]] = n - 1
    BY <1>3, <2>2
  <2> QED
    BY <2>2, <2>3 DEF Dense
<1> QED
  BY <1>3, <1>4, <1>5 DEF next, log

\* A first acceptance appends the id to the log of its room.
LEMMA LogInsert ==
  ASSUME NEW shard \in RoomShard, Dense(shard), NEW id \in MsgId,
         IsFirstAcceptance(shard, id)
  PROVE  LogOf(Insert(shard, id)) = Append(LogOf(shard), id)
<1> DEFINE new == Insert(shard, id)
           log == LogOf(shard)
           next == shard.next_seq
<1>1. /\ new \in RoomShard /\ Dense(new) /\ next \in Nat
      /\ new.next_seq = next + 1 /\ id \in Accepted(new)
      /\ new.by_client_id[id] = next
  <2>1. new \in RoomShard /\ Accepted(new) = Accepted(shard) \cup {id}
    BY InsertOK
  <2>2. Dense(new)
    BY InsertDense
  <2>3. next \in Nat
    BY ShardFields, U64MaxAssumption
  <2>4. new.next_seq = next + 1 /\ new.by_client_id[id] = next
    BY DEF Insert
  <2> QED
    BY <2>1, <2>2, <2>3, <2>4
<1>2. \A i \in Accepted(shard) :
        i \in Accepted(new) /\ new.by_client_id[i] = shard.by_client_id[i]
  BY InsertKeeps
<1>3. /\ log \in Seq(MsgId) /\ Len(log) = next
      /\ \A n \in 1..next :
           log[n] \in Accepted(shard) /\ shard.by_client_id[log[n]] = n - 1
  BY LogFacts
<1>4. /\ LogOf(new) \in Seq(MsgId) /\ Len(LogOf(new)) = next + 1
      /\ DOMAIN LogOf(new) = 1..(next + 1)
      /\ \A i \in Accepted(new) : LogOf(new)[new.by_client_id[i] + 1] = i
  BY <1>1, LogFacts
<1> HIDE DEF new, log, next
<1>5. ASSUME NEW n \in 1..next
      PROVE  LogOf(new)[n] = log[n]
  <2>1. log[n] \in Accepted(new) /\ new.by_client_id[log[n]] = n - 1
    BY <1>2, <1>3
  <2>2. (n - 1) + 1 = n
    BY <1>1
  <2> QED
    BY <1>4, <2>1, <2>2
<1>6. LogOf(new)[next + 1] = id
  BY <1>1, <1>4
<1>7. /\ Append(log, id) \in Seq(MsgId) /\ Len(Append(log, id)) = next + 1
      /\ Append(log, id)[next + 1] = id
      /\ \A n \in 1..next : Append(log, id)[n] = log[n]
  BY <1>1, <1>3
<1> DEFINE long == Append(log, id)
           mine == LogOf(new)
<1> HIDE DEF long, mine
<1>8. /\ mine \in Seq(MsgId) /\ long \in Seq(MsgId)
      /\ Len(mine) = next + 1 /\ Len(long) = next + 1
      /\ \A n \in 1..(next + 1) : mine[n] = long[n]
  BY <1>1, <1>4, <1>5, <1>6, <1>7 DEF long, mine
<1>9. mine = long
  BY <1>8, SeqEqual
<1> QED
  BY <1>9 DEF mine, long, new, log

\* The positions of the lines written on a stream, when one more is written.
LEMMA PositionsAppend ==
  ASSUME NEW seen \in Seq(Line), NEW line \in Line
  PROVE  Positions(Append(seen, line)) = Append(Positions(seen), line.seq + 1)
<1>1. line.seq \in Nat /\ \A i \in DOMAIN seen : seen[i].seq \in Nat
  <2>1. \A i \in DOMAIN seen : seen[i] \in Line
    OBVIOUS
  <2>2. \A other \in Line : other.seq \in 0..U64_MAX
    BY DEF Line
  <2> QED
    BY <2>1, <2>2, U64MaxAssumption
<1>2. /\ Append(seen, line) \in Seq(Line)
      /\ Len(Append(seen, line)) = Len(seen) + 1
      /\ DOMAIN Append(seen, line) = 1..(Len(seen) + 1)
      /\ DOMAIN seen = 1..Len(seen) /\ Len(seen) \in Nat
      /\ Append(seen, line)[Len(seen) + 1] = line
      /\ \A i \in 1..Len(seen) : Append(seen, line)[i] = seen[i]
  OBVIOUS
<1> DEFINE long == Append(seen, line)
           n == Len(seen)
           new == Positions(long)
           old == Positions(seen)
<1>3. /\ new = [i \in 1..(n + 1) |-> long[i].seq + 1]
      /\ old = [i \in 1..n |-> seen[i].seq + 1]
  BY <1>2 DEF Positions
<1> HIDE DEF long, n, new, old
<1>4. /\ \A i \in 1..(n + 1) : new[i] = long[i].seq + 1
      /\ \A i \in 1..n : old[i] = seen[i].seq + 1
  BY <1>3
<1>5. /\ \A i \in 1..(n + 1) : new[i] \in Nat
      /\ \A i \in 1..n : old[i] \in Nat
      /\ n \in Nat
  <2>1. n \in Nat /\ DOMAIN seen = 1..n /\ \A i \in 1..n : long[i] = seen[i]
    BY <1>2 DEF long, n
  <2>2. long[n + 1] = line
    BY <1>2 DEF long, n
  <2>3. \A i \in 1..n : long[i].seq \in Nat
    BY <1>1, <2>1
  <2>4. \A i \in 1..(n + 1) : i \in 1..n \/ i = n + 1
    BY <2>1
  <2>5. \A i \in 1..(n + 1) : long[i].seq \in Nat
    BY <1>1, <2>2, <2>3, <2>4
  <2>6. \A i \in 1..n : i \in 1..(n + 1)
    BY <2>1
  <2>7. \A k \in Nat : k + 1 \in Nat
    OBVIOUS
  <2>8. \A i \in 1..(n + 1) : new[i] \in Nat
    BY ONLY <1>4, <2>5, <2>7
  <2>9. \A i \in 1..n : old[i] \in Nat
    BY ONLY <1>4, <2>1, <2>3, <2>7
  <2> QED
    BY <2>1, <2>8, <2>9
<1>6. old \in Seq(Nat) /\ Len(old) = n /\ new \in Seq(Nat) /\ Len(new) = n + 1
  <2>1. old = [i \in 1..n |-> old[i]] /\ new = [i \in 1..(n + 1) |-> new[i]]
    BY <1>3
  <2>2. ASSUME NEW m \in Nat, NEW f, f = [i \in 1..m |-> f[i]],
               \A i \in 1..m : f[i] \in Nat
        PROVE  f \in Seq(Nat) /\ Len(f) = m
    <3>1. f \in [1..m -> Nat] /\ DOMAIN f = 1..m
      BY ONLY <2>2, Zenon
    <3> QED
      BY ONLY <2>2, <3>1
  <2>3. n \in Nat /\ n + 1 \in Nat
    BY <1>5
  <2>4. old \in Seq(Nat) /\ Len(old) = n
    BY ONLY <1>5, <2>1, <2>2, <2>3, Zenon
  <2>5. new \in Seq(Nat) /\ Len(new) = n + 1
    BY ONLY <1>5, <2>1, <2>2, <2>3, Zenon
  <2> QED
    BY <2>4, <2>5
<1> DEFINE x == line.seq + 1
           app == Append(old, x)
<1>7. x \in Nat /\ new[n + 1] = x
  BY <1>1, <1>2, <1>4 DEF long, n
<1>8. /\ app \in Seq(Nat) /\ Len(app) = n + 1 /\ app[n + 1] = x
      /\ \A i \in 1..n : app[i] = old[i]
  <2> HIDE DEF x
  <2> QED
    BY <1>6, <1>7
<1>9. \A i \in 1..n : new[i] = old[i]
  BY <1>2, <1>4, <1>5 DEF long, n
<1> HIDE DEF x, app
<1>10. \A i \in 1..(n + 1) : new[i] = app[i]
  BY <1>5, <1>7, <1>8, <1>9
<1>11. new = app
  BY <1>6, <1>8, <1>10, SeqEqual
<1> QED
  BY <1>11 DEF new, app, old, long, x

\* The rooms of a stream, as RoomLog names them.
LEMMA RoomsOfStream ==
  ASSUME NEW s \in Stream
  PROVE  /\ IsAttached(s) => RoomsOf[s] = {session[s].room_id}
         /\ ~IsAttached(s) => RoomsOf[s] = {}
  BY DEF RoomsOf

\* Steps that leave the rooms alone are no steps of RoomLog.
LEMMA LogQuiet ==
  ASSUME TypeOK, Quiet
  PROVE  UNCHANGED Promise!vars
<1>1. UNCHANGED <<ledger, since, own, chats>>
  BY QuietSteps
<1>2. \A t \in Stream : \/ session'[t] = session[t]
                        \/ ~IsAttached(t) /\ ~IsAttached(t)'
  BY QuietSteps
<1>3. Logs' = Logs /\ Received' = Received
  BY <1>1 DEF Logs, Received
<1>4. RoomsOf' = RoomsOf
  BY <1>2 DEF RoomsOf, IsAttached
<1> QED
  BY <1>1, <1>3, <1>4 DEF Promise!vars

\* A stream that is dropped leaves its room, if it was in one.
LEMMA LogForget ==
  ASSUME HubInv, RoomsInv, NEW s \in Stream, Forget(s)
  PROVE  [Promise!Next]_(Promise!vars)
<1>1. TypeOK /\ StreamInv(s)
  BY DEF HubInv, RoomsInv
<1>2. /\ session' = [session EXCEPT ![s] = Closed]
      /\ chats' = [chats EXCEPT ![s] = <<>>]
      /\ since' = [since EXCEPT ![s] = 0] /\ own' = [own EXCEPT ![s] = {}]
      /\ ledger' = ledger
  BY DEF Forget
<1>3. Logs' = Logs
  BY <1>2 DEF Logs
<1>4. RoomsOf' = [RoomsOf EXCEPT ![s] = {}]
  BY <1>1, <1>2 DEF RoomsOf, IsAttached, Closed, TypeOK
<1>5. Received' = [Received EXCEPT ![s] = <<>>]
  <2>1. Positions(<<>>) = <<>>
    BY DEF Positions
  <2>2. chats'[s] = <<>> /\ \A t \in Stream : t # s => chats'[t] = chats[t]
    BY <1>1, <1>2 DEF TypeOK
  <2> QED
    BY <2>1, <2>2 DEF Received
<1>6. CASE IsAttached(s)
  <2>1. Promise!Leave(s)
    BY <1>2, <1>3, <1>4, <1>5, <1>6, RoomsOfStream DEF Promise!Leave
  <2> QED
    BY <2>1 DEF Promise!Next
<1>7. CASE ~IsAttached(s)
  <2>1. RoomsOf[s] = {} /\ chats[s] = <<>> /\ own[s] = {} /\ since[s] = 0
    BY <1>1, <1>7, RoomsOfStream DEF StreamInv
  <2>2. Received[s] = <<>>
    BY <2>1 DEF Received, Positions
  <2>3. RoomsOf' = RoomsOf /\ Received' = Received
    BY <1>4, <1>5, <2>1, <2>2 DEF RoomsOf, Received
  <2>4. since' = since /\ own' = own
    BY <1>1, <1>2, <2>1 DEF TypeOK
  <2> QED
    BY <1>3, <2>3, <2>4 DEF Promise!vars
<1> QED
  BY <1>6, <1>7

\* An accepted attach joins the room at the end of its log.
LEMMA LogAttach ==
  ASSUME HubInv, RoomsInv, NEW s \in Stream, NEW body \in Bodies,
         AttachAccepted(s, body)
  PROVE  Promise!Next
<1> DEFINE r == body.ticket.body.room_id
<1>1. /\ r \in Room /\ ledger[r] \in RoomShard /\ Dense(ledger[r])
      /\ ~IsAttached(s)
      /\ IsAttached(s)' /\ session'[s].room_id = r
      /\ since' = [since EXCEPT ![s] = ledger[r].next_seq]
      /\ UNCHANGED <<ledger, chats, own>>
      /\ \A t \in Stream : t # s => session'[t] = session[t]
  BY AttachEffect
<1> HIDE DEF r
<1>2. Logs' = Logs /\ Received' = Received
  BY <1>1 DEF Logs, Received
<1>3. RoomsOf[s] = {} /\ RoomsOf' = [RoomsOf EXCEPT ![s] = {r}]
  BY <1>1 DEF RoomsOf, IsAttached
<1>4. since' = [since EXCEPT ![s] = Len(Logs[r])]
  BY <1>1, LogFacts DEF Logs
<1>5. Promise!Join(s, r)
  BY <1>1, <1>2, <1>3, <1>4 DEF Promise!Join
<1> QED
  BY <1>1, <1>5 DEF Promise!Next

\* A first acceptance appends the line to the log of the publisher's room.
LEMMA LogPublish ==
  ASSUME HubInv, NEW s \in Stream, NEW body \in Bodies, PublishFirst(s, body)
  PROVE  Promise!Next
<1> DEFINE r == session[s].room_id
           id == body.client_message_id
<1>1. /\ r \in Room /\ id \in MsgId /\ IsAttached(s)
      /\ ledger[r] \in RoomShard /\ Dense(ledger[r])
      /\ IsFirstAcceptance(ledger[r], id)
      /\ ledger'[r] = Insert(ledger[r], id)
      /\ \A q \in Room : q # r => ledger'[q] = ledger[q]
      /\ own' = [own EXCEPT ![s] = @ \cup {id}]
      /\ UNCHANGED <<session, chats, since>>
  BY PublishEffect
<1>2. RoomsOf[s] = {r}
  BY <1>1, RoomsOfStream
<1> HIDE DEF r, id
<1>3. RoomsOf' = RoomsOf /\ Received' = Received
  BY <1>1 DEF RoomsOf, Received, IsAttached
<1>4. Logs' = [Logs EXCEPT ![r] = Append(@, id)]
  <2>1. Logs'[r] = Append(Logs[r], id) /\ \A q \in Room : q # r => Logs'[q] = Logs[q]
    BY <1>1, LogInsert DEF Logs
  <2> QED
    BY <2>1 DEF Logs
<1>5. id \notin Promise!ToSet(Logs[r])
  <2>1. id \notin Accepted(ledger[r])
    BY <1>1 DEF IsFirstAcceptance, IsReplay
  <2>2. \A n \in DOMAIN LogOf(ledger[r]) : LogOf(ledger[r])[n] \in Accepted(ledger[r])
    BY <1>1, LogFacts
  <2> QED
    BY <1>1, <2>1, <2>2 DEF Promise!ToSet, Logs
<1>6. Len(Logs[r]) < U64_MAX
  <2>1. ledger[r].next_seq \in 0..U64_MAX /\ ledger[r].next_seq # U64_MAX
    BY <1>1, ShardFields DEF IsFirstAcceptance, Overflows
  <2>2. Len(Logs[r]) = ledger[r].next_seq
    BY <1>1, LogFacts DEF Logs
  <2> QED
    BY <2>1, <2>2, U64MaxAssumption
<1>7. Promise!Append1(s, r, id)
  BY <1>1, <1>2, <1>3, <1>4, <1>5, <1>6 DEF Promise!Append1
<1> QED
  BY <1>1, <1>7 DEF Promise!Next

\* Writing a chat_message hands the reader a line it has not had.
LEMMA LogWrite ==
  ASSUME HubInv, RoomsInv, NEW c \in fanout, WriteChat(c)
  PROVE  Promise!Next
<1> DEFINE s == c.to
           r == session[s].room_id
           line == [seq |-> c.seq, client_message_id |-> c.client_message_id]
           id == c.client_message_id
           i == c.seq + 1
<1>1. /\ s \in Stream /\ IsAttached(s) /\ c \in Copies(s)
      /\ c.seq \in 0..U64_MAX /\ id \in MsgId
      /\ Inside(ledger[r], since[s], own[s], chats[s], Copies(s))
      /\ chats' = [chats EXCEPT ![s] = Append(chats[s], line)]
      /\ UNCHANGED <<session, ledger, since, own>>
  BY WriteEffect
<1>2. /\ r \in Room /\ ledger[r] \in RoomShard /\ Dense(ledger[r])
      /\ since[s] \in Nat /\ chats[s] \in Seq(Line)
  BY <1>1, InRoomFacts
<1>3. line \in Line /\ line.seq = c.seq
  BY <1>1 DEF Line
<1>4. RoomsOf[s] = {r}
  BY <1>1, RoomsOfStream
<1>5. /\ id \in Accepted(ledger[r]) /\ ledger[r].by_client_id[id] = c.seq
      /\ id \notin own[s] /\ c.seq >= since[s]
  BY <1>1 DEF Inside, Meant, Has
<1>6. /\ Len(Logs[r]) = ledger[r].next_seq /\ i \in 1..ledger[r].next_seq
      /\ Logs[r][i] = id /\ ledger[r].next_seq \in 0..U64_MAX
  <2>1. Logs[r] = LogOf(ledger[r])
    BY <1>2 DEF Logs
  <2>2. ledger[r].next_seq \in 0..U64_MAX
    BY <1>2, ShardFields
  <2>3. /\ Len(LogOf(ledger[r])) = ledger[r].next_seq
        /\ DOMAIN LogOf(ledger[r]) = 1..ledger[r].next_seq
        /\ LogOf(ledger[r])[ledger[r].by_client_id[id] + 1] = id
    BY <1>2, <1>5, LogFacts
  <2>4. ledger[r].by_client_id[id] + 1 \in 1..ledger[r].next_seq
    BY <1>2, <1>5, LogFacts
  <2> QED
    BY <1>5, <2>1, <2>2, <2>3, <2>4
<1>7. ASSUME NEW n \in DOMAIN chats[s]
      PROVE  Received[s][n] # i
  <2>1. /\ chats[s][n].client_message_id # id
        /\ Has(ledger[r], chats[s][n])
    BY <1>1 DEF Inside, Meant
  <2>2. chats[s][n] \in Line
    BY <1>2
  <2>3. chats[s][n].seq \in Nat
    BY <2>2, U64MaxAssumption DEF Line
  <2>4. chats[s][n].seq # c.seq
    BY <1>2, <1>5, <2>1 DEF Has, Dense
  <2>5. Received[s][n] = chats[s][n].seq + 1
    BY <1>1 DEF Received, Positions
  <2> QED
    BY <1>1, <2>3, <2>4, <2>5, U64MaxAssumption
<1>8. i \notin Promise!ToSet(Received[s])
  <2>1. DOMAIN Received[s] = DOMAIN chats[s]
    BY <1>1 DEF Received, Positions
  <2> QED
    BY <1>7, <2>1 DEF Promise!ToSet
<1>9. Positions(Append(chats[s], line)) = Append(Positions(chats[s]), i)
  BY <1>2, <1>3, PositionsAppend
<1> HIDE DEF line, i, id, r
<1>10. Received' = [Received EXCEPT ![s] = Append(@, i)]
  <2>1. chats'[s] = Append(chats[s], line) /\ \A t \in Stream : t # s => chats'[t] = chats[t]
    BY <1>1 DEF HubInv, TypeOK
  <2>2. /\ Received'[s] = Append(Received[s], i)
        /\ \A t \in Stream : t # s => Received'[t] = Received[t]
    BY <1>1, <1>9, <2>1 DEF Received
  <2> QED
    BY <2>2 DEF Received
<1>11. Logs' = Logs /\ RoomsOf' = RoomsOf
  BY <1>1 DEF Logs, RoomsOf, IsAttached
<1>12. i \in (since[s] + 1)..Len(Logs[r]) /\ i \in 1..U64_MAX
  BY <1>1, <1>2, <1>5, <1>6, U64MaxAssumption DEF i
<1>13. Promise!Receive(s, r, i)
  BY <1>1, <1>4, <1>5, <1>6, <1>8, <1>10, <1>11, <1>12 DEF Promise!Receive
<1> QED
  BY <1>1, <1>2, <1>12, <1>13 DEF Promise!Next

\* ImplementsRoomLog: seen as logs and readers, whatever the streams do is
\* what RoomLog allows, a room being an append-only log that hands each
\* reader what others add, once.
THEOREM RoomLogImplemented == Spec => ImplementsRoomLog
<1>1. Init => Promise!Init
  <2> SUFFICES ASSUME Init PROVE Promise!Init
    OBVIOUS
  <2>1. LogOf(EmptyShard) = <<>>
    BY DEF LogOf, EmptyShard
  <2>2. Logs = [r \in Room |-> <<>>]
    BY <2>1 DEF Init, Logs
  <2>3. RoomsOf = [s \in Stream |-> {}]
    BY DEF Init, RoomsOf, IsAttached, Closed
  <2>4. Received = [s \in Stream |-> <<>>]
    BY DEF Init, Received, Positions
  <2> QED
    BY <2>2, <2>3, <2>4 DEF Init, Promise!Init
<1>2. HubInv /\ RoomsInv /\ [Next]_vars => [Promise!Next]_(Promise!vars)
  <2>1. HubInv => TypeOK
    BY DEF HubInv
  <2> QED
    BY <2>1, NextKinds, LogQuiet, LogForget, LogAttach, LogPublish, LogWrite
<1> QED
  BY <1>1, <1>2, RoomsInvariant, PTL DEF Spec, ImplementsRoomLog, Promise!Spec

=============================================================================
