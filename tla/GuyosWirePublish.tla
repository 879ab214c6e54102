------------------------- MODULE GuyosWirePublish --------------------------
(***************************************************************************)
(* The room publish ledger                                                 *)
(* (src/guyos_core/src/domain/guyos_wire_publish.rs): one shard per room,   *)
(* which numbers the lines of the room and remembers the number it gave to *)
(* each client_message_id.                                                 *)
(*                                                                         *)
(* The code creates a shard on first use; a room without one behaves as a  *)
(* room with an empty shard, so the ledger here is total.                  *)
(***************************************************************************)
EXTENDS Naturals

CONSTANTS
  Room,       \* room ids
  MsgId,      \* client_message_ids (UUIDs)
  U64_MAX     \* the largest u64, 2^64 - 1 in the code

ASSUME U64MaxAssumption == U64_MAX \in Nat

\* by_client_id is a partial function: its domain is the accepted ids.
RoomShard ==
  [next_seq : 0..U64_MAX,
   by_client_id : UNION {[ids -> 0..U64_MAX] : ids \in SUBSET MsgId}]

EmptyShard == [next_seq |-> 0, by_client_id |-> [id \in {} |-> 0]]

Accepted(shard) == DOMAIN shard.by_client_id

\* O1: the accepted ids are numbered 0, 1, 2, ... without a gap, and no two
\* of them share a number.
Dense(shard) ==
  /\ \A i, j \in Accepted(shard) :
       shard.by_client_id[i] = shard.by_client_id[j] => i = j
  /\ \A i \in Accepted(shard) : shard.by_client_id[i] < shard.next_seq
  /\ \A n \in 0..U64_MAX : n < shard.next_seq =>
       \E i \in Accepted(shard) : shard.by_client_id[i] = n

\* Mutated forms: the lookup of the id is left out; the counter wraps.
IsReplay_NoLookup(shard, id) == FALSE
Overflows_Unchecked(shard, id) == FALSE

\* An id the shard holds is answered from the shard: accept_or_replay
\* returns IdempotentReplay and changes nothing.
IsReplay(shard, id) == id \in Accepted(shard)

\* checked_add fails and the expect panics before anything is assigned, so
\* the last number, U64_MAX itself, is never given to a line.
Overflows(shard, id) == ~IsReplay(shard, id) /\ shard.next_seq = U64_MAX

IsFirstAcceptance(shard, id) == ~IsReplay(shard, id) /\ ~Overflows(shard, id)

\* Mutated forms: next_seq is not advanced; the map is replaced, not extended.
Insert_NotAdvanced(shard, id) ==
  [next_seq |-> shard.next_seq,
   by_client_id |-> [i \in Accepted(shard) \cup {id} |->
                       IF i = id THEN shard.next_seq
                       ELSE shard.by_client_id[i]]]
Insert_MapReplaced(shard, id) ==
  [next_seq |-> shard.next_seq + 1,
   by_client_id |-> [i \in {id} |-> shard.next_seq]]

\* The shard after FirstAcceptance of id.
Insert(shard, id) ==
  [next_seq |-> shard.next_seq + 1,
   by_client_id |-> [i \in Accepted(shard) \cup {id} |->
                       IF i = id THEN shard.next_seq
                       ELSE shard.by_client_id[i]]]

\* The seq both decisions carry.
DecisionSeq(shard, id) ==
  IF IsReplay(shard, id) THEN shard.by_client_id[id] ELSE shard.next_seq
=============================================================================
