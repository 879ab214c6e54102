-------------------------- MODULE GuyosWireAttach --------------------------
(***************************************************************************)
(* Attach negotiation (src/guyos_core/src/domain/guyos_wire_attach.rs):     *)
(* the hub's policy and the ordered checks of one attach request.  The     *)
(* ticket verifier the code takes as a trait object is the reference       *)
(* profile of ReferenceTicketV1 with the hub's key and clock.              *)
(***************************************************************************)
EXTENDS ReferenceTicketV1, Integers

\* The largest protocol_major and protocol_minor (2_147_483_647 in the code).
CONSTANT U31_MAX

ASSUME U31MaxAssumption == U31_MAX \in Nat

single_major(supported_major, hub_minor_ceiling, max_frame, max_message) ==
  [supported_major |-> supported_major,
   hub_minor_ceiling |-> hub_minor_ceiling,
   max_frame_bytes |-> max_frame,
   max_message_bytes |-> max_message]

\* A negative number stands for a JSON value as_u64 rejects: a string, a
\* fraction, a negative number, a missing key.
require_attach_u31(v) == v \in 0..U31_MAX

\* The shape checks made while the JSON object is decoded.
attach_from_decoded_map(attach) ==
  /\ require_attach_u31(attach.protocol_major)
  /\ require_attach_u31(attach.protocol_minor)
  /\ attach.ticket_is_string

\* "none", or the portable code of the first check that fails: bounds, then
\* the major, then the ticket.  The order is what a client can observe.
accept_attach(attach, policy, k_mac, now_unix) ==
  IF attach.protocol_major > U31_MAX \/ attach.protocol_minor > U31_MAX
  THEN "invalid_attach"
  ELSE IF attach.protocol_major # policy.supported_major
       THEN "protocol_major_unsupported"
       ELSE decode_reference_v1(attach.ticket, k_mac, now_unix)

\* The attach_ack of an accepted request.
AttachAck(attach, policy) ==
  [type |-> "attach_ack",
   room_id |-> attach.ticket.body.room_id,
   max_frame_bytes |-> policy.max_frame_bytes,
   max_message_bytes |-> policy.max_message_bytes,
   protocol_major |-> attach.protocol_major,
   server_protocol_minor |->
     IF attach.protocol_minor < policy.hub_minor_ceiling
     THEN attach.protocol_minor ELSE policy.hub_minor_ceiling]
=============================================================================
