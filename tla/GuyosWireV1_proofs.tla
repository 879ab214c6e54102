------------------------- MODULE GuyosWireV1_proofs -------------------------
(***************************************************************************)
(* Proofs about the pure parts of the wire: the ticket profile, the        *)
(* negotiation of an attach and the codec.  Each theorem compares an       *)
(* ordered checklist of the code, which stops at the first check that      *)
(* fails, with what it is to decide.                                       *)
(***************************************************************************)
EXTENDS GuyosWireV1, TLAPS

(* The tickets. *)

\* The expiry of a ticket has not come: 0 means never.
StillValid(expires_unix, now_unix) ==
  expires_unix = 0 \/ now_unix <= expires_unix

\* A ticket passes the structural checks and the MAC of a key exactly when the
\* issuer with that key made it, for the room and the expiry its body names.
LEMMA MadeByIssuer ==
  ASSUME NEW ticket \in Ticket, NEW k_mac
  PROVE  Structural(ticket) /\ Genuine(ticket, k_mac) <=>
           ticket = encode_reference_v1(k_mac, ticket.body.room_id,
                                        ticket.body.expires_unix)
<1> DEFINE body == ticket.body
           made == encode_reference_v1(k_mac, body.room_id, body.expires_unix)
<1>1. /\ body \in [version : Nat, room_id : Room, expires_unix : Nat]
      /\ ticket.pad_strict \in BOOLEAN /\ ticket.decodes \in BOOLEAN
  BY DEF Ticket, TicketBody
<1>2. made.body = [version |-> VERSION_V1, room_id |-> body.room_id,
                   expires_unix |-> body.expires_unix]
      /\ made.pad_strict /\ made.decodes /\ made.octets = TICKET_BINARY_LEN
      /\ made.signature = hmac_sha256(k_mac, made.body)
  BY DEF encode_reference_v1
<1>3. ASSUME Structural(ticket), Genuine(ticket, k_mac)
      PROVE  ticket = made
  <2>1. body.version = VERSION_V1
    BY <1>3 DEF Structural
  <2>2. body = made.body
    BY <1>1, <1>2, <2>1
  <2>3. ticket = [pad_strict |-> ticket.pad_strict, decodes |-> ticket.decodes,
                  octets |-> ticket.octets, body |-> body,
                  signature |-> ticket.signature]
    BY DEF Ticket
  <2>4. /\ ticket.pad_strict = TRUE /\ ticket.decodes = TRUE
        /\ ticket.octets = TICKET_BINARY_LEN
        /\ ticket.signature = hmac_sha256(k_mac, body)
    BY <1>1, <1>3 DEF Structural, Genuine
  <2> QED
    BY <1>2, <2>1, <2>2, <2>3, <2>4 DEF encode_reference_v1
<1>4. ASSUME ticket = made
      PROVE  Structural(ticket) /\ Genuine(ticket, k_mac)
  BY <1>2, <1>4 DEF Structural, Genuine
<1> QED
  BY <1>3, <1>4

\* The hub accepts exactly the tickets its own key has issued, as long as
\* they have not expired: the checklist lets nothing else through and
\* refuses none of them (decode_reference_v1).
THEOREM IssuedTicketsOnly ==
  ASSUME NEW ticket \in Ticket, NEW k_mac, NEW now_unix \in Nat
  PROVE  decode_reference_v1(ticket, k_mac, now_unix) = "none" <=>
           \E room_id \in Room, expires_unix \in Nat :
             /\ ticket = encode_reference_v1(k_mac, room_id, expires_unix)
             /\ StillValid(expires_unix, now_unix)
<1>1. ticket.body.room_id \in Room /\ ticket.body.expires_unix \in Nat
  BY DEF Ticket, TicketBody
<1>2. decode_reference_v1(ticket, k_mac, now_unix) = "none" <=>
        /\ Structural(ticket) /\ Genuine(ticket, k_mac)
        /\ ~Expired(ticket, now_unix)
  BY DEF decode_reference_v1
<1>3. ~Expired(ticket, now_unix) <=>
        StillValid(ticket.body.expires_unix, now_unix)
  BY <1>1 DEF Expired, StillValid
<1>4. ASSUME NEW room_id \in Room, NEW expires_unix \in Nat,
             ticket = encode_reference_v1(k_mac, room_id, expires_unix)
      PROVE  ticket.body.room_id = room_id /\ ticket.body.expires_unix = expires_unix
  BY <1>4 DEF encode_reference_v1
<1> QED
  BY <1>1, <1>2, <1>3, <1>4, MadeByIssuer

\* No ticket is good for two hubs with different keys, and one that is
\* refused stays refused as the clock goes on.
THEOREM RefusedForGood ==
  ASSUME NEW ticket \in Ticket, NEW k_mac, NEW now_unix \in Nat
  PROVE  /\ \A other : /\ decode_reference_v1(ticket, k_mac, now_unix) = "none"
                       /\ decode_reference_v1(ticket, other, now_unix) = "none"
                       => other = k_mac
         /\ \A later \in Nat :
              /\ later >= now_unix
              /\ decode_reference_v1(ticket, k_mac, now_unix) # "none"
              => decode_reference_v1(ticket, k_mac, later) =
                   decode_reference_v1(ticket, k_mac, now_unix)
<1>1. ASSUME NEW other, decode_reference_v1(ticket, k_mac, now_unix) = "none",
             decode_reference_v1(ticket, other, now_unix) = "none"
      PROVE  other = k_mac
  <2>1. /\ ticket.signature = hmac_sha256(k_mac, ticket.body)
        /\ ticket.signature = hmac_sha256(other, ticket.body)
    BY <1>1 DEF decode_reference_v1, Genuine
  <2> QED
    BY <2>1 DEF hmac_sha256
<1>2. ASSUME NEW later \in Nat, later >= now_unix, Expired(ticket, now_unix)
      PROVE  Expired(ticket, later)
  <2>1. ticket.body.expires_unix \in Nat
    BY DEF Ticket, TicketBody
  <2> QED
    BY <1>2, <2>1 DEF Expired
<1>3. ASSUME NEW later \in Nat, later >= now_unix,
             decode_reference_v1(ticket, k_mac, now_unix) # "none"
      PROVE  decode_reference_v1(ticket, k_mac, later) =
               decode_reference_v1(ticket, k_mac, now_unix)
  BY <1>2, <1>3 DEF decode_reference_v1
<1> QED
  BY <1>1, <1>3

---------------------------------------------------------------------------
(* The negotiation of an attach. *)

\* An attach whose fields have decoded is accepted exactly when it asks for
\* the major of the hub with a ticket of the hub.  Nothing else is told of its
\* ticket: with another major it is not looked at; and the bounds, checked a
\* second time, refuse nothing any more.  The minor agreed on is the largest
\* that both sides have (accept_attach).
THEOREM AttachNegotiated ==
  ASSUME NEW attach \in Body, attach_from_decoded_map(attach),
         NEW k_mac, NEW now_unix \in Nat,
         NEW policy, policy.hub_minor_ceiling \in Nat
  PROVE  LET answer == accept_attach(attach, policy, k_mac, now_unix)
             refusal == decode_reference_v1(attach.ticket, k_mac, now_unix)
             ack == AttachAck(attach, policy)
             minor == ack.server_protocol_minor
         IN  /\ answer = "none" <=>
                  /\ attach.protocol_major = policy.supported_major
                  /\ \E room_id \in Room, expires_unix \in Nat :
                       /\ attach.ticket =
                            encode_reference_v1(k_mac, room_id, expires_unix)
                       /\ StillValid(expires_unix, now_unix)
                       /\ ack.room_id = room_id
             /\ answer # "none" =>
                  answer = IF attach.protocol_major # policy.supported_major
                           THEN "protocol_major_unsupported" ELSE refusal
             /\ ack.protocol_major = attach.protocol_major
             /\ minor \in Nat /\ minor <= attach.protocol_minor
             /\ minor <= policy.hub_minor_ceiling
             /\ \A m \in Nat : m <= attach.protocol_minor /\ m <= policy.hub_minor_ceiling
                  => m <= minor
<1>1. /\ attach.protocol_major \in 0..U31_MAX
      /\ attach.protocol_minor \in 0..U31_MAX /\ U31_MAX \in Nat
  BY U31MaxAssumption DEF attach_from_decoded_map, require_attach_u31
<1>2. attach.ticket \in Ticket
  BY DEF Body
<1>3. accept_attach(attach, policy, k_mac, now_unix) =
        IF attach.protocol_major # policy.supported_major
        THEN "protocol_major_unsupported"
        ELSE decode_reference_v1(attach.ticket, k_mac, now_unix)
  BY <1>1 DEF accept_attach
<1> DEFINE ack == AttachAck(attach, policy)
           minor == ack.server_protocol_minor
<1>4. /\ ack.protocol_major = attach.protocol_major
      /\ ack.room_id = attach.ticket.body.room_id
      /\ minor = IF attach.protocol_minor < policy.hub_minor_ceiling
                 THEN attach.protocol_minor ELSE policy.hub_minor_ceiling
  BY DEF AttachAck
<1>5. /\ minor \in Nat /\ minor <= attach.protocol_minor
      /\ minor <= policy.hub_minor_ceiling
      /\ \A m \in Nat : m <= attach.protocol_minor /\ m <= policy.hub_minor_ceiling
           => m <= minor
  <2> HIDE DEF minor
  <2> QED
    BY <1>1, <1>4
<1>6. decode_reference_v1(attach.ticket, k_mac, now_unix) = "none" <=>
        \E room_id \in Room, expires_unix \in Nat :
          /\ attach.ticket = encode_reference_v1(k_mac, room_id, expires_unix)
          /\ StillValid(expires_unix, now_unix)
  BY <1>2, IssuedTicketsOnly
<1>7. ASSUME NEW room_id, NEW expires_unix,
             attach.ticket = encode_reference_v1(k_mac, room_id, expires_unix)
      PROVE  ack.room_id = room_id
  BY <1>4, <1>7 DEF encode_reference_v1
<1> HIDE DEF ack, minor
<1>8. accept_attach(attach, policy, k_mac, now_unix) = "none" <=>
        /\ attach.protocol_major = policy.supported_major
        /\ \E room_id \in Room, expires_unix \in Nat :
             /\ attach.ticket = encode_reference_v1(k_mac, room_id, expires_unix)
             /\ StillValid(expires_unix, now_unix)
             /\ ack.room_id = room_id
  BY <1>3, <1>6, <1>7
<1> QED
  BY ONLY <1>3, <1>4, <1>5, <1>8 DEF ack, minor

---------------------------------------------------------------------------
(* The codec. *)

\* What the decoder wants of a frame of each type, besides a JSON object.
Wanted(body) ==
  /\ body.type = "attach" => attach_from_decoded_map(body)
  /\ body.type \in {"publish", "publish_ack", "chat_message"} =>
       body.client_message_id \notin {"not_a_string", "not_canonical"}
  /\ body.type \in {"publish_ack", "chat_message"} => body.seq_ok
  /\ body.type \in {"publish", "publish_ack", "chat_message", "attach_ack", "error"} =>
       body.shape_ok

\* A frame decodes exactly when it is a JSON object of a type the protocol
\* has, with the keys of that type in shape, whatever else is in it
\* (decode_guyos_wire_v1_json).
THEOREM DecodesAsWanted ==
  ASSUME NEW body \in Body
  PROVE  decode_guyos_wire_v1_json(body) = "none" <=>
           /\ body.json = "object" /\ body.type \in ClientTypes \cup HubTypes
           /\ Wanted(body)
<1>1. BadId(body) = "none" <=>
        body.client_message_id \notin {"not_a_string", "not_canonical"}
  BY DEF BadId
<1>2. \A ok \in BOOLEAN : ShapeError(ok) = "none" <=> ok
  BY DEF ShapeError
<1>3. body.seq_ok \in BOOLEAN /\ body.shape_ok \in BOOLEAN
  BY DEF Body
<1>4. decode_publish(body) = "none" <=> BadId(body) = "none" /\ body.shape_ok
  BY <1>2, <1>3 DEF decode_publish, FirstError
<1>5. decode_publish_ack(body) = "none" <=>
        BadId(body) = "none" /\ body.seq_ok /\ body.shape_ok
  BY <1>2, <1>3 DEF decode_publish_ack, FirstError
<1>6. decode_chat_message(body) = "none" <=>
        BadId(body) = "none" /\ body.seq_ok /\ body.shape_ok
  BY <1>2, <1>3 DEF decode_chat_message, FirstError
<1>7. body.type \in ClientTypes \cup HubTypes <=>
        body.type \in {"attach", "publish", "detach", "keepalive", "attach_ack",
                       "publish_ack", "chat_message", "error"}
  BY DEF ClientTypes, HubTypes
<1> QED
  BY <1>1, <1>2, <1>3, <1>4, <1>5, <1>6, <1>7 DEF decode_guyos_wire_v1_json, Wanted

\* The error of a frame says what is wrong with it: which code a client is
\* told depends on the order of the checks, and never blames an id, a payload
\* or a type that is in order (decode_guyos_wire_v1_json).
THEOREM ErrorFitsFrame ==
  ASSUME NEW body \in Body
  PROVE  LET code == decode_guyos_wire_v1_json(body) IN
           /\ code = "invalid_attach" <=>
                /\ body.json = "object" /\ body.type = "attach"
                /\ ~attach_from_decoded_map(body)
           /\ code = "invalid_client_message_id" <=>
                /\ body.json = "object"
                /\ body.type \in {"publish", "publish_ack", "chat_message"}
                /\ body.client_message_id = "not_canonical"
                /\ body.type = "chat_message" => body.seq_ok
           /\ code = "unknown_message_type" <=>
                /\ body.json = "object"
                /\ body.type \notin ClientTypes \cup HubTypes \cup {"not_a_string"}
           /\ code \in {"none", "malformed_json", "invalid_attach",
                        "invalid_client_message_id", "unknown_message_type"}
<1>1. BadId(body) = IF body.client_message_id = "not_a_string" THEN "malformed_json"
                    ELSE IF body.client_message_id = "not_canonical"
                         THEN "invalid_client_message_id" ELSE "none"
  BY DEF BadId
<1>2. body.seq_ok \in BOOLEAN /\ body.shape_ok \in BOOLEAN
  BY DEF Body
<1>3. \A ok \in BOOLEAN : ShapeError(ok) = IF ok THEN "none" ELSE "malformed_json"
  BY DEF ShapeError
<1>4. /\ decode_publish(body) \in {"none", "malformed_json", "invalid_client_message_id"}
      /\ decode_publish(body) = "invalid_client_message_id" <=>
           body.client_message_id = "not_canonical"
  BY <1>1, <1>2, <1>3 DEF decode_publish, FirstError
<1>5. /\ decode_publish_ack(body) \in
           {"none", "malformed_json", "invalid_client_message_id"}
      /\ decode_publish_ack(body) = "invalid_client_message_id" <=>
           body.client_message_id = "not_canonical"
  BY <1>1, <1>2, <1>3 DEF decode_publish_ack, FirstError
<1>6. /\ decode_chat_message(body) \in
           {"none", "malformed_json", "invalid_client_message_id"}
      /\ decode_chat_message(body) = "invalid_client_message_id" <=>
           body.client_message_id = "not_canonical" /\ body.seq_ok
  BY <1>1, <1>2, <1>3 DEF decode_chat_message, FirstError
<1>7. ShapeError(body.shape_ok) \in {"none", "malformed_json"}
  BY <1>2, <1>3
<1> QED
  BY <1>4, <1>5, <1>6, <1>7
     DEF decode_guyos_wire_v1_json, ClientTypes, HubTypes

---------------------------------------------------------------------------
(* What fits a frame. *)

\* Each power of ten is an integer.
LEMMA TenToThe ==
  ASSUME NEW d \in Nat
  PROVE  10^d \in Int
  BY SMT

\* A number below 10^20, as every u64 is, has between 1 and 20 digits, so
\* SeqDigits chooses among some.
LEMMA DigitsOfSeq ==
  ASSUME NEW seq \in Nat, seq < 10^20
  PROVE  SeqDigits(seq) \in 1..20
<1> DEFINE pow(d) == 10^d
           ok(d) == seq < pow(d) /\ (d = 1 \/ seq >= pow(d - 1))
<1>1. \A d \in Nat : pow(d) \in Int
  BY TenToThe
<1>2. ASSUME \A d \in 1..20 : ~ok(d)
      PROVE  FALSE
  <2>1. ASSUME NEW d \in 1..20, seq < pow(d)
        PROVE  d # 1 /\ seq < pow(d - 1)
    <3>1. d # 1 /\ ~(seq >= pow(d - 1))
      BY <1>2, <2>1
    <3>2. d - 1 \in Nat /\ pow(d - 1) \in Int
      BY ONLY <1>1, <3>1, d \in 1..20
    <3> HIDE DEF pow
    <3> QED
      BY ONLY <3>1, <3>2, seq \in Nat
  <2>2. seq < pow(20)
    OBVIOUS
  <2> HIDE DEF pow
  <2>3. /\ (seq < pow(20) => seq < pow(19)) /\ (seq < pow(19) => seq < pow(18))
        /\ (seq < pow(18) => seq < pow(17)) /\ (seq < pow(17) => seq < pow(16))
        /\ (seq < pow(16) => seq < pow(15)) /\ (seq < pow(15) => seq < pow(14))
        /\ (seq < pow(14) => seq < pow(13)) /\ (seq < pow(13) => seq < pow(12))
        /\ (seq < pow(12) => seq < pow(11)) /\ (seq < pow(11) => seq < pow(10))
        /\ (seq < pow(10) => seq < pow(9)) /\ (seq < pow(9) => seq < pow(8))
        /\ (seq < pow(8) => seq < pow(7)) /\ (seq < pow(7) => seq < pow(6))
        /\ (seq < pow(6) => seq < pow(5)) /\ (seq < pow(5) => seq < pow(4))
        /\ (seq < pow(4) => seq < pow(3)) /\ (seq < pow(3) => seq < pow(2))
        /\ (seq < pow(2) => seq < pow(1))
    BY ONLY <2>1
  <2> QED
    BY ONLY <2>1, <2>2, <2>3
<1>3. \E d \in 1..20 : ok(d)
  BY <1>2
<1>4. SeqDigits(seq) = CHOOSE d \in 1..20 : ok(d)
  BY DEF SeqDigits
<1> HIDE DEF ok
<1> QED
  BY ONLY <1>3, <1>4

\* A line within the message limit goes out as a chat_message, whatever number
\* it was given, if the frame limit has room for six characters a byte; and a
\* line that came in a publish goes out if that frame was 34 bytes short of the
\* limit: a chat_message needs 14 bytes more, and the digits of its number.
THEOREM LineGoesOut ==
  ASSUME NEW text \in Text, NEW seq \in Nat, seq < 10^20,
         NEW max_frame_bytes \in Nat, NEW max_message_bytes \in Nat,
         TextFits(text, max_message_bytes),
         \/ CHAT_ENVELOPE + 20 + 6 * max_message_bytes <= max_frame_bytes
         \/ PublishBodyBytes(text) + 34 <= max_frame_bytes
  PROVE  ChatEncodes(text, SeqDigits(seq), max_frame_bytes, max_message_bytes)
<1> DEFINE digits == SeqDigits(seq)
           bytes == text.bytes
           escaped == text.escaped
<1>1. digits \in 1..20
  BY DigitsOfSeq
<1>2. /\ bytes \in Nat /\ escaped \in Nat /\ escaped <= 6 * bytes
      /\ bytes <= max_message_bytes
  BY DEF Text, TextFits
<1>3. \/ 101 + 20 + 6 * max_message_bytes <= max_frame_bytes
      \/ 87 + escaped + 34 <= max_frame_bytes
  BY DEF CHAT_ENVELOPE, PUBLISH_ENVELOPE, PublishBodyBytes
<1> HIDE DEF digits, bytes, escaped
<1>4. 101 + digits + escaped <= max_frame_bytes
  BY <1>1, <1>2, <1>3
<1> QED
  BY <1>4 DEF ChatEncodes, ChatBodyBytes, CHAT_ENVELOPE, digits, escaped
=============================================================================
