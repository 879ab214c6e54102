---------------------------- MODULE GuyosWireV1 ----------------------------
(***************************************************************************)
(* The wire v1 JSON codec                                                  *)
(* (src/guyos_core/src/domain/guyos_wire_v1.rs): how the body of one        *)
(* inbound frame is classified, and when an outbound body fits a frame.    *)
(*                                                                         *)
(* A body is a record of what the decoder looks at.  A field that the      *)
(* decoder does not read for a type has no effect on it (P1: unknown keys  *)
(* are ignored):                                                           *)
(*   json               "object", "other" (a JSON value that is no object) *)
(*                      or "invalid" (no JSON);                            *)
(*   type               the type string, "absent" or "not_a_string";       *)
(*   client_message_id  an id, "not_a_string" or "not_canonical";          *)
(*   seq_ok             seq is a decimal string of a u64;                  *)
(*   shape_ok           the other required keys have the right JSON type;  *)
(*   text               [bytes, escaped]: its UTF-8 length, and its length *)
(*                      inside a JSON string;                              *)
(*   protocol_major, protocol_minor, ticket_is_string, ticket: attach.     *)
(***************************************************************************)
EXTENDS GuyosWireAttach, GuyosWirePublish

CONSTANT Key    \* ticket MAC keys, of this hub and of others

ClientTypes == {"attach", "publish", "detach", "keepalive"}
HubTypes == {"attach_ack", "publish_ack", "chat_message", "error"}

TicketBody == [version : Nat, room_id : Room, expires_unix : Nat]

Ticket ==
  [pad_strict : BOOLEAN, decodes : BOOLEAN, octets : Nat, body : TicketBody,
   signature : [k_mac : Key, over : TicketBody]]

\* A JSON string is at most six times as long as the text (\u00XX).
Text == {t \in [bytes : Nat, escaped : Nat] :
           t.bytes <= t.escaped /\ t.escaped <= 6 * t.bytes}

Body ==
  [json : {"object", "other", "invalid"}, type : STRING,
   client_message_id : MsgId \cup {"not_a_string", "not_canonical"},
   seq_ok : BOOLEAN, shape_ok : BOOLEAN, text : Text,
   protocol_major : Int, protocol_minor : Int,
   ticket_is_string : BOOLEAN, ticket : Ticket]

BadId(body) ==
  CASE body.client_message_id = "not_a_string"  -> "malformed_json"
    [] body.client_message_id = "not_canonical" -> "invalid_client_message_id"
    [] OTHER -> "none"

ShapeError(ok) == IF ok THEN "none" ELSE "malformed_json"

FirstError(e1, e2) == IF e1 # "none" THEN e1 ELSE e2

\* Mutated form: the id is not compared with its canonical form.
decode_publish_AnyId(body) == ShapeError(body.shape_ok)

decode_publish(body) == FirstError(BadId(body), ShapeError(body.shape_ok))

decode_publish_ack(body) ==
  FirstError(BadId(body), ShapeError(body.seq_ok /\ body.shape_ok))

\* seq is read before the id here, and after it in a publish_ack.
decode_chat_message(body) ==
  FirstError(ShapeError(body.seq_ok),
             FirstError(BadId(body), ShapeError(body.shape_ok)))

\* "none", or the portable code of the error the decoder returns.
decode_guyos_wire_v1_json(body) ==
  IF body.json # "object" THEN "malformed_json"
  ELSE CASE body.type = "not_a_string" -> "malformed_json"
         [] body.type = "attach"       ->
              IF attach_from_decoded_map(body) THEN "none" ELSE "invalid_attach"
         [] body.type = "publish"      -> decode_publish(body)
         [] body.type = "publish_ack"  -> decode_publish_ack(body)
         [] body.type = "chat_message" -> decode_chat_message(body)
         [] body.type \in {"attach_ack", "error"} -> ShapeError(body.shape_ok)
         [] body.type \in {"detach", "keepalive"} -> "none"
         [] OTHER                      -> "unknown_message_type"

\* The number of digits of seq as a decimal string: 20 are enough for a u64.
SeqDigits(seq) ==
  CHOOSE d \in 1..20 : seq < 10^d /\ (d = 1 \/ seq >= 10^(d - 1))

\* Bytes of the minified JSON around the text: the keys, the punctuation and
\* the 36 characters of the id.
PUBLISH_ENVELOPE == 87
CHAT_ENVELOPE == 101

PublishBodyBytes(text) == PUBLISH_ENVELOPE + text.escaped
ChatBodyBytes(text, digits) == CHAT_ENVELOPE + digits + text.escaped

\* validate_text_len
TextFits(text, max_message_bytes) == text.bytes <= max_message_bytes

\* encode_guyos_wire_v1_json_within_limits of a chat_message.
ChatEncodes(text, digits, max_frame_bytes, max_message_bytes) ==
  /\ TextFits(text, max_message_bytes)
  /\ ChatBodyBytes(text, digits) <= max_frame_bytes
=============================================================================
