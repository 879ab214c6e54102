------------------------- MODULE ReferenceTicketV1 -------------------------
(***************************************************************************)
(* The reference ticket profile guyos.reference_v1                         *)
(* (src/guyos_core/src/domain/reference_ticket_v1.rs): the issuer's         *)
(* encoder and the hub's ordered decode checklist.                          *)
(*                                                                         *)
(* A ticket is the text a client presents.  Its characters are abstracted  *)
(* to what the checklist distinguishes:                                    *)
(*   pad_strict    every character is a base64url character;               *)
(*   decodes       the text is a canonical unpadded base64url string;      *)
(*   octets        the number of octets it decodes to;                     *)
(*   body          version, room and expiry read from those octets;        *)
(*   signature     the MAC octets.                                         *)
(* HMAC-SHA256 is the ideal MAC: two MACs are equal exactly when they were *)
(* computed with the same key over the same body.                          *)
(***************************************************************************)
EXTENDS Naturals

VERSION_V1 == 1
TICKET_BINARY_LEN == 57

hmac_sha256(k_mac, body) == [k_mac |-> k_mac, over |-> body]

\* The issuer: every ticket it makes passes the structural checks.
encode_reference_v1(k_mac, room_id, expires_unix) ==
  LET body == [version |-> VERSION_V1, room_id |-> room_id,
               expires_unix |-> expires_unix]
  IN  [pad_strict |-> TRUE, decodes |-> TRUE, octets |-> TICKET_BINARY_LEN,
       body |-> body, signature |-> hmac_sha256(k_mac, body)]

\* The checks made before the MAC is looked at; each fails the same way.
Structural(ticket) ==
  /\ ticket.pad_strict
  /\ ticket.decodes
  /\ ticket.octets = TICKET_BINARY_LEN
  /\ ticket.body.version = VERSION_V1

\* Mutated form: the comparison with the clock is left out.
Expired_NoClock(ticket, now_unix) == FALSE

\* An expiry of 0 means the ticket never expires; the last second counts.
Expired(ticket, now_unix) ==
  ticket.body.expires_unix # 0 /\ now_unix > ticket.body.expires_unix

Genuine(ticket, k_mac) == ticket.signature = hmac_sha256(k_mac, ticket.body)

\* "none", or the portable error code of the first check that fails.  The
\* room of an accepted ticket is ticket.body.room_id.
decode_reference_v1(ticket, k_mac, now_unix) ==
  IF ~Structural(ticket) THEN "ticket_decode_failed"
  ELSE IF ~Genuine(ticket, k_mac) \/ Expired(ticket, now_unix)
       THEN "invalid_ticket"
       ELSE "none"
=============================================================================
