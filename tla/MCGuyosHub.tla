---------------------------- MODULE MCGuyosHub -----------------------------
(***************************************************************************)
(* Instances of GuyosHub for TLC.                                          *)
(***************************************************************************)
EXTENDS GuyosHub, TLC

CONSTANTS hub, otherHub     \* keys

MCKey == {hub, otherHub}

AnyRoom == CHOOSE r \in Room : TRUE
AnyId == CHOOSE id \in MsgId : TRUE

Forever(r) == encode_reference_v1(hub, r, 0)
ForASecond(r) == encode_reference_v1(hub, r, 1)

Blank ==
  [json |-> "object", type |-> "detach", client_message_id |-> AnyId,
   seq_ok |-> TRUE, shape_ok |-> TRUE, text |-> [bytes |-> 0, escaped |-> 0],
   protocol_major |-> 1, protocol_minor |-> 0, ticket_is_string |-> TRUE,
   ticket |-> Forever(AnyRoom)]

OfType(type) == [Blank EXCEPT !.type = type]
AttachBody(ticket) == [OfType("attach") EXCEPT !.ticket = ticket]
PublishBody(id, text) ==
  [OfType("publish") EXCEPT !.client_message_id = id, !.text = text]

---------------------------------------------------------------------------
\* The limits of ADR 0003, and a frame limit too small for some lines that
\* are within its message limit.
AdrPolicy == single_major(1, 2, 1048576, 65536)
NarrowPolicy == single_major(1, 2, 256, 160)

LargestText == [bytes |-> 65536, escaped |-> 393216]
NarrowText == [bytes |-> 160, escaped |-> 160]
TooLargeText == [bytes |-> 161, escaped |-> 161]

---------------------------------------------------------------------------
Attaches == {AttachBody(Forever(r)) : r \in Room}

\* Attaches that succeed, and publishes of each id with the longest text.
FanOutBodies == Attaches \cup {PublishBody(id, LargestText) : id \in MsgId}

\* Tickets that are not, or not always, accepted: the hub's own with an
\* expiry, damaged copies of them and one of another hub.
TicketsToRefuse ==
  LET t == Forever(AnyRoom)
  IN  {ForASecond(r) : r \in Room} \cup
      {encode_reference_v1(otherHub, AnyRoom, 0)} \cup
      {[t EXCEPT !.pad_strict = FALSE], [t EXCEPT !.decodes = FALSE],
       [t EXCEPT !.octets = 56], [t EXCEPT !.body.version = 2]} \cup
      {[t EXCEPT !.body.room_id = r] : r \in Room}

\* One body for every way a frame can be read or refused.  The ticket of one
\* room does not expire, the only one of the others does.
DispatchBodies ==
  {AttachBody(Forever(AnyRoom))} \cup
  {AttachBody(t) : t \in TicketsToRefuse} \cup
  {[AttachBody(Forever(AnyRoom)) EXCEPT !.protocol_minor = 7],
   [AttachBody(Forever(AnyRoom)) EXCEPT !.protocol_major = 2],
   [AttachBody(Forever(AnyRoom)) EXCEPT !.protocol_major = -1],
   [AttachBody(Forever(AnyRoom)) EXCEPT !.ticket_is_string = FALSE]} \cup
  {PublishBody(id, text) : id \in MsgId, text \in {Blank.text, NarrowText}} \cup
  {PublishBody(AnyId, TooLargeText), PublishBody("not_canonical", Blank.text),
   PublishBody("not_a_string", Blank.text),
   [PublishBody(AnyId, Blank.text) EXCEPT !.shape_ok = FALSE]} \cup
  {OfType(type) : type \in {"detach", "keepalive", "absent", "not_a_string",
                            "publish_ack", "chat_message", "attach_ack",
                            "error", "typing"}} \cup
  {[OfType(type) EXCEPT !.seq_ok = FALSE] :
     type \in {"publish_ack", "chat_message"}} \cup
  {[Blank EXCEPT !.json = "invalid"], [Blank EXCEPT !.json = "other"]}

DetachBodies == Attaches \cup {OfType("detach")} \cup
  {PublishBody(id, Blank.text) : id \in MsgId}

Symmetry == Permutations(Stream) \cup Permutations(MsgId)
=============================================================================
