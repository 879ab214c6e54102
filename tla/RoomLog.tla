------------------------------ MODULE RoomLog ------------------------------
(***************************************************************************)
(* What the hub promises its rooms, without tickets, sequence counters,    *)
(* ledgers or fan-out work lists.  Each room is an append-only log of      *)
(* lines, no line twice.  A reader that joins a room receives, each at     *)
(* most once and in any order, the lines other readers add from then on:   *)
(* never its own, never a line of another room, never an older one.        *)
(***************************************************************************)
EXTENDS Naturals, Sequences, SequencesExt

CONSTANTS Room, Line, Reader, MaxLength

VARIABLES
  log,      \* the lines of each room, in order
  room,     \* the rooms each reader is in: none or one
  from,     \* the length of the log when the reader joined
  own,      \* the lines the reader itself added since
  got       \* the positions the reader has received, in order of receipt

vars == <<log, room, from, own, got>>

Init ==
  /\ log = [r \in Room |-> <<>>]
  /\ room = [c \in Reader |-> {}]
  /\ from = [c \in Reader |-> 0]
  /\ own = [c \in Reader |-> {}]
  /\ got = [c \in Reader |-> <<>>]

Join(c, r) ==
  /\ room[c] = {}
  /\ room' = [room EXCEPT ![c] = {r}]
  /\ from' = [from EXCEPT ![c] = Len(log[r])]
  /\ UNCHANGED <<log, own, got>>

Leave(c) ==
  /\ room[c] # {}
  /\ room' = [room EXCEPT ![c] = {}]
  /\ from' = [from EXCEPT ![c] = 0]
  /\ own' = [own EXCEPT ![c] = {}]
  /\ got' = [got EXCEPT ![c] = <<>>]
  /\ UNCHANGED log

Append1(c, r, line) ==
  /\ room[c] = {r}
  /\ line \notin ToSet(log[r])
  /\ Len(log[r]) < MaxLength
  /\ log' = [log EXCEPT ![r] = Append(@, line)]
  /\ own' = [own EXCEPT ![c] = @ \cup {line}]
  /\ UNCHANGED <<room, from, got>>

Receive(c, r, i) ==
  /\ room[c] = {r}
  /\ i \in (from[c] + 1)..Len(log[r])
  /\ i \notin ToSet(got[c])
  /\ log[r][i] \notin own[c]
  /\ got' = [got EXCEPT ![c] = Append(@, i)]
  /\ UNCHANGED <<log, room, from, own>>

Next ==
  \E c \in Reader :
    \/ Leave(c)
    \/ \E r \in Room :
         \/ Join(c, r)
         \/ \E line \in Line : Append1(c, r, line)
         \/ \E i \in 1..MaxLength : Receive(c, r, i)

Spec == Init /\ [][Next]_vars
=============================================================================
