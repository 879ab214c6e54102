------------------------ MODULE ContentView_proofs ------------------------
(***************************************************************************)
(* Theorems about ContentView, for any number of chats started, texts sent *)
(* and messages, and any capacity of the channel.                          *)
(***************************************************************************)
EXTENDS ContentView, FiniteSetTheorems, SequenceTheorems, TLAPS

---------------------------------------------------------------------------
(* The inductive invariant.                                                *)

\* A call is under way only while its task awaits it, and there is a number
\* left for every message a send under way may still put.
Ops == {"idle", "spawned", "open", "join", "send", "echo"}

StartsInv ==
  /\ Len(starts) <= MaxStarts
  /\ \A s \in 1..MaxStarts : calls[StartCall(s)] # "idle" => StartIs(s, "awaiting")

SendsInv ==
  /\ Len(sends) <= MaxSends
  /\ \A u \in 1..MaxSends : calls[SendCall(u)] # "idle" => SendIs(u, "awaiting")
  /\ count + Cardinality(UnderWay) <= MaxMessages

CallInv ==
  /\ calls \in [Port!Task -> Ops]
  /\ StartsInv
  /\ SendsInv

\* The life of a receiver loop: it is made when its start is done, it holds
\* a message only while it appends, it stands in the line of the channel
\* while it waits, and it ends at the first look after its late message.
Life(start) ==
  /\ start.phase # "done" => start.receiver = "none"
  /\ start.receiver = "appending" <=> start.hand # 0
  /\ start.late > 0 => start.isCancelled /\ start.receiver \in {"ready", "ended"}
  /\ start.late <= 1

InLine(s) == \E i \in DOMAIN waiting : waiting[i] = s

LoopInv ==
  /\ \A s \in DOMAIN starts : /\ Life(starts[s])
                              /\ starts[s].receiver = "waiting" => InLine(s)
  /\ OneReceiver

\* Every message is in one place, and the channel holds the last of them in
\* order.
PlaceInv ==
  /\ Len(channel) <= count
  /\ \A i \in DOMAIN channel : channel[i] = count - Len(channel) + i
  /\ Held \cup Shown \cup cleared = 1..(count - Len(channel))
  /\ Held \cap Shown = {} /\ Held \cap cleared = {} /\ Shown \cap cleared = {}
  /\ \A s, t \in DOMAIN starts :
       starts[s].hand = starts[t].hand /\ starts[s].hand # 0 => s = t
  /\ \A i, j \in DOMAIN messages : messages[i].n = messages[j].n => i = j

\* What the loop that is not cancelled holds belongs behind everything in the
\* list that is not a late message.
OrderInv ==
  /\ \A i \in DOMAIN messages : messages[i].by \in DOMAIN starts
  /\ ListInOrder
  /\ \A s \in DOMAIN starts : ~starts[s].isCancelled /\ starts[s].hand # 0 =>
       \A i \in DOMAIN messages :
         starts[messages[i].by].late = 0 => messages[i].n < starts[s].hand

ViewInv == TypeOK /\ CallInv /\ LoopInv /\ PlaceInv /\ OrderInv

---------------------------------------------------------------------------
(* The tasks and the starts.                                               *)

\* The tasks of the starts, of the sends and of the opens are different ones.
LEMMA Tasks ==
  /\ \A s \in 1..MaxStarts : StartCall(s) \in Port!Task /\ Finish(s) \in Port!Task
  /\ \A u \in 1..MaxSends : SendCall(u) \in Port!Task
  /\ \A s, t : StartCall(s) # SendCall(t) /\ StartCall(s) # Finish(t)
               /\ SendCall(s) # Finish(t)
  /\ \A s, t : StartCall(s) = StartCall(t) => s = t
  /\ \A s, t : SendCall(s) = SendCall(t) => s = t
<1>1. /\ \A s \in 1..MaxStarts : StartCall(s) \in Port!Task /\ Finish(s) \in Port!Task
      /\ \A u \in 1..MaxSends : SendCall(u) \in Port!Task
  BY DEF Port!Task, Calls
<1>2. /\ \A s, t : StartCall(s) # SendCall(t) /\ StartCall(s) # Finish(t)
                   /\ SendCall(s) # Finish(t)
      /\ \A s, t : StartCall(s) = StartCall(t) => s = t
      /\ \A s, t : SendCall(s) = SendCall(t) => s = t
  BY DEF StartCall, SendCall, Finish
<1> QED
  BY <1>1, <1>2

\* One start is another one now.
LEMMA EditStart ==
  ASSUME NEW all \in Seq(Start), NEW s \in DOMAIN all, NEW new \in Start
  PROVE  LET edited == [all EXCEPT ![s] = new]
         IN  /\ edited \in Seq(Start)
             /\ Len(edited) = Len(all) /\ DOMAIN edited = DOMAIN all
             /\ edited[s] = new
             /\ \A t \in DOMAIN all : t # s => edited[t] = all[t]
  OBVIOUS

\* Cancelling sets a flag of one start.
LEMMA CancelStart ==
  ASSUME NEW all \in Seq(Start)
  PROVE  LET new == CancelReceiver(all)
         IN  /\ new \in Seq(Start)
             /\ Len(new) = Len(all) /\ DOMAIN new = DOMAIN all
             /\ \A t \in DOMAIN all :
                  /\ t # receiverTask => new[t] = all[t]
                  /\ t = receiverTask => new[t] = [all[t] EXCEPT !.isCancelled = TRUE]
<1> DEFINE at(t) == IF t = receiverTask THEN [all[t] EXCEPT !.isCancelled = TRUE]
                    ELSE all[t]
<1>1. DOMAIN all = 1..Len(all) /\ Len(all) \in Nat
  OBVIOUS
<1>2. \A t \in 1..Len(all) : all[t] \in Start
  OBVIOUS
<1>6. \A r \in Start : [r EXCEPT !.isCancelled = TRUE] \in Start
  BY DEF Start
<1>3. \A t \in 1..Len(all) : at(t) \in Start
  BY <1>2, <1>6
<1>4. CancelReceiver(all) = [t \in 1..Len(all) |-> at(t)]
  BY <1>1 DEF CancelReceiver
<1> HIDE DEF at
<1>5. [t \in 1..Len(all) |-> at(t)] \in Seq(Start) /\ Len([t \in 1..Len(all) |-> at(t)]) = Len(all)
  BY <1>1, <1>3
<1> QED
  BY <1>1, <1>4, <1>5 DEF at

\* A step that only edits start s: phase, receiver, hand and late of it are
\* what the step says.
Edited(s, new) ==
  /\ s \in DOMAIN starts
  /\ new \in Start
  /\ starts' \in Seq(Start)
  /\ Len(starts') = Len(starts) /\ DOMAIN starts' = DOMAIN starts
  /\ starts'[s] = new
  /\ \A t \in DOMAIN starts : t # s => starts'[t] = starts[t]

\* A step that cancels the receiver loop there is.
Cancelled(s, new) ==
  /\ s \in DOMAIN starts
  /\ new \in Start
  /\ starts' \in Seq(Start)
  /\ Len(starts') = Len(starts) /\ DOMAIN starts' = DOMAIN starts
  /\ starts'[s] = new
  /\ \A t \in DOMAIN starts : t # s =>
       /\ t # receiverTask => starts'[t] = starts[t]
       /\ t = receiverTask => starts'[t] = [starts[t] EXCEPT !.isCancelled = TRUE]

Phase(s, phase) == [starts[s] EXCEPT !.phase = phase]

\* What the actions that edit one start make of it.
LEMMA Edits ==
  ASSUME TypeOK, NEW s \in 1..MaxStarts
  PROVE  /\ StartCalls(s) => Edited(s, Phase(s, "awaiting"))
         /\ CallInv /\ StartReturned(s) =>
              Edited(s, Phase(s, "ok")) \/ Edited(s, Phase(s, "failed"))
         /\ StartFails(s) => Edited(s, Phase(s, "done"))
         /\ LoopChecks(s) =>
              Edited(s, [starts[s] EXCEPT !.receiver =
                           IF starts[s].isCancelled THEN "ended" ELSE "calling"])
         /\ LoopAsks(s) => Edited(s, [starts[s] EXCEPT !.receiver = "waiting"])
         /\ LoopReceives(s) =>
              Edited(s, [starts[s] EXCEPT !.receiver = "appending",
                                          !.hand = Head(channel)])
         /\ LoopAppends(s) =>
              Edited(s, [starts[s] EXCEPT !.receiver = "ready", !.hand = 0,
                           !.late = @ + (IF starts[s].isCancelled THEN 1 ELSE 0)])
<1> DEFINE E(new) == /\ s \in DOMAIN starts
                     /\ new \in Start
                     /\ starts' = [starts EXCEPT ![s] = new]
<1>1. starts \in Seq(Start) /\ \A t \in DOMAIN starts : starts[t] \in Start
  BY DEF TypeOK
<1>2. ASSUME NEW new, E(new) PROVE Edited(s, new)
  BY <1>1, <1>2, EditStart DEF Edited
<1>3. StartCalls(s) => E(Phase(s, "awaiting"))
  BY <1>1 DEF StartCalls, StartIs, SetStart, Phase, Start
<1>4. CallInv /\ StartReturned(s) => E(Phase(s, "ok")) \/ E(Phase(s, "failed"))
  <2> SUFFICES ASSUME CallInv, StartReturned(s)
               PROVE  E(Phase(s, "ok")) \/ E(Phase(s, "failed"))
    OBVIOUS
  <2>1. calls[StartCall(s)] # "idle"
    BY DEF StartReturned, Port!OpenReturns, Port!JoinReturns, Port!Returns
  <2>2. s \in DOMAIN starts
    BY <2>1 DEF CallInv, StartsInv, StartIs
  <2>3. SetStart(s, "ok") \/ SetStart(s, "failed")
    BY DEF StartReturned
  <2> QED
    BY <1>1, <2>2, <2>3 DEF SetStart, Phase, Start
<1>5. StartFails(s) => E(Phase(s, "done"))
  BY <1>1 DEF StartFails, StartIs, SetStart, Phase, Start
<1>6. LoopChecks(s) => E([starts[s] EXCEPT !.receiver =
                           IF starts[s].isCancelled THEN "ended" ELSE "calling"])
  BY <1>1 DEF LoopChecks, Loop, Start
<1>7. LoopAsks(s) => E([starts[s] EXCEPT !.receiver = "waiting"])
  BY <1>1 DEF LoopAsks, Loop, Start
<1>8. LoopReceives(s) => E([starts[s] EXCEPT !.receiver = "appending",
                                          !.hand = Head(channel)])
  <2> SUFFICES ASSUME LoopReceives(s)
               PROVE  E([starts[s] EXCEPT !.receiver = "appending",
                                          !.hand = Head(channel)])
    OBVIOUS
  <2>1. channel \in Seq(1..MaxMessages) /\ channel # <<>> /\ MaxMessages \in Nat
    BY ViewAssumption DEF TypeOK, LoopReceives, Port!NextMessage
  <2>2. Head(channel) \in 0..MaxMessages
    BY <2>1
  <2> QED
    BY <1>1, <2>2 DEF LoopReceives, Loop, Start
<1>9. LoopAppends(s) => E([starts[s] EXCEPT !.receiver = "ready", !.hand = 0,
                           !.late = @ + (IF starts[s].isCancelled THEN 1 ELSE 0)])
  <2> SUFFICES ASSUME LoopAppends(s)
               PROVE  E([starts[s] EXCEPT !.receiver = "ready", !.hand = 0,
                           !.late = @ + (IF starts[s].isCancelled THEN 1 ELSE 0)])
    OBVIOUS
  <2> DEFINE more == IF starts[s].isCancelled THEN 1 ELSE 0
  <2>1. s \in DOMAIN starts /\ starts[s] \in Start
    BY <1>1 DEF LoopAppends, Loop
  <2>2. starts[s].late + more \in Nat /\ 0 \in 0..MaxMessages
    BY <2>1, ViewAssumption DEF Start
  <2>3. starts' = [starts EXCEPT ![s] =
                     [starts[s] EXCEPT !.receiver = "ready", !.hand = 0, !.late = @ + more]]
    BY <2>1 DEF LoopAppends
  <2> HIDE DEF more
  <2>4. [starts[s] EXCEPT !.receiver = "ready", !.hand = 0, !.late = @ + more] \in Start
    BY <2>1, <2>2 DEF Start
  <2> QED
    BY <2>1, <2>3, <2>4 DEF more
<1> HIDE DEF E
<1> QED
  BY <1>2, <1>3, <1>4, <1>5, <1>6, <1>7, <1>8, <1>9

\* What the actions that cancel the loop there is make of a start.
LEMMA Cancels ==
  ASSUME TypeOK, NEW s \in 1..MaxStarts
  PROVE  /\ RunStart(s) =>
              Cancelled(s, [CancelReceiver(starts)[s] EXCEPT !.phase = "calling"])
         /\ StartSucceeds(s) =>
              Cancelled(s, [CancelReceiver(starts)[s] EXCEPT !.phase = "done",
                                                            !.receiver = "ready"])
<1> DEFINE all == CancelReceiver(starts)
<1>1. starts \in Seq(Start)
  BY DEF TypeOK
<1>2. all \in Seq(Start) /\ DOMAIN all = DOMAIN starts /\ Len(all) = Len(starts)
  BY <1>1, CancelStart
<1>3. \A t \in DOMAIN all : all[t] \in Start
  BY <1>2
<1>4. \A r \in Start : /\ [r EXCEPT !.phase = "calling"] \in Start
                       /\ [r EXCEPT !.phase = "done", !.receiver = "ready"] \in Start
  BY DEF Start
<1>5. ASSUME NEW new \in Start, s \in DOMAIN starts, starts' = [all EXCEPT ![s] = new]
      PROVE  Cancelled(s, new)
  <2>1. /\ starts' \in Seq(Start) /\ starts'[s] = new
        /\ Len(starts') = Len(all) /\ DOMAIN starts' = DOMAIN all
        /\ \A t \in DOMAIN all : t # s => starts'[t] = all[t]
    BY <1>2, <1>5, EditStart
  <2>2. \A t \in DOMAIN starts :
          /\ t # receiverTask => all[t] = starts[t]
          /\ t = receiverTask => all[t] = [starts[t] EXCEPT !.isCancelled = TRUE]
    BY <1>1, CancelStart
  <2> HIDE DEF all
  <2> QED
    BY <1>2, <1>5, <2>1, <2>2 DEF Cancelled
<1> DEFINE run == [all[s] EXCEPT !.phase = "calling"]
           ok == [all[s] EXCEPT !.phase = "done", !.receiver = "ready"]
<1>6. RunStart(s) => s \in DOMAIN starts /\ starts' = [all EXCEPT ![s] = run]
  BY DEF RunStart, StartIs
<1>7. StartSucceeds(s) => s \in DOMAIN starts /\ starts' = [all EXCEPT ![s] = ok]
  BY DEF StartSucceeds, StartIs
<1>8. s \in DOMAIN starts => run \in Start /\ ok \in Start
  BY <1>2, <1>3, <1>4
<1> QED
  BY <1>5, <1>6, <1>7, <1>8

\* A start that is tapped comes behind the others.
Added(mode) ==
  LET new == [mode |-> mode, phase |-> "tapped", receiver |-> "none",
              isCancelled |-> FALSE, hand |-> 0, late |-> 0]
  IN  /\ new \in Start
      /\ Len(starts) \in Nat /\ Len(starts) < MaxStarts
      /\ starts' \in Seq(Start) /\ Len(starts') = Len(starts) + 1
      /\ DOMAIN starts' = DOMAIN starts \cup {Len(starts) + 1}
      /\ Len(starts) + 1 \notin DOMAIN starts
      /\ starts'[Len(starts) + 1] = new
      /\ \A t \in DOMAIN starts : starts'[t] = starts[t]

\* A tap of start or join appends a start that has no receiver yet.
LEMMA Adds ==
  ASSUME TypeOK, NEW mode \in {"open", "join"}, NewStart(mode)
  PROVE  Added(mode)
<1> DEFINE new == [mode |-> mode, phase |-> "tapped", receiver |-> "none",
                   isCancelled |-> FALSE, hand |-> 0, late |-> 0]
<1>1. new \in Start
  BY ViewAssumption DEF Start
<1>2. starts \in Seq(Start) /\ starts' = Append(starts, new) /\ Len(starts) < MaxStarts
  BY DEF NewStart, TypeOK
<1> HIDE DEF new
<1>3. /\ Len(starts) \in Nat
      /\ starts' \in Seq(Start) /\ Len(starts') = Len(starts) + 1
      /\ DOMAIN starts' = DOMAIN starts \cup {Len(starts) + 1}
      /\ Len(starts) + 1 \notin DOMAIN starts
      /\ starts'[Len(starts) + 1] = new
      /\ \A t \in DOMAIN starts : starts'[t] = starts[t]
  BY <1>1, <1>2
<1> QED
  BY <1>1, <1>2, <1>3 DEF Added, new

\* What the app does with no start at all.
Idle ==
  \/ TapJoin \/ CancelJoin \/ Type \/ TapSend \/ LineArrives
  \/ \E u \in 1..MaxSends : sendMessage(u)
  \/ \E s \in 1..MaxStarts : Finishes(s)
  \/ UNCHANGED vars

\* Every step is one of these.
LEMMA NextKinds ==
  ASSUME [Next]_vars
  PROVE  \/ Idle \/ TapStart \/ SubmitJoin \/ leaveChat
         \/ \E s \in 1..MaxStarts : startChat(s) \/ ReceiverLoop(s)
  BY DEF Next, Taps, Idle

\* The idle steps leave the starts, their loops and the list alone.
LEMMA IdleKeeps ==
  ASSUME Idle
  PROVE  UNCHANGED <<starts, receiverTask, waiting, messages, cleared>>
<1>1. CASE TapJoin \/ CancelJoin \/ Type \/ TapSend \/ LineArrives
  BY <1>1 DEF TapJoin, CancelJoin, DismissSheet, Type, TapSend, LineArrives
<1>2. ASSUME NEW u \in 1..MaxSends, sendMessage(u)
      PROVE  UNCHANGED <<starts, receiverTask, waiting, messages, cleared>>
  BY <1>2 DEF sendMessage, RunSend, SendCalls, SendBroadcasts, SendReturned, SendEnds
<1>3. ASSUME NEW s \in 1..MaxStarts, Finishes(s)
      PROVE  UNCHANGED <<starts, receiverTask, waiting, messages, cleared>>
  BY <1>3 DEF Finishes
<1>4. CASE UNCHANGED vars
  BY <1>4 DEF vars
<1> QED
  BY <1>1, <1>2, <1>3, <1>4 DEF Idle

---------------------------------------------------------------------------
(* The receiver loops.                                                     *)

\* What a step makes of a start keeps the course of its life.
LEMMA Lives ==
  ASSUME NEW r \in Start, Life(r)
  PROVE  /\ Life([r EXCEPT !.isCancelled = TRUE])
         /\ r.phase # "done" =>
              \A p : p # "done" => Life([r EXCEPT !.phase = p])
         /\ r.phase = "failed" => Life([r EXCEPT !.phase = "done"])
         /\ r.phase = "ok" => Life([r EXCEPT !.phase = "done", !.receiver = "ready"])
         /\ r.receiver = "ready" =>
              Life([r EXCEPT !.receiver = IF r.isCancelled THEN "ended" ELSE "calling"])
         /\ r.receiver = "calling" => Life([r EXCEPT !.receiver = "waiting"])
         /\ r.receiver = "waiting" => \A n : n # 0 =>
              Life([r EXCEPT !.receiver = "appending", !.hand = n])
         /\ r.receiver = "appending" =>
              Life([r EXCEPT !.receiver = "ready", !.hand = 0,
                             !.late = @ + (IF r.isCancelled THEN 1 ELSE 0)])
<1> USE DEF Life, Start
<1>1. Life([r EXCEPT !.isCancelled = TRUE])
  OBVIOUS
<1>2. r.phase # "done" => \A p : p # "done" => Life([r EXCEPT !.phase = p])
  OBVIOUS
<1>3. /\ r.phase = "failed" => Life([r EXCEPT !.phase = "done"])
      /\ r.phase = "ok" => Life([r EXCEPT !.phase = "done", !.receiver = "ready"])
  OBVIOUS
<1>4. r.receiver = "ready" =>
        Life([r EXCEPT !.receiver = IF r.isCancelled THEN "ended" ELSE "calling"])
  BY Zenon, SMTT(20)
<1>5. r.receiver = "calling" => Life([r EXCEPT !.receiver = "waiting"])
  OBVIOUS
<1>6. r.receiver = "waiting" => \A n : n # 0 =>
        Life([r EXCEPT !.receiver = "appending", !.hand = n])
  OBVIOUS
<1>7. ASSUME r.receiver = "appending"
      PROVE  Life([r EXCEPT !.receiver = "ready", !.hand = 0,
                            !.late = @ + (IF r.isCancelled THEN 1 ELSE 0)])
  <2>1. r.late = 0
    BY <1>7
  <2>2. CASE r.isCancelled
    BY <1>7, <2>1, <2>2
  <2>3. CASE ~r.isCancelled
    BY <1>7, <2>1, <2>3
  <2> QED
    BY <2>2, <2>3
<1> QED
  BY <1>1, <1>2, <1>3, <1>4, <1>5, <1>6, <1>7 DEF Life

\* A step that edits start s and leaves the others to wait where they do.
LEMMA EditLoops ==
  ASSUME TypeOK, LoopInv, NEW s, NEW new,
         Edited(s, new), Life(new), UNCHANGED receiverTask,
         new.receiver = "waiting" => InLine(s)',
         \A t \in DOMAIN starts \ {s} : InLine(t) => InLine(t)',
         new.isCancelled = starts[s].isCancelled,
         starts[s].receiver = "none" => new.receiver = "none"
  PROVE  LoopInv'
  BY DEF LoopInv, OneReceiver, Edited

\* After a step that cancels the loop there is, only start s may have one
\* that is not cancelled.
LEMMA CancelLoops ==
  ASSUME TypeOK, LoopInv, NEW s, NEW new,
         Cancelled(s, new), Life(new), new.receiver # "waiting",
         UNCHANGED waiting,
         new.receiver # "none" => receiverTask' = s
  PROVE  LoopInv'
<1>1. \A t \in DOMAIN starts : t # s =>
        /\ Life(starts'[t])
        /\ starts'[t].receiver = starts[t].receiver
        /\ starts'[t].receiver # "none" => starts'[t].isCancelled
  <2> SUFFICES ASSUME NEW t \in DOMAIN starts, t # s
               PROVE  /\ Life(starts'[t])
                      /\ starts'[t].receiver = starts[t].receiver
                      /\ starts'[t].receiver # "none" => starts'[t].isCancelled
    OBVIOUS
  <2>1. starts[t] \in Start /\ Life(starts[t])
    BY DEF TypeOK, LoopInv
  <2>2. CASE t = receiverTask
    <3>1. starts'[t] = [starts[t] EXCEPT !.isCancelled = TRUE]
      BY <2>2 DEF Cancelled
    <3> QED
      BY <2>1, <3>1, Lives DEF Start
  <2>3. CASE t # receiverTask
    <3>1. starts'[t] = starts[t]
      BY <2>3 DEF Cancelled
    <3> QED
      BY <2>1, <2>3, <3>1 DEF LoopInv, OneReceiver
  <2> QED
    BY <2>2, <2>3
<1>2. \A t \in DOMAIN starts : InLine(t)' <=> InLine(t)
  BY DEF InLine
<1> QED
  BY <1>1, <1>2 DEF LoopInv, OneReceiver, Cancelled

\* A new start has no loop yet.
LEMMA AddLoops ==
  ASSUME TypeOK, LoopInv, NEW mode, Added(mode), UNCHANGED <<receiverTask, waiting>>
  PROVE  LoopInv'
<1>1. \A t \in DOMAIN starts : InLine(t)' <=> InLine(t)
  BY DEF InLine
<1> QED
  BY <1>1 DEF LoopInv, OneReceiver, Added, Life

\* A start that is done makes the one receiver loop that is not cancelled
\* (startChat cancels the receiver task there was).
LEMMA StartLoops ==
  ASSUME TypeOK, CallInv, LoopInv, NEW s \in 1..MaxStarts, startChat(s)
  PROVE  LoopInv'
<1>1. s \in DOMAIN starts => starts[s] \in Start /\ Life(starts[s])
  BY DEF TypeOK, LoopInv
<1> DEFINE all == CancelReceiver(starts)
<1>2. s \in DOMAIN starts =>
        /\ all[s] \in Start /\ Life(all[s])
        /\ all[s].phase = starts[s].phase /\ all[s].receiver = starts[s].receiver
  <2> SUFFICES ASSUME s \in DOMAIN starts
               PROVE  /\ all[s] \in Start /\ Life(all[s])
                      /\ all[s].phase = starts[s].phase
                      /\ all[s].receiver = starts[s].receiver
    OBVIOUS
  <2>1. /\ s # receiverTask => all[s] = starts[s]
        /\ s = receiverTask => all[s] = [starts[s] EXCEPT !.isCancelled = TRUE]
    BY CancelStart DEF TypeOK
  <2> HIDE DEF all
  <2>2. Life([starts[s] EXCEPT !.isCancelled = TRUE])
    BY <1>1, Lives
  <2> QED
    BY <1>1, <2>1, <2>2 DEF Start
<1> HIDE DEF all
<1>3. \A t \in DOMAIN starts : UNCHANGED waiting => (InLine(t) => InLine(t)')
  BY DEF InLine
<1>4. CASE RunStart(s)
  <2> DEFINE new == [all[s] EXCEPT !.phase = "calling"]
  <2>1. Cancelled(s, new)
    BY <1>4, Cancels DEF all
  <2>2. s \in DOMAIN starts /\ starts[s].phase = "tapped"
    BY <1>4 DEF RunStart, StartIs
  <2>3. Life(new)
    BY <1>2, <2>2, Lives
  <2>4. new.receiver = "none"
    BY <1>1, <1>2, <2>2 DEF Life, Start
  <2> HIDE DEF new
  <2> QED
    BY <1>4, <2>1, <2>3, <2>4, CancelLoops DEF RunStart
<1>5. CASE StartSucceeds(s)
  <2> DEFINE new == [all[s] EXCEPT !.phase = "done", !.receiver = "ready"]
  <2>1. Cancelled(s, new)
    BY <1>5, Cancels DEF all
  <2>2. s \in DOMAIN starts /\ starts[s].phase = "ok"
    BY <1>5 DEF StartSucceeds, StartIs
  <2>3. Life(new)
    BY <1>2, <2>2, Lives
  <2>4. new.receiver = "ready"
    BY <1>2, <2>2 DEF Start
  <2> HIDE DEF new
  <2> QED
    BY <1>5, <2>1, <2>3, <2>4, CancelLoops DEF StartSucceeds
<1>6. ASSUME NEW p, Edited(s, Phase(s, p)), s \in DOMAIN starts,
             \/ starts[s].phase # "done" /\ p # "done"
             \/ starts[s].phase = "failed" /\ p = "done",
             UNCHANGED <<receiverTask, waiting>>
      PROVE  LoopInv'
  <2>1. Life(Phase(s, p))
    BY <1>1, <1>6, Lives DEF Phase
  <2>2. /\ Phase(s, p).receiver = starts[s].receiver
        /\ Phase(s, p).isCancelled = starts[s].isCancelled
        /\ starts[s].receiver = "none"
    BY <1>1, <1>6 DEF Phase, Start, Life
  <2> QED
    BY <1>3, <1>6, <2>1, <2>2, EditLoops
<1>7. CASE StartCalls(s)
  BY <1>6, <1>7, Edits DEF StartCalls, StartIs
<1>8. CASE StartReturned(s)
  <2>1. calls[StartCall(s)] # "idle"
    BY <1>8 DEF StartReturned, Port!OpenReturns, Port!JoinReturns, Port!Returns
  <2>2. s \in DOMAIN starts /\ starts[s].phase = "awaiting"
    BY <2>1 DEF CallInv, StartsInv, StartIs
  <2> QED
    BY <1>6, <1>8, <2>2, Edits DEF StartReturned
<1>9. CASE StartFails(s)
  BY <1>6, <1>9, Edits DEF StartFails, StartIs
<1> QED
  BY <1>4, <1>5, <1>7, <1>8, <1>9 DEF startChat

\* A step of a receiver loop keeps the life of the loops.
LEMMA ReceiverLoops ==
  ASSUME TypeOK, LoopInv, NEW s \in 1..MaxStarts, ReceiverLoop(s)
  PROVE  LoopInv'
<1>1. /\ s \in DOMAIN starts => starts[s] \in Start /\ Life(starts[s])
      /\ starts \in Seq(Start)
  BY DEF TypeOK, LoopInv
<1>2. \A t \in DOMAIN starts : UNCHANGED waiting => (InLine(t) => InLine(t)')
  BY DEF InLine
<1>3. CASE LoopChecks(s)
  <2> DEFINE new == [starts[s] EXCEPT !.receiver =
                       IF starts[s].isCancelled THEN "ended" ELSE "calling"]
  <2>1. Edited(s, new)
    BY <1>3, Edits
  <2>2. s \in DOMAIN starts /\ starts[s].receiver = "ready"
    BY <1>3 DEF LoopChecks, Loop
  <2>3. Life(new)
    BY <1>1, <2>2, Lives
  <2>4. new.receiver \in {"ended", "calling"} /\ new.isCancelled = starts[s].isCancelled
    BY <1>1, <2>2 DEF Start
  <2> HIDE DEF new
  <2> QED
    BY <1>2, <1>3, <2>1, <2>2, <2>3, <2>4, EditLoops DEF LoopChecks
<1>4. CASE LoopAsks(s)
  <2> DEFINE new == [starts[s] EXCEPT !.receiver = "waiting"]
  <2>1. Edited(s, new)
    BY <1>4, Edits
  <2>2. s \in DOMAIN starts /\ starts[s].receiver = "calling"
    BY <1>4 DEF LoopAsks, Loop
  <2>3. Life(new)
    BY <1>1, <2>2, Lives
  <2>4. new.receiver = "waiting" /\ new.isCancelled = starts[s].isCancelled
    BY <1>1, <2>2 DEF Start
  <2>5. InLine(s)' /\ \A t : InLine(t) => InLine(t)'
    <3>1. waiting' = Append(waiting, s) /\ waiting \in Seq(1..MaxStarts)
      BY <1>4 DEF LoopAsks, TypeOK
    <3>2. /\ DOMAIN waiting' = DOMAIN waiting \cup {Len(waiting) + 1}
          /\ waiting'[Len(waiting) + 1] = s
          /\ \A i \in DOMAIN waiting : waiting'[i] = waiting[i]
      BY <3>1
    <3> QED
      BY <3>2 DEF InLine
  <2> HIDE DEF new
  <2> QED
    BY <1>4, <2>1, <2>2, <2>3, <2>4, <2>5, EditLoops DEF LoopAsks
<1>5. CASE LoopReceives(s)
  <2> DEFINE new == [starts[s] EXCEPT !.receiver = "appending", !.hand = Head(channel)]
  <2>1. Edited(s, new)
    BY <1>5, Edits
  <2>2. s \in DOMAIN starts /\ starts[s].receiver = "waiting" /\ InLine(s)
    BY <1>5 DEF LoopReceives, Loop, LoopInv
  <2>3. Head(channel) # 0
    <3>1. channel \in Seq(1..MaxMessages) /\ channel # <<>> /\ MaxMessages \in Nat
      BY <1>5, ViewAssumption DEF TypeOK, LoopReceives, Port!NextMessage
    <3>2. Head(channel) \in 1..MaxMessages
      BY <3>1
    <3> QED
      BY <3>1, <3>2
  <2>4. Life(new)
    BY <1>1, <2>2, <2>3, Lives
  <2>5. new.receiver = "appending" /\ new.isCancelled = starts[s].isCancelled
    BY <1>1, <2>2 DEF Start
  <2>6. \A t : t # s /\ InLine(t) => InLine(t)'
    <3>1. waiting' = Tail(waiting) /\ waiting \in Seq(1..MaxStarts)
          /\ Head(waiting) = s
      BY <1>5 DEF LoopReceives, TypeOK
    <3>2. waiting # <<>>
      BY <2>2, <3>1 DEF InLine
    <3>3. /\ waiting[1] = s
          /\ \A i \in DOMAIN waiting : i # 1 =>
               i - 1 \in DOMAIN waiting' /\ waiting'[i - 1] = waiting[i]
      BY <3>1, <3>2
    <3> QED
      BY <3>3 DEF InLine
  <2> HIDE DEF new
  <2> QED
    BY <1>5, <2>1, <2>2, <2>4, <2>5, <2>6, EditLoops DEF LoopReceives
<1>6. CASE LoopAppends(s)
  <2> DEFINE new == [starts[s] EXCEPT !.receiver = "ready", !.hand = 0,
                       !.late = @ + (IF starts[s].isCancelled THEN 1 ELSE 0)]
  <2>1. Edited(s, new)
    BY <1>6, Edits
  <2>2. s \in DOMAIN starts /\ starts[s].receiver = "appending"
    BY <1>6 DEF LoopAppends, Loop
  <2>3. Life(new)
    BY <1>1, <2>2, Lives
  <2>4. new.receiver = "ready" /\ new.isCancelled = starts[s].isCancelled
    BY <1>1, <2>2 DEF Start
  <2> HIDE DEF new
  <2> QED
    BY <1>2, <1>6, <2>1, <2>2, <2>3, <2>4, EditLoops DEF LoopAppends
<1> QED
  BY <1>3, <1>4, <1>5, <1>6 DEF ReceiverLoop

\* Leaving the chat cancels the loop there is.
LEMMA LeaveLoops ==
  ASSUME TypeOK, LoopInv, leaveChat
  PROVE  LoopInv'
<1>1. starts \in Seq(Start) /\ starts' = CancelReceiver(starts) /\ UNCHANGED waiting
  BY DEF leaveChat, TypeOK
<1>2. DOMAIN starts' = DOMAIN starts
  BY <1>1, CancelStart
<1>3. \A t \in DOMAIN starts : InLine(t)' <=> InLine(t)
  BY <1>1 DEF InLine
<1>4. ASSUME NEW t \in DOMAIN starts
      PROVE  /\ Life(starts'[t])
             /\ starts'[t].receiver = starts[t].receiver
             /\ starts'[t].receiver # "none" => starts'[t].isCancelled
  <2>1. starts[t] \in Start /\ Life(starts[t])
    BY <1>1 DEF LoopInv
  <2>2. CASE t = receiverTask
    <3>1. starts'[t] = [starts[t] EXCEPT !.isCancelled = TRUE]
      BY <1>1, <2>2, CancelStart
    <3> QED
      BY <2>1, <3>1, Lives DEF Start
  <2>3. CASE t # receiverTask
    <3>1. starts'[t] = starts[t]
      BY <1>1, <2>3, CancelStart
    <3> QED
      BY <2>1, <2>3, <3>1 DEF LoopInv, OneReceiver
  <2> QED
    BY <2>2, <2>3
<1> QED
  BY <1>2, <1>3, <1>4 DEF LoopInv, OneReceiver

\* Every step keeps the life of the loops, and one receiver at most.
LEMMA NextLoops ==
  ASSUME TypeOK, CallInv, LoopInv, [Next]_vars
  PROVE  LoopInv'
<1>1. CASE Idle
  <2>1. UNCHANGED <<starts, receiverTask, waiting>>
    BY <1>1, IdleKeeps
  <2> QED
    BY <2>1 DEF LoopInv, OneReceiver, InLine
<1>2. CASE TapStart
  BY <1>2, Adds, AddLoops DEF TapStart
<1>3. CASE SubmitJoin
  BY <1>3, Adds, AddLoops DEF SubmitJoin, DismissSheet
<1> QED
  BY <1>1, <1>2, <1>3, LeaveLoops, StartLoops, ReceiverLoops, NextKinds

---------------------------------------------------------------------------
(* The calls.                                                              *)

\* One task is somewhere else in its call.
Moves(t, to) ==
  /\ calls' \in [Port!Task -> Ops]
  /\ calls'[t] = to
  /\ \A other \in Port!Task : other # t => calls'[other] = calls[other]

\* What the steps of the session do to the calls.
LEMMA CallSteps ==
  ASSUME calls \in [Port!Task -> Ops], NEW t \in Port!Task
  PROVE  /\ \A what \in {"open", "join", "send"} :
              Port!Call(t, what) => Moves(t, what) /\ calls[t] = "idle"
         /\ Port!JoinReturns(t) => Moves(t, "idle")
         /\ Port!Returns(t) => Moves(t, "idle")
         /\ \A m : Port!Echo(t, m) => Moves(t, "idle") /\ calls[t] = "echo"
         /\ Port!Broadcasts(t) => Moves(t, "echo") /\ calls[t] = "send"
         /\ Port!FinishStarts(t) => Moves(t, "join")
<1>1. ASSUME NEW to \in Ops, calls' = [calls EXCEPT ![t] = to]
      PROVE  Moves(t, to)
  BY <1>1 DEF Moves
<1>2. /\ {"idle", "open", "join", "send", "echo"} \subseteq Ops
  BY DEF Ops
<1> QED
  BY <1>1, <1>2 DEF Port!Call, Port!JoinReturns, Port!Returns, Port!Echo, Port!Broadcasts,
    Port!FinishStarts, Port!Waits, Port!Ends

\* An open returns and leaves the task f behind.
LEMMA OpenStep ==
  ASSUME calls \in [Port!Task -> Ops], NEW s \in 1..MaxStarts,
         Port!OpenReturns(StartCall(s), Finish(s))
  PROVE  /\ calls' \in [Port!Task -> Ops]
         /\ calls'[StartCall(s)] = "idle"
         /\ \A t \in Port!Task :
              t # StartCall(s) /\ t # Finish(s) => calls'[t] = calls[t]
<1>1. /\ StartCall(s) \in Port!Task /\ Finish(s) \in Port!Task
      /\ StartCall(s) # Finish(s)
  BY Tasks
<1>2. "idle" \in Ops /\ "spawned" \in Ops
  BY DEF Ops
<1>3. calls' = [calls EXCEPT ![StartCall(s)] = "idle", ![Finish(s)] = "spawned"]
  BY DEF Port!OpenReturns
<1> QED
  BY <1>1, <1>2, <1>3

\* The calls of the starts, in a step that makes no new one of them.
LEMMA StartsStill ==
  ASSUME StartsInv, Len(starts') <= MaxStarts,
         \A s \in 1..MaxStarts : calls'[StartCall(s)] = calls[StartCall(s)],
         DOMAIN starts \subseteq DOMAIN starts',
         \A s \in DOMAIN starts :
           starts[s].phase = "awaiting" => starts'[s].phase = "awaiting"
  PROVE  StartsInv'
  BY DEF StartsInv, StartIs

SendPhases == {"tapped", "calling", "awaiting", "ok", "failed", "done"}

\* The sends under way are a finite number.
LEMMA FiniteSends ==
  ASSUME NEW all \in Seq(SendPhases), NEW some \in SUBSET SendPhases
  PROVE  LET those == {u \in DOMAIN all : all[u] \in some}
         IN  IsFiniteSet(those) /\ Cardinality(those) \in Nat
<1> DEFINE those == {u \in DOMAIN all : all[u] \in some}
<1>1. DOMAIN all = 1..Len(all) /\ Len(all) \in Nat
  OBVIOUS
<1>2. those \subseteq 1..Len(all)
  BY <1>1
<1> HIDE DEF those
<1>3. IsFiniteSet(1..Len(all))
  BY <1>1, FS_Interval
<1>4. IsFiniteSet(those)
  BY <1>2, <1>3, FS_Subset
<1> QED
  BY <1>4, FS_CardinalityType DEF those

\* The sends under way can be counted.
LEMMA UnderWayFinite ==
  ASSUME TypeOK
  PROVE  IsFiniteSet(UnderWay) /\ Cardinality(UnderWay) \in Nat
<1>1. sends \in Seq(SendPhases) /\ {"tapped", "calling", "awaiting"} \in SUBSET SendPhases
  BY DEF TypeOK, SendPhases
<1> QED
  BY <1>1, FiniteSends DEF UnderWay

\* The sends and their numbers, in a step that taps none and puts nothing.
LEMMA SendsStill ==
  ASSUME TypeOK, SendsInv, Len(sends') <= MaxSends, UNCHANGED count,
         \A u \in 1..MaxSends : calls'[SendCall(u)] = calls[SendCall(u)],
         DOMAIN sends' = DOMAIN sends,
         \A u \in DOMAIN sends :
           sends[u] = "awaiting" => sends'[u] = "awaiting",
         UnderWay' \subseteq UnderWay
  PROVE  SendsInv'
<1>1. /\ IsFiniteSet(UnderWay) /\ Cardinality(UnderWay) \in Nat
      /\ count \in Nat /\ MaxMessages \in Nat
  BY UnderWayFinite, ViewAssumption DEF TypeOK
<1>2. IsFiniteSet(UnderWay') /\ Cardinality(UnderWay') <= Cardinality(UnderWay)
  BY <1>1, FS_Subset
<1>3. Cardinality(UnderWay') \in Nat
  BY <1>2, FS_CardinalityType
<1>4. count' + Cardinality(UnderWay') <= MaxMessages
  BY <1>1, <1>2, <1>3 DEF SendsInv
<1>5. \A u \in 1..MaxSends : calls'[SendCall(u)] # "idle" => SendIs(u, "awaiting")'
  BY DEF SendsInv, SendIs
<1>6. (Cardinality(UnderWay))' = Cardinality(UnderWay')
  OBVIOUS
<1> QED
  BY <1>4, <1>5, <1>6 DEF SendsInv

\* Without a step of a send, a tap of one or a line, the sends stay.
LEMMA SendsQuiet ==
  ASSUME TypeOK, SendsInv, UNCHANGED <<sends, count>>,
         \A u \in 1..MaxSends : calls'[SendCall(u)] = calls[SendCall(u)]
  PROVE  SendsInv'
<1>1. UnderWay' = UnderWay
  BY DEF UnderWay
<1>2. Len(sends') <= MaxSends /\ DOMAIN sends' = DOMAIN sends
  BY DEF SendsInv
<1> QED
  BY <1>1, <1>2, SendsStill

\* A start keeps its phase, unless it is one of those of startChat.
LEMMA StartsCalls ==
  ASSUME TypeOK, CallInv,
         \/ TapStart \/ SubmitJoin \/ leaveChat
         \/ \E s \in 1..MaxStarts : ReceiverLoop(s)
  PROVE  CallInv'
<1>1. UNCHANGED <<calls, sends, count>>
  BY DEF TapStart, SubmitJoin, DismissSheet, leaveChat, ReceiverLoop, LoopChecks, LoopAsks,
    LoopReceives, LoopAppends, Port!NextMessage, chat
<1>2. SendsInv'
  BY <1>1, SendsQuiet DEF CallInv
<1> DEFINE Same == /\ Len(starts') <= MaxStarts
                  /\ DOMAIN starts \subseteq DOMAIN starts'
                  /\ \A t \in DOMAIN starts : starts'[t].phase = starts[t].phase
<1>3. Same
  <2>1. ASSUME NEW mode \in {"open", "join"}, NewStart(mode)
        PROVE  Same
    BY <2>1, Adds, ViewAssumption DEF Added
  <2>2. CASE leaveChat
    <3>1. starts \in Seq(Start) /\ starts' = CancelReceiver(starts)
      BY <2>2 DEF leaveChat, TypeOK
    <3>2. /\ Len(starts') = Len(starts) /\ DOMAIN starts' = DOMAIN starts
          /\ \A t \in DOMAIN starts :
               /\ t # receiverTask => starts'[t] = starts[t]
               /\ t = receiverTask => starts'[t] = [starts[t] EXCEPT !.isCancelled = TRUE]
      BY <3>1, CancelStart
    <3>3. \A t \in DOMAIN starts : starts[t] \in Start
      BY <3>1
    <3>4. \A t \in DOMAIN starts : starts'[t].phase = starts[t].phase
      BY <3>2, <3>3 DEF Start
    <3> QED
      BY <3>2, <3>4 DEF CallInv, StartsInv
  <2>3. ASSUME NEW s \in 1..MaxStarts, ReceiverLoop(s)
        PROVE  Same
    <3>1. \A t \in DOMAIN starts : starts[t] \in Start
      BY DEF TypeOK
    <3>2. ASSUME NEW new, Edited(s, new), new.phase = starts[s].phase
          PROVE  Same
      BY <3>2 DEF Edited, CallInv, StartsInv
    <3>3. s \in DOMAIN starts /\ starts[s] \in Start
      BY <2>3, <3>1 DEF ReceiverLoop, LoopChecks, LoopAsks, LoopReceives, LoopAppends, Loop
    <3>4. CASE LoopChecks(s)
      BY <3>2, <3>3, <3>4, Edits DEF Start
    <3>5. CASE LoopAsks(s)
      BY <3>2, <3>3, <3>5, Edits DEF Start
    <3>6. CASE LoopReceives(s)
      BY <3>2, <3>3, <3>6, Edits DEF Start
    <3>7. CASE LoopAppends(s)
      BY <3>2, <3>3, <3>7, Edits DEF Start
    <3> QED
      BY <2>3, <3>4, <3>5, <3>6, <3>7 DEF ReceiverLoop
  <2> QED
    BY <2>1, <2>2, <2>3 DEF TapStart, SubmitJoin
<1>4. StartsInv'
  BY <1>1, <1>3, StartsStill DEF CallInv
<1> QED
  BY <1>1, <1>2, <1>4 DEF CallInv

\* What startChat does to the calls.
LEMMA ChatCalls ==
  ASSUME TypeOK, CallInv, NEW s \in 1..MaxStarts, startChat(s)
  PROVE  CallInv'
<1>1. /\ calls \in [Port!Task -> Ops] /\ StartsInv /\ SendsInv
      /\ \A t \in DOMAIN starts : starts[t] \in Start
      /\ UNCHANGED <<sends, count>>
  BY DEF CallInv, TypeOK, startChat, RunStart, StartCalls, StartReturned, StartSucceeds,
    StartFails
<1>2. /\ StartCall(s) \in Port!Task
      /\ \A u \in 1..MaxSends : SendCall(u) \in Port!Task /\ SendCall(u) # StartCall(s)
           /\ SendCall(u) # Finish(s)
      /\ \A t \in 1..MaxStarts : StartCall(t) \in Port!Task /\ StartCall(t) # Finish(s)
           /\ (t # s => StartCall(t) # StartCall(s))
  BY Tasks
<1>3. ASSUME calls' \in [Port!Task -> Ops],
             \A u \in 1..MaxSends : calls'[SendCall(u)] = calls[SendCall(u)], StartsInv'
      PROVE  CallInv'
  BY <1>1, <1>3, SendsQuiet DEF CallInv
<1>4. CASE RunStart(s) \/ StartSucceeds(s)
  <2>1. UNCHANGED calls
    BY <1>4 DEF RunStart, StartSucceeds, chat
  <2>2. PICK new : Cancelled(s, new)
    BY <1>4, Cancels
  <2>3. starts[s].phase # "awaiting"
    BY <1>4 DEF RunStart, StartSucceeds, StartIs
  <2>4. \A t \in DOMAIN starts : t # s => starts'[t].phase = starts[t].phase
    BY <1>1, <2>2 DEF Cancelled, Start
  <2>6. Len(starts') = Len(starts) /\ DOMAIN starts' = DOMAIN starts
    BY <2>2 DEF Cancelled
  <2>5. StartsInv'
    BY <1>1, <2>1, <2>3, <2>4, <2>6 DEF StartsInv, StartIs
  <2> QED
    BY <1>1, <1>3, <2>1, <2>5
<1>5. CASE StartCalls(s)
  <2>1. Moves(StartCall(s), starts[s].mode) /\ Edited(s, Phase(s, "awaiting"))
    <3>1. s \in DOMAIN starts /\ starts[s].mode \in {"open", "join"}
      BY <1>1, <1>5 DEF StartCalls, StartIs, Start
    <3> QED
      BY <1>1, <1>2, <1>5, <3>1, CallSteps, Edits DEF StartCalls
  <2>2. \A t \in DOMAIN starts : t # s => starts'[t] = starts[t]
    BY <2>1 DEF Edited
  <2>3. s \in DOMAIN starts' /\ starts'[s].phase = "awaiting"
    BY <1>1, <2>1 DEF Edited, Phase, Start
  <2>4. \A t \in 1..MaxStarts : t # s => calls'[StartCall(t)] = calls[StartCall(t)]
    BY <1>2, <2>1 DEF Moves
  <2>5. StartsInv'
    BY <1>1, <2>1, <2>2, <2>3, <2>4 DEF StartsInv, StartIs, Edited
  <2> QED
    BY <1>2, <1>3, <2>1, <2>5 DEF Moves
<1>6. CASE StartReturned(s)
  <2>1. /\ calls' \in [Port!Task -> Ops] /\ calls'[StartCall(s)] = "idle"
        /\ \A t \in Port!Task :
             t # StartCall(s) /\ t # Finish(s) => calls'[t] = calls[t]
    <3>1. Moves(StartCall(s), "idle") \/ Port!OpenReturns(StartCall(s), Finish(s))
      BY <1>1, <1>2, <1>6, CallSteps DEF StartReturned
    <3> QED
      BY <1>1, <3>1, OpenStep DEF Moves
  <2>2. PICK new : Edited(s, new)
    BY <1>6, Edits
  <2>3. StartsInv'
    BY <1>1, <1>2, <2>1, <2>2 DEF StartsInv, StartIs, Edited
  <2> QED
    BY <1>2, <1>3, <2>1, <2>3
<1>7. CASE StartFails(s)
  <2>1. UNCHANGED calls /\ Edited(s, Phase(s, "done")) /\ starts[s].phase = "failed"
    BY <1>7, Edits DEF StartFails, chat, StartIs
  <2>2. StartsInv'
    BY <1>1, <2>1 DEF StartsInv, StartIs, Edited
  <2> QED
    BY <1>1, <1>3, <2>1, <2>2
<1> QED
  BY <1>4, <1>5, <1>6, <1>7 DEF startChat

\* A send moves on: it is under way then only if it was before.
LEMMA SendMoves ==
  ASSUME TypeOK, SendsInv, NEW u \in 1..MaxSends, u \in DOMAIN sends,
         NEW to \in {"calling", "awaiting", "ok", "failed", "done"},
         sends' = [sends EXCEPT ![u] = to],
         to \in {"calling", "awaiting"} => u \in UnderWay
  PROVE  /\ Len(sends') <= MaxSends
         /\ DOMAIN sends' = DOMAIN sends /\ sends'[u] = to
         /\ \A v \in DOMAIN sends : v # u => sends'[v] = sends[v]
         /\ UnderWay' \subseteq UnderWay
         /\ to \notin {"calling", "awaiting"} => u \notin UnderWay'
<1>1. sends \in Seq({"tapped", "calling", "awaiting", "ok", "failed", "done"})
  BY DEF TypeOK
<1>2. /\ Len(sends') = Len(sends) /\ DOMAIN sends' = DOMAIN sends /\ sends'[u] = to
      /\ \A v \in DOMAIN sends : v # u => sends'[v] = sends[v]
  BY <1>1
<1>3. UnderWay' \subseteq UnderWay /\ (to \notin {"calling", "awaiting"} => u \notin UnderWay')
  BY <1>2 DEF UnderWay
<1> QED
  BY <1>2, <1>3 DEF SendsInv

\* The calls of the starts in the steps of a send, of a line or of an open
\* whose ticket was returned.
LEMMA IdleCalls ==
  ASSUME TypeOK, CallInv, Idle
  PROVE  /\ calls' \in [Port!Task -> Ops]
         /\ StartsInv'
<1>1. calls \in [Port!Task -> Ops] /\ StartsInv /\ UNCHANGED starts
  BY IdleKeeps DEF CallInv
<1>2. ASSUME NEW t \in Port!Task, NEW to, Moves(t, to),
             \A s \in 1..MaxStarts : StartCall(s) # t
      PROVE  calls' \in [Port!Task -> Ops] /\ StartsInv'
  <2>1. \A s \in 1..MaxStarts : calls'[StartCall(s)] = calls[StartCall(s)]
    BY <1>2, Tasks DEF Moves
  <2> QED
    BY <1>1, <1>2, <2>1 DEF Moves, StartsInv, StartIs
<1>3. ASSUME UNCHANGED calls
      PROVE  calls' \in [Port!Task -> Ops] /\ StartsInv'
  BY <1>1, <1>3 DEF StartsInv, StartIs
<1>4. CASE TapJoin \/ CancelJoin \/ Type \/ TapSend \/ LineArrives \/ UNCHANGED vars
  BY <1>3, <1>4 DEF TapJoin, CancelJoin, DismissSheet, Type, TapSend, LineArrives,
    Port!LineArrives, vars, chat
<1>5. ASSUME NEW u \in 1..MaxSends, sendMessage(u)
      PROVE  calls' \in [Port!Task -> Ops] /\ StartsInv'
  <2>1. /\ SendCall(u) \in Port!Task
        /\ \A s \in 1..MaxStarts : StartCall(s) # SendCall(u)
    BY Tasks
  <2>2. UNCHANGED calls \/ \E to : Moves(SendCall(u), to)
    BY <1>1, <1>5, <2>1, CallSteps DEF sendMessage, RunSend, SendCalls, SendBroadcasts,
      SendReturned, SendEnds, chat
  <2> QED
    BY <1>2, <1>3, <2>1, <2>2
<1>6. ASSUME NEW s \in 1..MaxStarts, Finishes(s)
      PROVE  calls' \in [Port!Task -> Ops] /\ StartsInv'
  <2>1. Finish(s) \in Port!Task /\ \A t \in 1..MaxStarts : StartCall(t) # Finish(s)
    BY Tasks
  <2>2. \E to : Moves(Finish(s), to)
    BY <1>1, <1>6, <2>1, CallSteps DEF Finishes
  <2> QED
    BY <1>2, <2>1, <2>2
<1> QED
  BY <1>4, <1>5, <1>6 DEF Idle

\* A send taps, moves on, or puts the message a number was left for.
LEMMA SendSends ==
  ASSUME TypeOK, CallInv, NEW u \in 1..MaxSends, sendMessage(u)
  PROVE  SendsInv'
<1>1. /\ calls \in [Port!Task -> Ops] /\ SendsInv
      /\ sends \in Seq({"tapped", "calling", "awaiting", "ok", "failed", "done"})
  BY DEF CallInv, TypeOK
<1>2. /\ SendCall(u) \in Port!Task
      /\ \A v \in 1..MaxSends : SendCall(v) \in Port!Task
           /\ (v # u => SendCall(v) # SendCall(u))
  BY Tasks
<1>3. CASE RunSend(u)
  <2>1. /\ u \in DOMAIN sends /\ sends[u] = "tapped" /\ u \in UnderWay
        /\ UNCHANGED <<calls, count>>
    BY <1>3 DEF RunSend, SendIs, UnderWay, chat
  <2>2. PICK to \in {"calling", "done"} : sends' = [sends EXCEPT ![u] = to]
    BY <1>3 DEF RunSend
  <2>3. /\ Len(sends') <= MaxSends
        /\ DOMAIN sends' = DOMAIN sends
        /\ \A v \in DOMAIN sends : v # u => sends'[v] = sends[v]
        /\ UnderWay' \subseteq UnderWay
    BY <1>1, <2>1, <2>2, SendMoves
  <2> QED
    BY <1>1, <2>1, <2>3, SendsStill
<1>4. CASE SendCalls(u)
  <2>1. /\ u \in DOMAIN sends /\ sends[u] = "calling" /\ u \in UnderWay
        /\ UNCHANGED count /\ sends' = [sends EXCEPT ![u] = "awaiting"]
    BY <1>4 DEF SendCalls, SendIs, UnderWay
  <2>2. /\ Len(sends') <= MaxSends
        /\ DOMAIN sends' = DOMAIN sends /\ sends'[u] = "awaiting"
        /\ \A v \in DOMAIN sends : v # u => sends'[v] = sends[v]
        /\ UnderWay' \subseteq UnderWay
    BY <1>1, <2>1, SendMoves
  <2>3. Moves(SendCall(u), "send")
    BY <1>1, <1>2, <1>4, CallSteps DEF SendCalls
  <2>4. /\ IsFiniteSet(UnderWay) /\ Cardinality(UnderWay) \in Nat
        /\ count \in Nat /\ MaxMessages \in Nat
    BY UnderWayFinite, ViewAssumption DEF TypeOK
  <2>5. Cardinality(UnderWay') <= Cardinality(UnderWay) /\ Cardinality(UnderWay') \in Nat
    BY <2>2, <2>4, FS_Subset, FS_CardinalityType
  <2>6. count' + Cardinality(UnderWay') <= MaxMessages
    BY <1>1, <2>1, <2>4, <2>5 DEF SendsInv
  <2>7. \A v \in 1..MaxSends : calls'[SendCall(v)] # "idle" => SendIs(v, "awaiting")'
    BY <1>1, <1>2, <2>1, <2>2, <2>3 DEF SendsInv, SendIs, Moves
  <2> QED
    BY <2>2, <2>6, <2>7 DEF SendsInv
<1>5. CASE SendBroadcasts(u)
  <2>1. /\ UNCHANGED <<sends, count>> /\ Moves(SendCall(u), "echo")
        /\ calls[SendCall(u)] = "send"
    BY <1>1, <1>2, <1>5, CallSteps DEF SendBroadcasts
  <2>2. UnderWay' = UnderWay
    BY <2>1 DEF UnderWay
  <2>3. \A v \in 1..MaxSends : calls'[SendCall(v)] # "idle" => SendIs(v, "awaiting")'
    BY <1>1, <1>2, <2>1 DEF SendsInv, SendIs, Moves
  <2> QED
    BY <1>1, <2>1, <2>2, <2>3 DEF SendsInv
<1>6. CASE SendReturned(u)
  <2>1. Moves(SendCall(u), "idle") /\ calls[SendCall(u)] # "idle"
    BY <1>1, <1>2, <1>6, CallSteps DEF SendReturned, Port!Returns, Port!Echo
  <2>2. u \in DOMAIN sends /\ sends[u] = "awaiting" /\ u \in UnderWay
    BY <1>1, <2>1 DEF SendsInv, SendIs, UnderWay
  <2>3. PICK to \in {"failed", "ok"} : sends' = [sends EXCEPT ![u] = to]
    BY <1>6 DEF SendReturned
  <2>4. /\ Len(sends') <= MaxSends
        /\ DOMAIN sends' = DOMAIN sends
        /\ \A v \in DOMAIN sends : v # u => sends'[v] = sends[v]
        /\ UnderWay' \subseteq UnderWay /\ u \notin UnderWay'
    BY <1>1, <2>2, <2>3, SendMoves
  <2>5. /\ IsFiniteSet(UnderWay) /\ Cardinality(UnderWay) \in Nat
        /\ count \in Nat /\ MaxMessages \in Nat
    BY UnderWayFinite, ViewAssumption DEF TypeOK
  <2>6. /\ Cardinality(UnderWay \ {u}) = Cardinality(UnderWay) - 1
        /\ IsFiniteSet(UnderWay \ {u})
    BY <2>2, <2>5, FS_RemoveElement
  <2>7. /\ Cardinality(UnderWay') <= Cardinality(UnderWay \ {u})
        /\ Cardinality(UnderWay') \in Nat
    <3>1. UnderWay' \subseteq UnderWay \ {u}
      BY <2>4
    <3> QED
      BY <2>6, <3>1, FS_Subset, FS_CardinalityType
  <2>8. count' = count \/ count' = count + 1
    BY <1>6 DEF SendReturned
  <2>9. count' + Cardinality(UnderWay') <= MaxMessages
    BY <1>1, <2>5, <2>6, <2>7, <2>8 DEF SendsInv
  <2>10. \A v \in 1..MaxSends : calls'[SendCall(v)] # "idle" => SendIs(v, "awaiting")'
    BY <1>1, <1>2, <2>1, <2>2, <2>4 DEF SendsInv, SendIs, Moves
  <2> QED
    BY <2>4, <2>9, <2>10 DEF SendsInv
<1>7. CASE SendEnds(u)
  <2>1. /\ u \in DOMAIN sends /\ sends[u] # "awaiting" /\ sends' = [sends EXCEPT ![u] = "done"]
        /\ UNCHANGED <<calls, count>>
    BY <1>7 DEF SendEnds, SendIs, chat
  <2>2. /\ Len(sends') <= MaxSends
        /\ DOMAIN sends' = DOMAIN sends
        /\ \A v \in DOMAIN sends : v # u => sends'[v] = sends[v]
        /\ UnderWay' \subseteq UnderWay
    BY <1>1, <2>1, SendMoves
  <2> QED
    BY <1>1, <2>1, <2>2, SendsStill
<1> QED
  BY <1>3, <1>4, <1>5, <1>6, <1>7 DEF sendMessage

\* A step of the user or of the port leaves numbers for the sends under way.
LEMMA IdleSends ==
  ASSUME TypeOK, CallInv, Idle
  PROVE  SendsInv'
<1>1. /\ calls \in [Port!Task -> Ops] /\ SendsInv
      /\ sends \in Seq({"tapped", "calling", "awaiting", "ok", "failed", "done"})
  BY DEF CallInv, TypeOK
<1>2. CASE TapJoin \/ CancelJoin \/ Type \/ UNCHANGED vars
  <2>1. UNCHANGED <<calls, sends, count>>
    BY <1>2 DEF TapJoin, CancelJoin, DismissSheet, Type, vars, chat
  <2> QED
    BY <1>1, <2>1, SendsQuiet
<1>3. ASSUME NEW s \in 1..MaxStarts, Finishes(s)
      PROVE  SendsInv'
  <2>1. /\ Finish(s) \in Port!Task
        /\ \A u \in 1..MaxSends : SendCall(u) \in Port!Task /\ SendCall(u) # Finish(s)
    BY Tasks
  <2>2. \E to : Moves(Finish(s), to)
    BY <1>1, <1>3, <2>1, CallSteps DEF Finishes
  <2>3. UNCHANGED <<sends, count>>
    BY <1>3 DEF Finishes
  <2> QED
    BY <1>1, <2>1, <2>2, <2>3, SendsQuiet DEF Moves
<1>4. /\ IsFiniteSet(UnderWay) /\ Cardinality(UnderWay) \in Nat
      /\ count \in Nat /\ MaxMessages \in Nat
  BY UnderWayFinite, ViewAssumption DEF TypeOK
<1>5. CASE LineArrives
  <2>1. UNCHANGED <<sends, calls>> /\ count' = count + 1
    BY <1>5 DEF LineArrives, Port!LineArrives
  <2>2. UnderWay' = UnderWay /\ count + Cardinality(UnderWay) < MaxMessages
    BY <1>5, <2>1 DEF UnderWay, LineArrives, MayPut
  <2>3. count' + Cardinality(UnderWay') <= MaxMessages
    BY <1>4, <2>1, <2>2
  <2> QED
    BY <1>1, <2>1, <2>3 DEF SendsInv, SendIs
<1>6. CASE TapSend
  <2>1. /\ sends' = Append(sends, "tapped") /\ Len(sends) < MaxSends
        /\ UNCHANGED <<calls, count>> /\ count + Cardinality(UnderWay) < MaxMessages
    BY <1>6 DEF TapSend, chat, MayPut
  <2>2. /\ Len(sends') = Len(sends) + 1 /\ Len(sends) \in Nat
        /\ DOMAIN sends' = DOMAIN sends \cup {Len(sends) + 1}
        /\ Len(sends) + 1 \notin DOMAIN sends
        /\ \A u \in DOMAIN sends : sends'[u] = sends[u]
    BY <1>1, <2>1
  <2>3. UnderWay' \subseteq UnderWay \cup {Len(sends) + 1} /\ Len(sends) + 1 \notin UnderWay
    BY <2>2 DEF UnderWay
  <2>4. /\ IsFiniteSet(UnderWay \cup {Len(sends) + 1})
        /\ Cardinality(UnderWay \cup {Len(sends) + 1}) = Cardinality(UnderWay) + 1
    BY <1>4, <2>3, FS_AddElement
  <2>5. /\ Cardinality(UnderWay') <= Cardinality(UnderWay) + 1
        /\ Cardinality(UnderWay') \in Nat
    BY <2>3, <2>4, FS_Subset, FS_CardinalityType
  <2>6. count' + Cardinality(UnderWay') <= MaxMessages
    BY <1>4, <2>1, <2>5
  <2>7. \A u \in 1..MaxSends : calls'[SendCall(u)] # "idle" => SendIs(u, "awaiting")'
    BY <1>1, <2>1, <2>2 DEF SendsInv, SendIs
  <2>8. Len(sends') <= MaxSends
    BY <2>1, <2>2, ViewAssumption
  <2> QED
    BY <2>6, <2>7, <2>8 DEF SendsInv
<1> QED
  BY <1>2, <1>3, <1>5, <1>6, SendSends DEF Idle

\* Every step keeps what is known of the calls.
LEMMA NextCalls ==
  ASSUME TypeOK, CallInv, [Next]_vars
  PROVE  CallInv'
  BY NextKinds, IdleCalls, IdleSends, StartsCalls, ChatCalls DEF CallInv

---------------------------------------------------------------------------
(* The messages.                                                           *)

\* A step that puts nothing, receives nothing, appends nothing and clears
\* nothing leaves every message where it is.
LEMMA PlacesStill ==
  ASSUME TypeOK, PlaceInv, UNCHANGED <<channel, count, messages, cleared>>,
         DOMAIN starts \subseteq DOMAIN starts',
         \A s \in DOMAIN starts : starts'[s].hand = starts[s].hand,
         \A s \in DOMAIN starts' \ DOMAIN starts : starts'[s].hand = 0
  PROVE  PlaceInv'
<1>1. Held' = Held
  BY DEF Held
<1>2. Shown' = Shown
  BY DEF Shown
<1>3. \A s, t \in DOMAIN starts' :
        starts'[s].hand = starts'[t].hand /\ starts'[s].hand # 0 => s = t
  BY DEF PlaceInv
<1> QED
  BY <1>1, <1>2, <1>3 DEF PlaceInv

\* The next message is the one behind all that were received.
LEMMA TakeOne ==
  ASSUME TypeOK, PlaceInv, channel # <<>>, channel' = Tail(channel), UNCHANGED count
  PROVE  /\ Len(channel') <= count'
         /\ \A i \in DOMAIN channel' : channel'[i] = count' - Len(channel') + i
         /\ Head(channel) = count - Len(channel) + 1
         /\ count' - Len(channel') = count - Len(channel) + 1
         /\ count - Len(channel) \in Nat
<1>1. channel \in Seq(1..MaxMessages) /\ count \in Nat /\ Len(channel) <= count
  BY ViewAssumption DEF TypeOK, PlaceInv
<1>2. /\ Len(channel) \in Nat \ {0} /\ Len(channel') = Len(channel) - 1
      /\ Head(channel) = channel[1] /\ 1 \in DOMAIN channel
      /\ DOMAIN channel' = 1..Len(channel')
      /\ \A i \in DOMAIN channel' : channel'[i] = channel[i + 1] /\ i + 1 \in DOMAIN channel
  BY <1>1
<1>3. \A i \in DOMAIN channel : channel[i] = count - Len(channel) + i
  BY DEF PlaceInv
<1>4. \A i \in DOMAIN channel' : channel'[i] = count' - Len(channel') + i
  BY <1>1, <1>2, <1>3
<1> QED
  BY <1>1, <1>2, <1>3, <1>4

\* A message that is put gets the next number.
LEMMA PutOne ==
  ASSUME TypeOK, PlaceInv, channel' = Append(channel, count + 1), count' = count + 1
  PROVE  /\ Len(channel') <= count'
         /\ \A i \in DOMAIN channel' : channel'[i] = count' - Len(channel') + i
         /\ count' - Len(channel') = count - Len(channel)
<1>1. channel \in Seq(1..MaxMessages) /\ count \in Nat /\ Len(channel) <= count
  BY ViewAssumption DEF TypeOK, PlaceInv
<1>2. /\ Len(channel) \in Nat /\ Len(channel') = Len(channel) + 1
      /\ DOMAIN channel' = DOMAIN channel \cup {Len(channel) + 1}
      /\ channel'[Len(channel) + 1] = count + 1
      /\ \A i \in DOMAIN channel : channel'[i] = channel[i] /\ i \in Nat
  BY <1>1
<1>3. \A i \in DOMAIN channel : channel[i] = count - Len(channel) + i
  BY DEF PlaceInv
<1> QED
  BY <1>1, <1>2, <1>3

\* The list is emptied: what it showed is cleared.
LEMMA PlacesCleared ==
  ASSUME TypeOK, PlaceInv, Clear, UNCHANGED <<channel, count>>,
         DOMAIN starts' = DOMAIN starts,
         \A s \in DOMAIN starts : starts'[s].hand = starts[s].hand
  PROVE  PlaceInv'
<1>1. Held' = Held
  BY DEF Held
<1>2. Shown' = {} /\ cleared' = cleared \cup Shown /\ DOMAIN messages' = {}
  BY DEF Shown, Clear
<1>3. \A s, t \in DOMAIN starts' :
        starts'[s].hand = starts'[t].hand /\ starts'[s].hand # 0 => s = t
  BY DEF PlaceInv
<1> QED
  BY <1>1, <1>2, <1>3 DEF PlaceInv

\* A loop takes the oldest message of the channel into its hand.
LEMMA PlacesReceived ==
  ASSUME TypeOK, LoopInv, PlaceInv, NEW s \in 1..MaxStarts, LoopReceives(s)
  PROVE  PlaceInv'
<1> DEFINE n == Head(channel)
           k == count - Len(channel)
<1>1. /\ channel # <<>> /\ channel' = Tail(channel)
      /\ UNCHANGED <<count, messages, cleared>>
  BY DEF LoopReceives, Port!NextMessage
<1>2. /\ Len(channel') <= count'
      /\ \A i \in DOMAIN channel' : channel'[i] = count' - Len(channel') + i
      /\ n = k + 1 /\ count' - Len(channel') = k + 1 /\ k \in Nat
  BY <1>1, TakeOne
<1>3. /\ Edited(s, [starts[s] EXCEPT !.receiver = "appending", !.hand = n])
      /\ starts[s].receiver = "waiting"
  BY Edits DEF LoopReceives, Loop
<1>4. s \in DOMAIN starts /\ starts[s] \in Start /\ starts[s].hand = 0
  BY <1>3 DEF Edited, TypeOK, LoopInv, Life
<1>5. /\ starts'[s].hand = n
      /\ DOMAIN starts' = DOMAIN starts
      /\ \A t \in DOMAIN starts : t # s => starts'[t].hand = starts[t].hand
  BY <1>3, <1>4 DEF Edited, Start
<1>6. k + 1 # 0 /\ 1..(k + 1) = (1..k) \cup {k + 1} /\ k + 1 \notin 1..k
  BY <1>2
<1> HIDE DEF n, k
<1>7. Held' = Held \cup {n}
  BY <1>2, <1>4, <1>5, <1>6 DEF Held
<1>8. Shown' = Shown
  BY <1>1 DEF Shown
<1>9. /\ Held \cup Shown \cup cleared = 1..k
      /\ Held \cap Shown = {} /\ Held \cap cleared = {} /\ Shown \cap cleared = {}
      /\ \A t, u \in DOMAIN starts :
           starts[t].hand = starts[u].hand /\ starts[t].hand # 0 => t = u
      /\ \A i, j \in DOMAIN messages : messages[i].n = messages[j].n => i = j
  BY DEF PlaceInv, k
<1>10. n \notin Held /\ n \notin Shown /\ n \notin cleared
  BY <1>2, <1>6, <1>9
<1>11. /\ Held' \cup Shown' \cup cleared' = 1..(k + 1)
       /\ Held' \cap Shown' = {} /\ Held' \cap cleared' = {} /\ Shown' \cap cleared' = {}
  BY <1>1, <1>2, <1>6, <1>7, <1>8, <1>9, <1>10
<1>12. \A t \in DOMAIN starts : starts[t].hand = n => n = 0
  BY <1>10 DEF Held
<1>13. n # 0
  BY <1>2, <1>6
<1>14. \A t, u \in DOMAIN starts' :
         starts'[t].hand = starts'[u].hand /\ starts'[t].hand # 0 => t = u
  BY <1>4, <1>5, <1>9, <1>12, <1>13
<1> QED
  BY <1>1, <1>2, <1>9, <1>11, <1>14 DEF PlaceInv

\* A loop appends what it holds.
LEMMA PlacesAppended ==
  ASSUME TypeOK, LoopInv, PlaceInv, NEW s \in 1..MaxStarts, LoopAppends(s)
  PROVE  /\ PlaceInv'
         /\ s \in DOMAIN starts /\ starts[s].hand # 0
         /\ \A i \in DOMAIN messages : messages[i].n # starts[s].hand
         /\ Len(messages) \in Nat
         /\ DOMAIN messages' = DOMAIN messages \cup {Len(messages) + 1}
         /\ DOMAIN messages = 1..Len(messages)
         /\ messages'[Len(messages) + 1] = [n |-> starts[s].hand, by |-> s]
         /\ \A i \in DOMAIN messages : messages'[i] = messages[i]
<1> DEFINE n == starts[s].hand
           new == [n |-> n, by |-> s]
           m == Len(messages) + 1
           k == count - Len(channel)
<1>1. /\ messages' = Append(messages, new)
      /\ UNCHANGED <<channel, count, cleared>>
  BY DEF LoopAppends, chat
<1>2. /\ Edited(s, [starts[s] EXCEPT !.receiver = "ready", !.hand = 0,
                      !.late = @ + (IF starts[s].isCancelled THEN 1 ELSE 0)])
      /\ starts[s].receiver = "appending"
  BY Edits DEF LoopAppends, Loop
<1>3. s \in DOMAIN starts /\ starts[s] \in Start /\ n # 0
  BY <1>2 DEF Edited, TypeOK, LoopInv, Life
<1>4. /\ starts'[s].hand = 0
      /\ DOMAIN starts' = DOMAIN starts
      /\ \A t \in DOMAIN starts : t # s => starts'[t].hand = starts[t].hand
  BY <1>2, <1>3 DEF Edited, Start
<1> HIDE DEF new, n
<1>5. /\ Len(messages) \in Nat /\ DOMAIN messages = 1..Len(messages)
      /\ DOMAIN messages' = DOMAIN messages \cup {m} /\ m \notin DOMAIN messages
      /\ messages'[m] = new
      /\ \A i \in DOMAIN messages : messages'[i] = messages[i]
  <2>1. messages \in Seq([n : 1..MaxMessages, by : 1..MaxStarts])
    BY DEF TypeOK
  <2>2. /\ Len(messages) \in Nat /\ DOMAIN messages = 1..Len(messages)
        /\ Len(messages') = m /\ DOMAIN messages' = 1..m
    BY ONLY <1>1, <2>1
  <2>3. messages'[m] = new /\ \A i \in 1..Len(messages) : messages'[i] = messages[i]
    BY ONLY <1>1, <2>1
  <2>4. 1..m = 1..Len(messages) \cup {m} /\ m \notin 1..Len(messages)
    BY ONLY <2>2
  <2> QED
    BY ONLY <2>2, <2>3, <2>4
<1> HIDE DEF m
<1>6. new.n = n
  BY DEF new
<1>7. Shown' = Shown \cup {n}
  BY <1>5, <1>6 DEF Shown
<1>8. n \in Held
  BY <1>3 DEF Held, n
<1> HIDE DEF k
<1>9. /\ Held \cup Shown \cup cleared = 1..k
      /\ Held \cap Shown = {} /\ Held \cap cleared = {} /\ Shown \cap cleared = {}
      /\ \A t, u \in DOMAIN starts :
           starts[t].hand = starts[u].hand /\ starts[t].hand # 0 => t = u
      /\ \A i, j \in DOMAIN messages : messages[i].n = messages[j].n => i = j
  BY DEF PlaceInv, k
<1>10. Held' = Held \ {n}
  BY <1>3, <1>4, <1>9 DEF Held, n
<1>11. n \notin Shown /\ n \notin cleared
  BY <1>8, <1>9
<1>12. \A i \in DOMAIN messages : messages[i].n # n
  BY <1>11 DEF Shown
<1>13. /\ Held' \cup Shown' \cup cleared' = 1..k
       /\ Held' \cap Shown' = {} /\ Held' \cap cleared' = {} /\ Shown' \cap cleared' = {}
  BY <1>1, <1>7, <1>8, <1>9, <1>10, <1>11
<1>14. \A t, u \in DOMAIN starts' :
         starts'[t].hand = starts'[u].hand /\ starts'[t].hand # 0 => t = u
  BY <1>4, <1>9
<1>15. \A i, j \in DOMAIN messages' : messages'[i].n = messages'[j].n => i = j
  BY <1>5, <1>6, <1>9, <1>12
<1>16. PlaceInv'
  BY <1>1, <1>13, <1>14, <1>15 DEF PlaceInv, k
<1> QED
  BY <1>3, <1>5, <1>12, <1>16 DEF m, n, new

\* A message is put into the channel.
LEMMA PlacesPut ==
  ASSUME TypeOK, PlaceInv, channel' = Append(channel, count + 1), count' = count + 1,
         UNCHANGED <<starts, messages, cleared>>
  PROVE  PlaceInv'
<1>1. Held' = Held /\ Shown' = Shown
  BY DEF Held, Shown
<1> QED
  BY <1>1, PutOne DEF PlaceInv

\* Every step keeps each message in one place and the channel in order.
LEMMA NextPlaces ==
  ASSUME TypeOK, CallInv, LoopInv, PlaceInv, [Next]_vars
  PROVE  PlaceInv'
<1>1. \A s \in DOMAIN starts : starts[s] \in Start
  BY DEF TypeOK
<1>2. CASE Idle
  <2>1. UNCHANGED <<starts, messages, cleared>>
    BY <1>2, IdleKeeps
  <2>2. \/ UNCHANGED <<channel, count>>
        \/ channel' = Append(channel, count + 1) /\ count' = count + 1
    BY <1>2 DEF Idle, TapJoin, CancelJoin, DismissSheet, Type, TapSend, LineArrives,
      sendMessage, RunSend, SendCalls, SendReturned, SendBroadcasts, SendEnds, Finishes,
      Port!LineArrives, Port!Put, Port!Call, Port!Returns, Port!Echo, Port!Broadcasts,
      Port!FinishStarts, Port!JoinReturns, vars, chat
  <2> QED
    BY <2>1, <2>2, PlacesStill, PlacesPut
<1>3. ASSUME NEW mode \in {"open", "join"}, NewStart(mode),
             UNCHANGED <<channel, count, messages, cleared>>
      PROVE  PlaceInv'
  <2>1. Added(mode)
    BY <1>3, Adds
  <2>2. /\ DOMAIN starts \subseteq DOMAIN starts'
        /\ \A s \in DOMAIN starts : starts'[s].hand = starts[s].hand
        /\ \A s \in DOMAIN starts' \ DOMAIN starts : starts'[s].hand = 0
    BY <2>1 DEF Added
  <2> QED
    BY <1>3, <2>2, PlacesStill
<1>4. CASE TapStart \/ SubmitJoin
  BY <1>3, <1>4 DEF TapStart, SubmitJoin, DismissSheet, chat
<1>5. CASE leaveChat
  <2>1. starts \in Seq(Start) /\ starts' = CancelReceiver(starts)
        /\ Clear /\ UNCHANGED <<channel, count>>
    BY <1>5 DEF leaveChat, TypeOK, chat
  <2>2. /\ DOMAIN starts' = DOMAIN starts
        /\ \A s \in DOMAIN starts : starts'[s].hand = starts[s].hand
    <3>1. /\ DOMAIN starts' = DOMAIN starts
          /\ \A t \in DOMAIN starts :
               /\ t # receiverTask => starts'[t] = starts[t]
               /\ t = receiverTask => starts'[t] = [starts[t] EXCEPT !.isCancelled = TRUE]
      BY <2>1, CancelStart
    <3> QED
      BY <1>1, <3>1 DEF Start
  <2> QED
    BY <2>1, <2>2, PlacesCleared
<1>6. ASSUME NEW s \in 1..MaxStarts, startChat(s)
      PROVE  PlaceInv'
  <2>1. CASE RunStart(s) \/ StartSucceeds(s)
    <3>1. ASSUME NEW new, Cancelled(s, new), new.hand = starts[s].hand
          PROVE  /\ DOMAIN starts' = DOMAIN starts
                 /\ \A t \in DOMAIN starts : starts'[t].hand = starts[t].hand
      BY <1>1, <3>1 DEF Cancelled, Start
    <3>2. s \in DOMAIN starts
      BY <2>1 DEF RunStart, StartSucceeds, StartIs
    <3>3. /\ CancelReceiver(starts)[s] \in Start
          /\ CancelReceiver(starts)[s].hand = starts[s].hand
      <4>1. /\ CancelReceiver(starts) \in Seq(Start)
            /\ DOMAIN CancelReceiver(starts) = DOMAIN starts
            /\ s # receiverTask => CancelReceiver(starts)[s] = starts[s]
            /\ s = receiverTask =>
                 CancelReceiver(starts)[s] = [starts[s] EXCEPT !.isCancelled = TRUE]
        BY <3>2, CancelStart DEF TypeOK
      <4> QED
        BY <1>1, <3>2, <4>1 DEF Start
    <3>4. /\ DOMAIN starts' = DOMAIN starts
          /\ \A t \in DOMAIN starts : starts'[t].hand = starts[t].hand
      BY <2>1, <3>1, <3>3, Cancels DEF Start
    <3>5. CASE RunStart(s)
      BY <3>4, <3>5, PlacesCleared DEF RunStart, chat
    <3>6. CASE StartSucceeds(s)
      BY <3>4, <3>6, PlacesStill DEF StartSucceeds, chat
    <3> QED
      BY <2>1, <3>5, <3>6
  <2>2. CASE StartCalls(s) \/ StartReturned(s) \/ StartFails(s)
    <3>1. UNCHANGED <<channel, count, messages, cleared>>
      BY <2>2 DEF StartCalls, StartReturned, StartFails, Port!Call, Port!OpenReturns,
        Port!JoinReturns, Port!Returns, chat
    <3>2. \E p : Edited(s, Phase(s, p))
      BY <2>2, Edits
    <3>3. /\ DOMAIN starts' = DOMAIN starts
          /\ \A t \in DOMAIN starts : starts'[t].hand = starts[t].hand
      BY <1>1, <3>2 DEF Edited, Phase, Start
    <3> QED
      BY <3>1, <3>3, PlacesStill
  <2> QED
    BY <1>6, <2>1, <2>2 DEF startChat
<1>7. ASSUME NEW s \in 1..MaxStarts, ReceiverLoop(s)
      PROVE  PlaceInv'
  <2>1. CASE LoopChecks(s) \/ LoopAsks(s)
    <3>1. UNCHANGED <<channel, count, messages, cleared>>
      BY <2>1 DEF LoopChecks, LoopAsks, chat
    <3>2. \E r : Edited(s, [starts[s] EXCEPT !.receiver = r])
      BY <2>1, Edits
    <3>3. /\ DOMAIN starts' = DOMAIN starts
          /\ \A t \in DOMAIN starts : starts'[t].hand = starts[t].hand
      BY <1>1, <3>2 DEF Edited, Start
    <3> QED
      BY <3>1, <3>3, PlacesStill
  <2> QED
    BY <1>7, <2>1, PlacesReceived, PlacesAppended DEF ReceiverLoop
<1> QED
  BY <1>2, <1>4, <1>5, <1>6, <1>7, NextKinds

---------------------------------------------------------------------------
(* The order of the list.                                                  *)

\* No message comes or goes, and no loop is called late.
LEMMA OrderStill ==
  ASSUME OrderInv, UNCHANGED messages,
         DOMAIN starts \subseteq DOMAIN starts',
         \A s \in DOMAIN starts :
           /\ starts'[s].hand = starts[s].hand /\ starts'[s].late = starts[s].late
           /\ starts[s].isCancelled => starts'[s].isCancelled,
         \A s \in DOMAIN starts' \ DOMAIN starts : starts'[s].hand = 0
  PROVE  OrderInv'
<1>1. ListInOrder'
  BY DEF OrderInv, ListInOrder
<1>2. \A i \in DOMAIN messages' : messages'[i].by \in DOMAIN starts'
  BY DEF OrderInv
<1>3. \A s \in DOMAIN starts' : ~starts'[s].isCancelled /\ starts'[s].hand # 0 =>
        \A i \in DOMAIN messages' :
          starts'[messages'[i].by].late = 0 => messages'[i].n < starts'[s].hand
  BY DEF OrderInv
<1> QED
  BY <1>1, <1>2, <1>3 DEF OrderInv

\* An empty list is in order.
LEMMA OrderCleared ==
  ASSUME messages' = <<>>
  PROVE  OrderInv'
  BY DEF OrderInv, ListInOrder

\* What a loop takes is behind everything that is shown.
LEMMA OrderReceived ==
  ASSUME TypeOK, LoopInv, PlaceInv, OrderInv, NEW s \in 1..MaxStarts, LoopReceives(s)
  PROVE  OrderInv'
<1> DEFINE n == Head(channel)
           k == count - Len(channel)
<1>1. /\ channel # <<>> /\ channel' = Tail(channel) /\ UNCHANGED <<count, messages>>
  BY DEF LoopReceives, Port!NextMessage
<1>2. n = k + 1 /\ k \in Nat
  BY <1>1, TakeOne
<1>3. Edited(s, [starts[s] EXCEPT !.receiver = "appending", !.hand = n])
  BY Edits
<1>4. s \in DOMAIN starts /\ starts[s] \in Start
  BY <1>3 DEF Edited, TypeOK
<1>5. /\ starts'[s].hand = n /\ starts'[s].late = starts[s].late
      /\ starts'[s].isCancelled = starts[s].isCancelled
      /\ DOMAIN starts' = DOMAIN starts
      /\ \A t \in DOMAIN starts : t # s => starts'[t] = starts[t]
  BY <1>3, <1>4 DEF Edited, Start
<1> HIDE DEF n, k
<1>6. \A i \in DOMAIN messages : messages[i].n < n
  <2>1. \A i \in DOMAIN messages : messages[i].n \in 1..k
    BY DEF PlaceInv, Shown, k
  <2> QED
    BY <1>2, <2>1
<1>7. \A i \in DOMAIN messages : starts'[messages[i].by].late = starts[messages[i].by].late
  BY <1>5 DEF OrderInv
<1>8. ListInOrder'
  BY <1>1, <1>7 DEF OrderInv, ListInOrder
<1>9. \A t \in DOMAIN starts' : ~starts'[t].isCancelled /\ starts'[t].hand # 0 =>
        \A i \in DOMAIN messages' :
          starts'[messages'[i].by].late = 0 => messages'[i].n < starts'[t].hand
  BY <1>1, <1>5, <1>6, <1>7 DEF OrderInv
<1> QED
  BY <1>1, <1>5, <1>8, <1>9 DEF OrderInv

\* What a loop appends is behind everything that is not late, or late.
LEMMA OrderAppended ==
  ASSUME TypeOK, LoopInv, PlaceInv, OrderInv, NEW s \in 1..MaxStarts, LoopAppends(s)
  PROVE  OrderInv'
<1> DEFINE n == starts[s].hand
           m == Len(messages) + 1
<1>1. /\ s \in DOMAIN starts /\ starts[s] \in Start /\ starts[s].receiver = "appending"
      /\ Life(starts[s])
      /\ \A t \in DOMAIN starts : starts[t] \in Start
  BY DEF LoopAppends, Loop, TypeOK, LoopInv
<1>2. Edited(s, [starts[s] EXCEPT !.receiver = "ready", !.hand = 0,
                    !.late = @ + (IF starts[s].isCancelled THEN 1 ELSE 0)])
  BY Edits
<1>3. starts[s].late = 0 /\ n # 0
  BY <1>1 DEF Life, Start
<1>4. /\ starts'[s].hand = 0
      /\ starts[s].isCancelled => starts'[s].late = 1
      /\ ~starts[s].isCancelled => starts'[s].late = 0
      /\ starts'[s].isCancelled = starts[s].isCancelled
      /\ DOMAIN starts' = DOMAIN starts
      /\ \A t \in DOMAIN starts : t # s => starts'[t] = starts[t]
  BY <1>1, <1>2, <1>3 DEF Edited, Start
<1>5. /\ \A i \in DOMAIN messages : messages[i].n # n
      /\ Len(messages) \in Nat
      /\ DOMAIN messages' = DOMAIN messages \cup {m}
      /\ DOMAIN messages = 1..Len(messages)
      /\ messages'[m] = [n |-> n, by |-> s]
      /\ \A i \in DOMAIN messages : messages'[i] = messages[i]
  BY PlacesAppended
<1>6. \A i \in DOMAIN messages : messages[i].n \in Nat /\ messages[i].by \in DOMAIN starts
  <2> DEFINE Message == [n : 1..MaxMessages, by : 1..MaxStarts]
  <2>1. messages \in Seq(Message)
    BY DEF TypeOK
  <2> HIDE DEF Message
  <2>3. \A i \in DOMAIN messages : messages[i] \in Message
    BY <2>1
  <2>2. \A i \in DOMAIN messages : messages[i].n \in Nat
    BY <2>3, ViewAssumption DEF Message
  <2> QED
    BY <2>2 DEF OrderInv
<1> HIDE DEF n, m
<1>7. messages'[m].n = n /\ messages'[m].by = s
  BY <1>5
<1>8. m \in Nat /\ \A i \in DOMAIN messages : i \in Nat /\ i < m
  BY <1>5 DEF m
<1>9. n \in Nat
  BY <1>1, ViewAssumption DEF Start, n
<1>10. \A t \in DOMAIN starts : /\ starts[t].late \in Nat /\ starts'[t].late \in Nat
                               /\ starts'[t].late >= starts[t].late
  BY <1>1, <1>3, <1>4 DEF Start
<1>11. ASSUME NEW i \in DOMAIN messages, messages[i].n > n
       PROVE  starts'[messages[i].by].late + starts'[s].late > 0
  <2>1. CASE starts[s].isCancelled
    BY <1>1, <1>4, <1>6, <1>10, <2>1
  <2>2. CASE ~starts[s].isCancelled
    <3>1. starts[messages[i].by].late # 0
      BY <1>1, <1>3, <1>5, <1>6, <1>9, <1>11, <2>2 DEF OrderInv, n
    <3> QED
      BY <1>1, <1>6, <1>10, <3>1
  <2> QED
    BY <2>1, <2>2
<1>12. ASSUME NEW i \in DOMAIN messages', NEW j \in DOMAIN messages',
              i < j, messages'[i].n > messages'[j].n
       PROVE  starts'[messages'[i].by].late + starts'[messages'[j].by].late > 0
  <2>1. i \in DOMAIN messages
    BY <1>5, <1>8, <1>12
  <2>2. CASE j = m
    BY <1>5, <1>7, <1>11, <1>12, <2>1, <2>2
  <2>3. CASE j \in DOMAIN messages
    <3>1. starts[messages[i].by].late + starts[messages[j].by].late > 0
      BY <1>5, <1>12, <2>1, <2>3 DEF OrderInv, ListInOrder
    <3> DEFINE a == messages[i].by
               b == messages[j].by
    <3>2. messages'[i].by = a /\ messages'[j].by = b
      BY <1>5, <2>1, <2>3
    <3>3. a \in DOMAIN starts /\ b \in DOMAIN starts
      BY <1>6, <2>1, <2>3
    <3> HIDE DEF a, b
    <3>4. starts'[a].late + starts'[b].late > 0
      BY <1>10, <3>1, <3>3 DEF a, b
    <3> QED
      BY <3>2, <3>4
  <2> QED
    BY <1>5, <2>2, <2>3
<1>13. ASSUME NEW t \in DOMAIN starts', ~starts'[t].isCancelled, starts'[t].hand # 0,
              NEW i \in DOMAIN messages', starts'[messages'[i].by].late = 0
       PROVE  messages'[i].n < starts'[t].hand
  <2>1. t # s /\ starts'[t] = starts[t] /\ t \in DOMAIN starts
    BY <1>4, <1>13
  <2>2. starts[t].receiver # "none"
    BY <1>13, <2>1 DEF LoopInv, Life
  <2>3. starts[s].isCancelled
    BY <1>1, <1>13, <2>1, <2>2 DEF LoopInv, OneReceiver
  <2>4. i \in DOMAIN messages
    BY <1>4, <1>5, <1>7, <1>13, <2>3
  <2>5. starts[messages[i].by].late = 0
    BY <1>5, <1>6, <1>10, <1>13, <2>4
  <2> QED
    BY <1>5, <1>13, <2>1, <2>4, <2>5 DEF OrderInv
<1>14. ListInOrder'
  BY <1>12 DEF ListInOrder
<1>15. \A i \in DOMAIN messages' : messages'[i].by \in DOMAIN starts'
  BY <1>1, <1>4, <1>5, <1>6, <1>7
<1> QED
  BY <1>13, <1>14, <1>15 DEF OrderInv

\* The start goes on with what its loop holds, and is not brought back.
Milder(old, new) ==
  /\ new.hand = old.hand /\ new.late = old.late
  /\ old.isCancelled => new.isCancelled

\* A start that goes on in that way leaves the list in order.
LEMMA EditedStill ==
  ASSUME TypeOK, OrderInv, UNCHANGED messages, NEW s, NEW new, Edited(s, new),
         Milder(starts[s], new)
  PROVE  OrderInv'
<1>1. /\ DOMAIN starts' = DOMAIN starts
      /\ \A t \in DOMAIN starts : starts'[t] = IF t = s THEN new ELSE starts[t]
  BY DEF Edited
<1>2. \A t \in DOMAIN starts :
        /\ starts'[t].hand = starts[t].hand /\ starts'[t].late = starts[t].late
        /\ starts[t].isCancelled => starts'[t].isCancelled
  BY <1>1 DEF Milder
<1> QED
  BY <1>1, <1>2, OrderStill

\* Every step keeps the list in order but for late messages.
LEMMA NextOrder ==
  ASSUME TypeOK, CallInv, LoopInv, PlaceInv, OrderInv, [Next]_vars
  PROVE  OrderInv'
<1>1. \A s \in DOMAIN starts : starts[s] \in Start
  BY DEF TypeOK
<1>2. CASE Idle
  BY <1>2, IdleKeeps, OrderStill
<1>3. ASSUME NEW mode \in {"open", "join"}, NewStart(mode), UNCHANGED messages
      PROVE  OrderInv'
  <2>1. Added(mode)
    BY <1>3, Adds
  <2>2. /\ DOMAIN starts \subseteq DOMAIN starts'
        /\ \A s \in DOMAIN starts : starts'[s] = starts[s]
        /\ \A s \in DOMAIN starts' \ DOMAIN starts : starts'[s].hand = 0
    BY <2>1 DEF Added
  <2> QED
    BY <1>3, <2>2, OrderStill
<1>4. CASE TapStart \/ SubmitJoin
  BY <1>3, <1>4 DEF TapStart, SubmitJoin, DismissSheet
<1>5. CASE leaveChat
  BY <1>5, OrderCleared DEF leaveChat, Clear
<1>6. ASSUME NEW s \in 1..MaxStarts, startChat(s)
      PROVE  OrderInv'
  <2>1. CASE RunStart(s)
    BY <2>1, OrderCleared DEF RunStart, Clear
  <2>2. CASE StartSucceeds(s)
    <3> DEFINE all == CancelReceiver(starts)
               new == [all[s] EXCEPT !.phase = "done", !.receiver = "ready"]
    <3>1. s \in DOMAIN starts /\ UNCHANGED messages
      BY <2>2 DEF StartSucceeds, StartIs
    <3>2. /\ all \in Seq(Start) /\ DOMAIN all = DOMAIN starts
          /\ s # receiverTask => all[s] = starts[s]
          /\ s = receiverTask => all[s] = [starts[s] EXCEPT !.isCancelled = TRUE]
      BY <3>1, CancelStart DEF TypeOK
    <3>3. Cancelled(s, new)
      BY <2>2, Cancels
    <3> HIDE DEF all
    <3>4. all[s] \in Start
      BY <3>1, <3>2
    <3>5. /\ new.hand = starts[s].hand /\ new.late = starts[s].late
          /\ starts[s].isCancelled => new.isCancelled
      BY <1>1, <3>1, <3>2, <3>4 DEF Start
    <3> HIDE DEF new
    <3>6. /\ DOMAIN starts' = DOMAIN starts
          /\ \A t \in DOMAIN starts :
               /\ starts'[t].hand = starts[t].hand /\ starts'[t].late = starts[t].late
               /\ starts[t].isCancelled => starts'[t].isCancelled
      BY <1>1, <3>3, <3>5 DEF Cancelled, Start
    <3> QED
      BY <3>1, <3>6, OrderStill
  <2>3. CASE StartCalls(s) \/ StartReturned(s) \/ StartFails(s)
    <3>1. UNCHANGED messages
      BY <2>3 DEF StartCalls, StartReturned, StartFails
    <3>2. PICK p : Edited(s, Phase(s, p))
      BY <2>3, Edits
    <3>3. Milder(starts[s], Phase(s, p))
      BY <1>1, <3>2 DEF Edited, Phase, Start, Milder
    <3> QED
      BY <3>1, <3>2, <3>3, EditedStill
  <2> QED
    BY <1>6, <2>1, <2>2, <2>3 DEF startChat
<1>7. ASSUME NEW s \in 1..MaxStarts, ReceiverLoop(s)
      PROVE  OrderInv'
  <2>1. CASE LoopChecks(s) \/ LoopAsks(s)
    <3>1. UNCHANGED messages
      BY <2>1 DEF LoopChecks, LoopAsks
    <3>2. PICK r : Edited(s, [starts[s] EXCEPT !.receiver = r])
      BY <2>1, Edits
    <3>3. Milder(starts[s], [starts[s] EXCEPT !.receiver = r])
      BY <1>1, <3>2 DEF Edited, Start, Milder
    <3> QED
      BY <3>1, <3>2, <3>3, EditedStill
  <2> QED
    BY <1>7, <2>1, OrderReceived, OrderAppended DEF ReceiverLoop
<1> QED
  BY <1>2, <1>4, <1>5, <1>6, <1>7, NextKinds

---------------------------------------------------------------------------
(* The types.                                                              *)

\* What the steps make of the sends.
LEMMA SendsTyped ==
  ASSUME TypeOK, CallInv, [Next]_vars
  PROVE  /\ sends' \in Seq(SendPhases)
         /\ Cardinality(UnderWay') \in Nat
<1>1. sends \in Seq(SendPhases)
  BY DEF TypeOK, SendPhases
<1>2. ASSUME NEW u \in DOMAIN sends, NEW to \in SendPhases, sends' = [sends EXCEPT ![u] = to]
      PROVE  sends' \in Seq(SendPhases)
  BY <1>1, <1>2
<1>3. sends' = Append(sends, "tapped") => sends' \in Seq(SendPhases)
  BY <1>1 DEF SendPhases
<1>4. ASSUME NEW u \in 1..MaxSends, sendMessage(u)
      PROVE  sends' \in Seq(SendPhases)
  <2>1. CASE RunSend(u) \/ SendCalls(u) \/ SendEnds(u)
    <3>1. u \in DOMAIN sends /\ \E to \in SendPhases : sends' = [sends EXCEPT ![u] = to]
      BY <2>1 DEF RunSend, SendCalls, SendEnds, SendIs, SendPhases
    <3> QED
      BY <1>2, <3>1
  <2>2. CASE SendReturned(u)
    <3>1. calls[SendCall(u)] # "idle"
      BY <2>2 DEF SendReturned, Port!Returns, Port!Echo
    <3>2. u \in DOMAIN sends /\ \E to \in SendPhases : sends' = [sends EXCEPT ![u] = to]
      BY <2>2, <3>1 DEF CallInv, SendsInv, SendIs, SendReturned, SendPhases
    <3> QED
      BY <1>2, <3>2
  <2>3. CASE SendBroadcasts(u)
    BY <1>1, <2>3 DEF SendBroadcasts
  <2> QED
    BY <1>4, <2>1, <2>2, <2>3 DEF sendMessage
<1>5. sends' \in Seq(SendPhases)
  <2>1. CASE Idle
    BY <1>1, <1>3, <1>4, <2>1 DEF Idle, TapJoin, CancelJoin, DismissSheet, Type, TapSend,
      LineArrives, Finishes, vars
  <2>2. CASE TapStart \/ SubmitJoin \/ leaveChat
    BY <1>1, <2>2 DEF TapStart, SubmitJoin, DismissSheet, leaveChat
  <2>3. ASSUME NEW s \in 1..MaxStarts, startChat(s) \/ ReceiverLoop(s)
        PROVE  UNCHANGED sends
    BY <2>3 DEF startChat, RunStart, StartCalls, StartReturned, StartSucceeds, StartFails,
      ReceiverLoop, LoopChecks, LoopAsks, LoopReceives, LoopAppends
  <2> QED
    BY <1>1, <2>1, <2>2, <2>3, NextKinds
<1>6. {"tapped", "calling", "awaiting"} \in SUBSET SendPhases
  BY DEF SendPhases
<1>7. UnderWay' = {u \in DOMAIN sends' : sends'[u] \in {"tapped", "calling", "awaiting"}}
  BY DEF UnderWay
<1> QED
  BY <1>5, <1>6, <1>7, FiniteSends

\* The channel stays a channel of numbered messages, within its bound.
LEMMA ChannelTyped ==
  ASSUME TypeOK, CallInv, CallInv', [Next]_vars
  PROVE  /\ channel' \in Seq(1..MaxMessages) /\ Len(channel') <= Capacity
         /\ count' \in 0..MaxMessages
<1>1. /\ channel \in Seq(1..MaxMessages) /\ Len(channel) <= Capacity
      /\ count \in 0..MaxMessages /\ Len(channel) \in Nat
      /\ Capacity \in Nat /\ MaxMessages \in Nat
  BY ViewAssumption DEF TypeOK
<1>2. \/ UNCHANGED <<channel, count>>
      \/ channel # <<>> /\ channel' = Tail(channel) /\ UNCHANGED count
      \/ channel' = Append(channel, count + 1) /\ count' = count + 1 /\ Len(channel) < Capacity
  <2>1. CASE Idle
    BY <2>1 DEF Idle, TapJoin, CancelJoin, DismissSheet, Type, TapSend, LineArrives,
      sendMessage, RunSend, SendCalls, SendReturned, SendBroadcasts, SendEnds, Finishes,
      Port!LineArrives, Port!Put, Port!Call, Port!Returns, Port!Echo, Port!Broadcasts,
      Port!FinishStarts, Port!JoinReturns, vars, chat
  <2>2. CASE TapStart \/ SubmitJoin \/ leaveChat
    BY <2>2 DEF TapStart, SubmitJoin, DismissSheet, leaveChat, chat
  <2>3. ASSUME NEW s \in 1..MaxStarts, startChat(s) \/ ReceiverLoop(s)
        PROVE  <1>2!:
    BY <2>3 DEF startChat, RunStart, StartCalls, StartReturned, StartSucceeds, StartFails,
      ReceiverLoop, LoopChecks, LoopAsks, LoopReceives, LoopAppends, Port!NextMessage,
      Port!Call, Port!OpenReturns, Port!JoinReturns, Port!Returns, chat
  <2> QED
    BY <2>1, <2>2, <2>3, NextKinds
<1>3. CASE channel # <<>> /\ channel' = Tail(channel) /\ UNCHANGED count
  BY <1>1, <1>3
<1>4. CASE channel' = Append(channel, count + 1) /\ count' = count + 1 /\ Len(channel) < Capacity
  <2>1. count' + Cardinality(UnderWay') <= MaxMessages /\ Cardinality(UnderWay') \in Nat
    BY SendsTyped DEF CallInv, SendsInv
  <2> QED
    BY <1>1, <1>4, <2>1
<1> QED
  BY <1>1, <1>2, <1>3, <1>4

\* What the steps make of the starts, the loop there is and those that wait.
LEMMA StartsTyped ==
  ASSUME TypeOK, CallInv, LoopInv, [Next]_vars
  PROVE  /\ starts' \in Seq(Start)
         /\ receiverTask' \in 0..MaxStarts
         /\ waiting' \in Seq(1..MaxStarts)
<1>1. /\ starts \in Seq(Start) /\ receiverTask \in 0..MaxStarts
      /\ waiting \in Seq(1..MaxStarts) /\ MaxStarts \in Nat
  BY ViewAssumption DEF TypeOK
<1>2. CASE Idle
  BY <1>1, <1>2, IdleKeeps
<1>3. CASE TapStart \/ SubmitJoin
  BY <1>1, <1>3, Adds DEF Added, TapStart, SubmitJoin, DismissSheet
<1>4. CASE leaveChat
  BY <1>1, <1>4, CancelStart DEF leaveChat
<1>5. ASSUME NEW s \in 1..MaxStarts, startChat(s)
      PROVE  /\ starts' \in Seq(Start)
             /\ receiverTask' \in 0..MaxStarts
             /\ waiting' \in Seq(1..MaxStarts)
  <2>1. starts' \in Seq(Start)
    BY <1>5, Cancels, Edits DEF startChat, Cancelled, Edited
  <2> QED
    BY <1>1, <1>5, <2>1 DEF startChat, RunStart, StartCalls, StartReturned, StartSucceeds,
      StartFails
<1>6. ASSUME NEW s \in 1..MaxStarts, ReceiverLoop(s)
      PROVE  /\ starts' \in Seq(Start)
             /\ receiverTask' \in 0..MaxStarts
             /\ waiting' \in Seq(1..MaxStarts)
  <2>1. starts' \in Seq(Start)
    BY <1>6, Edits DEF ReceiverLoop, Edited
  <2>2. UNCHANGED receiverTask
    BY <1>6 DEF ReceiverLoop, LoopChecks, LoopAsks, LoopReceives, LoopAppends
  <2>3. waiting' \in Seq(1..MaxStarts)
    <3>1. CASE LoopAsks(s)
      BY <1>1, <3>1 DEF LoopAsks
    <3>2. CASE LoopReceives(s)
      <4>1. InLine(s)
        BY <3>2 DEF LoopReceives, Loop, LoopInv
      <4>2. waiting # <<>>
        BY <1>1, <4>1 DEF InLine
      <4> QED
        BY <1>1, <3>2, <4>2 DEF LoopReceives
    <3>3. CASE LoopChecks(s) \/ LoopAppends(s)
      BY <1>1, <3>3 DEF LoopChecks, LoopAppends
    <3> QED
      BY <1>6, <3>1, <3>2, <3>3 DEF ReceiverLoop
  <2> QED
    BY <1>1, <2>1, <2>2, <2>3
<1> QED
  BY <1>2, <1>3, <1>4, <1>5, <1>6, NextKinds

\* What the steps make of the list and of what was cleared.
LEMMA ListTyped ==
  ASSUME TypeOK, CallInv, LoopInv, PlaceInv, [Next]_vars
  PROVE  /\ messages' \in Seq([n : 1..MaxMessages, by : 1..MaxStarts])
         /\ cleared' \subseteq 1..MaxMessages
<1> DEFINE Message == [n : 1..MaxMessages, by : 1..MaxStarts]
<1>1. messages \in Seq(Message) /\ cleared \subseteq 1..MaxMessages
  BY DEF TypeOK
<1>2. ASSUME Clear
      PROVE  messages' \in Seq(Message) /\ cleared' \subseteq 1..MaxMessages
  <2>1. \A i \in DOMAIN messages : messages[i].n \in 1..MaxMessages
    <3> HIDE DEF Message
    <3>1. \A i \in DOMAIN messages : messages[i] \in Message
      BY <1>1
    <3> QED
      BY <3>1 DEF Message
  <2>2. cleared' \subseteq 1..MaxMessages
    BY <1>1, <1>2, <2>1 DEF Clear
  <2> QED
    BY <1>2, <2>2 DEF Clear
<1>3. CASE Idle
  BY <1>1, <1>3, IdleKeeps
<1>4. CASE TapStart \/ SubmitJoin
  BY <1>1, <1>4 DEF TapStart, SubmitJoin, DismissSheet
<1>5. CASE leaveChat
  BY <1>2, <1>5 DEF leaveChat
<1>6. ASSUME NEW s \in 1..MaxStarts, startChat(s)
      PROVE  messages' \in Seq(Message) /\ cleared' \subseteq 1..MaxMessages
  <2>1. Clear \/ UNCHANGED <<messages, cleared>>
    BY <1>6 DEF startChat, RunStart, StartCalls, StartReturned, StartSucceeds, StartFails
  <2> QED
    BY <1>1, <1>2, <2>1
<1>7. ASSUME NEW s \in 1..MaxStarts, ReceiverLoop(s)
      PROVE  messages' \in Seq(Message) /\ cleared' \subseteq 1..MaxMessages
  <2>1. CASE LoopAppends(s)
    <3>1. /\ s \in DOMAIN starts /\ starts[s].hand # 0
          /\ messages' = Append(messages, [n |-> starts[s].hand, by |-> s])
          /\ UNCHANGED cleared
      BY <2>1, PlacesAppended DEF LoopAppends
    <3>2. starts[s] \in Start
      BY <3>1 DEF TypeOK
    <3>3. starts[s].hand \in 1..MaxMessages
      BY <3>1, <3>2, ViewAssumption DEF Start
    <3>4. [n |-> starts[s].hand, by |-> s] \in Message
      BY <3>3
    <3> HIDE DEF Message
    <3> QED
      BY <1>1, <3>1, <3>4
  <2>2. CASE LoopChecks(s) \/ LoopAsks(s) \/ LoopReceives(s)
    BY <1>1, <2>2 DEF LoopChecks, LoopAsks, LoopReceives
  <2> QED
    BY <1>7, <2>1, <2>2 DEF ReceiverLoop
<1> QED
  BY <1>3, <1>4, <1>5, <1>6, <1>7, NextKinds

\* What the steps make of the screen.
LEMMA ScreenTyped ==
  ASSUME TypeOK, [Next]_vars
  PROVE  /\ sessionState' \in {"choose", "chatting"}
         /\ isJoinPresented' \in BOOLEAN
         /\ inputText' \in BOOLEAN
<1>1. /\ sessionState \in {"choose", "chatting"}
      /\ isJoinPresented \in BOOLEAN
      /\ inputText \in BOOLEAN
  BY DEF TypeOK
<1>2. CASE Idle
  BY <1>1, <1>2 DEF Idle, TapJoin, CancelJoin, DismissSheet, Type, TapSend,
    LineArrives, Finishes, sendMessage, RunSend, SendCalls, SendReturned, SendBroadcasts,
    SendEnds, vars, ui
<1>3. CASE TapStart \/ SubmitJoin \/ leaveChat
  BY <1>1, <1>3 DEF TapStart, SubmitJoin, DismissSheet, leaveChat, ui
<1>4. ASSUME NEW s \in 1..MaxStarts, startChat(s) \/ ReceiverLoop(s)
      PROVE  /\ sessionState' \in {"choose", "chatting"}
             /\ isJoinPresented' \in BOOLEAN
             /\ inputText' \in BOOLEAN
  BY <1>1, <1>4 DEF startChat, RunStart, StartCalls, StartReturned, StartSucceeds, StartFails,
    ReceiverLoop, LoopChecks, LoopAsks, LoopReceives, LoopAppends, ui
<1> QED
  BY <1>2, <1>3, <1>4, NextKinds

\* Every step keeps the types.
LEMMA NextTypes ==
  ASSUME TypeOK, CallInv, LoopInv, PlaceInv, [Next]_vars
  PROVE  TypeOK'
<1>1. CallInv'
  BY NextCalls
<1>2. /\ channel' \in Seq(1..MaxMessages) /\ Len(channel') <= Capacity
      /\ count' \in 0..MaxMessages
  BY <1>1, ChannelTyped
<1>3. sends' \in Seq({"tapped", "calling", "awaiting", "ok", "failed", "done"})
  BY SendsTyped DEF SendPhases
<1> QED
  BY <1>2, <1>3, StartsTyped, ListTyped, ScreenTyped DEF TypeOK

---------------------------------------------------------------------------
(* The theorems.                                                           *)

\* The invariant holds when the app starts.
LEMMA InitInv == Init => ViewInv
<1> SUFFICES ASSUME Init PROVE ViewInv
  OBVIOUS
<1>1. /\ starts = <<>> /\ sends = <<>> /\ waiting = <<>> /\ messages = <<>>
      /\ channel = <<>> /\ count = 0 /\ cleared = {} /\ receiverTask = 0
      /\ calls = [t \in Port!Task |-> "idle"]
      /\ sessionState = "choose" /\ isJoinPresented = FALSE /\ inputText = FALSE
  BY DEF Init, Port!Init
<1>2. /\ DOMAIN starts = {} /\ DOMAIN sends = {} /\ DOMAIN messages = {}
      /\ DOMAIN channel = {}
      /\ Len(starts) = 0 /\ Len(sends) = 0 /\ Len(messages) = 0 /\ Len(channel) = 0
  BY <1>1
<1>3. UnderWay = {} /\ Held = {} /\ Shown = {}
  BY <1>2 DEF UnderWay, Held, Shown
<1>4. Cardinality(UnderWay) = 0
  BY <1>3, FS_EmptySet
<1>5. TypeOK
  <2>1. \A S : <<>> \in Seq(S)
    OBVIOUS
  <2>2. /\ messages \in Seq([n : 1..MaxMessages, by : 1..MaxStarts])
        /\ starts \in Seq(Start)
        /\ sends \in Seq({"tapped", "calling", "awaiting", "ok", "failed", "done"})
        /\ waiting \in Seq(1..MaxStarts)
        /\ channel \in Seq(1..MaxMessages)
    BY ONLY <1>1, <2>1, Zenon
  <2>3. /\ sessionState \in {"choose", "chatting"}
        /\ isJoinPresented \in BOOLEAN /\ inputText \in BOOLEAN
    BY <1>1
  <2>4. /\ receiverTask \in 0..MaxStarts
        /\ Len(channel) <= Capacity
        /\ count \in 0..MaxMessages
        /\ cleared \subseteq 1..MaxMessages
    BY <1>1, <1>2, ViewAssumption
  <2> QED
    BY <2>2, <2>3, <2>4 DEF TypeOK
<1>6. calls \in [Port!Task -> Ops]
  BY <1>1 DEF Ops
<1>7. /\ \A s \in 1..MaxStarts : calls[StartCall(s)] = "idle"
      /\ \A u \in 1..MaxSends : calls[SendCall(u)] = "idle"
  BY <1>1, Tasks
<1>8. StartsInv /\ SendsInv
  BY <1>1, <1>2, <1>4, <1>7, ViewAssumption DEF StartsInv, SendsInv
<1>9. LoopInv /\ OrderInv
  BY <1>2 DEF LoopInv, OneReceiver, OrderInv, ListInOrder
<1>10. PlaceInv
  BY <1>1, <1>2, <1>3 DEF PlaceInv
<1> QED
  BY <1>5, <1>6, <1>8, <1>9, <1>10 DEF ViewInv, CallInv

\* The inductive invariant: TypeOK, the calls, the loops, the places of the
\* messages and the order of the list (ContentView.swift, the whole file).
THEOREM ViewInvariant == Spec => []ViewInv
<1>1. ViewInv /\ [Next]_vars => ViewInv'
  BY NextTypes, NextCalls, NextLoops, NextPlaces, NextOrder DEF ViewInv
<1> QED
  BY InitInv, <1>1, PTL DEF Spec

\* The app keeps its types, and the channel its bound.
THEOREM TypeCorrect == Spec => []TypeOK
<1>1. ViewInv => TypeOK
  BY DEF ViewInv
<1> QED
  BY ViewInvariant, <1>1, PTL

\* However starts, joins and leaves overlap, one receiver loop at most goes
\* on reading (startReceiverLoop and leaveChat, ContentView.swift).
THEOREM OneReceiverOnly == Spec => []OneReceiver
<1>1. ViewInv => OneReceiver
  BY DEF ViewInv, LoopInv
<1> QED
  BY ViewInvariant, <1>1, PTL

\* A cancelled loop appends one message at most.
THEOREM OneLateOnly == Spec => []OneLateMessage
<1>1. ViewInv => OneLateMessage
  BY DEF ViewInv, LoopInv, OneLateMessage, Life
<1> QED
  BY ViewInvariant, <1>1, PTL

\* The list is in the order of the channel, but for late messages.
THEOREM OrderedList == Spec => []ListInOrder
<1>1. ViewInv => ListInOrder
  BY DEF ViewInv, OrderInv
<1> QED
  BY ViewInvariant, <1>1, PTL

\* The messages shown are as many as the entries of the list.
LEMMA ShownOnce ==
  ASSUME TypeOK, PlaceInv
  PROVE  IsFiniteSet(Shown) /\ Cardinality(Shown) = Len(messages)
<1> DEFINE k == Len(messages)
           f == [i \in 1..k |-> messages[i].n]
<1>1. k \in Nat /\ DOMAIN messages = 1..k
  BY DEF TypeOK
<1>2. f \in [1..k -> Shown]
  BY <1>1 DEF Shown
<1>3. \A i, j \in 1..k : f[i] = f[j] => i = j
  BY <1>1 DEF PlaceInv
<1>4. \A n \in Shown : \E i \in 1..k : f[i] = n
  BY <1>1 DEF Shown
<1> HIDE DEF f, k
<1>5. DOMAIN f = 1..k
  BY <1>2
<1>6. f \in Bijection(1..k, Shown)
  BY <1>2, <1>3, <1>4, <1>5 DEF Bijection, Injection, Surjection, IsInjective
<1>7. ExistsBijection(1..k, Shown)
  BY <1>6 DEF ExistsBijection
<1>8. Cardinality(Shown) = k
  BY <1>1, <1>7, FS_CountingElements
<1>9. IsFiniteSet(Shown)
  BY <1>1, <1>7, FS_Bijection, FS_Interval
<1> QED
  BY <1>8, <1>9 DEF k

\* Two sets that have nothing in common count together.
LEMMA Apart ==
  ASSUME NEW A, NEW B, IsFiniteSet(A), IsFiniteSet(B), A \cap B = {}
  PROVE  IsFiniteSet(A \cup B) /\ Cardinality(A \cup B) = Cardinality(A) + Cardinality(B)
<1>1. /\ IsFiniteSet(A \cup B)
      /\ Cardinality(A \cup B) = Cardinality(A) + Cardinality(B) - Cardinality(A \cap B)
  BY FS_Union
<1>2. Cardinality(A \cap B) = 0
  BY FS_EmptySet
<1>3. Cardinality(A) \in Nat /\ Cardinality(B) \in Nat
  BY FS_CardinalityType
<1> QED
  BY <1>1, <1>2, <1>3

\* Every message is in one place, and they are all there.
LEMMA PlacesCounted ==
  ASSUME TypeOK, PlaceInv
  PROVE  NoMessageLost
<1> DEFINE k == count - Len(channel)
<1>1. /\ channel \in Seq(1..MaxMessages) /\ count \in Nat /\ Len(channel) \in Nat
      /\ Len(channel) <= count /\ k \in Nat
      /\ DOMAIN channel = 1..Len(channel)
  BY ViewAssumption DEF TypeOK, PlaceInv
<1>2. \A i \in DOMAIN channel : channel[i] = k + i
  BY DEF PlaceInv
<1>3. /\ Held \cup Shown \cup cleared = 1..k
      /\ Held \cap Shown = {} /\ Held \cap cleared = {} /\ Shown \cap cleared = {}
  BY DEF PlaceInv
<1>4. ToSet(channel) = (k + 1)..count
  <2>1. \A i \in 1..Len(channel) : k + i \in (k + 1)..count
    BY <1>1
  <2>2. \A n \in (k + 1)..count : n - k \in 1..Len(channel) /\ n = k + (n - k)
    BY <1>1
  <2> HIDE DEF k
  <2>3. ToSet(channel) = {channel[i] : i \in 1..Len(channel)}
    BY <1>1 DEF ToSet
  <2>4. ToSet(channel) \subseteq (k + 1)..count
    BY <1>1, <1>2, <2>1, <2>3
  <2>5. \A n \in (k + 1)..count : \E i \in 1..Len(channel) : channel[i] = n
    BY <1>1, <1>2, <2>2
  <2> QED
    BY <2>3, <2>4, <2>5
<1>5. (1..k) \cup ((k + 1)..count) = 1..count
  BY <1>1
<1>6. ToSet(channel) \cup Held \cup Shown \cup cleared = 1..count
  BY <1>3, <1>4, <1>5
<1>7. IsFiniteSet(1..k) /\ Cardinality(1..k) = k
  <2> HIDE DEF k
  <2>1. k \in Nat
    BY <1>1
  <2> QED
    BY <2>1, FS_Interval
<1>8. IsFiniteSet(Held) /\ IsFiniteSet(cleared) /\ IsFiniteSet(Shown)
      /\ Held \cup Shown \in SUBSET (1..k)
  <2>1. Held \subseteq 1..k /\ Shown \subseteq 1..k /\ cleared \subseteq 1..k
    BY <1>3
  <2> QED
    BY <1>7, <2>1, FS_Subset
<1>9. /\ IsFiniteSet(Held \cup Shown)
      /\ Cardinality(Held \cup Shown) = Cardinality(Held) + Cardinality(Shown)
  BY <1>3, <1>8, Apart
<1>10. Cardinality((Held \cup Shown) \cup cleared) =
         Cardinality(Held \cup Shown) + Cardinality(cleared)
  <2>1. (Held \cup Shown) \cap cleared = {}
    BY <1>3
  <2> QED
    BY <1>8, <1>9, <2>1, Apart
<1>11. Cardinality(Shown) = Len(messages)
  BY ShownOnce
<1>12. Cardinality(Held) \in Nat /\ Cardinality(Shown) \in Nat /\ Cardinality(cleared) \in Nat
  BY <1>8, FS_CardinalityType
<1>13. Cardinality((Held \cup Shown) \cup cleared) = k
  BY <1>3, <1>7
<1>14. Len(channel) + k = count
  BY <1>1
<1> HIDE DEF k
<1>15. Len(channel) + Cardinality(Held) + Len(messages) + Cardinality(cleared) = count
  <2>1. Cardinality(Held) + Len(messages) + Cardinality(cleared) = k
    BY <1>9, <1>10, <1>11, <1>13
  <2>2. Len(channel) \in Nat /\ Len(messages) \in Nat
    BY <1>1, <1>11, <1>12
  <2>3. Len(channel) + (Cardinality(Held) + Len(messages) + Cardinality(cleared)) =
          Len(channel) + Cardinality(Held) + Len(messages) + Cardinality(cleared)
    BY ONLY <1>12, <2>2
  <2> QED
    BY <1>14, <2>1, <2>3
<1> QED
  BY <1>6, <1>15 DEF NoMessageLost

\* Whatever is tapped while a message is received, every message put into
\* the channel is in it, in the hand of a loop, in the list or was cleared
\* from it, and in one of these only.
THEOREM NothingLost == Spec => []NoMessageLost
<1>1. ViewInv => NoMessageLost
  BY PlacesCounted DEF ViewInv
<1> QED
  BY ViewInvariant, <1>1, PTL
=============================================================================
