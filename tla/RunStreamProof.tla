---------------------------- MODULE RunStreamProof ----------------------------
(***************************************************************************)
(* Proofs about RunStream: whatever announcements are lost, repeated or    *)
(* late, and over any number of connections, the viewer gets the           *)
(* transcript in order and once, and `end` only when it has everything.    *)
(***************************************************************************)
EXTENDS RunStream, SequenceTheorems, TLAPS

Ended == {"succeeded", "failed", "cancelled"}
Statuses == {"absent", "queued", "running", "waiting_input"} \cup Ended

Events ==
    [kind : {"run"}, status : Statuses] \cup [kind : {"message"}, seq : Nat]
      \cup [kind : {"end"}, status : Statuses]

(* `first`, `sentRun` and `over` are Boolean and are only tested: no type is  *)
(* needed of them.                                                            *)
TypeOK ==
    /\ status \in Statuses
    /\ length \in Nat /\ sent \in Nat
    /\ conn \in {"none", "open", "ended"}
    /\ current \in Statuses \cup {NULL}
    /\ wire \in Seq(Events)
    /\ got \in Seq(Nat)

(* What is under way to the viewer goes on where `got` stops: every message   *)
(* sent and not received is on the wire, once and in order.                   *)
Counted ==
    /\ Len(got) <= sent /\ sent <= length
    /\ status = "absent" => length = 0
    /\ conn = "none" => wire = <<>>

IsMessage(i) == wire[i].kind = "message"

InFlight ==
    \A i \in 1..Len(wire) : IsMessage(i) => wire[i].seq > Len(got) /\ wire[i].seq <= sent

Ascending ==
    \A i, j \in 1..Len(wire) :
        IsMessage(i) /\ IsMessage(j) /\ i < j => wire[i].seq < wire[j].seq

NothingMissing ==
    conn # "none" =>
        \A n \in (Len(got) + 1)..sent :
            \E i \in 1..Len(wire) : IsMessage(i) /\ wire[i].seq = n

WireInv == Counted /\ InFlight /\ Ascending /\ NothingMissing

(* The last run record written to this viewer, received or not, is s. *)
LastRecord(s) ==
    \/ shown = s /\ \A i \in 1..Len(wire) : wire[i].kind # "run"
    \/ \E i \in 1..Len(wire) :
          /\ wire[i].kind = "run" /\ wire[i].status = s
          /\ \A j \in 1..Len(wire) : j > i => wire[j].kind # "run"

(* `end` is the last event of a stream, after the last record and the last    *)
(* message of a run that will not change any more.                            *)
EndInv ==
    /\ \A i \in 1..Len(wire) : wire[i].kind = "end" => i = Len(wire) /\ conn = "ended"
    /\ current # NULL => conn = "open" /\ (current \in Ended => status = current)
    /\ current # NULL /\ sentRun => LastRecord(current)
    /\ conn = "ended" => status \in Ended /\ sent = length /\ LastRecord(status)
    /\ conn = "ended" => over \/ (wire # <<>> /\ wire[Len(wire)].kind = "end")
    /\ over => conn = "ended" /\ wire = <<>>

StreamInv == TypeOK /\ WireInv /\ EndInv /\ InOrderOnce

-----------------------------------------------------------------------------
(* What the actions do to the wire, position by position. *)
Unsent == length - sent

LEMMA SendEffect ==
    ASSUME TypeOK, WireInv, SendMessages
    PROVE  /\ Unsent \in Nat /\ wire' \in Seq(Events)
           /\ Len(wire') = Len(wire) + Unsent
                 + (IF current \notin Ended THEN 0 ELSE IF sentRun THEN 1 ELSE 2)
           /\ \A i \in 1..Len(wire) : wire'[i] = wire[i]
           /\ \A i \in 1..Unsent : wire'[Len(wire) + i] = MessageEvent(sent + i)
           /\ current \in Ended => wire'[Len(wire')] = EndEvent(current)
           /\ current \in Ended /\ ~sentRun => wire'[Len(wire) + Unsent + 1] = RunEvent(current)
<1>1. /\ Unsent \in Nat /\ Len(wire) \in Nat /\ current \in Statuses
      /\ wire \in Seq(Events) /\ wire' = (wire \o NewMessages) \o Closing
  BY DEF TypeOK, WireInv, Counted, SendMessages, Unsent
<1>2. NewMessages \in Seq(Events) /\ Len(NewMessages) = Unsent
      /\ \A i \in 1..Unsent : NewMessages[i] = MessageEvent(sent + i)
  <2>1. \A i \in 1..Unsent : MessageEvent(sent + i) \in Events
    BY <1>1 DEF TypeOK, MessageEvent, Events
  <2>2. NewMessages = [i \in 1..Unsent |-> MessageEvent(sent + i)]
    BY DEF NewMessages, Unsent
  <2>3. NewMessages \in [1..Unsent -> Events]
    BY <2>1, <2>2
  <2>. QED
    BY <1>1, <2>2, <2>3
<1>3. RunEvent(current) \in Events /\ EndEvent(current) \in Events
  BY <1>1 DEF RunEvent, EndEvent, Events
<1>4. /\ wire \o NewMessages \in Seq(Events)
      /\ Len(wire \o NewMessages) = Len(wire) + Unsent
      /\ \A i \in 1..Len(wire) : (wire \o NewMessages)[i] = wire[i]
      /\ \A i \in 1..Unsent : (wire \o NewMessages)[Len(wire) + i] = MessageEvent(sent + i)
  <2>1. /\ wire \o NewMessages \in Seq(Events)
        /\ Len(wire \o NewMessages) = Len(wire) + Len(NewMessages)
        /\ \A i \in 1..(Len(wire) + Len(NewMessages)) :
             (wire \o NewMessages)[i] =
               IF i <= Len(wire) THEN wire[i] ELSE NewMessages[i - Len(wire)]
    BY <1>1, <1>2, ConcatProperties
  <2>. QED
    BY <1>1, <1>2, <2>1
<1>5. ASSUME Closing \in Seq(Events)
      PROVE  /\ wire' \in Seq(Events)
             /\ Len(wire') = Len(wire) + Unsent + Len(Closing)
             /\ \A i \in 1..Len(wire) : wire'[i] = wire[i]
             /\ \A i \in 1..Unsent : wire'[Len(wire) + i] = MessageEvent(sent + i)
             /\ \A i \in 1..Len(Closing) : wire'[Len(wire) + Unsent + i] = Closing[i]
  <2>1. /\ (wire \o NewMessages) \o Closing \in Seq(Events)
        /\ Len((wire \o NewMessages) \o Closing) = Len(wire \o NewMessages) + Len(Closing)
        /\ \A i \in 1..(Len(wire \o NewMessages) + Len(Closing)) :
             ((wire \o NewMessages) \o Closing)[i] =
               IF i <= Len(wire \o NewMessages) THEN (wire \o NewMessages)[i]
               ELSE Closing[i - Len(wire \o NewMessages)]
    BY <1>4, <1>5, ConcatProperties
  <2>2. Len(Closing) \in Nat
    BY <1>5
  <2>3. wire' \in Seq(Events) /\ Len(wire') = Len(wire) + Unsent + Len(Closing)
    BY <1>1, <1>4, <2>1
  <2>4. \A i \in 1..(Len(wire) + Unsent) : wire'[i] = (wire \o NewMessages)[i]
    BY <1>1, <1>4, <2>1, <2>2
  <2>5. \A i \in 1..Len(Closing) : wire'[Len(wire) + Unsent + i] = Closing[i]
    <3>1. SUFFICES ASSUME NEW i \in 1..Len(Closing)
                   PROVE  wire'[Len(wire) + Unsent + i] = Closing[i]
      OBVIOUS
    <3>2. /\ Len(wire) + Unsent + i \in 1..(Len(wire \o NewMessages) + Len(Closing))
          /\ ~(Len(wire) + Unsent + i <= Len(wire \o NewMessages))
          /\ (Len(wire) + Unsent + i) - Len(wire \o NewMessages) = i
      BY <1>1, <1>4, <2>2
    <3>. QED
      BY <1>1, <2>1, <3>2
  <2>6. \A i \in 1..Len(wire) : wire'[i] = wire[i]
    BY <1>1, <1>4, <2>4
  <2>7. \A i \in 1..Unsent : wire'[Len(wire) + i] = MessageEvent(sent + i)
    BY <1>1, <1>4, <2>4
  <2>. QED
    BY <2>3, <2>5, <2>6, <2>7
<1>6. CASE current \notin Ended
  <2>1. Closing = <<>>
    BY <1>6 DEF Closing, Ended, Run!Ended
  <2>. QED
    BY <1>1, <1>5, <1>6, <2>1
<1>7. CASE current \in Ended /\ sentRun
  <2>1. Closing = <<>> \o <<EndEvent(current)>>
    BY <1>7 DEF Closing, Ended, Run!Ended
  <2>2. Closing = <<EndEvent(current)>>
    BY <2>1, <1>3
  <2>. QED
    BY <1>1, <1>3, <1>5, <1>7, <2>2
<1>8. CASE current \in Ended /\ ~sentRun
  <2>1. Closing = <<RunEvent(current)>> \o <<EndEvent(current)>>
    BY <1>8 DEF Closing, Ended, Run!Ended
  <2>2. <<RunEvent(current)>> \in Seq(Events) /\ <<EndEvent(current)>> \in Seq(Events)
    BY <1>3
  <2>3. /\ Closing \in Seq(Events) /\ Len(Closing) = 2
        /\ Closing[1] = RunEvent(current) /\ Closing[2] = EndEvent(current)
    BY <2>1, <2>2, ConcatProperties
  <2>4. Len(wire') = Len(wire) + Unsent + 2
    BY <1>5, <2>3
  <2>5. wire'[Len(wire) + Unsent + 1] = RunEvent(current)
    BY <1>5, <2>3
  <2>6. wire'[Len(wire) + Unsent + 2] = EndEvent(current)
    BY <1>5, <2>3
  <2>. QED
    BY <1>1, <1>5, <1>8, <2>3, <2>4, <2>5, <2>6
<1>. QED
  BY <1>6, <1>7, <1>8

LEMMA CatchUpEffect ==
    ASSUME TypeOK, CatchUp
    PROVE  /\ ~sentRun' => wire' = wire
           /\ sentRun' => wire' = Append(wire, RunEvent(status))
           /\ RunEvent(status) \in Events
           /\ wire' \in Seq(Events)
<1>1. ~sentRun' => wire' = wire
  BY Zenon DEF CatchUp
<1>2. sentRun' => wire' = Append(wire, RunEvent(status))
  BY Zenon DEF CatchUp
<1>3. RunEvent(status) \in Events
  BY DEF RunEvent, Events, TypeOK
<1>. QED
  <2>1. Append(wire, RunEvent(status)) \in Seq(Events) /\ wire \in Seq(Events)
    BY <1>3 DEF TypeOK
  <2>. QED
    BY <1>1, <1>2, <1>3, <2>1, Zenon

LEMMA RunSteps ==
    ASSUME TypeOK, WireInv, RunMoves
    PROVE  /\ status \notin Ended
           /\ status' \in Statuses
           /\ length' \in Nat /\ length' >= length /\ status' # "absent"
           /\ UNCHANGED <<streamVars, wire, viewVars>>
BY DEF RunMoves, TypeOK, WireInv, Counted, Statuses, Ended, Run!Next, Run!Created, Run!Taken, Run!Grows,
       Run!Parks, Run!Continued, Run!Ends, Run!Live, Run!Ended

LEMMA StreamTypes == TypeOK /\ WireInv /\ [Next]_vars => TypeOK'
<1> SUFFICES ASSUME TypeOK, WireInv, [Next]_vars PROVE TypeOK'
  OBVIOUS
<1> USE DEF TypeOK
<1>1. CASE RunMoves
  BY <1>1, RunSteps DEF streamVars, viewVars
<1>2. CASE Connect
  BY <1>2 DEF Connect, ResumeFrom, runVars, viewVars
<1>3. CASE Keepalive \/ Announced
  BY <1>3 DEF Keepalive, Announced, QueueCatchUp, runVars, viewVars
<1>4. CASE CatchUp
  BY <1>4, CatchUpEffect DEF CatchUp, runVars, viewVars
<1>5. CASE SendMessages
  BY <1>5, SendEffect DEF SendMessages, runVars, viewVars
<1>6. CASE CatchUpFails
  BY <1>6 DEF CatchUpFails, runVars, viewVars
<1>7. CASE Receive
  <2>1. Head(wire) \in Events
    BY <1>7 DEF Receive
  <2>2. Head(wire).kind = "message" => Head(wire).seq \in Nat
    BY <2>1 DEF Events
  <2>. QED
    BY <1>7, <2>1, <2>2 DEF Receive, runVars, streamVars
<1>8. CASE Disconnect
  BY <1>8 DEF Disconnect, runVars
<1>9. CASE UNCHANGED vars
  BY <1>9 DEF vars, runVars, streamVars, viewVars
<1>. QED
  BY <1>1, <1>2, <1>3, <1>4, <1>5, <1>6, <1>7, <1>8, <1>9 DEF Next

LEMMA ReceiveEffect ==
    ASSUME TypeOK, Receive
    PROVE  /\ Len(wire) \in Nat \ {0} /\ Len(wire') = Len(wire) - 1
           /\ \A i \in 1..Len(wire') : wire'[i] = wire[i + 1]
           /\ IF wire[1].kind = "message"
              THEN /\ Len(got') = Len(got) + 1 /\ wire[1].seq \in Nat
                   /\ got'[Len(got) + 1] = wire[1].seq
                   /\ \A i \in 1..Len(got) : got'[i] = got[i]
              ELSE got' = got
           /\ shown' = IF wire[1].kind = "run" THEN wire[1].status ELSE shown
           /\ wire[1].kind # "end" => (over' <=> over)
<1>1. wire \in Seq(Events) /\ wire # <<>> /\ wire' = Tail(wire) /\ Head(wire) = wire[1]
  BY DEF TypeOK, Receive
<1>2. /\ Len(wire) \in Nat \ {0} /\ Len(wire') = Len(wire) - 1 /\ wire[1] \in Events
      /\ \A i \in 1..Len(wire') : wire'[i] = wire[i + 1]
  BY <1>1, HeadTailProperties
<1>3. /\ shown' = IF wire[1].kind = "run" THEN wire[1].status ELSE shown
      /\ wire[1].kind # "end" => (over' <=> over)
  <2>1. over' = (over \/ wire[1].kind = "end")
    BY <1>1 DEF Receive
  <2>2. shown' = IF wire[1].kind = "run" THEN wire[1].status ELSE shown
    BY <1>1 DEF Receive
  <2>. QED
    BY <2>1, <2>2, Zenon
<1>4. CASE wire[1].kind = "message"
  <2>1. wire[1].seq \in Nat
    BY <1>2, <1>4 DEF Events
  <2>2. got' = Append(got, wire[1].seq) /\ shown' = shown
    BY <1>1, <1>4 DEF Receive
  <2>3. /\ Len(got') = Len(got) + 1 /\ got'[Len(got) + 1] = wire[1].seq
        /\ \A i \in 1..Len(got) : got'[i] = got[i]
    BY <2>1, <2>2, AppendProperties DEF TypeOK
  <2>. QED
    BY <1>2, <1>4, <1>3, <2>1, <2>2, <2>3
<1>5. CASE wire[1].kind # "message"
  <2>1. got' = got
    BY <1>1, <1>5 DEF Receive
  <2>. QED
    BY <1>2, <1>5, <1>3, <2>1
<1>. QED
  BY <1>4, <1>5

(* The messages: none is lost, repeated or overtaken between sent and got. *)
LEMMA WireTyped ==
    ASSUME TypeOK
    PROVE  /\ Len(got) \in Nat /\ Len(wire) \in Nat /\ sent \in Nat /\ length \in Nat
           /\ \A i \in 1..Len(wire) : IsMessage(i) => wire[i].seq \in Nat
<1>1. ASSUME NEW i \in 1..Len(wire), IsMessage(i) PROVE wire[i].seq \in Nat
  <2>1. wire[i] \in Events
    BY DEF TypeOK
  <2>. QED
    BY <1>1, <2>1 DEF Events, IsMessage
<1>. QED
  BY <1>1 DEF TypeOK

(* A step that moves no message. *)
LEMMA WireRests ==
    ASSUME WireInv, UNCHANGED <<wire, sent, got>>, conn # "none" \/ conn' = conn,
           length' >= length, length \in Nat, length' \in Nat, sent \in Nat,
           status' = "absent" => length' = 0, conn' = "none" => conn = "none"
    PROVE  WireInv'
<1>1. Counted'
  BY DEF WireInv, Counted
<1>2. InFlight' /\ Ascending'
  BY DEF WireInv, InFlight, Ascending, IsMessage
<1>3. NothingMissing'
  BY DEF WireInv, NothingMissing, IsMessage
<1>. QED
  BY <1>1, <1>2, <1>3 DEF WireInv

(* The stream stands still, or a record joins the wire. *)
LEMMA WireCatchUp == ASSUME TypeOK, WireInv, CatchUp PROVE WireInv'
<1>1. UNCHANGED <<status, length, sent, got, conn>> /\ conn # "none"
  BY DEF CatchUp, runVars, viewVars
<1>2. CASE wire' = wire
  BY <1>1, <1>2, WireRests, WireTyped DEF WireInv, Counted
<1>3. CASE wire' = Append(wire, RunEvent(status))
  <2>1. /\ Len(wire) \in Nat /\ Len(wire') = Len(wire) + 1 /\ wire'[Len(wire) + 1].kind # "message"
        /\ \A i \in 1..Len(wire) : wire'[i] = wire[i]
    BY <1>3, CatchUpEffect, AppendProperties DEF RunEvent, TypeOK, IsMessage
  <2>2. \A i \in 1..Len(wire') :
          IsMessage(i)' => i \in 1..Len(wire) /\ IsMessage(i) /\ wire'[i] = wire[i]
    BY <2>1 DEF IsMessage
  <2>3. Counted'
    BY <1>1 DEF WireInv, Counted
  <2>4. InFlight' /\ Ascending'
    BY <1>1, <2>2 DEF WireInv, InFlight, Ascending
  <2>5. NothingMissing'
    BY <1>1, <2>1 DEF WireInv, NothingMissing, IsMessage
  <2>. QED
    BY <2>3, <2>4, <2>5 DEF WireInv
<1>. QED
  BY <1>2, <1>3, CatchUpEffect

(* The messages after the last one sent join the wire. *)
LEMMA WireSends == ASSUME TypeOK, WireInv, SendMessages PROVE WireInv'
<1> USE WireTyped
<1>1. /\ sent' = length /\ Unsent = length - sent /\ Unsent \in Nat
      /\ UNCHANGED <<status, length, got>> /\ conn # "none" /\ conn' # "none"
  BY SendEffect DEF SendMessages, Unsent, runVars, viewVars
<1>2. \A i \in 1..Len(wire) : wire'[i] = wire[i]
  BY SendEffect
<1>3. Len(wire') \in Nat /\ Len(wire') >= Len(wire) + Unsent
  BY <1>1, SendEffect
<1>4. ASSUME NEW i \in (Len(wire) + 1)..(Len(wire) + Unsent)
      PROVE  IsMessage(i)' /\ wire'[i].seq = sent + (i - Len(wire))
  <2>1. i - Len(wire) \in 1..Unsent /\ Len(wire) + (i - Len(wire)) = i
    BY <1>1, <1>4
  <2>2. wire'[Len(wire) + (i - Len(wire))] = MessageEvent(sent + (i - Len(wire)))
    BY <2>1, SendEffect
  <2>. QED
    BY <2>1, <2>2 DEF MessageEvent, IsMessage
<1>5. ASSUME NEW i \in (Len(wire) + Unsent + 1)..Len(wire') PROVE ~IsMessage(i)'
  <2>1. current \in Ended /\ (i = Len(wire') \/ (i = Len(wire) + Unsent + 1 /\ ~sentRun))
    BY <1>1, <1>5, SendEffect
  <2>2. wire'[i] = EndEvent(current) \/ wire'[i] = RunEvent(current)
    BY <2>1, SendEffect
  <2>. QED
    BY <2>2 DEF EndEvent, RunEvent, IsMessage
<1>6. Counted'
  BY <1>1 DEF WireInv, Counted
<1>7. InFlight'
  <2>1. SUFFICES ASSUME NEW i \in 1..Len(wire'), IsMessage(i)'
                 PROVE  wire'[i].seq > Len(got) /\ wire'[i].seq <= length
    BY <1>1 DEF InFlight
  <2>2. CASE i \in 1..Len(wire)
    BY <1>1, <1>2, <2>1, <2>2 DEF WireInv, InFlight, Counted, IsMessage
  <2>3. CASE i \in (Len(wire) + 1)..(Len(wire) + Unsent)
    BY <1>1, <1>4, <2>3 DEF WireInv, Counted
  <2>. QED
    BY <1>1, <1>3, <1>5, <2>1, <2>2, <2>3
<1>8. Ascending'
  <2>1. SUFFICES ASSUME NEW i \in 1..Len(wire'), NEW j \in 1..Len(wire'),
                        IsMessage(i)', IsMessage(j)', i < j
                 PROVE  wire'[i].seq < wire'[j].seq
    BY DEF Ascending
  <2>2. j \in 1..(Len(wire) + Unsent)
    BY <1>1, <1>3, <1>5, <2>1
  <2>3. CASE j \in 1..Len(wire)
    BY <1>2, <2>1, <2>3 DEF WireInv, Ascending, IsMessage
  <2>4. CASE j \notin 1..Len(wire) /\ i \in 1..Len(wire)
    <3>1. wire'[j].seq = sent + (j - Len(wire)) /\ j - Len(wire) > 0
      BY <1>1, <1>4, <2>2, <2>4
    <3>2. wire'[i].seq <= sent /\ wire'[i].seq \in Nat
      BY <1>2, <2>1, <2>4 DEF WireInv, InFlight, IsMessage
    <3>. QED
      BY <3>1, <3>2
  <2>5. CASE j \notin 1..Len(wire) /\ i \notin 1..Len(wire)
    <3>1. Len(wire) \in Nat /\ Unsent \in Nat /\ sent \in Nat
      BY <1>1
    <3>2. i \in (Len(wire) + 1)..(Len(wire) + Unsent) /\ j \in (Len(wire) + 1)..(Len(wire) + Unsent)
      BY <2>1, <2>2, <2>5, <3>1
    <3>3. wire'[j].seq = sent + (j - Len(wire))
      BY <1>4, <3>2
    <3>4. wire'[i].seq = sent + (i - Len(wire))
      BY <1>4, <3>2
    <3>. QED
      BY <2>1, <3>1, <3>2, <3>3, <3>4
  <2>. QED
    BY <2>3, <2>4, <2>5
<1>9. NothingMissing'
  <2>1. SUFFICES ASSUME NEW n \in (Len(got) + 1)..length
                 PROVE  \E i \in 1..Len(wire') : IsMessage(i)' /\ wire'[i].seq = n
    BY <1>1 DEF NothingMissing
  <2>2. CASE n <= sent
    <3>1. PICK i \in 1..Len(wire) : IsMessage(i) /\ wire[i].seq = n
      BY <1>1, <2>2 DEF WireInv, NothingMissing
    <3>2. i \in 1..Len(wire') /\ IsMessage(i)' /\ wire'[i].seq = n
      BY <1>1, <1>2, <1>3, <3>1 DEF IsMessage
    <3>. QED
      BY <3>2
  <2>3. CASE n > sent
    <3>1. /\ Len(wire) + (n - sent) \in (Len(wire) + 1)..(Len(wire) + Unsent)
          /\ Len(wire) + (n - sent) \in 1..Len(wire')
          /\ sent + ((Len(wire) + (n - sent)) - Len(wire)) = n
      BY <1>1, <1>3, <2>3
    <3>. QED
      BY <1>4, <3>1
  <2>. QED
    BY <2>2, <2>3
<1>. QED
  BY <1>6, <1>7, <1>8, <1>9 DEF WireInv

(* The viewer takes the next event. *)
LEMMA WireReceives == ASSUME TypeOK, WireInv, Receive PROVE WireInv' /\ (InOrderOnce => InOrderOnce')
<1> USE WireTyped
<1>1. UNCHANGED <<status, length, sent, conn>> /\ conn # "none" /\ 1 \in 1..Len(wire)
  BY ReceiveEffect DEF Receive, WireInv, Counted, runVars, streamVars
<1>2. /\ Len(wire') = Len(wire) - 1
      /\ \A i \in 1..Len(wire') : i + 1 \in 1..Len(wire) /\ wire'[i] = wire[i + 1]
  BY ReceiveEffect
<1>3. \A i \in 1..Len(wire') : IsMessage(i)' <=> IsMessage(i + 1)
  BY <1>2 DEF IsMessage
<1>4. Ascending'
  <2>1. SUFFICES ASSUME NEW i \in 1..Len(wire'), NEW j \in 1..Len(wire'),
                        IsMessage(i)', IsMessage(j)', i < j
                 PROVE  wire'[i].seq < wire'[j].seq
    BY DEF Ascending
  <2>2. /\ i + 1 \in 1..Len(wire) /\ IsMessage(i + 1) /\ wire'[i] = wire[i + 1]
        /\ j + 1 \in 1..Len(wire) /\ IsMessage(j + 1) /\ wire'[j] = wire[j + 1]
    BY <1>2, <1>3, <2>1
  <2>. QED
    BY <2>1, <2>2 DEF WireInv, Ascending
<1>5. CASE IsMessage(1)
  <2>1. wire[1].seq = Len(got) + 1
    <3>1. PICK i \in 1..Len(wire) : IsMessage(i) /\ wire[i].seq = Len(got) + 1
      BY <1>1, <1>5 DEF WireInv, InFlight, NothingMissing
    <3>. QED
      BY <1>1, <1>5, <3>1 DEF WireInv, InFlight, Ascending
  <2>2. /\ Len(got') = Len(got) + 1 /\ got'[Len(got) + 1] = Len(got) + 1
        /\ \A i \in 1..Len(got) : got'[i] = got[i]
    BY <1>5, <2>1, ReceiveEffect DEF IsMessage
  <2>3. Counted'
    BY <1>1, <1>5, <2>1, <2>2 DEF WireInv, Counted, InFlight
  <2>4. InFlight'
    <3>1. SUFFICES ASSUME NEW i \in 1..Len(wire'), IsMessage(i)'
                   PROVE  wire'[i].seq > Len(got) + 1 /\ wire'[i].seq <= sent
      BY <1>1, <2>2 DEF InFlight
    <3>2. i + 1 \in 1..Len(wire) /\ IsMessage(i + 1) /\ wire'[i] = wire[i + 1]
      BY <1>2, <1>3, <3>1
    <3>. QED
      BY <1>1, <1>5, <2>1, <3>2 DEF WireInv, InFlight, Ascending
  <2>5. NothingMissing'
    <3>1. SUFFICES ASSUME NEW n \in (Len(got) + 2)..sent
                   PROVE  \E i \in 1..Len(wire') : IsMessage(i)' /\ wire'[i].seq = n
      BY <1>1, <2>2 DEF NothingMissing
    <3>2. PICK i \in 1..Len(wire) : IsMessage(i) /\ wire[i].seq = n
      BY <1>1 DEF WireInv, NothingMissing
    <3>3. i - 1 \in 1..Len(wire') /\ (i - 1) + 1 = i
      BY <1>1, <1>2, <2>1, <3>1, <3>2
    <3>. QED
      BY <1>2, <1>3, <3>2, <3>3
  <2>6. InOrderOnce => InOrderOnce'
    BY <2>2 DEF InOrderOnce
  <2>. QED
    BY <1>4, <2>3, <2>4, <2>5, <2>6 DEF WireInv
<1>6. CASE ~IsMessage(1)
  <2>1. got' = got
    BY <1>6, ReceiveEffect DEF IsMessage
  <2>2. Counted'
    BY <1>1, <2>1 DEF WireInv, Counted
  <2>3. InFlight'
    BY <1>1, <1>2, <1>3, <2>1 DEF WireInv, InFlight
  <2>4. NothingMissing'
    <3>1. SUFFICES ASSUME NEW n \in (Len(got) + 1)..sent
                   PROVE  \E i \in 1..Len(wire') : IsMessage(i)' /\ wire'[i].seq = n
      BY <1>1, <2>1 DEF NothingMissing
    <3>2. PICK i \in 1..Len(wire) : IsMessage(i) /\ wire[i].seq = n
      BY <1>1 DEF WireInv, NothingMissing
    <3>3. i - 1 \in 1..Len(wire') /\ (i - 1) + 1 = i
      BY <1>1, <1>2, <1>6, <3>2
    <3>. QED
      BY <1>2, <1>3, <3>2, <3>3
  <2>5. InOrderOnce => InOrderOnce'
    BY <2>1 DEF InOrderOnce
  <2>. QED
    BY <1>4, <2>2, <2>3, <2>4, <2>5 DEF WireInv
<1>. QED
  BY <1>5, <1>6

LEMMA WireSteps ==
    ASSUME TypeOK, WireInv, [Next]_vars
    PROVE  WireInv' /\ (InOrderOnce => InOrderOnce')
<1>1. CASE Receive
  BY <1>1, WireReceives
<1>2. CASE ~Receive
  <2>1. InOrderOnce => InOrderOnce'
    <3>1. got' = got
      BY <1>2
      DEF Next, vars, viewVars, RunMoves, Connect, Keepalive, Announced, QueueCatchUp,
          CatchUp, SendMessages, CatchUpFails, Disconnect
    <3>. QED
      BY <3>1 DEF InOrderOnce
  <2>2. ASSUME RunMoves PROVE WireInv'
    BY <2>2, WireRests, WireTyped, RunSteps DEF streamVars, viewVars
  <2>3. ASSUME Connect PROVE WireInv'
    <3>1. /\ wire = <<>> /\ wire' = <<>> /\ conn' = "open" /\ sent' = Len(got)
          /\ UNCHANGED <<got, status, length>>
      BY <2>3 DEF Connect, ResumeFrom, WireInv, Counted, runVars, viewVars
    <3>. QED
      BY <3>1, WireTyped
      DEF WireInv, Counted, InFlight, Ascending, NothingMissing, IsMessage
  <2>4. ASSUME Keepalive \/ Announced PROVE WireInv'
    <3>1. UNCHANGED <<status, length, conn, sent, wire, got>>
      BY <2>4 DEF Keepalive, Announced, QueueCatchUp, runVars, viewVars
    <3>. QED
      BY <3>1, WireRests, WireTyped DEF WireInv, Counted
  <2>5. ASSUME CatchUpFails PROVE WireInv'
    BY <2>5, WireRests, WireTyped DEF CatchUpFails, WireInv, Counted, runVars, viewVars
  <2>6. ASSUME Disconnect PROVE WireInv'
    BY <2>6
    DEF Disconnect, WireInv, Counted, InFlight, Ascending, NothingMissing, IsMessage, runVars
  <2>7. ASSUME UNCHANGED vars PROVE WireInv'
    BY <2>7, WireRests, WireTyped
    DEF vars, runVars, streamVars, viewVars, WireInv, Counted
  <2>. QED
    BY <1>2, <2>1, <2>2, <2>3, <2>4, <2>5, <2>6, <2>7, WireCatchUp, WireSends DEF Next
<1>. QED
  BY <1>1, <1>2

-----------------------------------------------------------------------------
(* The records and the end. *)
LEMMA RecordKept ==
    ASSUME NEW s, LastRecord(s), UNCHANGED <<wire, shown>>
    PROVE  LastRecord(s)'
BY DEF LastRecord

(* What joins the wire behind the last record, and is none, leaves it the last. *)
LEMMA RecordStaysLast ==
    ASSUME NEW s, LastRecord(s), shown' = shown,
           Len(wire) \in Nat, Len(wire') \in Nat, Len(wire') >= Len(wire),
           \A i \in 1..Len(wire) : wire'[i] = wire[i],
           \A i \in (Len(wire) + 1)..Len(wire') : wire'[i].kind # "run"
    PROVE  LastRecord(s)'
<1>1. CASE shown = s /\ \A i \in 1..Len(wire) : wire[i].kind # "run"
  BY <1>1 DEF LastRecord
<1>2. ASSUME NEW i \in 1..Len(wire), wire[i].kind = "run", wire[i].status = s,
             \A j \in 1..Len(wire) : j > i => wire[j].kind # "run"
      PROVE  LastRecord(s)'
  <2>1. i \in 1..Len(wire') /\ wire'[i] = wire[i]
    BY <1>2
  <2>2. \A j \in 1..Len(wire') : j > i => wire'[j].kind # "run"
    BY <1>2
  <2>. QED
    BY <1>2, <2>1, <2>2 DEF LastRecord
<1>. QED
  BY <1>1, <1>2 DEF LastRecord

LEMMA RecordReceived ==
    ASSUME NEW s, TypeOK, LastRecord(s), Receive
    PROVE  LastRecord(s)'
<1>1. /\ Len(wire) \in Nat \ {0} /\ Len(wire') = Len(wire) - 1
      /\ \A i \in 1..Len(wire') : wire'[i] = wire[i + 1]
      /\ shown' = IF wire[1].kind = "run" THEN wire[1].status ELSE shown
  BY ReceiveEffect
<1>2. CASE shown = s /\ \A i \in 1..Len(wire) : wire[i].kind # "run"
  BY <1>1, <1>2 DEF LastRecord
<1>3. ASSUME NEW i \in 1..Len(wire), wire[i].kind = "run", wire[i].status = s,
             \A j \in 1..Len(wire) : j > i => wire[j].kind # "run"
      PROVE  LastRecord(s)'
  <2>1. CASE i = 1
    BY <1>1, <1>3, <2>1 DEF LastRecord
  <2>2. CASE i # 1
    <3>1. i - 1 \in 1..Len(wire') /\ wire'[i - 1] = wire[i]
      BY <1>1, <2>2
    <3>2. \A j \in 1..Len(wire') : j > i - 1 => wire'[j].kind # "run"
      BY <1>1, <1>3, <2>2
    <3>. QED
      BY <1>3, <3>1, <3>2 DEF LastRecord
  <2>. QED
    BY <2>1, <2>2
<1>. QED
  BY <1>2, <1>3 DEF LastRecord

(* A step that leaves the wire, the viewer and the connection alone. *)
LEMMA EndRests ==
    ASSUME EndInv, UNCHANGED <<wire, shown, conn, sent, over, sentRun>>,
           current' \in {current, NULL},
           UNCHANGED <<status, length>> \/ status \notin Ended
    PROVE  EndInv'
<1>1. \A s : LastRecord(s) => LastRecord(s)'
  BY RecordKept
<1>. QED
  BY <1>1 DEF EndInv

LEMMA EndCatchUp == ASSUME TypeOK, EndInv, CatchUp PROVE EndInv'
<1>1. /\ UNCHANGED <<status, length, sent, shown, conn, over>> /\ conn = "open"
      /\ current' = status
  BY DEF CatchUp, runVars, viewVars
<1>2. ~over
  BY <1>1 DEF EndInv
<1>3. CASE ~sentRun'
  <2>1. wire' = wire
    BY <1>3, CatchUpEffect
  <2>. QED
    BY <1>1, <1>2, <1>3, <2>1 DEF EndInv, TypeOK
<1>4. CASE sentRun'
  <2>1. /\ Len(wire) \in Nat /\ Len(wire') = Len(wire) + 1
        /\ wire'[Len(wire) + 1] = RunEvent(status)
        /\ \A i \in 1..Len(wire) : wire'[i] = wire[i]
    BY <1>4, CatchUpEffect, AppendProperties DEF TypeOK
  <2>2. wire'[Len(wire) + 1].kind = "run" /\ wire'[Len(wire) + 1].status = status
    BY <2>1 DEF RunEvent
  <2>3. LastRecord(status)'
    BY <1>1, <2>1, <2>2 DEF LastRecord
  <2>4. \A i \in 1..Len(wire') : wire'[i].kind # "end"
    BY <1>1, <2>1, <2>2 DEF EndInv
  <2>. QED
    BY <1>1, <1>2, <2>3, <2>4 DEF EndInv, TypeOK
<1>. QED
  BY <1>3, <1>4

LEMMA EndSends == ASSUME TypeOK, WireInv, EndInv, SendMessages PROVE EndInv'
<1>1. /\ UNCHANGED <<status, length, shown, over, sentRun>> /\ current' = NULL
      /\ conn = "open" /\ current # NULL /\ sent' = length
      /\ conn' = IF current \in Ended THEN "ended" ELSE conn
  BY DEF SendMessages, runVars, viewVars, Ended, Run!Ended
<1>2. /\ ~over /\ \A i \in 1..Len(wire) : wire[i].kind # "end"
      /\ Len(wire) \in Nat /\ Unsent \in Nat
  BY <1>1, SendEffect, WireTyped DEF EndInv
<1>3. /\ \A i \in 1..Len(wire) : wire'[i] = wire[i]
      /\ Len(wire') = Len(wire) + Unsent
           + (IF current \notin Ended THEN 0 ELSE IF sentRun THEN 1 ELSE 2)
  BY SendEffect
<1>4. \A i \in (Len(wire) + 1)..(Len(wire) + Unsent) : wire'[i].kind = "message"
  <2>1. SUFFICES ASSUME NEW i \in (Len(wire) + 1)..(Len(wire) + Unsent)
                 PROVE  wire'[i].kind = "message"
    OBVIOUS
  <2>2. i - Len(wire) \in 1..Unsent /\ Len(wire) + (i - Len(wire)) = i
    BY <1>2
  <2>3. wire'[Len(wire) + (i - Len(wire))] = MessageEvent(sent + (i - Len(wire)))
    BY <2>2, SendEffect
  <2>. QED
    BY <2>2, <2>3 DEF MessageEvent
<1>5. CASE current \notin Ended
  <2>1. \A i \in 1..Len(wire') : wire'[i].kind # "end"
    BY <1>2, <1>3, <1>4, <1>5
  <2>. QED
    BY <1>1, <1>2, <1>5, <2>1 DEF EndInv
<1>6. CASE current \in Ended
  <2>1. status = current /\ conn' = "ended"
    BY <1>1, <1>6 DEF EndInv
  <2>2. /\ wire'[Len(wire')] = EndEvent(current)
        /\ ~sentRun => wire'[Len(wire) + Unsent + 1] = RunEvent(current)
    BY <1>6, SendEffect
  <2>3. wire'[Len(wire')].kind = "end" /\ Len(wire') \in Nat \ {0}
    BY <1>2, <1>3, <1>6, <2>2 DEF EndEvent
  <2>4. wire' # <<>>
    BY <2>3
  <2>5. \A i \in 1..Len(wire') : wire'[i].kind = "end" => i = Len(wire')
    BY <1>2, <1>3, <1>4, <1>6, <2>2 DEF RunEvent
  <2>6. ASSUME NEW s, s = current PROVE LastRecord(s)'
    <3>1. CASE sentRun
      <4>1. ASSUME NEW i \in (Len(wire) + 1)..Len(wire') PROVE wire'[i].kind # "run"
        <5>1. Len(wire') = Len(wire) + Unsent + 1
          BY <1>3, <1>6, <3>1
        <5>2. i \in (Len(wire) + 1)..(Len(wire) + Unsent) \/ i = Len(wire')
          BY <1>2, <5>1
        <5>3. i \in (Len(wire) + 1)..(Len(wire) + Unsent) => wire'[i].kind = "message"
          BY <1>4
        <5>. QED
          BY <2>3, <5>2, <5>3
      <4>2. LastRecord(s)
        BY <1>1, <2>6, <3>1 DEF EndInv
      <4>3. Len(wire') >= Len(wire)
        BY <1>2, <1>3, <1>6, <3>1
      <4>. QED
        BY <1>1, <1>2, <1>3, <2>3, <4>1, <4>2, <4>3, RecordStaysLast
    <3>2. CASE ~sentRun
      <4>1. /\ Len(wire') = Len(wire) + Unsent + 2
            /\ wire'[Len(wire) + Unsent + 1].kind = "run"
            /\ wire'[Len(wire) + Unsent + 1].status = current
        BY <1>2, <1>3, <1>6, <2>2, <3>2 DEF RunEvent
      <4>2. \A j \in 1..Len(wire') :
              j > Len(wire) + Unsent + 1 => wire'[j].kind # "run"
        BY <1>2, <2>3, <4>1
      <4>3. Len(wire) + Unsent + 1 \in 1..Len(wire')
        BY <1>2, <4>1
      <4>. QED
        BY <2>6, <4>1, <4>2, <4>3 DEF LastRecord
    <3>. QED
      BY <3>1, <3>2
  <2>. QED
    BY <1>1, <1>6, <2>1, <2>3, <2>4, <2>5, <2>6 DEF EndInv
<1>. QED
  BY <1>5, <1>6

LEMMA EndReceives == ASSUME TypeOK, TypeOK', WireInv, EndInv, Receive PROVE EndInv'
<1>1. UNCHANGED <<status, length, sent, conn, current, sentRun>>
  BY DEF Receive, runVars, streamVars
<1>2. /\ Len(wire) \in Nat \ {0} /\ Len(wire') = Len(wire) - 1 /\ wire # <<>>
      /\ \A i \in 1..Len(wire') : i + 1 \in 1..Len(wire) /\ wire'[i] = wire[i + 1]
  BY ReceiveEffect DEF Receive
<1>3. ~over /\ conn # "none"
  BY <1>2 DEF EndInv, WireInv, Counted, Receive
<1>4. \A s : LastRecord(s) => LastRecord(s)'
  BY RecordReceived
<1>5. \A i \in 1..Len(wire') : wire'[i].kind = "end" => i = Len(wire') /\ conn = "ended"
  <2>1. SUFFICES ASSUME NEW i \in 1..Len(wire'), wire'[i].kind = "end"
                 PROVE  i = Len(wire') /\ conn = "ended"
    OBVIOUS
  <2>2. i + 1 \in 1..Len(wire) /\ wire[i + 1].kind = "end"
    BY <1>2, <2>1
  <2>3. i + 1 = Len(wire) /\ conn = "ended"
    BY <2>2 DEF EndInv
  <2>. QED
    BY <1>2, <2>3
<1>6. CASE wire[1].kind = "end"
  <2>1. Len(wire) = 1 /\ conn = "ended"
    BY <1>2, <1>6 DEF EndInv
  <2>2. wire' = <<>> /\ over'
    <3>1. wire' = <<>>
      BY <1>2, <2>1 DEF TypeOK
    <3>2. Head(wire) = wire[1] /\ over' = (over \/ Head(wire).kind = "end")
      BY <1>2 DEF Receive, TypeOK
    <3>. QED
      BY <1>6, <3>1, <3>2
  <2>3. current = NULL
    BY <2>1 DEF EndInv
  <2>. QED
    BY <1>1, <1>4, <1>5, <2>1, <2>2, <2>3 DEF EndInv
<1>7. CASE wire[1].kind # "end"
  <2>1. ~over'
    BY <1>3, <1>7, ReceiveEffect
  <2>2. conn = "ended" => wire' # <<>> /\ wire'[Len(wire')].kind = "end"
    BY <1>2, <1>3, <1>7 DEF EndInv
  <2>. QED
    BY <1>1, <1>4, <1>5, <2>1, <2>2 DEF EndInv
<1>. QED
  BY <1>6, <1>7

LEMMA EndSteps == ASSUME TypeOK, WireInv, EndInv, [Next]_vars PROVE EndInv'
<1>1. CASE RunMoves
  BY <1>1, EndRests, RunSteps DEF streamVars, viewVars
<1>2. CASE Connect
  <2>1. /\ wire = <<>> /\ wire' = <<>> /\ conn' = "open" /\ current' = NULL
        /\ ~over /\ over' = over
    BY <1>2 DEF Connect, WireInv, Counted, viewVars
  <2>. QED
    BY <2>1 DEF EndInv
<1>3. CASE Keepalive \/ Announced
  <2>1. UNCHANGED <<status, length, conn, sent, wire, shown, over, sentRun, current>>
    BY <1>3 DEF Keepalive, Announced, QueueCatchUp, runVars, viewVars
  <2>. QED
    BY <2>1, EndRests
<1>4. CASE CatchUpFails
  BY <1>4, EndRests DEF CatchUpFails, runVars, viewVars
<1>5. CASE Disconnect
  BY <1>5 DEF Disconnect, EndInv
<1>6. CASE UNCHANGED vars
  BY <1>6, EndRests DEF vars, runVars, streamVars, viewVars
<1>. QED
  BY <1>1, <1>2, <1>3, <1>4, <1>5, <1>6, EndCatchUp, EndSends, EndReceives,
     StreamTypes DEF Next

-----------------------------------------------------------------------------
LEMMA StreamInvariant == Spec => []StreamInv
<1>1. Init => StreamInv
  <2> SUFFICES ASSUME Init PROVE StreamInv
    OBVIOUS
  <2>1. TypeOK /\ wire = <<>> /\ got = <<>>
    BY DEF Init, Run!Init, TypeOK, Statuses
  <2>2. WireInv
    BY <2>1
    DEF Init, Run!Init, WireInv, Counted, InFlight, Ascending, NothingMissing, IsMessage
  <2>3. EndInv
    BY <2>1 DEF Init, EndInv
  <2>4. InOrderOnce
    BY <2>1 DEF InOrderOnce
  <2>. QED
    BY <2>1, <2>2, <2>3, <2>4 DEF StreamInv
<1>2. StreamInv /\ [Next]_vars => StreamInv'
  BY StreamTypes, WireSteps, EndSteps DEF StreamInv
<1>. QED
  BY <1>1, <1>2, PTL DEF Spec

(* IN ORDER, ONCE.  Over any number of connections, with any number of         *)
(* announcements lost or repeated and catch-ups failed, the viewer's messages  *)
(* are 1, 2, 3, ... of the transcript.                                         *)
THEOREM MessagesInOrder == Spec => []InOrderOnce
BY StreamInvariant, PTL DEF StreamInv

(* COMPLETE AT THE END.  A viewer that saw `end` has every message of the      *)
(* finished run and its final record, though the record is read before the     *)
(* messages and the run may end in between.                                    *)
THEOREM EndMeansComplete == Spec => []EndIsComplete
<1>1. StreamInv => EndIsComplete
  <2> SUFFICES ASSUME StreamInv, over
               PROVE  status \in Run!Ended /\ Len(got) = length /\ shown = status
    BY DEF EndIsComplete
  <2>1. /\ conn = "ended" /\ wire = <<>> /\ Len(wire) = 0
        /\ status \in Ended /\ sent = length /\ LastRecord(status)
    BY DEF StreamInv, EndInv
  <2>2. shown = status
    BY <2>1 DEF LastRecord
  <2>3. Len(got) = length
    BY <2>1, WireTyped DEF StreamInv, WireInv, Counted, NothingMissing
  <2>. QED
    BY <2>1, <2>2, <2>3 DEF Ended, Run!Ended
<1>. QED
  BY <1>1, StreamInvariant, PTL
=============================================================================
