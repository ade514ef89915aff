------------------------------ MODULE RunStream ------------------------------
(***************************************************************************)
(* GET /runs/:id/stream (packages/api-server/src/routes/runs.ts): a viewer *)
(* follows a run over server-sent events.  Redis announces changes, best   *)
(* effort; every announcement, and every keepalive, queues a catch-up that *)
(* reads Postgres and sends what is new.  The run is any behaviour of      *)
(* RunLifecycle, which AgentRuns implements.                               *)
(*                                                                         *)
(* Messages are numbered from 1; `sent` is lastSeq + 1 of the code.        *)
(***************************************************************************)
EXTENDS Naturals, Sequences

CONSTANTS
    MaxLength,    \* bound: messages in the transcript
    MaxChain,     \* bound: queued catch-ups; one more would only repeat them
    MaxWire,      \* bound: run records written and not yet received
    MaxDrops,     \* bound: connections lost
    NULL

ASSUME StreamAssumption ==
    /\ MaxLength \in Nat \ {0} /\ MaxChain \in Nat \ {0}
    /\ MaxWire \in Nat \ {0} /\ MaxDrops \in Nat
    /\ NULL \notin {"absent", "queued", "running", "waiting_input",
                    "succeeded", "failed", "cancelled"}

VARIABLES
    status, length,      \* the run, as in RunLifecycle
    conn,                \* "none", "open", or "ended" by the server
    first, sentStatus,   \* the stream's own memory
    sent,
    chain,               \* queued catch-ups, each with its statusChanged
    current,             \* what runs.get() returned to the catch-up under way
    sentRun,
    wire,                \* events written and not yet received
    got, shown, over,    \* the viewer: messages, last run record, saw `end`
    drops

runVars == <<status, length>>
streamVars == <<conn, first, sentStatus, sent, chain, current, sentRun>>
viewVars == <<got, shown, over, drops>>
vars == <<runVars, streamVars, wire, viewVars>>

Run == INSTANCE RunLifecycle

RunEvent(s) == [kind |-> "run", status |-> s]
MessageEvent(n) == [kind |-> "message", seq |-> n]
EndEvent(s) == [kind |-> "end", status |-> s]

Init ==
    /\ Run!Init
    /\ conn = "none" /\ first = TRUE /\ sentStatus = NULL /\ sent = 0
    /\ chain = <<>> /\ current = NULL /\ sentRun = FALSE
    /\ wire = <<>>
    /\ got = <<>> /\ shown = NULL /\ over = FALSE /\ drops = 0

(* The run goes on, whoever watches. *)
RunMoves ==
    /\ Run!Next
    /\ length' <= MaxLength
    /\ UNCHANGED <<streamVars, wire, viewVars>>

-----------------------------------------------------------------------------
(* Faulty variant of ResumeFrom: Last-Event-ID is not looked at. *)
ResumeAtStart == 0

(* Last-Event-ID, which the viewer's client sends when it reconnects. *)
ResumeFrom == Len(got)

(* A viewer connects: subscribed first, then the first catch-up. *)
Connect ==
    /\ conn = "none" /\ ~over /\ status # "absent"
    /\ conn' = "open"
    /\ first' = TRUE
    /\ sentStatus' = NULL
    /\ sent' = ResumeFrom
    /\ chain' = <<FALSE>>
    /\ current' = NULL
    /\ sentRun' = FALSE
    /\ UNCHANGED <<runVars, wire, viewVars>>

QueueCatchUp(statusChanged) ==
    /\ conn = "open" /\ Len(chain) < MaxChain
    /\ chain' = Append(chain, statusChanged)
    /\ UNCHANGED <<runVars, conn, first, sentStatus, sent, current, sentRun, wire, viewVars>>

(* An announcement arrives.  Any number of them may be lost, late or repeated. *)
Announced == \E statusChanged \in BOOLEAN : QueueCatchUp(statusChanged)

(* Faulty variant of Keepalive: the timer only writes the ping. *)
PingOnly == conn = "open" /\ UNCHANGED vars

Keepalive == QueueCatchUp(FALSE)

(* A catch-up reads the run's record ... *)
CatchUp ==
    /\ conn = "open" /\ chain # <<>> /\ current = NULL
    /\ Len(wire) < MaxWire
    /\ LET changed == Head(chain) \/ status # sentStatus
           send == first \/ (changed /\ status \notin Run!Ended)
       IN  /\ wire' = IF send THEN Append(wire, RunEvent(status)) ELSE wire
           /\ sentRun' = send
    /\ current' = status
    /\ first' = FALSE
    /\ sentStatus' = status
    /\ UNCHANGED <<runVars, conn, sent, chain, viewVars>>

NewMessages == [i \in 1..(length - sent) |-> MessageEvent(sent + i)]

(* Faulty variant of Closing: a finished run's record is not sent again. *)
ClosingWithoutRecord == IF current \in Run!Ended THEN <<EndEvent(current)>> ELSE <<>>

(* A finished run's record goes out after its last messages. *)
Closing ==
    IF current \notin Run!Ended THEN <<>>
    ELSE (IF sentRun THEN <<>> ELSE <<RunEvent(current)>>) \o <<EndEvent(current)>>

(* ... and then the messages after the last one sent. *)
SendMessages ==
    /\ conn = "open" /\ current # NULL
    /\ wire' = wire \o NewMessages \o Closing
    /\ sent' = length
    /\ conn' = IF current \in Run!Ended THEN "ended" ELSE conn
    /\ chain' = IF current \in Run!Ended THEN <<>> ELSE Tail(chain)
    /\ current' = NULL
    /\ UNCHANGED <<runVars, first, sentStatus, sentRun, viewVars>>

(* Either read fails: the catch-up is dropped, the next one starts afresh. *)
CatchUpFails ==
    /\ conn = "open" /\ chain # <<>>
    /\ chain' = Tail(chain)
    /\ current' = NULL
    /\ UNCHANGED <<runVars, conn, first, sentStatus, sent, sentRun, wire, viewVars>>

-----------------------------------------------------------------------------
(* The viewer receives the next event. *)
Receive ==
    /\ wire # <<>>
    /\ wire' = Tail(wire)
    /\ LET e == Head(wire)
       IN  /\ got' = IF e.kind = "message" THEN Append(got, e.seq) ELSE got
           /\ shown' = IF e.kind = "run" THEN e.status ELSE shown
           /\ over' = (over \/ e.kind = "end")
    /\ UNCHANGED <<runVars, streamVars, drops>>

(* The connection breaks, or the server shuts down: what was not received is lost. *)
Disconnect ==
    /\ conn # "none" /\ ~over /\ drops < MaxDrops
    /\ drops' = drops + 1
    /\ conn' = "none"
    /\ chain' = <<>>
    /\ current' = NULL
    /\ wire' = <<>>
    /\ UNCHANGED <<runVars, first, sentStatus, sent, sentRun, got, shown, over>>

Next ==
    \/ RunMoves \/ Connect \/ Keepalive \/ Announced \/ CatchUp \/ SendMessages
    \/ CatchUpFails \/ Receive \/ Disconnect

Spec == Init /\ [][Next]_vars

(* The viewer's client reconnects and reads, the keepalive timer fires, and   *)
(* Postgres does not fail every read.  Announcements need not arrive at all.  *)
Fairness ==
    /\ WF_vars(Connect) /\ WF_vars(Receive)
    /\ WF_vars(Keepalive)
    /\ SF_vars(CatchUp) /\ SF_vars(SendMessages)

FairSpec == Spec /\ Fairness

-----------------------------------------------------------------------------
(* The viewer gets the transcript in order, without a gap and without a repeat, *)
(* over any number of connections.                                              *)
InOrderOnce == \A i \in 1..Len(got) : got[i] = i

(* `end` comes when the viewer has everything: each message of the finished run *)
(* and its final record.                                                        *)
EndIsComplete ==
    over => status \in Run!Ended /\ Len(got) = length /\ shown = status

(* A viewer learns that the run has ended, whatever announcements are lost. *)
StreamEnds == status \in Run!Ended ~> over
=============================================================================
