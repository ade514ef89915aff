------------------------------- MODULE RunStore -------------------------------
(***************************************************************************)
(* The Postgres rows of ONE agent run (packages/agents/src/run-store.ts):  *)
(* its `runs` row, its `run_messages` and its `tool_calls`, and the        *)
(* store's statements as operators.  Each operator is one SQL statement or *)
(* transaction, so it is atomic; the processes that issue them are in      *)
(* AgentLoop and AgentRuns.  Every statement is keyed by the run's id, so  *)
(* runs do not interfere through the store and one run is enough.          *)
(*                                                                         *)
(* Time is abstract.  `leaseExpired` is `lease_expires_at < now()`.        *)
(* `overdue` is "updated_at is older than the window of the run's present  *)
(* status" (60 s queued, twice the timeout running, the chat idle time     *)
(* waiting): every statement that changes the status also sets             *)
(* updated_at, so one flag is enough.                                      *)
(***************************************************************************)
EXTENDS Integers, Sequences, FiniteSets

CONSTANTS
    Modes,          \* modes the run may be created in: "task", "chat"
    Holders,        \* lease owner names
    NULL,           \* no lease owner
    ReadCalls,      \* ids of calls to a tool with effect read
    WriteCalls,     \* ids of calls to a tool with effect write or delete
    RefusedCalls    \* ids of calls decided without running: unknown tool, bad input

ASSUME ModesAssumption == Modes \subseteq {"task", "chat"}

ASSUME NullAssumption == NULL \notin Holders

ASSUME CallsAssumption ==
    /\ ReadCalls \cap WriteCalls = {}
    /\ ReadCalls \cap RefusedCalls = {}
    /\ WriteCalls \cap RefusedCalls = {}

Calls == ReadCalls \cup WriteCalls \cup RefusedCalls

VARIABLES
    mode,             \* "task" or "chat", fixed when the run is created
    status,           \* the run's status; "absent" before create()
    leaseOwner,
    leaseExpired,
    cancelRequested,
    steps,            \* model steps counted by recordStep
    overdue,
    transcript,       \* the messages in seq order
    told,             \* per call, the result its tool message carries
    callStatus        \* per call, the status of its audit row

leaseVars == <<leaseOwner, leaseExpired>>
callVars == <<told, callStatus>>
storeVars == <<mode, status, leaseOwner, leaseExpired, cancelRequested, steps,
               overdue, transcript, told, callStatus>>

Terminal == {"succeeded", "failed", "cancelled"}
PARKED == {"queued", "waiting_input"}
LIVE == PARKED \cup {"running"}
Statuses == {"absent"} \cup LIVE \cup Terminal

Outcomes == {"succeeded", "failed", "denied", "outcome_unknown"}
LIVE_CALL == {"executing"}
CallStatuses == {"none"} \cup LIVE_CALL \cup Outcomes

(* A stored message.  "note" is the step-limit note, a user message with a tag. *)
Message == [role : {"user", "note", "assistant", "tool"}, calls : SUBSET Calls]
UserMessage == [role |-> "user", calls |-> {}]
NoteMessage == [role |-> "note", calls |-> {}]
Answer == [role |-> "assistant", calls |-> {}]
CallMessage(S) == [role |-> "assistant", calls |-> S]
ToolMessage(S) == [role |-> "tool", calls |-> S]

LastMessage == transcript[Len(transcript)]

(* The rows are well typed. *)
StoreTypeOK ==
    /\ mode \in {"task", "chat"}
    /\ status \in Statuses
    /\ leaseOwner \in Holders \cup {NULL}
    /\ leaseExpired \in BOOLEAN
    /\ cancelRequested \in BOOLEAN
    /\ steps \in Nat
    /\ overdue \in BOOLEAN
    /\ transcript \in Seq(Message)
    /\ told \in [Calls -> {"none"} \cup Outcomes]
    /\ callStatus \in [Calls -> CallStatuses]

StoreInit ==
    /\ mode \in Modes
    /\ status = "absent"
    /\ leaseOwner = NULL
    /\ leaseExpired = FALSE
    /\ cancelRequested = FALSE
    /\ steps = 0
    /\ overdue = FALSE
    /\ transcript = <<>>
    /\ told = [c \in Calls |-> "none"]
    /\ callStatus = [c \in Calls |-> "none"]

-----------------------------------------------------------------------------
(* create(): the row and its opening message, in one transaction. *)
Create ==
    /\ status = "absent"
    /\ status' = "queued"
    /\ transcript' = <<UserMessage>>
    /\ UNCHANGED <<mode, leaseVars, cancelRequested, steps, overdue, callVars>>

(* claim()'s WHERE clause. *)
MayClaim ==
    /\ ~cancelRequested
    /\ status = "queued" \/ (status = "running" /\ leaseExpired)

(* Faulty variant of Claim: a takeover counts as progress. *)
ClaimIsProgress(h) ==
    /\ MayClaim
    /\ status' = "running" /\ leaseOwner' = h /\ leaseExpired' = FALSE
    /\ overdue' = FALSE
    /\ UNCHANGED <<mode, cancelRequested, steps, transcript, callVars>>

(* claim(): taking over a dead worker's run leaves updated_at alone. *)
Claim(h) ==
    /\ MayClaim
    /\ status' = "running"
    /\ leaseOwner' = h
    /\ leaseExpired' = FALSE
    /\ overdue' = IF status = "queued" THEN FALSE ELSE overdue
    /\ UNCHANGED <<mode, cancelRequested, steps, transcript, callVars>>

(* renewLease()'s WHERE clause: an expired lease nobody took is still held. *)
Held(h) == leaseOwner = h /\ status = "running"

RenewLease(h) ==
    /\ Held(h)
    /\ leaseExpired' = FALSE
    /\ UNCHANGED <<mode, status, leaseOwner, cancelRequested, steps, overdue, transcript, callVars>>

(* Faulty variant of Owns: the owner is not checked. *)
OwnsUnchecked(h) == TRUE

(* The `lease_owner = $owner` condition of the worker's writes. *)
Owns(h) == leaseOwner = h

(* appendMessages() by the worker holding the lease: next seq, one message. *)
AppendMessage(h, m) ==
    /\ Owns(h)
    /\ transcript' = Append(transcript, m)
    /\ overdue' = FALSE
    /\ UNCHANGED <<mode, status, leaseVars, cancelRequested, steps, callStatus>>

(* recordStep(): no owner and no status condition. *)
RecordStep ==
    /\ steps' = steps + 1
    /\ overdue' = FALSE
    /\ UNCHANGED <<mode, status, leaseVars, cancelRequested, transcript, callVars>>

(* Faulty variant of Settle: the lease is not released. *)
SettleKeepsLease(s) ==
    /\ status' = s
    /\ overdue' = FALSE
    /\ UNCHANGED <<mode, leaseVars, cancelRequested, steps, transcript, callVars>>

(* The statements that end or park a run: its new status, and no lease. *)
Settle(s) ==
    /\ status' = s
    /\ leaseOwner' = NULL
    /\ leaseExpired' = FALSE
    /\ overdue' = FALSE
    /\ UNCHANGED <<mode, cancelRequested, steps, transcript, callVars>>

(* finish()'s WHERE clause, for a worker and for a caller without an owner. *)
MayFinish(h) == status \in LIVE /\ Owns(h)

Finish(h, outcome) == MayFinish(h) /\ Settle(outcome)

FinishUnowned(outcome) == status \in LIVE /\ Settle(outcome)

(* Faulty variant of ParkedStatus: a pending cancel is not looked at. *)
ParksAnyway == "waiting_input"

(* waitForInput(): a cancel that arrived during the turn is settled here. *)
ParkedStatus == IF cancelRequested THEN "cancelled" ELSE "waiting_input"

WaitForInput(h) == Held(h) /\ Settle(ParkedStatus)

(* addUserMessage(): the message and the re-queueing, in one transaction. *)
AddUserMessage ==
    /\ status = "waiting_input"
    /\ transcript' = Append(transcript, UserMessage)
    /\ status' = "queued"
    /\ overdue' = FALSE
    /\ UNCHANGED <<mode, leaseVars, cancelRequested, steps, callVars>>

(* Faulty variant of CancelledStatus: a running run is cancelled under its worker. *)
CancelsRunning == "cancelled"

(* requestCancel(): a parked run ends at once, a running one is flagged. *)
CancelledStatus == IF status \in PARKED THEN "cancelled" ELSE status

RequestCancel ==
    /\ status \in LIVE
    /\ cancelRequested' = TRUE
    /\ status' = CancelledStatus
    /\ overdue' = FALSE
    /\ UNCHANGED <<mode, leaseVars, steps, transcript, callVars>>

-----------------------------------------------------------------------------
(* startToolCall()'s conflict clause: a row is restarted only for a read in *)
(* flight.  (The `pending` rows it also restarts belong to approvals, which *)
(* no code writes yet.)                                                     *)
MayRestart(c) == callStatus[c] = "executing" /\ c \in ReadCalls

(* startToolCall(): for the lease holder only, and by the conflict clause. *)
MayStart(h, c) == Owns(h) /\ (callStatus[c] = "none" \/ MayRestart(c))

(* Faulty variant of StartToolCall: the row is not written before the tool runs. *)
StartUnrecorded(h, c, s) == MayStart(h, c) /\ UNCHANGED storeVars

StartToolCall(h, c, s) ==
    /\ MayStart(h, c)
    /\ callStatus' = [callStatus EXCEPT ![c] = s]
    /\ UNCHANGED <<mode, status, leaseVars, cancelRequested, steps, overdue, transcript, told>>

(* Faulty variant of Outcome: the last outcome stands. *)
LastOutcome(c, s) == s

(* finishToolCall(): the first outcome stands. *)
Outcome(c, s) == IF callStatus[c] \in LIVE_CALL THEN s ELSE callStatus[c]

FinishToolCall(c, s) ==
    /\ callStatus' = [callStatus EXCEPT ![c] = Outcome(c, s)]
    /\ UNCHANGED <<mode, status, leaseVars, cancelRequested, steps, overdue, transcript, told>>

-----------------------------------------------------------------------------
(* The statements of the periodic sweep. *)
(* Faulty variant of CancelAbandonedGuard: nobody finishes an abandoned run. *)
NeverAbandoned == FALSE

CancelAbandonedGuard == status = "running" /\ cancelRequested /\ leaseExpired

CancelAbandoned == CancelAbandonedGuard /\ Settle("cancelled")

ExpiredLease == status = "running" /\ leaseExpired /\ ~cancelRequested

StaleQueued == status = "queued" /\ overdue

(* requeueStaleQueued(): restarts the run's wait; the caller queues it. *)
RequeueStaleQueued ==
    /\ StaleQueued
    /\ overdue' = FALSE
    /\ UNCHANGED <<mode, status, leaseVars, cancelRequested, steps,
                   transcript, callVars>>

Stalled == status = "running" /\ overdue

FailStalled == Stalled /\ Settle("failed")

IdleChat == status = "waiting_input" /\ mode = "chat" /\ overdue

CloseIdleChats == IdleChat /\ Settle("succeeded")

(* The database clock passes lease_expires_at, or the window of updated_at. *)
LeaseRunsOut ==
    /\ status = "running" /\ ~leaseExpired
    /\ leaseExpired' = TRUE
    /\ UNCHANGED <<mode, status, leaseOwner, cancelRequested, steps, overdue, transcript, callVars>>

WindowPasses ==
    /\ status \in LIVE /\ ~overdue
    /\ overdue' = TRUE
    /\ UNCHANGED <<mode, status, leaseVars, cancelRequested, steps,
                   transcript, callVars>>
=============================================================================
