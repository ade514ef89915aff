------------------------------ MODULE AgentLoop ------------------------------
(***************************************************************************)
(* The run loop (packages/agent-runner/src/loop/agent-loop.ts): worker     *)
(* slots that claim the run and drive it from its stored transcript.  A    *)
(* slot is one call of process(); each write to the store and each tool    *)
(* execution is an action of its own, and the heartbeat timer runs beside. *)
(* A slot that dies, or whose call throws, simply stops (Crash).           *)
(***************************************************************************)
EXTENDS RunStore

CONSTANTS
    Workers,      \* worker slots, of one runner process or of several
    MaxSteps,     \* limits.maxSteps, the lower of the agent's and the instance's
    StepBound     \* bound of the model: refusals are not counted past it

ASSUME LimitAssumption == MaxSteps \in Nat \ {0} /\ StepBound \in Nat

VARIABLES
    pc,         \* where each slot's process() is
    holder,     \* the name it claimed the run under
    abort,      \* the reason its AbortController was aborted with
    msg,        \* the step it will append, or the one whose calls it settles
    base,       \* steps at the start of a chat turn (zero for a task)
    seen,       \* run.steps as the slot last read it
    task,       \* per call of the step being settled: what is left to do, or its result
    verdict,    \* the outcome it is about to record, or "none"
    performed,  \* history: how often each write took effect
    lateSteps   \* history: model steps appended after a cancel was requested

loopVars == <<holder, abort, msg, base, seen, task, verdict>>
observed == <<performed, lateSteps>>
workerVars == <<pc, holder, abort, msg, base, seen, task, verdict>>

PCs == {"idle", "load", "append", "record", "end", "settle", "drain"}
ToDo == {"start", "run", "finish", "fail", "refuse", "unknown"}
InProgress == {"run", "finish", "fail"}
TaskStates == {"none"} \cup ToDo \cup Outcomes

NoTasks == [c \in Calls |-> "none"]

(* The slots' variables are well typed. *)
LoopTypeOK ==
    /\ pc \in [Workers -> PCs]
    /\ holder \in [Workers -> Holders \cup {NULL}]
    /\ abort \in [Workers -> {"none", "cancelled", "lease_lost"}]
    /\ msg \in [Workers -> Message]
    /\ base \in [Workers -> Nat]
    /\ seen \in [Workers -> Nat]
    /\ task \in [Workers -> [Calls -> TaskStates]]
    /\ verdict \in [Workers -> {"none"} \cup Terminal]

LoopInit ==
    /\ pc = [w \in Workers |-> "idle"]
    /\ holder = [w \in Workers |-> NULL]
    /\ abort = [w \in Workers |-> "none"]
    /\ msg = [w \in Workers |-> UserMessage]
    /\ base = [w \in Workers |-> 0]
    /\ seen = [w \in Workers |-> 0]
    /\ task = [w \in Workers |-> NoTasks]
    /\ verdict = [w \in Workers |-> "none"]
    /\ performed = [c \in WriteCalls |-> 0]
    /\ lateSteps = 0

Goto(w, l) == pc' = [pc EXCEPT ![w] = l]

(* process() returns: the slot is free and its heartbeat is off. *)
Return(w) ==
    /\ pc' = [pc EXCEPT ![w] = "idle"]
    /\ holder' = [holder EXCEPT ![w] = NULL]
    /\ abort' = [abort EXCEPT ![w] = "none"]
    /\ msg' = [msg EXCEPT ![w] = UserMessage]
    /\ base' = [base EXCEPT ![w] = 0]
    /\ seen' = [seen EXCEPT ![w] = 0]
    /\ task' = [task EXCEPT ![w] = NoTasks]
    /\ verdict' = [verdict EXCEPT ![w] = "none"]

(* Go on to record an outcome with finish(). *)
EndWith(w, outcome) ==
    /\ Goto(w, "end")
    /\ verdict' = [verdict EXCEPT ![w] = outcome]
    /\ UNCHANGED <<holder, abort, msg, base, seen, task>>

(* The names a claim may not take: a fresh one is drawn for every claim. *)
NamesInUse == {leaseOwner} \cup {holder[w] : w \in Workers}

-----------------------------------------------------------------------------
(* process(), first half: claim the run, or give up.  drive() fails the run at *)
(* once when the instance no longer offers the agent's model.  The warnings    *)
(* offerTools() records are left out: a repeated one changes nothing.          *)
ClaimRun(w, h) ==
    /\ pc[w] = "idle"
    /\ Claim(h)
    /\ \/ Goto(w, "load") /\ UNCHANGED verdict
       \/ Goto(w, "end") /\ verdict' = [verdict EXCEPT ![w] = "failed"]
    /\ holder' = [holder EXCEPT ![w] = h]
    /\ base' = [base EXCEPT ![w] = IF mode = "chat" THEN steps ELSE 0]
    /\ seen' = [seen EXCEPT ![w] = steps]
    /\ UNCHANGED <<abort, msg, task, observed>>

(* One pass of drive() reads the last message and does the one thing that     *)
(* state needs.  The pass's reads (listMessages, get, listToolCalls) and the  *)
(* model call are one action with what follows from them: only the lease      *)
(* holder appends, so for a slot that still holds the run the reads cannot    *)
(* grow stale, and what a slot that lost it decided is refused by the store.  *)
AtQuestion(w) == pc[w] = "load" /\ LastMessage.role # "assistant"
AtCalls(w) == pc[w] = "load" /\ LastMessage.role = "assistant" /\ LastMessage.calls # {}
AtAnswer(w) == pc[w] = "load" /\ LastMessage.role = "assistant" /\ LastMessage.calls = {}

(* An answer ends the run, or the chat turn.  A refused write returns too. *)
EndTurn(w) ==
    /\ AtAnswer(w)
    /\ IF mode = "chat"
       THEN WaitForInput(holder[w]) \/ (~Held(holder[w]) /\ UNCHANGED storeVars)
       ELSE \/ Finish(holder[w], "succeeded")
            \/ ~MayFinish(holder[w]) /\ UNCHANGED storeVars
    /\ Return(w)
    /\ UNCHANGED observed

(* end() and fail(). *)
End(w) ==
    /\ pc[w] = "end"
    /\ \/ Finish(holder[w], verdict[w])
       \/ ~MayFinish(holder[w]) /\ UNCHANGED storeVars
    /\ Return(w)
    /\ UNCHANGED observed

-----------------------------------------------------------------------------
(* A model step. *)
IsLastStep(w) == (seen[w] - base[w]) + 1 >= MaxSteps

(* Faulty variant of Cancelling: only the heartbeat is trusted. *)
CancelSeenByHeartbeat(w) == abort[w] = "cancelled"

Cancelling(w) == abort[w] = "cancelled" \/ cancelRequested

(* checkBeforeStep() lets the next model step go ahead. *)
MayStep(w) ==
    /\ abort[w] # "lease_lost"
    /\ ~Cancelling(w)
    /\ steps - base[w] < MaxSteps

(* checkBeforeStep() stops: a lost lease, a cancel, or a limit (the token, time *)
(* and daily limits are a choice).  callModel() stops the same way when it is   *)
(* aborted, and fails the run when the model does.                              *)
Stop(w) ==
    /\ AtQuestion(w)
    /\ UNCHANGED <<storeVars, observed>>
    /\ IF abort[w] = "lease_lost" THEN Return(w)
       ELSE EndWith(w, IF Cancelling(w) THEN "cancelled" ELSE "failed")

(* The last-step note, once, before the last step. *)
AppendNote(w) ==
    /\ AtQuestion(w) /\ MayStep(w)
    /\ IsLastStep(w) /\ LastMessage.role # "note"
    /\ \/ /\ AppendMessage(holder[w], NoteMessage)
          /\ UNCHANGED <<workerVars, told>>
       \/ ~Owns(holder[w]) /\ Return(w) /\ UNCHANGED storeVars
    /\ UNCHANGED observed

FreshCalls == Calls \ UNION {transcript[i].calls : i \in 1..Len(transcript)}

(* Faulty variant of AfterStep: the error code where the status belongs. *)
AfterStepCode(w, S) == IF IsLastStep(w) /\ S # {} THEN "STEP_LIMIT" ELSE "none"

(* A last step that still calls tools ends the run once it is recorded. *)
AfterStep(w, S) == IF IsLastStep(w) /\ S # {} THEN "failed" ELSE "none"

(* callModel() returns an answer (no calls) or tool calls under new call ids. *)
ModelStep(w) ==
    /\ AtQuestion(w) /\ MayStep(w)
    /\ IsLastStep(w) => LastMessage.role = "note"
    /\ \E S \in SUBSET FreshCalls :
         /\ msg' = [msg EXCEPT ![w] = CallMessage(S)]
         /\ verdict' = [verdict EXCEPT ![w] = AfterStep(w, S)]
    /\ Goto(w, "append")
    /\ UNCHANGED <<storeVars, holder, abort, base, seen, task, observed>>

(* A refusal, or no answer at all, is counted and then fails the run. *)
ModelRefuses(w) ==
    /\ AtQuestion(w) /\ MayStep(w)
    /\ IsLastStep(w) => LastMessage.role = "note"
    /\ steps < StepBound
    /\ verdict' = [verdict EXCEPT ![w] = "failed"]
    /\ Goto(w, "record")
    /\ UNCHANGED <<storeVars, holder, abort, msg, base, seen, task, observed>>

AppendStep(w) ==
    /\ pc[w] = "append"
    /\ \/ /\ AppendMessage(holder[w], msg[w])
          /\ Goto(w, "record")
          /\ msg' = [msg EXCEPT ![w] = UserMessage]
          /\ lateSteps' = IF cancelRequested THEN lateSteps + 1 ELSE lateSteps
          /\ UNCHANGED <<told, holder, abort, base, seen, task, verdict>>
       \/ ~Owns(holder[w]) /\ Return(w) /\ UNCHANGED <<storeVars, lateSteps>>
    /\ UNCHANGED performed

CountStep(w) ==
    /\ pc[w] = "record"
    /\ RecordStep
    /\ seen' = [seen EXCEPT ![w] = steps']
    /\ Goto(w, IF verdict[w] = "none" THEN "load" ELSE "end")
    /\ UNCHANGED <<holder, abort, msg, base, task, verdict, observed>>

-----------------------------------------------------------------------------
(* settleCalls(): what each call of the step still needs, from the audit rows. *)
Plan(c) ==
    IF callStatus[c] \in Outcomes THEN callStatus[c]
    ELSE IF c \in RefusedCalls THEN "refuse"
    ELSE IF callStatus[c] = "executing" /\ c \in WriteCalls THEN "unknown"
    ELSE "start"

ListCalls(w) ==
    /\ AtCalls(w)
    /\ msg' = [msg EXCEPT ![w] = LastMessage]
    /\ task' = [task EXCEPT ![w] =
                  [c \in Calls |-> IF c \in LastMessage.calls THEN Plan(c) ELSE "none"]]
    /\ Goto(w, "settle")
    /\ UNCHANGED <<storeVars, holder, abort, base, seen, verdict, observed>>

Open(w, S) == {c \in S : task[w][c] \in ToDo}
InFlight(w, S) == {c \in S : task[w][c] \in InProgress}

(* Reads (and refusals) run together; writes follow, one at a time, until the *)
(* heartbeat has seen the run go to another worker.                           *)
MayRunCall(w, c) ==
    \/ pc[w] \in {"settle", "drain"} /\ c \notin WriteCalls
    \/ /\ pc[w] = "settle" /\ c \in WriteCalls
       /\ Open(w, Calls \ WriteCalls) = {}
       /\ \/ task[w][c] \in InProgress
          \/ InFlight(w, WriteCalls) = {} /\ abort[w] # "lease_lost"

SetTask(w, c, s) ==
    /\ task' = [task EXCEPT ![w][c] = s]
    /\ UNCHANGED <<pc, holder, abort, msg, base, seen, verdict>>

(* The call throws out of settleCalls().  Other reads already issued go on *)
(* without their process() (drain); a write leaves nothing behind.         *)
Abandon(w, c) ==
    IF c \in WriteCalls \/ Open(w, Calls \ WriteCalls) = {c}
    THEN Return(w)
    ELSE /\ task' = [task EXCEPT ![w][c] = "none"]
         /\ Goto(w, "drain")
         /\ UNCHANGED <<holder, abort, msg, base, seen, verdict>>

(* A refused startToolCall throws. *)
CallRefused(w, c) == Abandon(w, c) /\ UNCHANGED storeVars

(* execute(): the audit row, the tool, the audit row again. *)
StartCall(w, c) ==
    /\ task[w][c] = "start" /\ MayRunCall(w, c)
    /\ \/ StartToolCall(holder[w], c, "executing") /\ SetTask(w, c, "run")
       \/ ~MayStart(holder[w], c) /\ CallRefused(w, c)
    /\ UNCHANGED observed

(* The tool returns, or throws: a write that threw may have taken effect. *)
RunTool(w, c) ==
    /\ task[w][c] = "run" /\ MayRunCall(w, c)
    /\ performed' = IF c \in WriteCalls
                    THEN [performed EXCEPT ![c] = @ + 1] ELSE performed
    /\ SetTask(w, c, "finish") \/ SetTask(w, c, "fail")
    /\ UNCHANGED <<storeVars, lateSteps>>

(* Faulty variant of FailCall: a call that fails leaves its row in flight. *)
FailUnrecorded(w, c) ==
    /\ task[w][c] = "fail" /\ MayRunCall(w, c)
    /\ SetTask(w, c, "failed")
    /\ UNCHANGED <<storeVars, observed>>

(* The success is recorded inside the try: when the statement fails, or when *)
(* it commits and its answer is lost, the catch records a failure instead.   *)
FinishCall(w, c) ==
    /\ task[w][c] = "finish" /\ MayRunCall(w, c)
    /\ \/ FinishToolCall(c, "succeeded") /\ (SetTask(w, c, "succeeded") \/ SetTask(w, c, "fail"))
       \/ UNCHANGED storeVars /\ SetTask(w, c, "fail")
    /\ UNCHANGED observed

(* The catch: its result is an error, whatever the row says by now.  It may  *)
(* throw in its turn (for a write, and for a lone read, that is a Crash).    *)
FailCall(w, c) ==
    /\ task[w][c] = "fail" /\ MayRunCall(w, c)
    /\ \/ FinishToolCall(c, "failed") /\ SetTask(w, c, "failed")
       \/ /\ c \in ReadCalls /\ Abandon(w, c)
          /\ FinishToolCall(c, "failed") \/ UNCHANGED storeVars
    /\ UNCHANGED observed

(* An unknown tool is denied and bad input fails, without running. *)
RefuseCall(w, c) ==
    /\ task[w][c] = "refuse" /\ MayRunCall(w, c)
    /\ \/ \E s \in {"denied", "failed"} :
            StartToolCall(holder[w], c, s) /\ SetTask(w, c, s)
       \/ ~MayStart(holder[w], c) /\ CallRefused(w, c)
    /\ UNCHANGED observed

(* A write in flight when its worker stopped is not repeated. *)
MarkUnknown(w, c) ==
    /\ task[w][c] = "unknown" /\ MayRunCall(w, c)
    /\ FinishToolCall(c, "outcome_unknown")
    /\ SetTask(w, c, "outcome_unknown")
    /\ UNCHANGED observed

(* The rest is another worker's. *)
GiveUp(w) ==
    /\ pc[w] = "settle" /\ abort[w] = "lease_lost"
    /\ Open(w, Calls \ WriteCalls) = {} /\ InFlight(w, WriteCalls) = {}
    /\ Return(w)
    /\ UNCHANGED <<storeVars, observed>>

(* Every call has its result: one tool message carries them all. *)
AppendResults(w) ==
    /\ pc[w] = "settle" /\ abort[w] # "lease_lost"
    /\ Open(w, Calls) = {}
    /\ \/ /\ AppendMessage(holder[w], ToolMessage(msg[w].calls))
          /\ told' = [c \in Calls |-> IF c \in msg[w].calls THEN task[w][c] ELSE told[c]]
          /\ Goto(w, "load")
          /\ task' = [task EXCEPT ![w] = NoTasks]
          /\ msg' = [msg EXCEPT ![w] = UserMessage]
          /\ UNCHANGED <<holder, abort, base, seen, verdict>>
       \/ ~Owns(holder[w]) /\ Return(w) /\ UNCHANGED storeVars
    /\ UNCHANGED observed

(* The orphaned reads of a call of process() that already returned. *)
Drained(w) ==
    /\ pc[w] = "drain"
    /\ Open(w, Calls \ WriteCalls) = {}
    /\ Return(w)
    /\ UNCHANGED <<storeVars, observed>>

-----------------------------------------------------------------------------
(* The heartbeat: renews the lease and learns of a cancel or a takeover.  The *)
(* first abort reason stays.                                                  *)
Abort(w, reason) == abort' = [abort EXCEPT ![w] = IF @ = "none" THEN reason ELSE @]

Working(w) == pc[w] \notin {"idle", "drain"}

Heartbeat(w) ==
    /\ Working(w)
    /\ \/ /\ RenewLease(holder[w])
          /\ IF cancelRequested THEN Abort(w, "cancelled") ELSE UNCHANGED abort
       \/ ~Held(holder[w]) /\ Abort(w, "lease_lost") /\ UNCHANGED storeVars
    /\ UNCHANGED <<pc, holder, msg, base, seen, task, verdict, observed>>

(* Renewals that failed for a whole lease: by then the lease has run out. *)
RenewalsFail(w) ==
    /\ Working(w)
    /\ Held(holder[w]) => leaseExpired
    /\ Abort(w, "lease_lost")
    /\ UNCHANGED <<storeVars, pc, holder, msg, base, seen, task, verdict, observed>>

(* The process dies, or an error other than a lost lease leaves process(). *)
Crash(w) ==
    /\ pc[w] # "idle"
    /\ Return(w)
    /\ UNCHANGED <<storeVars, observed>>

CallStep(w) ==
    \E c \in Calls :
        \/ StartCall(w, c) \/ RunTool(w, c) \/ FinishCall(w, c) \/ FailCall(w, c)
        \/ RefuseCall(w, c) \/ MarkUnknown(w, c)

(* Everything a slot does by itself once it has claimed the run. *)
DriveStep(w) ==
    \/ EndTurn(w) \/ End(w) \/ Stop(w)
    \/ AppendNote(w) \/ ModelStep(w) \/ ModelRefuses(w) \/ AppendStep(w) \/ CountStep(w)
    \/ ListCalls(w) \/ CallStep(w) \/ GiveUp(w) \/ AppendResults(w) \/ Drained(w)
=============================================================================
