---------------------------- MODULE AgentRunsProof ----------------------------
(***************************************************************************)
(* Proofs about AgentRuns, for any number of worker slots, holder names,   *)
(* calls and steps.                                                        *)
(***************************************************************************)
EXTENDS AgentRuns, TLAPS

-----------------------------------------------------------------------------
(* Type correctness, statement by statement. *)

(* The messages the system writes are messages. *)
LEMMA MessageTypes ==
    /\ UserMessage \in Message
    /\ NoteMessage \in Message
    /\ \A S \in SUBSET Calls : CallMessage(S) \in Message /\ ToolMessage(S) \in Message
BY DEF UserMessage, NoteMessage, CallMessage, ToolMessage, Message

(* finish() and the sweep's endings keep the row well typed. *)
LEMMA SettleType ==
    ASSUME StoreTypeOK, NEW s \in Terminal \cup {"waiting_input"}, Settle(s)
    PROVE  StoreTypeOK'
BY DEF StoreTypeOK, Settle, Statuses, LIVE, PARKED, callVars

LEMMA CreateType == StoreTypeOK /\ Create => StoreTypeOK'
BY MessageTypes DEF StoreTypeOK, Create, Statuses, LIVE, PARKED, callVars, leaseVars

LEMMA ClaimType == \A h \in Holders : StoreTypeOK /\ Claim(h) => StoreTypeOK'
BY DEF StoreTypeOK, Claim, Statuses, LIVE, PARKED, callVars, leaseVars

LEMMA RenewType == \A h \in Holders : StoreTypeOK /\ RenewLease(h) => StoreTypeOK'
BY DEF StoreTypeOK, RenewLease, callVars, leaseVars

LEMMA CancelType == StoreTypeOK /\ RequestCancel => StoreTypeOK'
BY DEF StoreTypeOK, RequestCancel, CancelledStatus, Statuses, LIVE, PARKED, Terminal, callVars, leaseVars

LEMMA ClockType == StoreTypeOK /\ (LeaseRunsOut \/ WindowPasses) => StoreTypeOK'
BY DEF StoreTypeOK, LeaseRunsOut, WindowPasses, callVars, leaseVars

LEMMA AppendType ==
    ASSUME StoreTypeOK, NEW h \in Holders \cup {NULL}, NEW m \in Message, AppendMessage(h, m),
           told' \in [Calls -> {"none"} \cup Outcomes]
    PROVE  StoreTypeOK'
<1>1. transcript' \in Seq(Message)
  BY DEF StoreTypeOK, AppendMessage
<1>. QED
  BY <1>1, Zenon DEF StoreTypeOK, AppendMessage, leaseVars

LEMMA RecordType == StoreTypeOK /\ RecordStep => StoreTypeOK'
<1>1. StoreTypeOK /\ RecordStep => steps' \in Nat
  BY DEF StoreTypeOK, RecordStep
<1>. QED
  BY <1>1, Zenon DEF StoreTypeOK, RecordStep, callVars, leaseVars

LEMMA AddUserType == StoreTypeOK /\ AddUserMessage => StoreTypeOK'
<1>1. StoreTypeOK /\ AddUserMessage => transcript' \in Seq(Message) /\ status' \in Statuses
  BY MessageTypes DEF StoreTypeOK, AddUserMessage, Statuses, LIVE, PARKED
<1>. QED
  BY <1>1, Zenon DEF StoreTypeOK, AddUserMessage, callVars, leaseVars

LEMMA StartType ==
    ASSUME StoreTypeOK, NEW h, NEW c \in Calls, NEW s \in CallStatuses, StartToolCall(h, c, s)
    PROVE  StoreTypeOK'
BY DEF StoreTypeOK, StartToolCall, leaseVars

LEMMA FinishCallType ==
    ASSUME StoreTypeOK, NEW c \in Calls, NEW s \in Outcomes, FinishToolCall(c, s)
    PROVE  StoreTypeOK'
<1>1. Outcome(c, s) \in CallStatuses
  BY DEF Outcome, StoreTypeOK, CallStatuses
<1>. QED
  BY <1>1 DEF StoreTypeOK, FinishToolCall, leaseVars

LEMMA RequeueType == StoreTypeOK /\ RequeueStaleQueued => StoreTypeOK'
BY DEF StoreTypeOK, RequeueStaleQueued, callVars, leaseVars

(* A statement that was refused leaves the row as it was. *)
LEMMA StoreSame == StoreTypeOK /\ UNCHANGED storeVars => StoreTypeOK'
BY DEF StoreTypeOK, storeVars

LEMMA LoopSame == LoopTypeOK /\ UNCHANGED workerVars => LoopTypeOK'
BY DEF LoopTypeOK, workerVars

(* The result of process() is a free slot. *)
LEMMA ReturnType == \A w \in Workers : LoopTypeOK /\ Return(w) => LoopTypeOK'
<1>1. NoTasks \in [Calls -> TaskStates]
  BY DEF NoTasks, TaskStates
<1>. QED
  BY <1>1, MessageTypes DEF LoopTypeOK, Return, PCs

LEMMA EndWithType ==
    \A w \in Workers, o \in Terminal : LoopTypeOK /\ EndWith(w, o) => LoopTypeOK'
BY DEF LoopTypeOK, EndWith, Goto, PCs

LEMMA SetTaskType ==
    \A w \in Workers, c \in Calls, s \in TaskStates :
        LoopTypeOK /\ SetTask(w, c, s) => LoopTypeOK'
BY DEF LoopTypeOK, SetTask

LEMMA AbandonType ==
    \A w \in Workers, c \in Calls : LoopTypeOK /\ Abandon(w, c) => LoopTypeOK'
<1>. SUFFICES ASSUME NEW w \in Workers, NEW c \in Calls, LoopTypeOK, Abandon(w, c)
              PROVE  LoopTypeOK'
  OBVIOUS
<1>1. CASE Return(w)
  BY <1>1, ReturnType
<1>2. CASE /\ task' = [task EXCEPT ![w][c] = "none"]
           /\ Goto(w, "drain")
           /\ UNCHANGED <<holder, abort, msg, base, seen, verdict>>
  BY <1>2 DEF LoopTypeOK, Goto, PCs, TaskStates
<1>. QED
  BY <1>1, <1>2 DEF Abandon

(* A created run has its opening message, and so has a claimed one. *)
Started ==
    /\ status # "absent" => transcript # <<>>
    /\ \A w \in Workers : pc[w] # "idle" => transcript # <<>>

(* A slot about to record an outcome has one. *)
VerdictReady == \A w \in Workers : pc[w] = "end" => verdict[w] \in Terminal

LEMMA LastMessageType ==
    ASSUME transcript \in Seq(Message), transcript # <<>>
    PROVE  LastMessage \in Message /\ LastMessage.calls \in SUBSET Calls
<1>1. LastMessage \in Message
  BY DEF LastMessage
<1>. QED
  BY <1>1 DEF Message

(* What a slot's own steps do to the slots and to the history. *)
WorkerTypeOK ==
    /\ LoopTypeOK
    /\ performed \in [WriteCalls -> Nat]
    /\ lateSteps \in Nat
    /\ told \in [Calls -> {"none"} \cup Outcomes]

LEMMA DriveStepType ==
    ASSUME TypeOK, Started, NEW w \in Workers, DriveStep(w)
    PROVE  WorkerTypeOK'
<1>. USE DEF WorkerTypeOK
<1>a. /\ StoreTypeOK /\ LoopTypeOK /\ performed \in [WriteCalls -> Nat] /\ lateSteps \in Nat
      /\ told \in [Calls -> {"none"} \cup Outcomes]
  BY DEF TypeOK, StoreTypeOK
<1>b. UNCHANGED storeVars => UNCHANGED told
  BY DEF storeVars
<1>c. UNCHANGED observed => UNCHANGED <<performed, lateSteps>>
  BY DEF observed
<1>d. \A s : Settle(s) => UNCHANGED told
  BY DEF Settle, callVars
<1>1. CASE EndTurn(w)
  BY <1>1, <1>a, <1>b, <1>c, <1>d, ReturnType DEF EndTurn, WaitForInput, Finish
<1>2. CASE End(w)
  BY <1>2, <1>a, <1>b, <1>c, <1>d, ReturnType DEF End, Finish
<1>3. CASE Stop(w)
  <2>1. LoopTypeOK'
    BY <1>3, <1>a, ReturnType, EndWithType DEF Stop, Terminal
  <2>. QED
    BY <1>3, <2>1, <1>a, <1>b, <1>c DEF Stop
<1>4. CASE AppendNote(w)
  BY <1>4, <1>a, <1>b, <1>c, ReturnType, LoopSame DEF AppendNote
<1>5. CASE ModelStep(w)
  <2>1. FreshCalls \subseteq Calls
    BY DEF FreshCalls
  <2>2. PICK S \in SUBSET FreshCalls :
          /\ msg' = [msg EXCEPT ![w] = CallMessage(S)]
          /\ verdict' = [verdict EXCEPT ![w] = AfterStep(w, S)]
    BY <1>5 DEF ModelStep
  <2>3. CallMessage(S) \in Message
    BY <2>1, MessageTypes
  <2>4. AfterStep(w, S) \in {"none"} \cup Terminal
    BY DEF AfterStep, Terminal
  <2>5. LoopTypeOK'
    BY <1>5, <1>a, <2>2, <2>3, <2>4 DEF LoopTypeOK, ModelStep, Goto, PCs
  <2>. QED
    BY <1>5, <2>5, <1>a, <1>b, <1>c DEF ModelStep
<1>6. CASE ModelRefuses(w)
  <2>1. LoopTypeOK'
    BY <1>6, <1>a DEF LoopTypeOK, ModelRefuses, Goto, PCs, Terminal
  <2>. QED
    BY <1>6, <2>1, <1>a, <1>b, <1>c DEF ModelRefuses
<1>7. CASE AppendStep(w)
  <2>1. CASE /\ AppendMessage(holder[w], msg[w])
             /\ Goto(w, "record")
             /\ msg' = [msg EXCEPT ![w] = UserMessage]
             /\ lateSteps' = IF cancelRequested THEN lateSteps + 1 ELSE lateSteps
             /\ UNCHANGED <<told, holder, abort, base, seen, task, verdict>>
    <3>1. LoopTypeOK'
      BY <2>1, <1>a, MessageTypes DEF LoopTypeOK, Goto, PCs
    <3>2. lateSteps' \in Nat
      BY <2>1, <1>a
    <3>. QED
      BY <1>7, <2>1, <3>1, <3>2, <1>a DEF AppendStep
  <2>2. CASE Return(w) /\ UNCHANGED <<storeVars, lateSteps>>
    BY <1>7, <2>2, <1>a, <1>b, ReturnType DEF AppendStep
  <2>. QED
    BY <1>7, <2>1, <2>2 DEF AppendStep
<1>8. CASE CountStep(w)
  <2>1. steps' \in Nat
    BY <1>8, <1>a DEF CountStep, RecordStep, StoreTypeOK
  <2>2. LoopTypeOK'
    BY <1>8, <1>a, <2>1 DEF LoopTypeOK, CountStep, Goto, PCs
  <2>. QED
    BY <1>8, <1>a, <1>c, <2>2 DEF CountStep, RecordStep, callVars
<1>9. CASE ListCalls(w)
  <2>1. LastMessage \in Message
    BY <1>9, <1>a, LastMessageType DEF ListCalls, AtCalls, Started, StoreTypeOK
  <2>2. \A c \in Calls : Plan(c) \in TaskStates
    BY <1>a DEF Plan, TaskStates, ToDo, Outcomes
  <2>3. LoopTypeOK'
    BY <1>9, <1>a, <2>1, <2>2 DEF LoopTypeOK, ListCalls, Goto, PCs, TaskStates
  <2>. QED
    BY <1>9, <1>a, <1>b, <1>c, <2>3 DEF ListCalls
<1>10. CASE CallStep(w)
  <2>. PICK c \in Calls :
         \/ StartCall(w, c) \/ RunTool(w, c) \/ FinishCall(w, c) \/ FailCall(w, c)
         \/ RefuseCall(w, c) \/ MarkUnknown(w, c)
    BY <1>10 DEF CallStep
  <2>. {"run", "finish", "fail", "succeeded", "failed", "denied", "outcome_unknown"} \subseteq TaskStates
    BY DEF TaskStates, ToDo, Outcomes
  <2>a. \A h, s : StartToolCall(h, c, s) \/ FinishToolCall(c, s) => UNCHANGED told
    BY DEF StartToolCall, FinishToolCall
  <2>b. CallRefused(w, c) => UNCHANGED told
    BY <1>b DEF CallRefused, Abandon
  <2>1. CASE StartCall(w, c)
    BY <2>1, <1>a, <1>c, <2>a, <2>b, SetTaskType, AbandonType DEF StartCall, CallRefused
  <2>2. CASE RunTool(w, c)
    <3>1. LoopTypeOK'
      BY <2>2, <1>a, SetTaskType DEF RunTool
    <3>2. performed' \in [WriteCalls -> Nat]
      BY <2>2, <1>a DEF RunTool
    <3>. QED
      BY <2>2, <3>1, <3>2, <1>a, <1>b DEF RunTool
  <2>3. CASE FinishCall(w, c)
    BY <2>3, <1>a, <1>b, <1>c, <2>a, SetTaskType DEF FinishCall
  <2>4. CASE RefuseCall(w, c)
    BY <2>4, <1>a, <1>c, <2>a, <2>b, SetTaskType, AbandonType DEF RefuseCall, CallRefused
  <2>5. CASE MarkUnknown(w, c)
    BY <2>5, <1>a, <1>c, <2>a, SetTaskType DEF MarkUnknown
  <2>6. CASE FailCall(w, c)
    BY <2>6, <1>a, <1>c, <2>a, <2>b, <1>b, SetTaskType, AbandonType DEF FailCall
  <2>. QED
    BY <2>1, <2>2, <2>3, <2>4, <2>5, <2>6
<1>11. CASE GiveUp(w)
  BY <1>11, <1>a, <1>b, <1>c, ReturnType DEF GiveUp
<1>12. CASE AppendResults(w)
  <2>1. CASE Return(w) /\ UNCHANGED storeVars
    BY <1>12, <2>1, <1>a, <1>b, <1>c, ReturnType DEF AppendResults
  <2>2. CASE /\ told' = [c \in Calls |-> IF c \in msg[w].calls THEN task[w][c] ELSE told[c]]
             /\ Goto(w, "load")
             /\ task' = [task EXCEPT ![w] = NoTasks]
             /\ msg' = [msg EXCEPT ![w] = UserMessage]
             /\ UNCHANGED <<holder, abort, base, seen, verdict>>
    <3>1. \A c \in Calls : task[w][c] \in {"none"} \cup Outcomes
      BY <1>12, <1>a DEF AppendResults, Open, LoopTypeOK, TaskStates
    <3>2. told' \in [Calls -> {"none"} \cup Outcomes]
      BY <2>2, <3>1, <1>a
    <3>3. NoTasks \in [Calls -> TaskStates]
      BY DEF NoTasks, TaskStates
    <3>4. LoopTypeOK'
      BY <2>2, <3>3, <1>a, MessageTypes DEF LoopTypeOK, Goto, PCs
    <3>. QED
      BY <1>12, <3>2, <3>4, <1>a, <1>c DEF AppendResults
  <2>. QED
    BY <1>12, <2>1, <2>2 DEF AppendResults
<1>13. CASE Drained(w)
  BY <1>13, <1>a, <1>b, <1>c, ReturnType DEF Drained
<1>. QED
  BY <1>1, <1>2, <1>3, <1>4, <1>5, <1>6, <1>7, <1>8, <1>9, <1>10, <1>11, <1>12, <1>13
  DEF DriveStep

LEMMA WorkerStepType ==
    ASSUME TypeOK, Started, NEW w \in Workers, WorkerStep(w)
    PROVE  WorkerTypeOK'
<1>a. /\ StoreTypeOK /\ LoopTypeOK /\ performed \in [WriteCalls -> Nat] /\ lateSteps \in Nat
      /\ told \in [Calls -> {"none"} \cup Outcomes]
  BY DEF TypeOK, StoreTypeOK
<1>b. UNCHANGED storeVars => UNCHANGED told
  BY DEF storeVars
<1>c. UNCHANGED observed => UNCHANGED <<performed, lateSteps>>
  BY DEF observed
<1>1. CASE TakeJob(w)
  <2>1. CASE \E h \in Holders \ NamesInUse : ClaimRun(w, h)
    <3>. PICK h \in Holders : ClaimRun(w, h)
      BY <2>1
    <3>1. LoopTypeOK'
      BY <1>a DEF ClaimRun, LoopTypeOK, StoreTypeOK, Goto, PCs, Terminal
    <3>. QED
      BY <3>1, <1>a, <1>c DEF ClaimRun, Claim, callVars, WorkerTypeOK
  <2>2. CASE UNCHANGED <<storeVars, workerVars, observed>>
    BY <2>2, <1>a, <1>b, <1>c, LoopSame DEF WorkerTypeOK
  <2>. QED
    BY <1>1, <2>1, <2>2 DEF TakeJob
<1>2. CASE WorkerDies(w)
  BY <1>2, <1>a, <1>b, <1>c, ReturnType DEF WorkerDies, Crash, WorkerTypeOK
<1>3. CASE DriveStep(w)
  BY <1>3, DriveStepType
<1>4. CASE Heartbeat(w)
  <2>1. LoopTypeOK'
    BY <1>4, <1>a DEF Heartbeat, Abort, LoopTypeOK
  <2>. QED
    BY <1>4, <2>1, <1>a, <1>b, <1>c DEF Heartbeat, RenewLease, callVars, WorkerTypeOK
<1>5. CASE RenewalsFail(w)
  <2>1. LoopTypeOK'
    BY <1>5, <1>a DEF RenewalsFail, Abort, LoopTypeOK
  <2>. QED
    BY <1>5, <2>1, <1>a, <1>b, <1>c DEF RenewalsFail, WorkerTypeOK
<1>. QED
  BY <1>1, <1>2, <1>3, <1>4, <1>5 DEF WorkerStep

-----------------------------------------------------------------------------
(* Every step of the system makes at most one statement on the store, under *)
(* the conditions its caller checked.                                       *)
StoreEffect ==
    \/ UNCHANGED storeVars
    \/ Create \/ AddUserMessage \/ RequestCancel \/ RecordStep \/ RequeueStaleQueued
    \/ LeaseRunsOut \/ WindowPasses
    \/ \E h \in Holders : Claim(h)
    \/ \E h \in Holders \cup {NULL} : RenewLease(h) \/ WaitForInput(h)
    \/ \E s \in Terminal : status \in LIVE /\ Settle(s)
    \/ \E w \in Workers, m \in Message : pc[w] # "idle" /\ AppendMessage(holder[w], m)
    \/ \E w \in Workers, c \in Calls, s \in {"executing"} \cup Outcomes :
          pc[w] # "idle" /\ StartToolCall(holder[w], c, s)
    \/ \E c \in Calls, s \in Outcomes : FinishToolCall(c, s)

LEMMA DriveStepEffect ==
    ASSUME TypeOK, Started, VerdictReady, NEW w \in Workers, DriveStep(w)
    PROVE  StoreEffect
<1>a. holder[w] \in Holders \cup {NULL} /\ msg[w] \in Message /\ msg[w].calls \in SUBSET Calls
  <2>1. holder[w] \in Holders \cup {NULL} /\ msg[w] \in Message
    BY DEF TypeOK, LoopTypeOK
  <2>. QED
    BY <2>1 DEF Message
<1>b. {"succeeded", "failed", "denied", "outcome_unknown"} \subseteq Outcomes
  BY DEF Outcomes
<1>1. CASE EndTurn(w)
  BY <1>1, <1>a DEF EndTurn, Finish, MayFinish, StoreEffect, Terminal
<1>2. CASE End(w)
  BY <1>2, <1>a DEF End, Finish, MayFinish, StoreEffect, VerdictReady
<1>3. CASE Stop(w) \/ ModelStep(w) \/ ModelRefuses(w) \/ ListCalls(w) \/ GiveUp(w) \/ Drained(w)
  BY <1>3 DEF Stop, ModelStep, ModelRefuses, ListCalls, GiveUp, Drained, StoreEffect
<1>4. CASE AppendNote(w)
  BY <1>4, MessageTypes DEF AppendNote, AtQuestion, StoreEffect
<1>5. CASE AppendStep(w)
  BY <1>5, <1>a DEF AppendStep, StoreEffect
<1>6. CASE CountStep(w)
  BY <1>6 DEF CountStep, StoreEffect
<1>7. CASE CallStep(w)
  <2>. PICK c \in Calls :
         \/ StartCall(w, c) \/ RunTool(w, c) \/ FinishCall(w, c) \/ FailCall(w, c)
         \/ RefuseCall(w, c) \/ MarkUnknown(w, c)
    BY <1>7 DEF CallStep
  <2>a. MayRunCall(w, c) => pc[w] # "idle"
    BY DEF MayRunCall
  <2>1. CASE StartCall(w, c)
    BY <2>1, <2>a DEF StartCall, CallRefused, Abandon, StoreEffect
  <2>2. CASE RunTool(w, c)
    BY <2>2 DEF RunTool, StoreEffect
  <2>3. CASE FinishCall(w, c)
    BY <2>3, <1>b DEF FinishCall, StoreEffect
  <2>4. CASE RefuseCall(w, c)
    BY <2>4, <2>a, <1>b DEF RefuseCall, CallRefused, Abandon, StoreEffect
  <2>5. CASE MarkUnknown(w, c)
    BY <2>5, <1>b DEF MarkUnknown, StoreEffect
  <2>6. CASE FailCall(w, c)
    BY <2>6, <2>a, <1>b DEF FailCall, Abandon, StoreEffect
  <2>. QED
    BY <2>1, <2>2, <2>3, <2>4, <2>5, <2>6
<1>8. CASE AppendResults(w)
  <2>1. ToolMessage(msg[w].calls) \in Message
    BY <1>a, MessageTypes
  <2>. QED
    BY <1>8, <2>1 DEF AppendResults, StoreEffect
<1>. QED
  BY <1>1, <1>2, <1>3, <1>4, <1>5, <1>6, <1>7, <1>8 DEF DriveStep

LEMMA StepEffect ==
    ASSUME TypeOK, Started, VerdictReady, Next
    PROVE  StoreEffect
<1>1. CASE PostRun \/ PostMessage \/ PostCancel \/ Enqueue \/ LoseJobs \/ Clock
  BY <1>1 DEF PostRun, PostMessage, PostCancel, Enqueue, LoseJobs, Clock, StoreEffect
<1>2. CASE FailUnqueued
  BY <1>2 DEF FailUnqueued, FinishUnowned, StoreEffect, Terminal
<1>3. CASE Sweep
  BY <1>3 DEF Sweep, SweepCancelAbandoned, SweepExpiredLeases, SweepStaleQueued, SweepStalled,
              SweepIdleChats, CancelAbandoned, CancelAbandonedGuard, FailStalled, Stalled,
              CloseIdleChats, IdleChat, StoreEffect, Terminal, LIVE, PARKED
<1>4. ASSUME NEW w \in Workers, WorkerStep(w) PROVE StoreEffect
  <2>1. CASE TakeJob(w)
    BY <2>1 DEF TakeJob, ClaimRun, StoreEffect
  <2>2. CASE WorkerDies(w)
    BY <2>2 DEF WorkerDies, Crash, StoreEffect
  <2>3. CASE DriveStep(w)
    BY <2>3, DriveStepEffect
  <2>4. CASE Heartbeat(w)
    <3>1. holder[w] \in Holders \cup {NULL}
      BY DEF TypeOK, LoopTypeOK
    <3>. QED
      BY <2>4, <3>1 DEF Heartbeat, StoreEffect
  <2>5. CASE RenewalsFail(w)
    BY <2>5 DEF RenewalsFail, StoreEffect
  <2>. QED
    BY <1>4, <2>1, <2>2, <2>3, <2>4, <2>5 DEF WorkerStep
<1>. QED
  BY <1>1, <1>2, <1>3, <1>4 DEF Next

LEMMA EffectType ==
    ASSUME TypeOK, StoreEffect, told' \in [Calls -> {"none"} \cup Outcomes]
    PROVE  StoreTypeOK'
<1>a. StoreTypeOK /\ LoopTypeOK
  BY DEF TypeOK
<1>1. CASE UNCHANGED storeVars \/ Create \/ AddUserMessage \/ RequestCancel \/ RecordStep
           \/ RequeueStaleQueued \/ LeaseRunsOut \/ WindowPasses
  BY <1>1, <1>a, StoreSame, CreateType, AddUserType, CancelType, RecordType, RequeueType,
     ClockType
<1>2. CASE \E h \in Holders : Claim(h)
  BY <1>2, <1>a, ClaimType
<1>3. ASSUME NEW h \in Holders \cup {NULL}, RenewLease(h) PROVE StoreTypeOK'
  BY <1>3, <1>a, Zenon DEF StoreTypeOK, RenewLease, callVars, leaseVars
<1>4. ASSUME NEW h \in Holders \cup {NULL}, WaitForInput(h) PROVE StoreTypeOK'
  BY <1>4, <1>a, SettleType DEF WaitForInput, ParkedStatus, Terminal
<1>5. CASE \E s \in Terminal : status \in LIVE /\ Settle(s)
  BY <1>5, <1>a, SettleType
<1>6. ASSUME NEW w \in Workers, NEW m \in Message, AppendMessage(holder[w], m)
      PROVE  StoreTypeOK'
  <2>1. holder[w] \in Holders \cup {NULL}
    BY <1>a DEF LoopTypeOK
  <2>. QED
    BY <1>6, <1>a, <2>1, AppendType
<1>7. ASSUME NEW w \in Workers, NEW c \in Calls, NEW s \in {"executing"} \cup Outcomes,
             StartToolCall(holder[w], c, s)
      PROVE  StoreTypeOK'
  BY <1>7, <1>a, StartType DEF CallStatuses, LIVE_CALL
<1>8. CASE \E c \in Calls, s \in Outcomes : FinishToolCall(c, s)
  BY <1>8, <1>a, FinishCallType
<1>. QED
  BY <1>1, <1>2, <1>3, <1>4, <1>5, <1>6, <1>7, <1>8 DEF StoreEffect

(* No statement empties a transcript, and only create() makes a run exist. *)
LEMMA EffectStarted ==
    ASSUME TypeOK, StoreEffect
    PROVE  /\ transcript # <<>> => transcript' # <<>>
           /\ status = "absent" /\ status' # "absent" => transcript' # <<>>
<1>1. transcript \in Seq(Message)
  BY DEF TypeOK, StoreTypeOK
<1>. DEFINE Goal == /\ transcript # <<>> => transcript' # <<>>
                    /\ status = "absent" /\ status' # "absent" => transcript' # <<>>
<1>2. CASE Create
  BY <1>2 DEF Create
<1>3. CASE AddUserMessage
  BY <1>3, <1>1 DEF AddUserMessage
<1>4. ASSUME NEW w \in Workers, NEW m \in Message, AppendMessage(holder[w], m) PROVE Goal
  BY <1>4, <1>1 DEF AppendMessage
<1>5. ASSUME NEW s, status \in LIVE, Settle(s) PROVE Goal
  BY <1>5 DEF Settle, LIVE, PARKED
<1>6. CASE \E h \in Holders \cup {NULL} : WaitForInput(h)
  BY <1>6, <1>5 DEF WaitForInput, Held, LIVE
<1>7. CASE UNCHANGED <<status, transcript>>
  BY <1>7
<1>8. CASE \E h \in Holders : Claim(h)
  BY <1>8 DEF Claim, MayClaim
<1>9. CASE RequestCancel
  BY <1>9 DEF RequestCancel, LIVE, PARKED
<1>. QED
  BY <1>2, <1>3, <1>4, <1>5, <1>6, <1>7, <1>8, <1>9, Zenon
  DEF StoreEffect, storeVars, RecordStep, RequeueStaleQueued, LeaseRunsOut, WindowPasses,
      RenewLease, StartToolCall, FinishToolCall

(* A slot is busy only if it was, or if it has just claimed the run. *)
LEMMA BusySlot ==
    ASSUME TypeOK, NEW w \in Workers, WorkerStep(w), NEW v \in Workers, pc'[v] # "idle"
    PROVE  pc[v] # "idle" \/ status # "absent"
<1>a. pc \in [Workers -> PCs]
  BY DEF TypeOK, LoopTypeOK
<1>b. Return(w) => pc[v] # "idle"
  BY <1>a DEF Return
<1>c. \A l : Goto(w, l) /\ pc[w] # "idle" => pc[v] # "idle"
  BY <1>a DEF Goto
<1>1. CASE TakeJob(w)
  BY <1>1, <1>a DEF TakeJob, ClaimRun, Claim, MayClaim, workerVars
<1>2. CASE WorkerDies(w)
  BY <1>2, <1>b DEF WorkerDies, Crash
<1>3. CASE Heartbeat(w) \/ RenewalsFail(w)
  BY <1>3 DEF Heartbeat, RenewalsFail
<1>4. CASE EndTurn(w) \/ End(w) \/ GiveUp(w) \/ Drained(w)
  BY <1>4, <1>b DEF EndTurn, End, GiveUp, Drained
<1>5. CASE Stop(w) \/ AppendNote(w) \/ ModelStep(w) \/ ModelRefuses(w)
  BY <1>5, <1>b, <1>c DEF Stop, EndWith, AppendNote, ModelStep, ModelRefuses, AtQuestion, workerVars
<1>6. CASE AppendStep(w) \/ CountStep(w) \/ ListCalls(w) \/ AppendResults(w)
  BY <1>6, <1>b, <1>c DEF AppendStep, CountStep, ListCalls, AtCalls, AppendResults
<1>7. CASE CallStep(w)
  BY <1>7, <1>b, <1>c DEF CallStep, StartCall, RunTool, FinishCall, FailCall, RefuseCall, MarkUnknown,
                          CallRefused, Abandon, SetTask, MayRunCall
<1>. QED
  BY <1>1, <1>2, <1>3, <1>4, <1>5, <1>6, <1>7 DEF WorkerStep, DriveStep

LEMMA VerdictStep ==
    ASSUME TypeOK, VerdictReady, NEW w \in Workers, WorkerStep(w)
    PROVE  VerdictReady'
<1>a. pc \in [Workers -> PCs] /\ verdict \in [Workers -> {"none"} \cup Terminal]
  BY DEF TypeOK, LoopTypeOK
<1>b. Return(w) => VerdictReady'
  BY <1>a DEF Return, VerdictReady
<1>c. \A l : Goto(w, l) /\ l # "end" /\ UNCHANGED verdict => VerdictReady'
  BY <1>a DEF Goto, VerdictReady
<1>d. UNCHANGED <<pc, verdict>> => VerdictReady'
  BY DEF VerdictReady
<1>e. "failed" \in Terminal /\ "cancelled" \in Terminal
  BY DEF Terminal
<1>1. CASE TakeJob(w)
  BY <1>1, <1>a, <1>d, <1>e DEF TakeJob, ClaimRun, Goto, workerVars, VerdictReady
<1>2. CASE WorkerDies(w)
  BY <1>2, <1>b DEF WorkerDies, Crash
<1>3. CASE Heartbeat(w) \/ RenewalsFail(w)
  BY <1>3, <1>d DEF Heartbeat, RenewalsFail
<1>4. CASE EndTurn(w) \/ End(w) \/ GiveUp(w) \/ Drained(w)
  BY <1>4, <1>b DEF EndTurn, End, GiveUp, Drained
<1>5. CASE Stop(w)
  BY <1>5, <1>a, <1>b, <1>e DEF Stop, EndWith, Goto, VerdictReady
<1>6. CASE AppendNote(w)
  BY <1>6, <1>b, <1>d DEF AppendNote, workerVars
<1>7. CASE ModelStep(w)
  BY <1>7, <1>a DEF ModelStep, Goto, VerdictReady
<1>8. CASE ModelRefuses(w)
  BY <1>8, <1>a DEF ModelRefuses, Goto, VerdictReady
<1>9. CASE AppendStep(w) \/ ListCalls(w) \/ AppendResults(w)
  BY <1>9, <1>b, <1>c DEF AppendStep, ListCalls, AppendResults
<1>10. CASE CountStep(w)
  BY <1>10, <1>a DEF CountStep, Goto, VerdictReady
<1>11. CASE CallStep(w)
  BY <1>11, <1>b, <1>c, <1>d DEF CallStep, StartCall, RunTool, FinishCall, FailCall, RefuseCall,
                                 MarkUnknown, CallRefused, Abandon, SetTask
<1>. QED
  BY <1>1, <1>2, <1>3, <1>4, <1>5, <1>6, <1>7, <1>8, <1>9, <1>10, <1>11
  DEF WorkerStep, DriveStep

(* Only slots move the slots' variables. *)
LEMMA SlotsMove ==
    ASSUME Next, ~(\E w \in Workers : WorkerStep(w))
    PROVE  UNCHANGED <<workerVars, observed>>
BY DEF Next, PostRun, PostMessage, PostCancel, Enqueue, FailUnqueued, LoseJobs, Sweep,
       SweepCancelAbandoned, SweepExpiredLeases, SweepStaleQueued, SweepStalled,
       SweepIdleChats, Clock

(* Steps of other processes than the slots do not touch what calls were told. *)
LEMMA ToldMoves ==
    ASSUME Next, ~(\E w \in Workers : WorkerStep(w))
    PROVE  UNCHANGED told
<1>1. UNCHANGED storeVars => UNCHANGED told
  BY DEF storeVars
<1>2. \A s : Settle(s) => UNCHANGED told
  BY DEF Settle, callVars
<1>. QED
  BY <1>1, <1>2
  DEF Next, PostRun, PostMessage, PostCancel, Enqueue, FailUnqueued, LoseJobs, Sweep,
      SweepCancelAbandoned, SweepExpiredLeases, SweepStaleQueued, SweepStalled,
      SweepIdleChats, Clock, Create, AddUserMessage, RequestCancel, FinishUnowned,
      CancelAbandoned, RequeueStaleQueued, FailStalled, CloseIdleChats, LeaseRunsOut,
      WindowPasses, callVars

LEMMA BoundsStep ==
    ASSUME TypeOK, Next
    PROVE  jobs' \in 0..MaxJobs /\ queueing' \in Nat /\ added' \in 0..MaxMessages
<1>a. jobs \in 0..MaxJobs /\ queueing \in Nat /\ added \in 0..MaxMessages
  BY DEF TypeOK
<1>b. MaxJobs \in Nat \ {0} /\ MaxMessages \in Nat
  BY BoundAssumption
<1>c. AddJob => jobs' \in 0..MaxJobs
  BY <1>a, <1>b DEF AddJob
<1>1. CASE PostRun
  BY <1>1, <1>a DEF PostRun
<1>2. CASE PostMessage
  BY <1>2, <1>a, <1>b DEF PostMessage
<1>3. CASE PostCancel \/ Clock
  BY <1>3, <1>a DEF PostCancel, Clock, envVars
<1>4. CASE Enqueue
  BY <1>4, <1>a, <1>c DEF Enqueue
<1>5. CASE FailUnqueued
  BY <1>5, <1>a DEF FailUnqueued
<1>6. CASE LoseJobs
  BY <1>6, <1>a, <1>b DEF LoseJobs
<1>7. CASE Sweep
  BY <1>7, <1>a, <1>c DEF Sweep, SweepCancelAbandoned, SweepExpiredLeases, SweepStaleQueued,
                          SweepStalled, SweepIdleChats, envVars
<1>8. ASSUME NEW w \in Workers, WorkerStep(w)
      PROVE  jobs' \in 0..MaxJobs /\ queueing' \in Nat /\ added' \in 0..MaxMessages
  <2>1. CASE TakeJob(w)
    <3>1. jobs > 0 /\ jobs' = jobs - 1 /\ UNCHANGED <<queueing, added>>
      BY <2>1 DEF TakeJob
    <3>. QED
      BY <3>1, <1>a, <1>b
  <2>2. CASE WorkerDies(w)
    BY <2>2, <1>a, <1>c DEF WorkerDies
  <2>3. CASE UNCHANGED envVars
    BY <2>3, <1>a DEF envVars
  <2>. QED
    BY <1>8, <2>1, <2>2, <2>3 DEF WorkerStep
<1>. QED
  BY <1>1, <1>2, <1>3, <1>4, <1>5, <1>6, <1>7, <1>8 DEF Next

(* TypeOK is not inductive by itself: finish() records the slot's verdict, and *)
(* a pass reads the last message of the transcript.                           *)
TypeInv == TypeOK /\ Started /\ VerdictReady

LEMMA TypeInit == Init => TypeInv
<1>. SUFFICES ASSUME Init PROVE TypeInv
  OBVIOUS
<1>1. StoreTypeOK
  <2>1. transcript \in Seq(Message) /\ steps \in Nat /\ mode \in {"task", "chat"}
    BY ModesAssumption DEF Init, StoreInit
  <2>. QED
    BY <2>1, Zenon DEF Init, StoreInit, StoreTypeOK, Statuses, CallStatuses
<1>2. LoopTypeOK
  BY MessageTypes DEF Init, LoopInit, LoopTypeOK, PCs, NoTasks, TaskStates
<1>3. TypeOK
  BY <1>1, <1>2, BoundAssumption DEF Init, LoopInit, TypeOK
<1>. QED
  BY <1>3 DEF Init, StoreInit, LoopInit, TypeInv, Started, VerdictReady

LEMMA TypeStep == TypeInv /\ [Next]_vars => TypeInv'
<1>. SUFFICES ASSUME TypeInv, [Next]_vars PROVE TypeInv'
  OBVIOUS
<1>. USE DEF TypeInv
<1>1. CASE UNCHANGED vars
  <2>1. StoreTypeOK' /\ LoopTypeOK'
    BY <1>1, StoreSame, LoopSame DEF vars, TypeOK
  <2>2. TypeOK'
    BY <1>1, <2>1 DEF vars, TypeOK, observed, envVars
  <2>. QED
    BY <1>1, <2>2 DEF vars, storeVars, workerVars, Started, VerdictReady
<1>2. CASE Next
  <2>1. StoreEffect
    BY <1>2, StepEffect
  <2>2. WorkerTypeOK'
    <3>1. CASE \E w \in Workers : WorkerStep(w)
      BY <3>1, WorkerStepType
    <3>2. CASE ~(\E w \in Workers : WorkerStep(w))
      BY <1>2, <3>2, SlotsMove, ToldMoves, LoopSame
      DEF WorkerTypeOK, TypeOK, StoreTypeOK, observed
    <3>. QED
      BY <3>1, <3>2
  <2>3. TypeOK'
    BY <1>2, <2>1, <2>2, EffectType, BoundsStep DEF TypeOK, WorkerTypeOK
  <2>4. Started'
    <3>1. status' # "absent" => transcript' # <<>>
      BY <2>1, EffectStarted DEF Started
    <3>2. ASSUME NEW v \in Workers, pc'[v] # "idle" PROVE transcript' # <<>>
      BY <1>2, <3>2, <2>1, EffectStarted, BusySlot, SlotsMove DEF Started, workerVars
    <3>. QED
      BY <3>1, <3>2 DEF Started
  <2>5. VerdictReady'
    BY <1>2, VerdictStep, SlotsMove DEF VerdictReady, workerVars
  <2>. QED
    BY <2>3, <2>4, <2>5
<1>. QED
  BY <1>1, <1>2

(* Every variable keeps its type: in particular no slot ever records an      *)
(* outcome that is not a status, and no write reads past the transcript.     *)
THEOREM TypeCorrect == Spec => []TypeOK
<1>1. TypeInv => TypeOK
  BY DEF TypeInv
<1>. QED
  BY TypeInit, TypeStep, <1>1, PTL DEF Spec

-----------------------------------------------------------------------------
(* The row's status, lease and cancel flag. *)

(* A busy slot works under a name it claimed with. *)
SlotsNamed == \A w \in Workers : pc[w] # "idle" => holder[w] \in Holders

RowInv ==
    /\ TypeInv
    /\ RowConsistent
    /\ status = "absent" => ~cancelRequested
    /\ SlotsNamed

LEMMA NamesStep ==
    ASSUME TypeOK, SlotsNamed, NEW w \in Workers, WorkerStep(w)
    PROVE  SlotsNamed'
<1>a. pc \in [Workers -> PCs] /\ holder \in [Workers -> Holders \cup {NULL}]
  BY DEF TypeOK, LoopTypeOK
<1>b. Return(w) => SlotsNamed'
  BY <1>a DEF Return, SlotsNamed
<1>c. \A l : Goto(w, l) /\ pc[w] # "idle" /\ UNCHANGED holder => SlotsNamed'
  BY <1>a DEF Goto, SlotsNamed
<1>d. UNCHANGED <<pc, holder>> => SlotsNamed'
  BY DEF SlotsNamed
<1>1. CASE TakeJob(w)
  BY <1>1, <1>a, <1>d DEF TakeJob, ClaimRun, Goto, workerVars, SlotsNamed
<1>2. CASE WorkerDies(w)
  BY <1>2, <1>b DEF WorkerDies, Crash
<1>3. CASE Heartbeat(w) \/ RenewalsFail(w)
  BY <1>3, <1>d DEF Heartbeat, RenewalsFail
<1>4. CASE EndTurn(w) \/ End(w) \/ GiveUp(w) \/ Drained(w)
  BY <1>4, <1>b DEF EndTurn, End, GiveUp, Drained
<1>5. CASE Stop(w) \/ AppendNote(w) \/ ModelStep(w) \/ ModelRefuses(w)
  BY <1>5, <1>b, <1>c, <1>d DEF Stop, EndWith, AppendNote, ModelStep, ModelRefuses,
                                AtQuestion, workerVars
<1>6. CASE AppendStep(w) \/ CountStep(w) \/ ListCalls(w) \/ AppendResults(w)
  BY <1>6, <1>b, <1>c DEF AppendStep, CountStep, ListCalls, AtCalls, AppendResults
<1>7. CASE CallStep(w)
  BY <1>7, <1>b, <1>c, <1>d DEF CallStep, StartCall, RunTool, FinishCall, FailCall, RefuseCall,
                                MarkUnknown, CallRefused, Abandon, SetTask, MayRunCall
<1>. QED
  BY <1>1, <1>2, <1>3, <1>4, <1>5, <1>6, <1>7 DEF WorkerStep, DriveStep

LEMMA RowEffect ==
    ASSUME TypeOK, RowConsistent, status = "absent" => ~cancelRequested, StoreEffect
    PROVE  RowConsistent' /\ (status' = "absent" => ~cancelRequested')
<1>. USE DEF RowConsistent, LIVE, PARKED, Terminal, leaseVars
<1>1. CASE Create
  BY <1>1 DEF Create
<1>2. CASE AddUserMessage
  BY <1>2 DEF AddUserMessage
<1>3. CASE RequestCancel
  BY <1>3 DEF RequestCancel, CancelledStatus
<1>4. CASE \E h \in Holders : Claim(h)
  BY <1>4, NullAssumption DEF Claim, MayClaim
<1>5. CASE \E h \in Holders \cup {NULL} : WaitForInput(h)
  BY <1>5 DEF WaitForInput, Settle, ParkedStatus
<1>6. CASE \E s \in Terminal : status \in LIVE /\ Settle(s)
  BY <1>6 DEF Settle
<1>7. CASE UNCHANGED <<status, leaseOwner, cancelRequested>>
  BY <1>7
<1>. QED
  BY <1>1, <1>2, <1>3, <1>4, <1>5, <1>6, <1>7, Zenon
  DEF StoreEffect, storeVars, RecordStep, RequeueStaleQueued, LeaseRunsOut, WindowPasses,
      RenewLease, AppendMessage, StartToolCall, FinishToolCall

LEMMA RowInit == Init => RowInv
BY TypeInit DEF Init, StoreInit, LoopInit, RowInv, RowConsistent, SlotsNamed, PARKED

LEMMA RowStep == RowInv /\ [Next]_vars => RowInv'
<1>. SUFFICES ASSUME RowInv, [Next]_vars PROVE RowInv'
  OBVIOUS
<1>1. TypeInv'
  BY TypeStep DEF RowInv
<1>2. CASE UNCHANGED vars
  BY <1>1, <1>2 DEF RowInv, RowConsistent, SlotsNamed, vars, storeVars, workerVars
<1>3. CASE Next
  <2>1. RowConsistent' /\ (status' = "absent" => ~cancelRequested')
    BY <1>3, StepEffect, RowEffect DEF RowInv, TypeInv
  <2>2. SlotsNamed'
    BY <1>3, NamesStep, SlotsMove DEF RowInv, TypeInv, SlotsNamed, workerVars
  <2>. QED
    BY <1>1, <2>1, <2>2 DEF RowInv
<1>. QED
  BY <1>2, <1>3

(* A run has a lease owner exactly while it is running, and a run asked to    *)
(* stop is never left where no worker could pick it up again.                 *)
THEOREM RowIsConsistent == Spec => []RowConsistent
<1>1. RowInv => RowConsistent
  BY DEF RowInv
<1>. QED
  BY RowInit, RowStep, <1>1, PTL DEF Spec

(* A write of the lease holder finds the run running. *)
LEMMA OwnerRuns ==
    ASSUME RowInv, NEW w \in Workers, pc[w] # "idle", Owns(holder[w])
    PROVE  status = "running"
BY NullAssumption DEF RowInv, RowConsistent, SlotsNamed, Owns

LEMMA EndedEffect == RowInv /\ StoreEffect => EndedStep
<1>. SUFFICES ASSUME RowInv, StoreEffect, status \in Terminal
              PROVE  /\ UNCHANGED <<status, transcript, told>>
                     /\ \A c \in Calls : callStatus'[c] = "executing" => callStatus[c] = "executing"
  BY DEF EndedStep
<1>a. status \notin LIVE /\ status # "absent" /\ status # "running"
  BY DEF Terminal, LIVE, PARKED
<1>b. callStatus \in [Calls -> CallStatuses]
  BY DEF RowInv, TypeInv, TypeOK, StoreTypeOK
<1>1. CASE UNCHANGED storeVars
  BY <1>1 DEF storeVars
<1>2. CASE RequestCancel \/ RecordStep \/ RequeueStaleQueued \/ LeaseRunsOut \/ WindowPasses
  BY <1>2, <1>a DEF RequestCancel, RecordStep, RequeueStaleQueued, LeaseRunsOut, WindowPasses, callVars
<1>3. CASE Create \/ AddUserMessage \/ (\E h \in Holders : Claim(h))
  BY <1>3, <1>a DEF Create, AddUserMessage, Claim, MayClaim, LIVE, PARKED
<1>4. CASE \E h \in Holders \cup {NULL} : RenewLease(h) \/ WaitForInput(h)
  BY <1>4, <1>a DEF RenewLease, WaitForInput, Held
<1>5. CASE \E s \in Terminal : status \in LIVE /\ Settle(s)
  BY <1>5, <1>a
<1>6. CASE \E w \in Workers, m \in Message : pc[w] # "idle" /\ AppendMessage(holder[w], m)
  BY <1>6, <1>a, OwnerRuns DEF AppendMessage
<1>7. CASE \E w \in Workers, c \in Calls, s \in {"executing"} \cup Outcomes :
              pc[w] # "idle" /\ StartToolCall(holder[w], c, s)
  BY <1>7, <1>a, OwnerRuns DEF StartToolCall, MayStart
<1>8. ASSUME NEW c \in Calls, NEW s \in Outcomes, FinishToolCall(c, s)
      PROVE  /\ UNCHANGED <<status, transcript, told>>
             /\ \A d \in Calls : callStatus'[d] = "executing" => callStatus[d] = "executing"
  BY <1>8, <1>b DEF FinishToolCall, Outcome, Outcomes
<1>. QED
  BY <1>1, <1>2, <1>3, <1>4, <1>5, <1>6, <1>7, <1>8 DEF StoreEffect

(* An ended run keeps its status and transcript, and starts no tool call,     *)
(* whatever a worker that still believes it holds the run writes.             *)
THEOREM EndedStaysEnded == Spec => EndedRunIsFrozen
<1>1. RowInv /\ [Next]_vars => [EndedStep]_vars
  <2>. SUFFICES ASSUME RowInv, Next PROVE EndedStep
    OBVIOUS
  <2>. QED
    BY StepEffect, EndedEffect DEF RowInv, TypeInv
<1>. QED
  BY RowInit, RowStep, <1>1, PTL DEF Spec, EndedRunIsFrozen

LEMMA OutcomeEffect == TypeOK /\ StoreEffect => OutcomeStands
<1>. SUFFICES ASSUME TypeOK, StoreEffect PROVE OutcomeStands
  OBVIOUS
<1>a. callStatus \in [Calls -> CallStatuses]
  BY DEF TypeOK, StoreTypeOK
<1>1. CASE UNCHANGED callStatus
  BY <1>1 DEF OutcomeStands
<1>2. ASSUME NEW h, NEW c \in Calls, NEW s \in {"executing"} \cup Outcomes, StartToolCall(h, c, s)
      PROVE  OutcomeStands
  BY <1>2, <1>a DEF StartToolCall, MayStart, MayRestart, OutcomeStands, Outcomes
<1>3. ASSUME NEW c \in Calls, NEW s \in Outcomes, FinishToolCall(c, s)
      PROVE  OutcomeStands
  BY <1>3, <1>a DEF FinishToolCall, Outcome, LIVE_CALL, OutcomeStands, Outcomes
<1>. QED
  BY <1>1, <1>2, <1>3, Zenon
  DEF StoreEffect, storeVars, callVars, Create, AddUserMessage, RequestCancel, RecordStep,
      RequeueStaleQueued, LeaseRunsOut, WindowPasses, Claim, RenewLease, WaitForInput, Settle,
      AppendMessage

(* The first outcome recorded for a call stands, whichever worker is late. *)
THEOREM OutcomesStand == Spec => FinishedCallStands
<1>1. TypeInv /\ [Next]_vars => [OutcomeStands]_vars
  <2>. SUFFICES ASSUME TypeInv, Next PROVE OutcomeStands
    OBVIOUS
  <2>. QED
    BY StepEffect, OutcomeEffect DEF TypeInv
<1>. QED
  BY TypeInit, TypeStep, <1>1, PTL DEF Spec, FinishedCallStands

-----------------------------------------------------------------------------
(* Refinement: the status and the length of the transcript move only along   *)
(* the edges of RunLifecycle.                                                *)
LEMMA LifecycleEffect == RowInv /\ StoreEffect => [Lifecycle!Next]_(Lifecycle!vars)
<1>. SUFFICES ASSUME RowInv, StoreEffect PROVE [Lifecycle!Next]_(Lifecycle!vars)
  OBVIOUS
<1>. USE DEF Lifecycle!Next, Lifecycle!vars
<1>a. transcript \in Seq(Message) /\ UserMessage \in Message
  BY MessageTypes DEF RowInv, TypeInv, TypeOK, StoreTypeOK
<1>1. CASE UNCHANGED <<status, transcript>>
  BY <1>1
<1>2. CASE Create
  BY <1>2 DEF Create, Lifecycle!Created
<1>3. CASE AddUserMessage
  <2>1. Len(transcript') = Len(transcript) + 1
    BY <1>3, <1>a DEF AddUserMessage
  <2>. QED
    BY <1>3, <2>1 DEF AddUserMessage, Lifecycle!Continued
<1>4. CASE RequestCancel
  BY <1>4 DEF RequestCancel, CancelledStatus, LIVE, PARKED, Lifecycle!Ends, Lifecycle!Live,
              Lifecycle!Ended
<1>5. CASE \E h \in Holders : Claim(h)
  BY <1>5 DEF Claim, MayClaim, Lifecycle!Taken
<1>6. CASE \E h \in Holders \cup {NULL} : WaitForInput(h)
  BY <1>6 DEF WaitForInput, Held, Settle, ParkedStatus, Lifecycle!Parks, Lifecycle!Ends,
              Lifecycle!Live, Lifecycle!Ended
<1>7. CASE \E s \in Terminal : status \in LIVE /\ Settle(s)
  BY <1>7 DEF Settle, LIVE, PARKED, Terminal, Lifecycle!Ends, Lifecycle!Live, Lifecycle!Ended
<1>8. ASSUME NEW w \in Workers, NEW m \in Message, pc[w] # "idle", AppendMessage(holder[w], m)
      PROVE  [Lifecycle!Next]_(Lifecycle!vars)
  <2>1. status = "running"
    BY <1>8, OwnerRuns DEF AppendMessage
  <2>2. Len(transcript') = Len(transcript) + 1
    BY <1>8, <1>a DEF AppendMessage
  <2>. QED
    BY <1>8, <2>1, <2>2 DEF AppendMessage, Lifecycle!Grows
<1>. QED
  BY <1>1, <1>2, <1>3, <1>4, <1>5, <1>6, <1>7, <1>8, Zenon
  DEF StoreEffect, storeVars, RecordStep, RequeueStaleQueued, LeaseRunsOut, WindowPasses,
      RenewLease, StartToolCall, FinishToolCall

(* The agent-run system implements the promise of RunLifecycle: what a reader *)
(* of the API sees of a run moves along its edges only.                       *)
THEOREM RunsFollowTheLifecycle == Spec => ImplementsLifecycle
<1>1. Init => Lifecycle!Init
  BY DEF Init, StoreInit, Lifecycle!Init
<1>2. RowInv /\ [Next]_vars => [Lifecycle!Next]_(Lifecycle!vars)
  <2>. SUFFICES ASSUME RowInv, [Next]_vars PROVE [Lifecycle!Next]_(Lifecycle!vars)
    OBVIOUS
  <2>1. CASE UNCHANGED vars
    BY <2>1 DEF vars, storeVars, Lifecycle!vars
  <2>2. CASE Next
    BY <2>2, StepEffect, LifecycleEffect DEF RowInv, TypeInv
  <2>. QED
    BY <2>1, <2>2
<1>. QED
  BY RowInit, RowStep, <1>1, <1>2, PTL DEF Spec, ImplementsLifecycle, Lifecycle!Spec
=============================================================================
