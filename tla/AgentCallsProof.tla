--------------------------- MODULE AgentCallsProof ---------------------------
(***************************************************************************)
(* Proofs about the tool calls of AgentRuns: a write takes effect at most  *)
(* once, and what the model is told of it fits the audit row.              *)
(***************************************************************************)
EXTENDS AgentRunsProof

(* What the slots know of a write against its row and its effect: the row    *)
(* exists before the tool runs, one slot at most has it in progress, and     *)
(* meanwhile only "outcome unknown" can be put on the row, or the success    *)
(* whose recording threw.                                                    *)
WriteInv ==
    \A c \in WriteCalls :
        /\ performed[c] <= 1
        /\ callStatus[c] = "none" => performed[c] = 0
        /\ \A w \in Workers :
             /\ task[w][c] = "run" => performed[c] = 0
             /\ task[w][c] \in InProgress =>
                  /\ callStatus[c] \in {"executing", "outcome_unknown"}
                        \cup (IF task[w][c] = "fail" THEN {"succeeded"} ELSE {})
                  /\ \A v \in Workers : task[v][c] \in InProgress => v = w

(* What the slots and the transcript say of a call against its row. *)
ResultInv ==
    /\ \A c \in Calls, w \in Workers :
         /\ task[w][c] \in InProgress \cup {"unknown"} => callStatus[c] # "none"
         /\ task[w][c] \in Outcomes => callStatus[c] \in Outcomes
    /\ \A c \in WriteCalls, w \in Workers :
         /\ task[w][c] = "succeeded" => callStatus[c] \in {"succeeded", "outcome_unknown"}
         /\ task[w][c] = "failed" => callStatus[c] \in {"failed", "succeeded", "outcome_unknown"}

CallInv == TypeInv /\ WriteInv /\ ResultInv /\ AuditNeverContradicts

-----------------------------------------------------------------------------
(* A step that moves no call on: at most some slots forget what they planned. *)
CallsRest ==
    /\ UNCHANGED <<callStatus, performed>>
    /\ \A w \in Workers, c \in Calls : task'[w][c] \in {task[w][c], "none"}

Forgets == \A v \in Workers, c \in Calls : task'[v][c] \in {task[v][c], "none"}

CallMoves(w, c) ==
    \/ StartToolCall(holder[w], c, "executing") /\ SetTask(w, c, "run") /\ UNCHANGED performed
    \/ \E s \in {"denied", "failed"} :
          StartToolCall(holder[w], c, s) /\ SetTask(w, c, s) /\ UNCHANGED performed
    \/ RunTool(w, c)
    \/ FinishToolCall(c, "succeeded") /\ SetTask(w, c, "succeeded")
       /\ task[w][c] = "finish" /\ UNCHANGED performed
    \/ (FinishToolCall(c, "succeeded") \/ UNCHANGED callStatus) /\ SetTask(w, c, "fail")
       /\ task[w][c] = "finish" /\ UNCHANGED performed
    \/ FinishToolCall(c, "failed") /\ SetTask(w, c, "failed")
       /\ task[w][c] = "fail" /\ UNCHANGED performed
    \/ FinishToolCall(c, "failed") /\ Forgets
       /\ c \in ReadCalls /\ task[w][c] = "fail" /\ UNCHANGED performed
    \/ MarkUnknown(w, c)

LEMMA CallEffect ==
    ASSUME TypeOK, Next
    PROVE  \/ CallsRest
           \/ \E w \in Workers : ListCalls(w)
           \/ \E w \in Workers, c \in Calls : CallMoves(w, c)
<1>a. task \in [Workers -> [Calls -> TaskStates]]
  BY DEF TypeOK, LoopTypeOK
<1>b. ASSUME UNCHANGED <<callStatus, task, performed>> PROVE CallsRest
  BY <1>b DEF CallsRest
<1>c. ASSUME NEW w \in Workers, Return(w), UNCHANGED <<callStatus, performed>> PROVE CallsRest
  BY <1>a, <1>c DEF CallsRest, Return, NoTasks
<1>d. \A s : Settle(s) => UNCHANGED callStatus
  BY DEF Settle, callVars
<1>e. UNCHANGED storeVars => UNCHANGED callStatus
  BY DEF storeVars
<1>f. UNCHANGED observed => UNCHANGED performed
  BY DEF observed
<1>1. CASE ~(\E w \in Workers : WorkerStep(w))
  <2>1. UNCHANGED callStatus
    BY <1>1, <1>d, <1>e
    DEF Next, PostRun, PostMessage, PostCancel, Enqueue, FailUnqueued, LoseJobs, Sweep,
        SweepCancelAbandoned, SweepExpiredLeases, SweepStaleQueued, SweepStalled,
        SweepIdleChats, Clock, Create, AddUserMessage, RequestCancel, FinishUnowned,
        CancelAbandoned, RequeueStaleQueued, FailStalled, CloseIdleChats, LeaseRunsOut,
        WindowPasses, callVars
  <2>. QED
    BY <1>1, <2>1, <1>b, SlotsMove DEF workerVars, observed
<1>2. ASSUME NEW w \in Workers, WorkerStep(w)
      PROVE  CallsRest \/ ListCalls(w) \/ \E c \in Calls : CallMoves(w, c)
  <2>1. CASE TakeJob(w)
    BY <2>1, <1>b, <1>e, <1>f DEF TakeJob, ClaimRun, Claim, callVars, workerVars
  <2>2. CASE WorkerDies(w) \/ GiveUp(w) \/ Drained(w)
    BY <2>2, <1>c, <1>e, <1>f DEF WorkerDies, Crash, GiveUp, Drained
  <2>3. CASE Heartbeat(w) \/ RenewalsFail(w)
    BY <2>3, <1>b, <1>e, <1>f DEF Heartbeat, RenewLease, RenewalsFail, callVars
  <2>4. CASE EndTurn(w) \/ End(w)
    BY <2>4, <1>c, <1>d, <1>e, <1>f DEF EndTurn, End, WaitForInput, Finish
  <2>5. CASE Stop(w)
    BY <2>5, <1>b, <1>c, <1>e, <1>f DEF Stop, EndWith
  <2>6. CASE AppendNote(w) \/ ModelStep(w) \/ ModelRefuses(w)
    BY <2>6, <1>b, <1>c, <1>e, <1>f
    DEF AppendNote, ModelStep, ModelRefuses, AppendMessage, workerVars
  <2>7. CASE AppendStep(w) \/ CountStep(w)
    BY <2>7, <1>b, <1>c, <1>e, <1>f DEF AppendStep, CountStep, AppendMessage, RecordStep, callVars
  <2>8. CASE AppendResults(w)
    <3>1. CASE Return(w) /\ UNCHANGED storeVars
      BY <2>8, <3>1, <1>c, <1>e, <1>f DEF AppendResults
    <3>2. CASE AppendMessage(holder[w], ToolMessage(msg[w].calls))
               /\ task' = [task EXCEPT ![w] = NoTasks]
      BY <2>8, <3>2, <1>a, <1>f DEF AppendResults, AppendMessage, CallsRest, NoTasks
    <3>. QED
      BY <2>8, <3>1, <3>2 DEF AppendResults
  <2>9. CASE ListCalls(w)
    BY <2>9
  <2>10. ASSUME NEW c \in Calls,
                \/ StartCall(w, c) \/ RunTool(w, c) \/ FinishCall(w, c) \/ FailCall(w, c)
                \/ RefuseCall(w, c) \/ MarkUnknown(w, c)
         PROVE  CallsRest \/ CallMoves(w, c)
    <3>1. CallRefused(w, c) /\ UNCHANGED observed => CallsRest
      <4>1. task' = [task EXCEPT ![w][c] = "none"] /\ UNCHANGED <<callStatus, performed>> => CallsRest
        BY <1>a DEF CallsRest
      <4>. QED
        BY <4>1, <1>c, <1>e, <1>f DEF CallRefused, Abandon
    <3>2. UNCHANGED storeVars => UNCHANGED callStatus
      BY <1>e
    <3>3. Abandon(w, c) => Forgets
      BY <1>a DEF Abandon, Return, NoTasks, Forgets
    <3>4. Forgets /\ UNCHANGED <<callStatus, performed>> => CallsRest
      BY DEF Forgets, CallsRest
    <3>. QED
      BY <2>10, <3>1, <3>2, <3>3, <3>4, <1>f DEF StartCall, RefuseCall, FinishCall, FailCall, CallMoves
  <2>. QED
    BY <1>2, <2>1, <2>2, <2>3, <2>4, <2>5, <2>6, <2>7, <2>8, <2>9, <2>10
    DEF WorkerStep, DriveStep, CallStep
<1>. QED
  BY <1>1, <1>2

LEMMA PlanStates ==
    ASSUME TypeOK, NEW c \in Calls
    PROVE  /\ Plan(c) \notin InProgress
           /\ Plan(c) = "unknown" => callStatus[c] = "executing"
           /\ Plan(c) \in Outcomes => callStatus[c] = Plan(c)
BY DEF TypeOK, StoreTypeOK, Plan, InProgress, Outcomes

LEMMA WritesStep ==
    ASSUME CallInv, Next
    PROVE  WriteInv'
<1>a. /\ task \in [Workers -> [Calls -> TaskStates]]
      /\ callStatus \in [Calls -> CallStatuses]
      /\ performed \in [WriteCalls -> Nat]
  BY DEF CallInv, TypeInv, TypeOK, StoreTypeOK, LoopTypeOK
<1>b. TypeOK /\ WriteInv /\ ResultInv
  BY DEF CallInv, TypeInv
<1>c. WriteCalls \subseteq Calls
  BY DEF Calls
<1>1. CASE CallsRest
  BY <1>1, <1>a, <1>b, <1>c DEF CallsRest, WriteInv, InProgress
<1>2. ASSUME NEW w \in Workers, ListCalls(w) PROVE WriteInv'
  <2>1. UNCHANGED <<callStatus, performed>>
    BY <1>2 DEF ListCalls, storeVars, observed
  <2>2. \A v \in Workers, c \in Calls :
          task'[v][c] \in InProgress => v # w /\ task'[v][c] = task[v][c]
    BY <1>2, <1>a, <1>b, PlanStates DEF ListCalls, InProgress
  <2>. QED
    BY <2>1, <2>2, <1>a, <1>b, <1>c DEF WriteInv, InProgress
<1>3. ASSUME NEW w \in Workers, NEW c \in Calls, CallMoves(w, c) PROVE WriteInv'
  <2>1. CASE /\ StartToolCall(holder[w], c, "executing") /\ SetTask(w, c, "run")
             /\ UNCHANGED performed
    <3>1. callStatus' = [callStatus EXCEPT ![c] = "executing"]
          /\ task' = [task EXCEPT ![w][c] = "run"]
      BY <2>1 DEF StartToolCall, SetTask
    <3>2. c \in WriteCalls => callStatus[c] = "none"
      BY <2>1, CallsAssumption DEF StartToolCall, MayStart, MayRestart
    <3>. QED
      BY <2>1, <3>1, <3>2, <1>a, <1>b, <1>c DEF WriteInv, InProgress
  <2>2. ASSUME NEW s \in {"denied", "failed"},
               StartToolCall(holder[w], c, s), SetTask(w, c, s), UNCHANGED performed
        PROVE  WriteInv'
    <3>1. callStatus' = [callStatus EXCEPT ![c] = s] /\ task' = [task EXCEPT ![w][c] = s]
      BY <2>2 DEF StartToolCall, SetTask
    <3>2. c \in WriteCalls => callStatus[c] = "none"
      BY <2>2, CallsAssumption DEF StartToolCall, MayStart, MayRestart
    <3>. QED
      BY <2>2, <3>1, <3>2, <1>a, <1>b, <1>c DEF WriteInv, InProgress
  <2>3. CASE RunTool(w, c)
    <3>0. PICK s \in {"finish", "fail"} : SetTask(w, c, s)
      BY <2>3 DEF RunTool
    <3>1. task' = [task EXCEPT ![w][c] = s] /\ task[w][c] = "run" /\ UNCHANGED callStatus
      BY <2>3, <3>0 DEF RunTool, SetTask, storeVars
    <3>2. CASE c \notin WriteCalls
      BY <2>3, <3>1, <3>2, <1>a, <1>b, <1>c DEF RunTool, WriteInv, InProgress
    <3>3. CASE c \in WriteCalls
      <4>0. performed[c] = 0
        BY <3>1, <3>3, <1>b DEF WriteInv
      <4>1. performed' = [performed EXCEPT ![c] = 1]
        BY <2>3, <4>0, <3>3 DEF RunTool
      <4>. QED
        BY <3>1, <3>3, <4>0, <4>1, <1>a, <1>b, <1>c DEF WriteInv, InProgress
    <3>. QED
      BY <3>2, <3>3
  <2>4. ASSUME FinishToolCall(c, "succeeded") \/ UNCHANGED callStatus, NEW s \in {"succeeded", "fail"},
               FinishToolCall(c, "succeeded") \/ s = "fail",
               SetTask(w, c, s), task[w][c] = "finish", UNCHANGED performed
        PROVE  WriteInv'
    <3>1. PICK t \in {callStatus[c], Outcome(c, "succeeded")} : callStatus' = [callStatus EXCEPT ![c] = t]
      BY <2>4, <1>a DEF FinishToolCall
    <3>2. task' = [task EXCEPT ![w][c] = s]
      BY <2>4 DEF SetTask
    <3>3. t # "none"
          /\ (c \in WriteCalls => t \in {"executing", "succeeded", "outcome_unknown"})
      BY <2>4, <3>1, <1>b DEF Outcome, LIVE_CALL, ResultInv, WriteInv, InProgress
    <3>. QED
      BY <2>4, <3>1, <3>2, <3>3, <1>a, <1>b, <1>c DEF WriteInv, InProgress
  <2>6. ASSUME FinishToolCall(c, "failed"), SetTask(w, c, "failed"), task[w][c] = "fail",
               UNCHANGED performed
        PROVE  WriteInv'
    <3>1. callStatus' = [callStatus EXCEPT ![c] = Outcome(c, "failed")]
          /\ task' = [task EXCEPT ![w][c] = "failed"]
      BY <2>6 DEF FinishToolCall, SetTask
    <3>2. Outcome(c, "failed") # "none"
      BY <2>6, <1>b DEF Outcome, ResultInv, InProgress
    <3>. QED
      BY <2>6, <3>1, <3>2, <1>a, <1>b, <1>c DEF WriteInv, InProgress
  <2>8. ASSUME FinishToolCall(c, "failed"), Forgets, c \in ReadCalls, UNCHANGED performed
        PROVE  WriteInv'
    <3>1. callStatus' = [callStatus EXCEPT ![c] = Outcome(c, "failed")]
      BY <2>8 DEF FinishToolCall
    <3>2. c \notin WriteCalls
      BY <2>8, CallsAssumption
    <3>. QED
      BY <2>8, <3>1, <3>2, <1>a, <1>b, <1>c DEF Forgets, WriteInv, InProgress
  <2>5. CASE MarkUnknown(w, c)
    <3>1. /\ callStatus' = [callStatus EXCEPT ![c] = Outcome(c, "outcome_unknown")]
          /\ task' = [task EXCEPT ![w][c] = "outcome_unknown"]
          /\ UNCHANGED performed
          /\ task[w][c] = "unknown"
      BY <2>5 DEF MarkUnknown, FinishToolCall, SetTask, observed
    <3>2. Outcome(c, "outcome_unknown") # "none"
      BY <3>1, <1>b DEF Outcome, ResultInv
    <3>3. callStatus[c] \in {"executing", "outcome_unknown"} =>
             Outcome(c, "outcome_unknown") = "outcome_unknown"
      BY DEF Outcome, LIVE_CALL
    <3>4. callStatus[c] = "succeeded" => Outcome(c, "outcome_unknown") = "succeeded"
      BY DEF Outcome, LIVE_CALL
    <3>. QED
      BY <3>1, <3>2, <3>3, <3>4, <1>a, <1>b, <1>c DEF WriteInv, InProgress
  <2>. QED
    BY <1>3, <2>1, <2>2, <2>3, <2>4, <2>5, <2>6, <2>8 DEF CallMoves
<1>. QED
  BY <1>1, <1>2, <1>3, <1>b, CallEffect

LEMMA ResultsStep ==
    ASSUME CallInv, Next
    PROVE  ResultInv'
<1>a. /\ task \in [Workers -> [Calls -> TaskStates]]
      /\ callStatus \in [Calls -> CallStatuses]
  BY DEF CallInv, TypeInv, TypeOK, StoreTypeOK, LoopTypeOK
<1>b. TypeOK /\ WriteInv /\ ResultInv
  BY DEF CallInv, TypeInv
<1>c. WriteCalls \subseteq Calls
  BY DEF Calls
<1>. USE DEF InProgress, Outcomes
<1>1. CASE CallsRest
  BY <1>1, <1>a, <1>b, <1>c DEF CallsRest, ResultInv
<1>2. ASSUME NEW w \in Workers, ListCalls(w) PROVE ResultInv'
  <2>1. UNCHANGED callStatus
    BY <1>2 DEF ListCalls, storeVars
  <2>2. \A v \in Workers, c \in Calls :
          task'[v][c] \in {task[v][c], "none"} \/ (v = w /\ task'[v][c] = Plan(c))
    BY <1>2, <1>a DEF ListCalls
  <2>. QED
    BY <2>1, <2>2, <1>a, <1>b, <1>c, PlanStates DEF ResultInv
<1>3. ASSUME NEW w \in Workers, NEW c \in Calls, CallMoves(w, c) PROVE ResultInv'
  <2>1. CASE StartToolCall(holder[w], c, "executing") /\ SetTask(w, c, "run")
    <3>1. callStatus' = [callStatus EXCEPT ![c] = "executing"]
          /\ task' = [task EXCEPT ![w][c] = "run"]
      BY <2>1 DEF StartToolCall, SetTask
    <3>2. callStatus[c] \in {"none", "executing"}
      BY <2>1 DEF StartToolCall, MayStart, MayRestart
    <3>. QED
      BY <3>1, <3>2, <1>a, <1>b, <1>c DEF ResultInv
  <2>2. ASSUME NEW s \in {"denied", "failed"}, StartToolCall(holder[w], c, s), SetTask(w, c, s)
        PROVE  ResultInv'
    <3>1. callStatus' = [callStatus EXCEPT ![c] = s] /\ task' = [task EXCEPT ![w][c] = s]
      BY <2>2 DEF StartToolCall, SetTask
    <3>2. callStatus[c] \in {"none", "executing"}
      BY <2>2 DEF StartToolCall, MayStart, MayRestart
    <3>. QED
      BY <3>1, <3>2, <1>a, <1>b, <1>c DEF ResultInv
  <2>3. CASE RunTool(w, c)
    <3>1. PICK s \in {"finish", "fail"} : SetTask(w, c, s)
      BY <2>3 DEF RunTool
    <3>2. task' = [task EXCEPT ![w][c] = s] /\ task[w][c] = "run" /\ UNCHANGED callStatus
      BY <2>3, <3>1 DEF RunTool, SetTask, storeVars
    <3>. QED
      BY <3>1, <3>2, <1>a, <1>b, <1>c DEF ResultInv
  <2>4. ASSUME FinishToolCall(c, "succeeded"), SetTask(w, c, "succeeded"), task[w][c] = "finish"
        PROVE  ResultInv'
    <3>1. callStatus' = [callStatus EXCEPT ![c] = Outcome(c, "succeeded")]
          /\ task' = [task EXCEPT ![w][c] = "succeeded"]
      BY <2>4 DEF FinishToolCall, SetTask
    <3>2. Outcome(c, "succeeded") \in Outcomes
          /\ (c \in WriteCalls => Outcome(c, "succeeded") \in {"succeeded", "outcome_unknown"})
          /\ (callStatus[c] \in Outcomes => Outcome(c, "succeeded") = callStatus[c])
      BY <2>4, <1>a, <1>b DEF Outcome, LIVE_CALL, CallStatuses, ResultInv, WriteInv
    <3>. QED
      BY <2>4, <3>1, <3>2, <1>a, <1>b, <1>c DEF ResultInv
  <2>6. ASSUME FinishToolCall(c, "succeeded") \/ UNCHANGED callStatus,
               SetTask(w, c, "fail"), task[w][c] = "finish"
        PROVE  ResultInv'
    <3>1. PICK t \in {callStatus[c], Outcome(c, "succeeded")} : callStatus' = [callStatus EXCEPT ![c] = t]
      BY <2>6, <1>a DEF FinishToolCall
    <3>2. task' = [task EXCEPT ![w][c] = "fail"]
      BY <2>6 DEF SetTask
    <3>3. t # "none" /\ (callStatus[c] \in Outcomes => t = callStatus[c])
      BY <2>6, <3>1, <1>a, <1>b DEF Outcome, LIVE_CALL, ResultInv
    <3>. QED
      BY <2>6, <3>1, <3>2, <3>3, <1>a, <1>b, <1>c DEF ResultInv
  <2>7. ASSUME FinishToolCall(c, "failed"), SetTask(w, c, "failed"), task[w][c] = "fail"
        PROVE  ResultInv'
    <3>1. callStatus' = [callStatus EXCEPT ![c] = Outcome(c, "failed")]
          /\ task' = [task EXCEPT ![w][c] = "failed"]
      BY <2>7 DEF FinishToolCall, SetTask
    <3>2. Outcome(c, "failed") \in Outcomes
          /\ (c \in WriteCalls => Outcome(c, "failed") \in {"failed", "succeeded", "outcome_unknown"})
          /\ (callStatus[c] \in Outcomes => Outcome(c, "failed") = callStatus[c])
      BY <2>7, <1>a, <1>b DEF Outcome, LIVE_CALL, CallStatuses, ResultInv, WriteInv
    <3>. QED
      BY <2>7, <3>1, <3>2, <1>a, <1>b, <1>c DEF ResultInv
  <2>5. CASE MarkUnknown(w, c)
    <3>1. /\ callStatus' = [callStatus EXCEPT ![c] = Outcome(c, "outcome_unknown")]
          /\ task' = [task EXCEPT ![w][c] = "outcome_unknown"]
          /\ task[w][c] = "unknown"
      BY <2>5 DEF MarkUnknown, FinishToolCall, SetTask
    <3>2. Outcome(c, "outcome_unknown") \in Outcomes
          /\ (callStatus[c] \in Outcomes => Outcome(c, "outcome_unknown") = callStatus[c])
      BY <3>1, <1>a, <1>b DEF Outcome, LIVE_CALL, CallStatuses, ResultInv
    <3>. QED
      BY <3>1, <3>2, <1>a, <1>b, <1>c DEF ResultInv
  <2>8. ASSUME FinishToolCall(c, "failed"), Forgets, c \in ReadCalls, task[w][c] = "fail"
        PROVE  ResultInv'
    <3>1. callStatus' = [callStatus EXCEPT ![c] = Outcome(c, "failed")]
      BY <2>8 DEF FinishToolCall
    <3>2. c \notin WriteCalls /\ Outcome(c, "failed") \in Outcomes
      BY <2>8, <1>a, <1>b, CallsAssumption DEF Outcome, LIVE_CALL, CallStatuses, ResultInv
    <3>. QED
      BY <2>8, <3>1, <3>2, <1>a, <1>b, <1>c DEF Forgets, ResultInv
  <2>. QED
    BY <1>3, <2>1, <2>2, <2>3, <2>4, <2>5, <2>6, <2>7, <2>8 DEF CallMoves
<1>. QED
  BY <1>1, <1>2, <1>3, <1>b, CallEffect

(* Only AppendResults changes what the transcript says of a call. *)
LEMMA ToldEffect ==
    ASSUME TypeOK, Next, NEW c \in Calls
    PROVE  told'[c] = told[c] \/ \E w \in Workers : told'[c] = task[w][c] /\ UNCHANGED callStatus
<1>1. UNCHANGED storeVars => UNCHANGED told
  BY DEF storeVars
<1>2. \A s : Settle(s) => UNCHANGED told
  BY DEF Settle, callVars
<1>3. CASE ~(\E w \in Workers : WorkerStep(w))
  BY <1>3, ToldMoves
<1>4. ASSUME NEW w \in Workers, AppendResults(w)
      PROVE  told'[c] = told[c] \/ (told'[c] = task[w][c] /\ UNCHANGED callStatus)
  BY <1>4, <1>1 DEF AppendResults, AppendMessage
<1>5. ASSUME NEW w \in Workers, WorkerStep(w), ~AppendResults(w)
      PROVE  UNCHANGED told
  <2>1. CASE TakeJob(w) \/ WorkerDies(w)
    BY <2>1, <1>1 DEF TakeJob, ClaimRun, Claim, WorkerDies, Crash, callVars
  <2>2. CASE Heartbeat(w) \/ RenewalsFail(w) \/ EndTurn(w) \/ End(w)
    BY <2>2, <1>1, <1>2 DEF Heartbeat, RenewLease, RenewalsFail, EndTurn, End, WaitForInput,
                            Finish, callVars
  <2>3. CASE Stop(w) \/ ModelStep(w) \/ ModelRefuses(w) \/ ListCalls(w) \/ GiveUp(w) \/ Drained(w)
    BY <2>3, <1>1 DEF Stop, ModelStep, ModelRefuses, ListCalls, GiveUp, Drained
  <2>4. CASE AppendNote(w) \/ AppendStep(w) \/ CountStep(w)
    BY <2>4, <1>1 DEF AppendNote, AppendStep, CountStep, RecordStep, callVars
  <2>5. CASE CallStep(w)
    BY <2>5, <1>1 DEF CallStep, StartCall, RunTool, FinishCall, FailCall, RefuseCall, MarkUnknown,
                      CallRefused, Abandon, StartToolCall, FinishToolCall
  <2>. QED
    BY <1>5, <2>1, <2>2, <2>3, <2>4, <2>5 DEF WorkerStep, DriveStep
<1>. QED
  BY <1>3, <1>4, <1>5

LEMMA AuditStep ==
    ASSUME CallInv, Next
    PROVE  AuditNeverContradicts'
<1>a. TypeOK /\ WriteInv /\ ResultInv /\ AuditNeverContradicts
  BY DEF CallInv, TypeInv
<1>b. StoreEffect
  BY StepEffect DEF CallInv, TypeInv
<1>c. OutcomeStands
  BY <1>a, <1>b, OutcomeEffect
<1>d. \A w \in Workers, c \in Calls :
        task[w][c] \in Outcomes \cup {"none"} \/ task[w][c] \in ToDo
  BY <1>a DEF TypeOK, LoopTypeOK, TaskStates
<1>e. told' \in [Calls -> {"none"} \cup Outcomes]
  BY TypeStep DEF CallInv, TypeInv, TypeOK, StoreTypeOK
<1>1. ASSUME NEW c \in Calls, told'[c] # "none" PROVE callStatus'[c] \in Outcomes
  <2>1. CASE told'[c] = told[c]
    BY <2>1, <1>1, <1>a, <1>c DEF AuditNeverContradicts, OutcomeStands
  <2>2. ASSUME NEW w \in Workers, told'[c] = task[w][c], UNCHANGED callStatus
        PROVE  callStatus'[c] \in Outcomes
    BY <2>2, <1>1, <1>a, <1>e DEF ResultInv
  <2>. QED
    BY <1>a, <2>1, <2>2, ToldEffect
<1> DEFINE Fits(t, r) == /\ t = "succeeded" => r \in {"succeeded", "outcome_unknown"}
                         /\ t = "failed" => r \in {"failed", "succeeded", "outcome_unknown"}
<1>2. ASSUME NEW c \in WriteCalls PROVE Fits(told'[c], callStatus'[c])
  <2>0. c \in Calls
    BY DEF Calls
  <2>1. CASE told'[c] = told[c]
    BY <2>0, <2>1, <1>a, <1>c DEF AuditNeverContradicts, OutcomeStands, Outcomes
  <2>2. ASSUME NEW w \in Workers, told'[c] = task[w][c], UNCHANGED callStatus
        PROVE  Fits(told'[c], callStatus'[c])
    BY <2>2, <1>a DEF ResultInv
  <2>. QED
    BY <1>a, <2>0, <2>1, <2>2, ToldEffect
<1>. QED
  BY <1>1, <1>2 DEF AuditNeverContradicts

LEMMA CallsInit == Init => CallInv
<1>. SUFFICES ASSUME Init PROVE CallInv
  OBVIOUS
<1>1. TypeInv
  BY TypeInit
<1>2. /\ \A c \in Calls : callStatus[c] = "none" /\ told[c] = "none"
      /\ \A c \in WriteCalls : performed[c] = 0
      /\ \A w \in Workers, c \in Calls : task[w][c] = "none"
      /\ WriteCalls \subseteq Calls
  BY DEF Init, StoreInit, LoopInit, NoTasks, Calls
<1>. QED
  BY <1>1, <1>2 DEF CallInv, WriteInv, ResultInv, AuditNeverContradicts, InProgress, Outcomes

LEMMA CallsStep == CallInv /\ [Next]_vars => CallInv'
<1>. SUFFICES ASSUME CallInv, [Next]_vars PROVE CallInv'
  OBVIOUS
<1>1. TypeInv'
  BY TypeStep DEF CallInv
<1>2. CASE UNCHANGED vars
  BY <1>1, <1>2 DEF CallInv, WriteInv, ResultInv, AuditNeverContradicts, vars, storeVars,
                    workerVars, observed
<1>3. CASE Next
  BY <1>1, <1>3, WritesStep, ResultsStep, AuditStep DEF CallInv
<1>. QED
  BY <1>2, <1>3

(* A write or delete takes effect at most once, however many workers take the *)
(* run over and whenever they die.                                            *)
THEOREM WritesHappenOnce == Spec => []WriteAtMostOnce
<1>1. CallInv => WriteAtMostOnce
  BY DEF CallInv, WriteInv, WriteAtMostOnce
<1>. QED
  BY CallsInit, CallsStep, <1>1, PTL DEF Spec

(* No call the model has a result for is still in flight; a write it was told *)
(* succeeded has no row that says otherwise, and one it was told failed has a *)
(* row that says so unless recording its success threw, or the outcome is not *)
(* known.                                                                     *)
THEOREM AuditIsSound == Spec => []AuditNeverContradicts
<1>1. CallInv => AuditNeverContradicts
  BY DEF CallInv
<1>. QED
  BY CallsInit, CallsStep, <1>1, PTL DEF Spec
=============================================================================
