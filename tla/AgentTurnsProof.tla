--------------------------- MODULE AgentTurnsProof ---------------------------
(***************************************************************************)
(* Proofs about the transcript of AgentRuns: whatever slots die, lose the  *)
(* run and go on beside its new holder, the messages alternate as the      *)
(* model's API demands, and at most one model step lands after a cancel.   *)
(***************************************************************************)
EXTENDS AgentRunsProof

AsksForCalls(m) == m.role = "assistant" /\ m.calls # {}
Answers(m) == m.role = "assistant" /\ m.calls = {}

(* Which message may come after which. *)
Follows(m, n) ==
    /\ n.role = "tool" <=> AsksForCalls(m)
    /\ n.role = "tool" => n.calls = m.calls
    /\ n.role = "user" <=> Answers(m)
    /\ m.role = "note" => n.role = "assistant"

(* No two slots work under one name, so that one at most holds the lease. *)
DistinctNames ==
    \A v, w \in Workers : holder[v] = holder[w] /\ holder[v] # NULL => v = w

(* What the slot that holds the lease knows of the transcript is still so when  *)
(* it appends; a slot that lost the run is wrong about it and is refused.       *)
TurnOf(w) ==
    pc[w] # "idle" /\ Owns(holder[w]) =>
        /\ pc[w] = "append" =>
             LastMessage.role # "assistant" /\ msg[w].role = "assistant" /\ lateSteps = 0
        /\ pc[w] = "settle" => AsksForCalls(LastMessage) /\ msg[w] = LastMessage

TurnInv ==
    /\ DistinctNames
    /\ \A w \in Workers : TurnOf(w)
    /\ status = "waiting_input" => Answers(LastMessage)
    /\ lateSteps <= 1 /\ (~cancelRequested => lateSteps = 0)
    /\ TranscriptWellFormed

TurnsInv == RowInv /\ TurnInv

-----------------------------------------------------------------------------
LEMMA AppendFollows ==
    ASSUME transcript \in Seq(Message), transcript # <<>>, TranscriptWellFormed,
           NEW m \in Message, transcript' = Append(transcript, m), Follows(LastMessage, m)
    PROVE  TranscriptWellFormed' /\ LastMessage' = m
<1>1. /\ Len(transcript) \in Nat \ {0} /\ Len(transcript') = Len(transcript) + 1
      /\ transcript'[Len(transcript) + 1] = m
      /\ \A i \in 1..Len(transcript) : transcript'[i] = transcript[i]
  OBVIOUS
<1>2. TranscriptWellFormed'
  <2>1. SUFFICES ASSUME NEW i \in 1..(Len(transcript') - 1)
                 PROVE  Follows(transcript'[i], transcript'[i + 1])
    BY DEF TranscriptWellFormed, Follows, AsksForCalls, Answers
  <2>2. CASE i = Len(transcript)
    BY <1>1, <2>2 DEF LastMessage
  <2>3. CASE i # Len(transcript)
    <3>1. i \in 1..(Len(transcript) - 1) /\ i + 1 \in 1..Len(transcript)
      BY <1>1, <2>3
    <3>2. Follows(transcript[i], transcript[i + 1])
      BY <3>1 DEF TranscriptWellFormed, Follows, AsksForCalls, Answers
    <3>. QED
      BY <1>1, <3>1, <3>2
  <2>. QED
    BY <2>2, <2>3
<1>3. LastMessage' = m
  BY <1>1 DEF LastMessage
<1>. QED
  BY <1>2, <1>3

(* The other slots stand still. *)
LEMMA OthersRest ==
    ASSUME TypeOK, NEW w \in Workers, WorkerStep(w), NEW v \in Workers, v # w
    PROVE  pc'[v] = pc[v] /\ holder'[v] = holder[v] /\ msg'[v] = msg[v]
<1>a. /\ pc \in [Workers -> PCs] /\ holder \in [Workers -> Holders \cup {NULL}]
      /\ msg \in [Workers -> Message]
  BY DEF TypeOK, LoopTypeOK
<1> DEFINE Rest == pc'[v] = pc[v] /\ holder'[v] = holder[v] /\ msg'[v] = msg[v]
<1>b. Return(w) => Rest
  BY <1>a DEF Return
<1>c. \A l : Goto(w, l) => pc'[v] = pc[v]
  BY <1>a DEF Goto
<1>1. CASE TakeJob(w)
  BY <1>1, <1>a, <1>c DEF TakeJob, ClaimRun, workerVars
<1>2. CASE WorkerDies(w)
  BY <1>2, <1>b DEF WorkerDies, Crash
<1>3. CASE Heartbeat(w) \/ RenewalsFail(w)
  BY <1>3 DEF Heartbeat, RenewalsFail
<1>4. CASE EndTurn(w) \/ End(w) \/ GiveUp(w) \/ Drained(w)
  BY <1>4, <1>b DEF EndTurn, End, GiveUp, Drained
<1>5. CASE Stop(w) \/ AppendNote(w) \/ ModelStep(w) \/ ModelRefuses(w)
  BY <1>5, <1>a, <1>b, <1>c DEF Stop, EndWith, AppendNote, ModelStep, ModelRefuses, workerVars
<1>6. CASE AppendStep(w) \/ CountStep(w) \/ ListCalls(w) \/ AppendResults(w)
  BY <1>6, <1>a, <1>b, <1>c DEF AppendStep, CountStep, ListCalls, AppendResults
<1>7. CASE CallStep(w)
  BY <1>7, <1>b, <1>c DEF CallStep, StartCall, RunTool, FinishCall, FailCall, RefuseCall, MarkUnknown,
                          CallRefused, Abandon, SetTask
<1>. QED
  BY <1>1, <1>2, <1>3, <1>4, <1>5, <1>6, <1>7 DEF WorkerStep, DriveStep

LEMMA OneOwner ==
    ASSUME RowInv, DistinctNames, NEW v \in Workers, NEW w \in Workers,
           pc[v] # "idle", pc[w] # "idle", Owns(holder[v]), Owns(holder[w])
    PROVE  v = w
BY NullAssumption DEF RowInv, SlotsNamed, DistinctNames, Owns

(* Names stay distinct: a claim draws one that nobody has. *)
LEMMA NamesDistinct ==
    ASSUME TypeOK, DistinctNames, NEW w \in Workers, WorkerStep(w)
    PROVE  DistinctNames'
<1>a. holder \in [Workers -> Holders \cup {NULL}]
  BY DEF TypeOK, LoopTypeOK
<1>b. Return(w) => DistinctNames'
  BY <1>a DEF Return, DistinctNames
<1>c. UNCHANGED holder => DistinctNames'
  BY DEF DistinctNames
<1>1. CASE TakeJob(w)
  <2>1. CASE UNCHANGED holder
    BY <1>c, <2>1
  <2>2. ASSUME NEW h \in Holders \ NamesInUse, ClaimRun(w, h) PROVE DistinctNames'
    <3>1. holder' = [holder EXCEPT ![w] = h] /\ \A v \in Workers : holder[v] # h
      BY <2>2 DEF ClaimRun, NamesInUse
    <3>. QED
      BY <1>a, <3>1 DEF DistinctNames
  <2>. QED
    BY <1>1, <2>1, <2>2 DEF TakeJob, workerVars
<1>2. CASE UNCHANGED holder \/ Return(w)
  BY <1>2, <1>b, <1>c
<1>. QED
  BY <1>1, <1>2
  DEF WorkerStep, WorkerDies, Crash, DriveStep, Heartbeat, RenewalsFail, EndTurn, End, GiveUp,
      Drained, Stop, EndWith, AppendNote, ModelStep, ModelRefuses, workerVars, AppendStep,
      CountStep, ListCalls, AppendResults, CallStep, StartCall, RunTool, FinishCall, FailCall,
      RefuseCall, MarkUnknown, CallRefused, Abandon, SetTask

-----------------------------------------------------------------------------
(* What the steps that append nothing do to the run. *)
RunRestsBut ==
    /\ UNCHANGED transcript
    /\ leaseOwner' \in {leaseOwner, NULL}
    /\ cancelRequested => cancelRequested'
    /\ status' = "waiting_input" => status = "waiting_input" \/ Answers(LastMessage)

(* What they do to a slot: it is where it was, is free, or is not about to      *)
(* append.                                                                      *)
SlotRests(w) ==
    \/ pc'[w] = pc[w] /\ holder'[w] = holder[w] /\ msg'[w] = msg[w]
    \/ pc'[w] \notin {"append", "settle"}

LEMMA RestKeepsTurns ==
    ASSUME TurnsInv, RowInv', DistinctNames', RunRestsBut, UNCHANGED lateSteps,
           \A v \in Workers : SlotRests(v)
    PROVE  TurnInv'
<1>1. LastMessage' = LastMessage
  BY DEF RunRestsBut, LastMessage
<1>2. \A v \in Workers : TurnOf(v)'
  <2>1. SUFFICES ASSUME NEW v \in Workers, pc'[v] # "idle", Owns(holder[v])',
                        pc'[v] \in {"append", "settle"}
                 PROVE  TurnOf(v)'
    BY DEF TurnOf
  <2>2. pc'[v] = pc[v] /\ holder'[v] = holder[v] /\ msg'[v] = msg[v]
    BY <2>1 DEF SlotRests
  <2>3. Owns(holder[v])
    BY <2>1, <2>2, NullAssumption DEF Owns, RunRestsBut, RowInv, SlotsNamed
  <2>. QED
    BY <1>1, <2>1, <2>2, <2>3 DEF TurnsInv, TurnInv, TurnOf
<1>3. TranscriptWellFormed'
  BY DEF RunRestsBut, TurnsInv, TurnInv, TranscriptWellFormed
<1>. QED
  BY <1>1, <1>2, <1>3 DEF TurnsInv, TurnInv, RunRestsBut

(* Requests, the sweep and the clock. *)
LEMMA OutsideTurns ==
    ASSUME TurnsInv, RowInv', Next, ~(\E w \in Workers : WorkerStep(w))
    PROVE  TurnInv'
<1>1. UNCHANGED <<workerVars, observed>>
  BY SlotsMove
<1>2. DistinctNames'
  BY <1>1 DEF TurnsInv, TurnInv, DistinctNames, workerVars
<1>3. \A v \in Workers : SlotRests(v)
  BY <1>1 DEF SlotRests, workerVars
<1>4. CASE RunRestsBut
  BY <1>1, <1>2, <1>3, <1>4, RestKeepsTurns DEF observed
<1>5. transcript \in Seq(Message)
  BY DEF TurnsInv, RowInv, TypeInv, TypeOK, StoreTypeOK
<1>6. CASE Create
  <2>1. /\ transcript' = <<UserMessage>> /\ UNCHANGED cancelRequested
        /\ status = "absent" /\ status' = "queued"
    BY <1>6 DEF Create
  <2>2. TranscriptWellFormed'
    BY <2>1 DEF TranscriptWellFormed
  <2>3. \A v \in Workers : ~(pc[v] # "idle" /\ Owns(holder[v]))
    BY <2>1, OwnerRuns DEF TurnsInv
  <2>4. \A v \in Workers : TurnOf(v)'
    BY <1>1, <1>6, <2>3 DEF TurnOf, Owns, Create, leaseVars, workerVars
  <2>. QED
    BY <1>1, <1>2, <2>1, <2>2, <2>4 DEF TurnsInv, TurnInv, observed
<1>7. CASE AddUserMessage
  <2>1. /\ transcript' = Append(transcript, UserMessage) /\ UNCHANGED cancelRequested
        /\ status = "waiting_input" /\ status' = "queued"
    BY <1>7 DEF AddUserMessage
  <2>2. UserMessage \in Message /\ transcript # <<>> /\ Answers(LastMessage)
    BY <2>1 DEF TurnsInv, TurnInv, RowInv, TypeInv, Started, UserMessage, Message
  <2>3. Follows(LastMessage, UserMessage)
    BY <2>2 DEF Follows, UserMessage, Answers, AsksForCalls
  <2>4. TranscriptWellFormed'
    BY <1>5, <2>1, <2>2, <2>3, AppendFollows DEF TurnsInv, TurnInv
  <2>5. \A v \in Workers : ~(pc[v] # "idle" /\ Owns(holder[v]))
    BY <2>1, OwnerRuns DEF TurnsInv
  <2>6. \A v \in Workers : TurnOf(v)'
    BY <1>1, <1>7, <2>5 DEF TurnOf, Owns, AddUserMessage, leaseVars, workerVars
  <2>. QED
    BY <1>1, <1>2, <2>1, <2>4, <2>6 DEF TurnsInv, TurnInv, observed
<1>8. ASSUME RequestCancel \/ LeaseRunsOut \/ WindowPasses \/ RequeueStaleQueued
               \/ UNCHANGED storeVars
      PROVE  RunRestsBut
  <2>1. UNCHANGED <<transcript, leaseOwner>>
    BY <1>8
    DEF RequestCancel, LeaseRunsOut, WindowPasses, RequeueStaleQueued, storeVars, leaseVars
  <2>2. status' = "waiting_input" => status = "waiting_input"
    BY <1>8
    DEF RequestCancel, CancelledStatus, LeaseRunsOut, WindowPasses, RequeueStaleQueued, storeVars
  <2>3. cancelRequested => cancelRequested'
    BY <1>8 DEF RequestCancel, LeaseRunsOut, WindowPasses, RequeueStaleQueued, storeVars
  <2>. QED
    BY <2>1, <2>2, <2>3 DEF RunRestsBut
<1>9. ASSUME NEW s \in Terminal, Settle(s) PROVE RunRestsBut
  BY <1>9 DEF Settle, RunRestsBut, Terminal
<1>. QED
  BY <1>4, <1>6, <1>7, <1>8, <1>9
  DEF Next, PostRun, PostMessage, PostCancel, Enqueue, FailUnqueued, FinishUnowned, LoseJobs,
      Sweep, SweepCancelAbandoned, CancelAbandoned, SweepExpiredLeases, SweepStaleQueued,
      SweepStalled, FailStalled, SweepIdleChats, CloseIdleChats, Clock, Terminal

-----------------------------------------------------------------------------
(* A slot that takes the run finds no cancel, and nobody else holds it. *)
LEMMA ClaimTurns ==
    ASSUME TurnsInv, RowInv', DistinctNames', NEW w \in Workers, TakeJob(w), WorkerStep(w)
    PROVE  TurnInv'
<1>1. CASE UNCHANGED <<storeVars, workerVars, observed>>
  BY <1>1, RestKeepsTurns DEF storeVars, workerVars, observed, RunRestsBut, SlotRests
<1>2. ASSUME NEW h \in Holders \ NamesInUse, ClaimRun(w, h) PROVE TurnInv'
  <2>1. /\ leaseOwner' = h /\ UNCHANGED <<transcript, cancelRequested, lateSteps>>
        /\ status' = "running" /\ pc'[w] \notin {"append", "settle"}
    BY <1>2 DEF ClaimRun, Claim, Goto, observed, TurnsInv, RowInv, TypeInv, TypeOK, LoopTypeOK
  <2>2. \A v \in Workers : v # w => holder'[v] # h
    BY <1>2, OthersRest DEF NamesInUse, TurnsInv, RowInv, TypeInv
  <2>3. \A v \in Workers : TurnOf(v)'
    BY <2>1, <2>2 DEF TurnOf, Owns
  <2>4. TranscriptWellFormed'
    BY <2>1 DEF TurnsInv, TurnInv, TranscriptWellFormed
  <2>. QED
    BY <2>1, <2>3, <2>4 DEF TurnsInv, TurnInv
<1>. QED
  BY <1>1, <1>2 DEF TakeJob

(* Steps of a slot that append nothing. *)
Quiet(w) ==
    \/ WorkerDies(w) \/ Heartbeat(w) \/ RenewalsFail(w)
    \/ EndTurn(w) \/ End(w) \/ GiveUp(w) \/ Drained(w)
    \/ Stop(w) \/ ModelRefuses(w) \/ CountStep(w) \/ CallStep(w)

LEMMA QuietTurns ==
    ASSUME TurnsInv, RowInv', DistinctNames', NEW w \in Workers, Quiet(w), WorkerStep(w)
    PROVE  TurnInv'
<1>a. pc \in [Workers -> PCs] /\ TypeOK
  BY DEF TurnsInv, RowInv, TypeInv, TypeOK, LoopTypeOK
<1>b. Return(w) => SlotRests(w)
  BY <1>a DEF Return, SlotRests
<1>c. \A l : Goto(w, l) /\ l \notin {"append", "settle"} => SlotRests(w)
  BY <1>a DEF Goto, SlotRests
<1>d. UNCHANGED <<pc, holder, msg>> => SlotRests(w)
  BY DEF SlotRests
<1>e. UNCHANGED storeVars => RunRestsBut
  BY DEF storeVars, RunRestsBut
<1>f. UNCHANGED observed => UNCHANGED lateSteps
  BY DEF observed
<1>g. \A s : Settle(s) /\ (s # "waiting_input" \/ Answers(LastMessage)) => RunRestsBut
  BY DEF Settle, RunRestsBut
<1>h. \A c \in Calls : \A s : StartToolCall(holder[w], c, s) \/ FinishToolCall(c, s) => RunRestsBut
  BY DEF StartToolCall, FinishToolCall, RunRestsBut, leaseVars
<1>1. CASE WorkerDies(w) \/ GiveUp(w) \/ Drained(w)
  BY <1>1, <1>a, <1>b, <1>e, <1>f, OthersRest, RestKeepsTurns
  DEF WorkerDies, Crash, GiveUp, Drained, SlotRests
<1>2. CASE Heartbeat(w) \/ RenewalsFail(w)
  <2>1. RunRestsBut
    BY <1>2, <1>e DEF Heartbeat, RenewalsFail, RenewLease, RunRestsBut
  <2>2. UNCHANGED <<pc, holder, msg, lateSteps>>
    BY <1>2, <1>f DEF Heartbeat, RenewalsFail
  <2>. QED
    BY <2>1, <2>2, RestKeepsTurns DEF SlotRests
<1>3. CASE EndTurn(w) \/ End(w)
  <2>1. RunRestsBut
    <3>1. CASE EndTurn(w)
      <4>1. Answers(LastMessage)
        BY <3>1 DEF EndTurn, AtAnswer, Answers
      <4>. QED
        BY <3>1, <4>1, <1>e, <1>g DEF EndTurn, WaitForInput, Finish
    <3>2. CASE End(w)
      <4>1. verdict[w] # "waiting_input"
        BY <3>2 DEF End, TurnsInv, RowInv, TypeInv, VerdictReady, Terminal
      <4>. QED
        BY <3>2, <4>1, <1>e, <1>g DEF End, Finish
    <3>. QED
      BY <1>3, <3>1, <3>2
  <2>2. SlotRests(w) /\ UNCHANGED lateSteps
    BY <1>3, <1>b, <1>f DEF EndTurn, End
  <2>. QED
    BY <2>1, <2>2, <1>a, OthersRest, RestKeepsTurns DEF SlotRests
<1>4. CASE Stop(w) \/ ModelRefuses(w) \/ CountStep(w)
  <2>1. RunRestsBut
    BY <1>4, <1>e DEF Stop, ModelRefuses, CountStep, RecordStep, RunRestsBut, leaseVars
  <2>2. SlotRests(w) /\ UNCHANGED lateSteps
    BY <1>4, <1>b, <1>c, <1>f DEF Stop, EndWith, ModelRefuses, CountStep
  <2>. QED
    BY <2>1, <2>2, <1>a, OthersRest, RestKeepsTurns DEF SlotRests
<1>5. CASE CallStep(w)
  <2>1. RunRestsBut
    BY <1>5, <1>e, <1>h
    DEF CallStep, StartCall, RunTool, FinishCall, FailCall, RefuseCall, MarkUnknown, CallRefused, Abandon
  <2>2. SlotRests(w) /\ UNCHANGED lateSteps
    BY <1>5, <1>b, <1>c, <1>d, <1>f
    DEF CallStep, StartCall, RunTool, FinishCall, FailCall, RefuseCall, MarkUnknown, CallRefused, Abandon, SetTask
  <2>. QED
    BY <2>1, <2>2, <1>a, OthersRest, RestKeepsTurns DEF SlotRests
<1>. QED
  BY <1>1, <1>2, <1>3, <1>4, <1>5 DEF Quiet

(* The model's answer, and the list of calls, are decided on the last message. *)
LEMMA PlanTurns ==
    ASSUME TurnsInv, RowInv', DistinctNames', NEW w \in Workers, WorkerStep(w),
           ModelStep(w) \/ ListCalls(w)
    PROVE  TurnInv'
<1>a. /\ pc \in [Workers -> PCs] /\ msg \in [Workers -> Message] /\ TypeOK
      /\ lateSteps \in Nat
  BY DEF TurnsInv, RowInv, TypeInv, TypeOK, LoopTypeOK
<1>1. UNCHANGED <<transcript, status, leaseOwner, cancelRequested, lateSteps>>
  BY DEF ModelStep, ListCalls, storeVars, observed
<1>2. LastMessage' = LastMessage /\ TranscriptWellFormed'
  BY <1>1 DEF LastMessage, TurnsInv, TurnInv, TranscriptWellFormed
<1>3. ASSUME NEW v \in Workers, v # w PROVE TurnOf(v)'
  BY <1>1, <1>2, <1>3, <1>a, OthersRest DEF TurnsInv, TurnInv, TurnOf, Owns
<1>4. CASE ModelStep(w)
  <2>1. /\ pc'[w] = "append" /\ msg'[w].role = "assistant"
        /\ LastMessage.role # "assistant" /\ ~cancelRequested
    BY <1>4, <1>a DEF ModelStep, Goto, AtQuestion, MayStep, Cancelling, CallMessage
  <2>2. TurnOf(w)'
    BY <1>1, <1>2, <2>1 DEF TurnsInv, TurnInv, TurnOf
  <2>. QED
    BY <1>1, <1>2, <1>3, <2>2 DEF TurnsInv, TurnInv
<1>5. CASE ListCalls(w)
  <2>1. /\ pc'[w] = "settle" /\ msg'[w] = LastMessage /\ AsksForCalls(LastMessage)
    BY <1>5, <1>a DEF ListCalls, Goto, AtCalls, AsksForCalls
  <2>2. TurnOf(w)'
    BY <1>1, <1>2, <2>1 DEF TurnsInv, TurnInv, TurnOf
  <2>. QED
    BY <1>1, <1>2, <1>3, <2>2 DEF TurnsInv, TurnInv
<1>. QED
  BY <1>4, <1>5

(* An append by the holder of the lease. *)
LEMMA AppendTurns ==
    ASSUME TurnsInv, RowInv', DistinctNames', NEW w \in Workers, WorkerStep(w),
           pc[w] # "idle", NEW m \in Message, AppendMessage(holder[w], m),
           Follows(LastMessage, m), pc'[w] \notin {"append", "settle"},
           lateSteps' <= 1, ~cancelRequested => lateSteps' = 0
    PROVE  TurnInv'
<1>1. TypeOK /\ transcript \in Seq(Message) /\ transcript # <<>>
  BY DEF TurnsInv, RowInv, TypeInv, Started, TypeOK, StoreTypeOK
<1>2. /\ Owns(holder[w]) /\ transcript' = Append(transcript, m)
      /\ UNCHANGED <<status, leaseOwner, cancelRequested>>
  BY DEF AppendMessage, leaseVars
<1>3. TranscriptWellFormed'
  BY <1>1, <1>2, AppendFollows DEF TurnsInv, TurnInv
<1>4. status # "waiting_input"
  BY <1>2, OwnerRuns DEF TurnsInv
<1>5. ASSUME NEW v \in Workers PROVE TurnOf(v)'
  <2>1. CASE v = w
    BY <2>1 DEF TurnOf
  <2>2. CASE v # w
    <3>1. pc'[v] = pc[v] /\ holder'[v] = holder[v]
      BY <1>1, <2>2, OthersRest
    <3>2. ~(pc[v] # "idle" /\ Owns(holder[v]))
      BY <1>2, <2>2, OneOwner DEF TurnsInv, TurnInv
    <3>. QED
      BY <1>2, <3>1, <3>2 DEF TurnOf, Owns
  <2>. QED
    BY <2>1, <2>2
<1>. QED
  BY <1>2, <1>3, <1>4, <1>5 DEF TurnsInv, TurnInv

LEMMA WriteTurns ==
    ASSUME TurnsInv, RowInv', DistinctNames', NEW w \in Workers, WorkerStep(w),
           AppendNote(w) \/ AppendStep(w) \/ AppendResults(w)
    PROVE  TurnInv'
<1>a. /\ pc \in [Workers -> PCs] /\ msg \in [Workers -> Message] /\ TypeOK
      /\ lateSteps \in Nat /\ pc[w] # "idle" /\ msg[w].calls \in SUBSET Calls
  <2>1. /\ pc \in [Workers -> PCs] /\ msg \in [Workers -> Message] /\ TypeOK
        /\ lateSteps \in Nat
    BY DEF TurnsInv, RowInv, TypeInv, TypeOK, LoopTypeOK
  <2>2. msg[w].calls \in SUBSET Calls
    BY <2>1 DEF Message
  <2>3. pc[w] # "idle"
    BY DEF AppendNote, AtQuestion, AppendStep, AppendResults
  <2>. QED
    BY <2>1, <2>2, <2>3
<1>1. CASE Return(w) /\ UNCHANGED <<storeVars, lateSteps>>
  BY <1>1, <1>a, OthersRest, RestKeepsTurns DEF Return, storeVars, RunRestsBut, SlotRests
<1>2. CASE AppendNote(w) /\ AppendMessage(holder[w], NoteMessage)
  <2>1. Follows(LastMessage, NoteMessage)
    BY <1>2 DEF AppendNote, AtQuestion, Follows, AsksForCalls, Answers, NoteMessage
  <2>2. NoteMessage \in Message /\ UNCHANGED lateSteps
    BY <1>2 DEF NoteMessage, Message, AppendNote, observed
  <2>3. pc'[w] = "load"
    BY <1>2, <1>a DEF AppendNote, AtQuestion, AppendMessage, Return, workerVars, Owns
  <2>. QED
    BY <1>a, <1>2, <2>1, <2>2, <2>3, AppendTurns DEF TurnsInv, TurnInv
<1>3. CASE AppendStep(w) /\ AppendMessage(holder[w], msg[w])
  <2>1. Owns(holder[w]) /\ pc[w] = "append"
    BY <1>3 DEF AppendStep, AppendMessage
  <2>2. LastMessage.role # "assistant" /\ msg[w].role = "assistant" /\ lateSteps = 0
    BY <1>a, <2>1 DEF TurnsInv, TurnInv, TurnOf
  <2>3. Follows(LastMessage, msg[w])
    BY <2>2 DEF Follows, AsksForCalls, Answers
  <2>4. pc'[w] = "record" /\ lateSteps' = IF cancelRequested THEN lateSteps + 1 ELSE lateSteps
    BY <1>a, <1>3, <2>1 DEF AppendStep, Goto
  <2>. QED
    BY <1>a, <1>3, <2>2, <2>3, <2>4, AppendTurns
<1>4. CASE AppendResults(w) /\ AppendMessage(holder[w], ToolMessage(msg[w].calls))
  <2>1. Owns(holder[w]) /\ pc[w] = "settle" /\ UNCHANGED lateSteps
    BY <1>4 DEF AppendResults, AppendMessage, observed
  <2>2. AsksForCalls(LastMessage) /\ msg[w] = LastMessage
    BY <1>a, <2>1 DEF TurnsInv, TurnInv, TurnOf
  <2>3. Follows(LastMessage, ToolMessage(msg[w].calls)) /\ ToolMessage(msg[w].calls) \in Message
    BY <1>a, <2>2 DEF Follows, AsksForCalls, Answers, ToolMessage, Message
  <2>4. pc'[w] = "load"
    BY <1>a, <1>4, <2>1 DEF AppendResults, Goto
  <2>. QED
    BY <1>a, <1>4, <2>1, <2>3, <2>4, AppendTurns DEF TurnsInv, TurnInv
<1>. QED
  BY <1>1, <1>2, <1>3, <1>4 DEF AppendNote, AppendStep, AppendResults, observed

-----------------------------------------------------------------------------
LEMMA TurnsInit == Init => TurnsInv
<1> SUFFICES ASSUME Init PROVE TurnInv
  BY RowInit DEF TurnsInv
<1>1. \A w \in Workers : pc[w] = "idle" /\ holder[w] = NULL
  BY DEF Init, LoopInit
<1>2. transcript = <<>> /\ lateSteps = 0 /\ status = "absent"
  BY DEF Init, LoopInit, StoreInit
<1>3. TranscriptWellFormed
  BY <1>2 DEF TranscriptWellFormed
<1>. QED
  BY <1>1, <1>2, <1>3 DEF TurnInv, TurnOf, DistinctNames

LEMMA TurnsStep == TurnsInv /\ [Next]_vars => TurnsInv'
<1> SUFFICES ASSUME TurnsInv, [Next]_vars PROVE TurnsInv'
  OBVIOUS
<1>1. RowInv' /\ TypeOK
  BY RowStep DEF TurnsInv, RowInv, TypeInv
<1>2. CASE UNCHANGED vars
  <2>1. DistinctNames'
    BY <1>2 DEF vars, workerVars, TurnsInv, TurnInv, DistinctNames
  <2>2. RunRestsBut /\ UNCHANGED lateSteps /\ \A v \in Workers : SlotRests(v)
    BY <1>2 DEF vars, storeVars, workerVars, observed, RunRestsBut, SlotRests
  <2>. QED
    BY <1>1, <2>1, <2>2, RestKeepsTurns DEF TurnsInv
<1>3. ASSUME NEW w \in Workers, WorkerStep(w) PROVE TurnsInv'
  <2>1. DistinctNames'
    BY <1>1, <1>3, NamesDistinct DEF TurnsInv, TurnInv
  <2>2. \/ TakeJob(w) \/ Quiet(w) \/ ModelStep(w) \/ ListCalls(w)
        \/ AppendNote(w) \/ AppendStep(w) \/ AppendResults(w)
    BY <1>3 DEF WorkerStep, DriveStep, Quiet
  <2>. QED
    BY <1>1, <1>3, <2>1, <2>2, ClaimTurns, QuietTurns, PlanTurns, WriteTurns DEF TurnsInv
<1>4. CASE Next /\ ~(\E w \in Workers : WorkerStep(w))
  BY <1>1, <1>4, OutsideTurns DEF TurnsInv
<1>. QED
  BY <1>2, <1>3, <1>4

(* WELL FORMED.  Through any takeovers, crashes and late workers, every step's  *)
(* calls are answered by one tool message right after it, and a user message    *)
(* comes only after an answer.                                                  *)
THEOREM TranscriptStaysWellFormed == Spec => []TranscriptWellFormed
<1>1. TurnsInv => TranscriptWellFormed
  BY DEF TurnsInv, TurnInv
<1>. QED
  BY TurnsInit, TurnsStep, <1>1, PTL DEF Spec

(* AFTER A CANCEL.  At most one model step is appended once a cancel is         *)
(* requested, however many slots believe that they hold the run.                *)
THEOREM CancelStopsTheModel == Spec => []StopsAfterCancel
<1>1. TurnsInv => StopsAfterCancel
  BY DEF TurnsInv, TurnInv, StopsAfterCancel
<1>. QED
  BY TurnsInit, TurnsStep, <1>1, PTL DEF Spec
=============================================================================
