------------------------------ MODULE AgentRuns ------------------------------
(***************************************************************************)
(* The agent-run system: the store and the worker slots (AgentLoop), the   *)
(* run queue (packages/agents/src/run-queue.ts, BullMQ behind it), the API *)
(* routes that create, continue and cancel a run                           *)
(* (packages/api-server/src/routes/runs.ts), and the runner's sweep        *)
(* (packages/agent-runner/src/process/housekeeping.ts).                    *)
(***************************************************************************)
EXTENDS AgentLoop

CONSTANTS
    MaxJobs,       \* bound: duplicate jobs for the run beyond this collapse
    MaxMessages    \* bound: chat messages a user adds

ASSUME BoundAssumption == MaxJobs \in Nat \ {0} /\ MaxMessages \in Nat

VARIABLES
    jobs,        \* jobs for the run waiting in Redis
    queueing,    \* API requests that wrote the row and have no answer from Redis yet
    added        \* chat messages added so far

envVars == <<jobs, queueing, added>>
vars == <<storeVars, workerVars, observed, envVars>>

Init ==
    /\ StoreInit
    /\ LoopInit
    /\ jobs = 0
    /\ queueing = 0
    /\ added = 0

(* Duplicate jobs are no-ops to their consumer; MaxJobs of them are enough. *)
AddJob == jobs' = IF jobs < MaxJobs THEN jobs + 1 ELSE jobs

-----------------------------------------------------------------------------
(* The API. *)
PostRun ==
    /\ Create
    /\ queueing' = queueing + 1
    /\ UNCHANGED <<workerVars, observed, jobs, added>>

PostMessage ==
    /\ added < MaxMessages
    /\ AddUserMessage
    /\ added' = added + 1
    /\ queueing' = queueing + 1
    /\ UNCHANGED <<workerVars, observed, jobs>>

PostCancel ==
    /\ RequestCancel
    /\ UNCHANGED <<workerVars, observed, envVars>>

(* queueOrFail(): the job reaches Redis and the request is answered; or it     *)
(* reaches Redis and the answer is still out; or the API process dies here.    *)
Enqueue ==
    /\ queueing > 0
    /\ \/ AddJob /\ queueing' \in {queueing, queueing - 1}
       \/ UNCHANGED jobs /\ queueing' = queueing - 1
    /\ UNCHANGED <<storeVars, workerVars, observed, added>>

(* ... or enqueue() fails or times out, whether or not Redis took the job, and *)
(* the run is failed, whoever holds it by then.                                *)
FailUnqueued ==
    /\ queueing > 0
    /\ queueing' = queueing - 1
    /\ FinishUnowned("failed") \/ (status \notin LIVE /\ UNCHANGED storeVars)
    /\ UNCHANGED <<workerVars, observed, jobs, added>>

-----------------------------------------------------------------------------
(* A worker takes a job.  A run it may not claim ends the job at once. *)
TakeJob(w) ==
    /\ jobs > 0
    /\ jobs' = jobs - 1
    /\ \/ \E h \in Holders \ NamesInUse : ClaimRun(w, h)
       \/ pc[w] = "idle" /\ ~MayClaim /\ UNCHANGED <<storeVars, workerVars, observed>>
    /\ UNCHANGED <<queueing, added>>

(* A slot that dies leaves its job to BullMQ, which may deliver it again. *)
WorkerDies(w) ==
    /\ Crash(w)
    /\ AddJob \/ UNCHANGED jobs
    /\ UNCHANGED <<queueing, added>>

(* Redis restarts without its data, or a worker dies before it claims. *)
LoseJobs ==
    /\ jobs > 0
    /\ jobs' = 0
    /\ UNCHANGED <<storeVars, workerVars, observed, queueing, added>>

-----------------------------------------------------------------------------
(* The sweep.  Every runner replica runs its own, so a statement of one may   *)
(* come at any point of another; an enqueue that fails ends one sweep early,  *)
(* which leaves the later statements to the next.  As in the API, Redis may   *)
(* take a job whose enqueue was reported failed.                              *)
SweepCancelAbandoned ==
    /\ CancelAbandoned
    /\ UNCHANGED <<workerVars, observed, envVars>>

SweepExpiredLeases ==
    /\ ExpiredLease
    /\ AddJob
    /\ UNCHANGED <<storeVars, workerVars, observed, queueing, added>>

SweepStaleQueued ==
    /\ RequeueStaleQueued
    /\ AddJob \/ UNCHANGED jobs
    /\ UNCHANGED <<workerVars, observed, queueing, added>>

SweepStalled ==
    /\ FailStalled
    /\ UNCHANGED <<workerVars, observed, envVars>>

SweepIdleChats ==
    /\ CloseIdleChats
    /\ UNCHANGED <<workerVars, observed, envVars>>

Sweep ==
    \/ SweepCancelAbandoned \/ SweepExpiredLeases \/ SweepStaleQueued
    \/ SweepStalled \/ SweepIdleChats

(* The database clock. *)
Clock ==
    /\ LeaseRunsOut \/ WindowPasses
    /\ UNCHANGED <<workerVars, observed, envVars>>

-----------------------------------------------------------------------------
WorkerStep(w) ==
    \/ TakeJob(w)
    \/ WorkerDies(w)
    \/ (DriveStep(w) \/ Heartbeat(w) \/ RenewalsFail(w)) /\ UNCHANGED envVars

Next ==
    \/ PostRun \/ PostMessage \/ PostCancel \/ Enqueue \/ FailUnqueued
    \/ \E w \in Workers : WorkerStep(w)
    \/ LoseJobs \/ Sweep \/ Clock

Spec == Init /\ [][Next]_vars

(* Workers keep going while they live, tools return, and the model answers or *)
(* times out; the runner's sweep keeps coming back; the clock moves; and a    *)
(* queue that is refilled again and again is not emptied by faults each time. *)
Fairness ==
    /\ \A w \in Workers : WF_vars(DriveStep(w) /\ UNCHANGED envVars)
    /\ SF_vars(\E w \in Workers : TakeJob(w))
    /\ WF_vars(SweepCancelAbandoned)
    /\ WF_vars(SweepExpiredLeases)
    /\ SF_vars(SweepStaleQueued /\ AddJob)
    /\ WF_vars(SweepStalled)
    /\ WF_vars(LeaseRunsOut /\ Clock)
    /\ WF_vars(WindowPasses /\ Clock)

FairSpec == Spec /\ Fairness

-----------------------------------------------------------------------------
(* Every variable is well typed; duplicate jobs and messages stay within   *)
(* their bounds.                                                           *)
TypeOK ==
    /\ StoreTypeOK
    /\ LoopTypeOK
    /\ performed \in [WriteCalls -> Nat] /\ lateSteps \in Nat
    /\ jobs \in 0..MaxJobs /\ queueing \in Nat /\ added \in 0..MaxMessages

(* A write or delete takes effect at most once, whatever crashes, takeovers  *)
(* and duplicate jobs the run goes through.                                  *)
WriteAtMostOnce == \A c \in WriteCalls : performed[c] <= 1

(* Every step's calls are answered by exactly one tool message, right after   *)
(* it, and a user message never lands in the middle of a step.                *)
TranscriptWellFormed ==
    \A i \in 1..(Len(transcript) - 1) :
        LET m == transcript[i]
            n == transcript[i + 1]
        IN  /\ n.role = "tool" <=> (m.role = "assistant" /\ m.calls # {})
            /\ n.role = "tool" => n.calls = m.calls
            /\ n.role = "user" <=> (m.role = "assistant" /\ m.calls = {})
            /\ m.role = "note" => n.role = "assistant"

(* What the model was told of a call never contradicts the audit row more    *)
(* than execute() and a late worker can make it: a call with a result has a  *)
(* settled row; a write reported to succeed has a row that says so, and one  *)
(* reported to fail has a row that says it failed, or that it succeeded when *)
(* recording that threw; or the row says that the outcome is unknown.        *)
AuditNeverContradicts ==
    /\ \A c \in Calls : told[c] # "none" => callStatus[c] \in Outcomes
    /\ \A c \in WriteCalls :
         /\ told[c] = "succeeded" => callStatus[c] \in {"succeeded", "outcome_unknown"}
         /\ told[c] = "failed" => callStatus[c] \in {"failed", "succeeded", "outcome_unknown"}

(* The stronger claim of finishToolCall()'s comment: a worker that lost the  *)
(* run cannot overwrite what the new holder recorded, so a success the       *)
(* holder reported is the outcome on the row.                                *)
AuditAgrees ==
    \A c \in WriteCalls : told[c] = "succeeded" => callStatus[c] = "succeeded"

(* Only a running run has a lease, and a cancelled run never parks: nobody   *)
(* could claim it again.                                                     *)
RowConsistent ==
    /\ leaseOwner # NULL <=> status = "running"
    /\ cancelRequested => status \notin PARKED

(* A cancel stops the run at its next check: at most the model step that was *)
(* already under way lands afterwards.                                       *)
StopsAfterCancel == lateSteps <= 1

EndedStep ==
    status \in Terminal =>
        /\ UNCHANGED <<status, transcript, told>>
        /\ \A c \in Calls :
              callStatus'[c] = "executing" => callStatus[c] = "executing"

(* The first outcome stands: an ended run keeps its status and its           *)
(* transcript, and no tool call of it is started.                            *)
EndedRunIsFrozen == [][EndedStep]_vars

OutcomeStands ==
    \A c \in Calls :
        /\ callStatus[c] \in Outcomes => callStatus'[c] = callStatus[c]
        /\ callStatus[c] # "none" => callStatus'[c] # "none"

(* A call's recorded outcome is never overwritten, whichever worker finishes *)
(* late, and a recorded call never loses its row.                            *)
FinishedCallStands == [][OutcomeStands]_vars

(* AgentRuns implements the promise of RunLifecycle. *)
Lifecycle == INSTANCE RunLifecycle WITH length <- Len(transcript)
ImplementsLifecycle == Lifecycle!Spec

(* A run asked to stop ends, even when its worker dies. *)
CancelEnds == cancelRequested ~> status \in Terminal

(* A queued or running run ends or waits for its user: jobs that are lost,    *)
(* workers that die, however often, and leases that run out do not leave it   *)
(* hanging.                                                                   *)
RunRests == status \in {"queued", "running"} ~> status \in Terminal \cup {"waiting_input"}
=============================================================================
