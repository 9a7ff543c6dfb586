------------------------- MODULE TranscriptionProofs -------------------------
(***************************************************************************)
(* The job row, the dispatchers and the workflow agree, for any number of  *)
(* replayed upload completions and any number of retries.                  *)
(***************************************************************************)
EXTENDS Transcription, TLAPS

(* What a dispatcher that is past a call learnt by it stays true.          *)
DispatchersKnow ==
    \A d \in Dispatchers :
        /\ ~At(d, "idle") => recording # "missing"
        /\ At(d, "insert") => examComplete
        /\ dispatchers[d] \in {"findStatus", "mark", "create", "clearError",
                               "setError"} => HasJob

(* Where the workflow is, by what its steps have done to the job so far.   *)
WorkflowKnows ==
    /\ Running("none") => workflow = NoWorkflow
    /\ Running("verify") => job.status \in {"queued", "running"}
    /\ Running("transcribe") => job.status = "running"
    /\ Running("complete") => transcript /\ job.status \in {"running", "complete"}

IInv ==
    /\ TypeOK
    /\ CompleteMeansStored
    /\ DispatchErrorOnlyQueued
    /\ StatusFollowsWorkflow
    /\ DispatchersKnow
    /\ WorkflowKnows

-----------------------------------------------------------------------------

LEMMA InitIInv == Init => IInv
<1> SUFFICES ASSUME Init PROVE IInv
  OBVIOUS
<1>1. workflow \in Workflows
  BY TranscriptionAssumption DEF Init, NoWorkflow, Workflows
<1>2. page \in Pages
  BY DEF Init, NoPage, Pages
<1>3. dispatchers \in [Dispatchers -> DispatchCalls]
  BY DEF Init, DispatchCalls
<1>4. TypeOK
  BY <1>1, <1>2, <1>3 DEF Init, TypeOK
<1>5. CompleteMeansStored /\ DispatchErrorOnlyQueued
  BY DEF Init, CompleteMeansStored, DispatchErrorOnlyQueued, NoJob, HasJob
<1>6. StatusFollowsWorkflow /\ WorkflowKnows
  BY DEF Init, StatusFollowsWorkflow, WorkflowKnows, NoJob, NoWorkflow, Running
<1>7. DispatchersKnow
  BY DEF Init, DispatchersKnow, At
<1> QED  BY <1>4, <1>5, <1>6, <1>7 DEF IInv

(* The examination and the conversation only ever go forward.              *)
LEMMA SourceKeepsIInv ==
    ASSUME IInv,
           LastQuestionCompleted \/ RecordingVerified \/ ConversationCompleted
    PROVE  IInv'
<1>1. /\ UNCHANGED <<job, transcript, dispatchers, workflow, page>>
      /\ recording' \in {"missing", "verified", "available"}
      /\ recording # "missing" => recording' # "missing"
  BY DEF IInv, TypeOK, LastQuestionCompleted, RecordingVerified, ConversationCompleted, worker
<1>2. examComplete' \in BOOLEAN /\ (examComplete => examComplete')
  BY DEF IInv, TypeOK, LastQuestionCompleted, RecordingVerified, ConversationCompleted
<1>3. TypeOK'
  BY <1>1, <1>2 DEF IInv, TypeOK
<1>4. CompleteMeansStored' /\ DispatchersKnow'
  BY <1>1, <1>2 DEF IInv, CompleteMeansStored, DispatchersKnow, HasJob, At
<1>5. DispatchErrorOnlyQueued' /\ StatusFollowsWorkflow' /\ WorkflowKnows'
  BY <1>1 DEF IInv, DispatchErrorOnlyQueued, StatusFollowsWorkflow, WorkflowKnows, HasJob,
              Queued, Running
<1> QED  BY <1>3, <1>4, <1>5 DEF IInv

(* A page reads what the others write.                                     *)
LEMMA PageKeepsIInv ==
    ASSUME IInv, OpenPage \/ LeavePage \/ PageStep
    PROVE  IInv'
<1>1. page' \in Pages
  <2> USE DEF IInv, TypeOK, Pages, NoPage
  <2>1. CASE OpenPage           BY <2>1 DEF OpenPage
  <2>2. CASE LeavePage          BY <2>2 DEF LeavePage
  <2>3. CASE ReadConversation   BY <2>3 DEF ReadConversation
  <2>4. CASE ReadStatus
    <3> DEFINE timer == page.available /\ job.status \in {"queued", "running"}
    <3>1. timer \in BOOLEAN
      OBVIOUS
    <3>2. page' = [page EXCEPT
                     !.loads = IF job.status = "complete" THEN "transcript" ELSE "nothing",
                     !.status = job.status, !.timer = timer]
      BY <2>4 DEF ReadStatus
    <3>3. job.status \in Statuses \cup {"none"}
      BY DEF Jobs, NoJob
    <3> HIDE DEF timer
    <3> QED  BY <3>1, <3>2, <3>3
  <2>5. CASE RefreshFails       BY <2>5 DEF RefreshFails
  <2>6. CASE Poll               BY <2>6 DEF Poll
  <2>7. CASE ReadTranscript     BY <2>7 DEF ReadTranscript
  <2>8. CASE TranscriptFails    BY <2>8 DEF TranscriptFails
  <2> QED  BY <2>1, <2>2, <2>3, <2>4, <2>5, <2>6, <2>7, <2>8 DEF PageStep
<1>2. UNCHANGED <<source, worker>>
  BY DEF OpenPage, LeavePage, PageStep, ReadConversation, ReadStatus, RefreshFails,
         Poll, ReadTranscript, TranscriptFails
<1> QED
  BY <1>1, <1>2
     DEF IInv, TypeOK, CompleteMeansStored, DispatchErrorOnlyQueued,
         StatusFollowsWorkflow, DispatchersKnow, WorkflowKnows, HasJob, Queued,
         Running, At, source, worker

-----------------------------------------------------------------------------

(* A dispatcher goes on to a call whose condition holds; nobody else is    *)
(* concerned, and the job keeps being there.                               *)
LEMMA GotoKeepsDispatchers ==
    ASSUME TypeOK, DispatchersKnow, NEW d \in Dispatchers, NEW call \in DispatchCalls,
           Goto(d, call), UNCHANGED source, HasJob => HasJob',
           call # "idle" => recording # "missing",
           call = "insert" => examComplete,
           call \in {"findStatus", "mark", "create", "clearError", "setError"} => HasJob'
    PROVE  dispatchers' \in [Dispatchers -> DispatchCalls] /\ DispatchersKnow'
BY DEF TypeOK, DispatchersKnow, Goto, At, source

LEMMA DispatcherKeepsIInv ==
    ASSUME IInv, NEW d \in Dispatchers,
           Enqueue(d) \/ DispatcherStep(d) \/ DispatcherStops(d)
    PROVE  IInv'
<1> USE DEF IInv
<1> DEFINE Same == /\ CompleteMeansStored /\ DispatchErrorOnlyQueued
                   /\ StatusFollowsWorkflow /\ WorkflowKnows
<1>0. ASSUME UNCHANGED <<source, job, transcript, workflow, page>>,
             NEW call \in DispatchCalls, Goto(d, call),
             call # "idle" => recording # "missing",
             call = "insert" => examComplete,
             call \in {"findStatus", "mark", "create", "clearError", "setError"} => HasJob
      PROVE  IInv'
  <2>1. HasJob' = HasJob
    BY <1>0 DEF HasJob
  <2>2. dispatchers' \in [Dispatchers -> DispatchCalls] /\ DispatchersKnow'
    BY <1>0, <2>1, GotoKeepsDispatchers
  <2> QED
    BY <1>0, <2>2
       DEF TypeOK, CompleteMeansStored, DispatchErrorOnlyQueued, StatusFollowsWorkflow,
           WorkflowKnows, HasJob, Queued, Running, source
<1>1. CASE Enqueue(d)
  BY <1>0, <1>1 DEF Enqueue, DispatchCalls
<1>2. CASE FindSession(d)
  BY <1>0, <1>2 DEF FindSession, DispatchCalls, DispatchersKnow, At
<1>3. CASE InsertJob(d)
  <2>1. CASE HasJob
    BY <1>0, <1>3, <2>1 DEF InsertJob, DispatchCalls, DispatchersKnow, At
  <2>2. CASE ~HasJob
    <3>1. job = NoJob /\ job' = [NoJob EXCEPT !.status = "queued"] /\ Goto(d, "mark")
          /\ UNCHANGED <<source, transcript, workflow, page>>
          /\ recording # "missing" /\ examComplete
      BY <1>3, <2>2 DEF InsertJob, HasJob, DispatchersKnow, At
    <3>2. job' \in Jobs /\ HasJob' /\ Queued' /\ job'.error = "none"
      BY <3>1 DEF NoJob, Jobs, Statuses, ErrorCodes, HasJob, Queued
    <3>3. Running("none") /\ workflow = NoWorkflow
      BY <2>2 DEF StatusFollowsWorkflow, WorkflowKnows, Running
    <3>4. dispatchers' \in [Dispatchers -> DispatchCalls] /\ DispatchersKnow'
      BY <3>1, <3>2, GotoKeepsDispatchers DEF DispatchCalls
    <3> QED
      BY <3>1, <3>2, <3>3, <3>4
         DEF TypeOK, CompleteMeansStored, DispatchErrorOnlyQueued,
             StatusFollowsWorkflow, WorkflowKnows, Queued, Running, NoWorkflow, source
  <2> QED  BY <2>1, <2>2
<1>4. CASE FindStatus(d)
  BY <1>0, <1>4 DEF FindStatus, DispatchCalls, DispatchersKnow, At
<1>5. CASE MarkAttempt(d)
  <2>1. HasJob /\ recording # "missing" /\ Goto(d, "create")
        /\ UNCHANGED <<source, transcript, workflow, page>>
    BY <1>5 DEF MarkAttempt, DispatchersKnow, At
  <2>2. job' \in Jobs /\ job'.status = job.status /\ job'.error = job.error
    BY <1>5, <2>1 DEF MarkAttempt, TypeOK, HasJob, Jobs
  <2>3. HasJob' /\ Queued' = Queued
    BY <2>2 DEF HasJob, Queued, Jobs, NoJob, Statuses
  <2>4. dispatchers' \in [Dispatchers -> DispatchCalls] /\ DispatchersKnow'
    BY <2>1, <2>3, GotoKeepsDispatchers DEF DispatchCalls
  <2> QED
    BY <2>1, <2>2, <2>3, <2>4
       DEF TypeOK, CompleteMeansStored, DispatchErrorOnlyQueued,
           StatusFollowsWorkflow, WorkflowKnows, Running, source
<1>6. CASE CreateSucceeds(d) \/ CreateFails(d)
  <2>1. HasJob /\ recording # "missing" /\ UNCHANGED <<source, job, transcript, page>>
    BY <1>6 DEF CreateSucceeds, CreateFails, DispatchersKnow, At
  <2>2. HasJob'
    BY <2>1 DEF HasJob
  <2>3. dispatchers' \in [Dispatchers -> DispatchCalls] /\ DispatchersKnow'
    BY <1>6, <2>1, <2>2, GotoKeepsDispatchers DEF CreateSucceeds, CreateFails, DispatchCalls
  <2>4. \/ workflow' = workflow
        \/ workflow = NoWorkflow /\ workflow' = FirstStep
    BY <1>6 DEF CreateSucceeds, CreateFails, StartWorkflow
  <2>5. workflow' \in Workflows
    BY <2>4, TranscriptionAssumption DEF TypeOK, FirstStep, Workflows
  <2>6. CASE workflow' = workflow
    BY <2>1, <2>2, <2>3, <2>5, <2>6
       DEF TypeOK, CompleteMeansStored, DispatchErrorOnlyQueued,
           StatusFollowsWorkflow, WorkflowKnows, HasJob, Queued, Running, source
  <2>7. CASE workflow = NoWorkflow /\ workflow' = FirstStep
    <3>1. job.status = "queued"
      BY <2>1, <2>7 DEF StatusFollowsWorkflow, TypeOK, Jobs, Statuses, HasJob, NoWorkflow
    <3> QED
      BY <2>1, <2>2, <2>3, <2>5, <2>7, <3>1
         DEF TypeOK, CompleteMeansStored, DispatchErrorOnlyQueued, FirstStep,
             StatusFollowsWorkflow, WorkflowKnows, HasJob, Queued, Running, source
  <2> QED  BY <2>4, <2>6, <2>7
<1>7. CASE SetDispatchError(d)
  <2>1. HasJob /\ Goto(d, "idle") /\ UNCHANGED <<source, transcript, workflow, page>>
    BY <1>7 DEF SetDispatchError, DispatchersKnow, At
  <2>2. job' \in Jobs /\ job'.status = job.status
        /\ (job'.error = job.error \/ Queued)
    BY <1>7, <2>1 DEF SetDispatchError, TypeOK, HasJob, Jobs, ErrorCodes
  <2>3. HasJob' /\ Queued' = Queued
    BY <2>2 DEF HasJob, Queued, Jobs, NoJob, Statuses
  <2>4. dispatchers' \in [Dispatchers -> DispatchCalls] /\ DispatchersKnow'
    BY <2>1, <2>3, GotoKeepsDispatchers DEF DispatchCalls
  <2> QED
    BY <2>1, <2>2, <2>3, <2>4
       DEF TypeOK, CompleteMeansStored, DispatchErrorOnlyQueued,
           StatusFollowsWorkflow, WorkflowKnows, Running, source
<1>8. CASE DispatcherStops(d)
  BY <1>0, <1>8 DEF DispatcherStops, DispatchCalls
<1> QED
  BY <1>1, <1>2, <1>3, <1>4, <1>5, <1>6, <1>7, <1>8 DEF DispatcherStep

LEMMA CronKeepsIInv ==
    ASSUME IInv, CronSelects \/ AttemptAges
    PROVE  IInv'
<1> USE DEF IInv
<1>1. CASE CronSelects
  <2>1. HasJob
    BY <1>1 DEF CronSelects, Queued, HasJob, NoJob
  <2>2. recording # "missing"
    BY <2>1 DEF CompleteMeansStored
  <2>3. HasJob'
    BY <1>1, <2>1 DEF CronSelects, HasJob
  <2>4. dispatchers' \in [Dispatchers -> DispatchCalls] /\ DispatchersKnow'
    BY <1>1, <2>2, <2>3, GotoKeepsDispatchers DEF CronSelects, DispatchCalls, Dispatchers
  <2> QED
    BY <1>1, <2>4
       DEF CronSelects, TypeOK, CompleteMeansStored, DispatchErrorOnlyQueued,
           StatusFollowsWorkflow, WorkflowKnows, HasJob, Queued, Running, source
<1>2. CASE AttemptAges
  <2>1. HasJob
    BY <1>2 DEF AttemptAges, HasJob, NoJob
  <2>2. job' \in Jobs /\ job'.status = job.status /\ job'.error = job.error
    BY <1>2, <2>1 DEF AttemptAges, TypeOK, HasJob, Jobs
  <2>3. HasJob' /\ Queued' = Queued
    BY <2>2 DEF HasJob, Queued, Jobs, NoJob, Statuses
  <2> QED
    <3>1. UNCHANGED <<source, transcript, dispatchers, workflow, page>>
      BY <1>2 DEF AttemptAges
    <3>2. TypeOK' /\ DispatchersKnow'
      BY <2>1, <2>2, <2>3, <3>1 DEF TypeOK, DispatchersKnow, At, source
    <3>3. CompleteMeansStored' /\ DispatchErrorOnlyQueued'
      BY <2>1, <2>2, <2>3, <3>1 DEF CompleteMeansStored, DispatchErrorOnlyQueued, source
    <3>4. StatusFollowsWorkflow' /\ WorkflowKnows'
      BY <2>1, <2>2, <2>3, <3>1 DEF StatusFollowsWorkflow, WorkflowKnows, Running, source
    <3> QED  BY <3>2, <3>3, <3>4
<1> QED  BY <1>1, <1>2

-----------------------------------------------------------------------------

LEMMA StepReturnsType ==
    ASSUME NEW next \in {"transcribe", "complete", "succeeded"}, StepReturns(next)
    PROVE  workflow' \in Workflows /\ workflow'.step = next
BY TranscriptionAssumption DEF StepReturns, Workflows

LEMMA StepFailsType ==
    ASSUME TypeOK, NEW giveUp \in {"recordFailure", "lost"}, StepFails(giveUp)
    PROVE  /\ workflow' \in Workflows
           /\ workflow'.step \in {workflow.step, giveUp}
BY TranscriptionAssumption DEF TypeOK, StepFails, Workflows

(* What a workflow's write leaves of the job.                              *)
LEMMA SetType ==
    ASSUME TypeOK, HasJob
    PROVE  /\ SetRunning => job' \in Jobs /\ job'.status = "running" /\ job'.error = "none"
           /\ SetComplete => job' \in Jobs /\ job'.status = "complete" /\ job'.error = "none"
           /\ SetFailed => job' \in Jobs /\ job'.status = "failed" /\ job'.error = "stage_failed"
BY DEF TypeOK, HasJob, SetRunning, SetComplete, SetFailed, Jobs, Statuses, ErrorCodes

LEMMA WorkflowKeepsIInv ==
    ASSUME IInv, WorkflowStep
    PROVE  IInv'
<1> USE DEF IInv
<1>1. HasJob /\ job \in Jobs
  BY DEF StatusFollowsWorkflow, WorkflowStep, VerifyRecording, Transcribe, CompleteJob,
         RecordFailure, Running, TypeOK, HasJob
<1>2. UNCHANGED <<source, dispatchers, page>>
  BY DEF WorkflowStep, VerifyRecording, Transcribe, CompleteJob, RecordFailure
<1>3. recording # "missing" /\ examComplete
  BY <1>1 DEF CompleteMeansStored
<1>4. ASSUME job' \in Jobs, workflow' \in Workflows, transcript' \in BOOLEAN,
             transcript => transcript',
             job'.status = "complete" => transcript',
             job'.error = "workflow_enqueue_failed" => job' = job,
             workflow'.step # "none",
             StatusFollowsWorkflow', WorkflowKnows'
      PROVE  IInv'
  <2>1. HasJob'
    BY <1>4 DEF HasJob, Jobs, NoJob, Statuses
  <2>2. DispatchersKnow'
    BY <1>2, <2>1 DEF DispatchersKnow, At, source
  <2> QED
    BY <1>2, <1>3, <1>4, <2>1, <2>2
       DEF TypeOK, CompleteMeansStored, DispatchErrorOnlyQueued, Queued, source
<1>5. CASE VerifyRecording
  <2>1. job.status \in {"queued", "running"}
    BY <1>5 DEF VerifyRecording, WorkflowKnows
  <2>2. /\ SetRunning \/ UNCHANGED job
        /\ transcript' = transcript /\ workflow.step = "verify"
        /\ \/ SetRunning /\ StepReturns("transcribe")
           \/ StepFails("recordFailure")
    BY <1>5 DEF VerifyRecording, Running
  <2>3. /\ job' \in Jobs /\ job'.status \in {"queued", "running"}
        /\ job'.error = "workflow_enqueue_failed" => job' = job
        /\ SetRunning => job'.status = "running"
    BY <1>1, <2>1, <2>2, SetType
  <2>4. /\ workflow' \in Workflows
        /\ workflow'.step \in {"verify", "transcribe", "recordFailure"}
        /\ workflow'.step = "transcribe" => job'.status = "running"
    BY <2>2, <2>3, StepReturnsType, StepFailsType
  <2>5. HasJob'
    BY <2>3 DEF HasJob, Jobs, NoJob, Statuses
  <2>6. StatusFollowsWorkflow' /\ WorkflowKnows'
    BY <2>3, <2>4, <2>5 DEF StatusFollowsWorkflow, WorkflowKnows, Queued, Running
  <2> QED  BY <1>4, <2>2, <2>3, <2>4, <2>6 DEF TypeOK
<1>6. CASE Transcribe
  <2>1. job.status = "running" /\ UNCHANGED job /\ workflow.step = "transcribe"
    BY <1>6 DEF Transcribe, WorkflowKnows, Running
  <2>2. /\ transcript' \in BOOLEAN /\ (transcript => transcript')
        /\ \/ transcript' = TRUE /\ StepReturns("complete")
           \/ StepFails("recordFailure")
    <3>1. transcript' = TRUE \/ transcript' = transcript
      BY <1>6 DEF Transcribe
    <3>2. transcript \in BOOLEAN
      BY DEF TypeOK
    <3>3. transcript' \in BOOLEAN
      BY <3>1, <3>2
    <3>4. transcript => transcript'
      BY <3>1
    <3>5. \/ transcript' = TRUE /\ StepReturns("complete")
          \/ StepFails("recordFailure")
      BY <1>6 DEF Transcribe
    <3> QED  BY <3>3, <3>4, <3>5
  <2>3. /\ workflow' \in Workflows
        /\ workflow'.step \in {"transcribe", "complete", "recordFailure"}
        /\ workflow'.step = "complete" => transcript'
    BY <2>1, <2>2, StepReturnsType, StepFailsType
  <2>4. StatusFollowsWorkflow' /\ WorkflowKnows'
    BY <1>1, <2>1, <2>3 DEF StatusFollowsWorkflow, WorkflowKnows, Queued, Running, HasJob
  <2> QED  BY <1>1, <1>4, <2>1, <2>2, <2>3, <2>4
<1>7. CASE CompleteJob
  <2>1. transcript /\ job.status \in {"running", "complete"}
    BY <1>7 DEF CompleteJob, WorkflowKnows
  <2>2. /\ SetComplete \/ UNCHANGED job
        /\ transcript' = transcript /\ workflow.step = "complete"
        /\ \/ SetComplete /\ StepReturns("succeeded")
           \/ StepFails("recordFailure")
    BY <1>7 DEF CompleteJob, Running
  <2>3. /\ job' \in Jobs /\ job'.status \in {"running", "complete"}
        /\ job'.error = "workflow_enqueue_failed" => job' = job
        /\ SetComplete => job'.status = "complete"
    BY <1>1, <2>1, <2>2, SetType
  <2>4. /\ workflow' \in Workflows
        /\ workflow'.step \in {"complete", "succeeded", "recordFailure"}
        /\ workflow'.step = "succeeded" => job'.status = "complete"
    BY <2>2, <2>3, StepReturnsType, StepFailsType
  <2>5. HasJob'
    BY <2>3 DEF HasJob, Jobs, NoJob, Statuses
  <2>6. StatusFollowsWorkflow' /\ WorkflowKnows'
    BY <2>1, <2>2, <2>3, <2>4, <2>5 DEF StatusFollowsWorkflow, WorkflowKnows, Queued, Running
  <2> QED  BY <1>4, <2>1, <2>2, <2>3, <2>4, <2>6 DEF TypeOK
<1>8. CASE RecordFailure
  <2>1. /\ SetFailed \/ UNCHANGED job
        /\ transcript' = transcript /\ workflow.step = "recordFailure"
        /\ \/ SetFailed /\ workflow' = [step |-> "failed", retries |-> 0]
           \/ StepFails("lost")
    BY <1>8 DEF RecordFailure, Running
  <2>2. /\ job' \in Jobs
        /\ job'.error = "workflow_enqueue_failed" => job' = job
        /\ job'.status = "complete" => job' = job
        /\ SetFailed => job'.status = "failed"
    BY <1>1, <2>1, SetType
  <2>3. /\ workflow' \in Workflows
        /\ workflow'.step \in {"recordFailure", "failed", "lost"}
        /\ workflow'.step = "failed" => job'.status = "failed"
    BY <2>1, <2>2, StepFailsType, TranscriptionAssumption DEF Workflows
  <2>4. HasJob'
    BY <2>2 DEF HasJob, Jobs, NoJob, Statuses
  <2>5. StatusFollowsWorkflow' /\ WorkflowKnows'
    BY <2>2, <2>3, <2>4 DEF StatusFollowsWorkflow, WorkflowKnows, Queued, Running
  <2> QED
    BY <1>4, <2>1, <2>2, <2>3, <2>5 DEF TypeOK, CompleteMeansStored
<1> QED  BY <1>5, <1>6, <1>7, <1>8 DEF WorkflowStep

LEMMA NextIInv == IInv /\ [Next]_vars => IInv'
<1> SUFFICES ASSUME IInv, [Next]_vars PROVE IInv'
  OBVIOUS
<1>1. CASE UNCHANGED vars
  BY <1>1 DEF IInv, TypeOK, CompleteMeansStored, DispatchErrorOnlyQueued,
         StatusFollowsWorkflow, DispatchersKnow, WorkflowKnows, HasJob, Queued,
         Running, At, source, worker, vars
<1>2. CASE Next
  BY <1>2, SourceKeepsIInv, DispatcherKeepsIInv, CronKeepsIInv, WorkflowKeepsIInv,
     PageKeepsIInv DEF Next
<1> QED  BY <1>1, <1>2

-----------------------------------------------------------------------------
(***************************************************************************)
(* The results                                                             *)
(***************************************************************************)

(* The strengthening holds in every reachable state.                       *)
THEOREM JobInvariance == Spec => []IInv
BY InitIInv, NextIInv, PTL DEF Spec

(* Every variable keeps its kind, and no step is retried more often than   *)
(* its limit says.                                                         *)
THEOREM JobTypeCorrect == Spec => []TypeOK
BY JobInvariance, PTL DEF IInv

(* A complete job's transcript can be read.                                *)
THEOREM CompleteIsStored == Spec => []CompleteMeansStored
BY JobInvariance, PTL DEF IInv

(* A late dispatch error never marks a job the workflow has taken over.    *)
THEOREM DispatchErrorIsOfTheQueue == Spec => []DispatchErrorOnlyQueued
BY JobInvariance, PTL DEF IInv

(* The row and the workflow agree.                                         *)
THEOREM StatusIsTruthful == Spec => []StatusFollowsWorkflow
BY JobInvariance, PTL DEF IInv

(* No replayed completion, cron run or repeated step takes a job that      *)
(* ended back to the queue or to running.                                  *)
THEOREM EndedStaysEnded == Spec => EndedJobStaysEnded
<1>1. IInv /\ [Next]_vars =>
        [job.status \in {"complete", "failed"} =>
            job'.status \in {"complete", "failed"}]_job
  <2> SUFFICES ASSUME IInv, Next, job.status \in {"complete", "failed"}, job' # job
               PROVE  job'.status \in {"complete", "failed"}
    BY DEF vars, worker
  <2>1. HasJob
    BY DEF HasJob, NoJob
  <2>2. ASSUME NEW d \in Dispatchers, Enqueue(d) \/ DispatcherStep(d) \/ DispatcherStops(d)
        PROVE  job'.status \in {"complete", "failed"}
    BY <2>1, <2>2 DEF Enqueue, DispatcherStep, DispatcherStops, FindSession, InsertJob,
       FindStatus, MarkAttempt, CreateSucceeds, CreateFails, SetDispatchError, Queued
  <2>3. CASE WorkflowStep
    BY <2>1, <2>3 DEF WorkflowStep, VerifyRecording, Transcribe, CompleteJob, RecordFailure,
       SetRunning, SetComplete, SetFailed, IInv, WorkflowKnows, TypeOK, HasJob, Jobs
  <2>4. CASE AttemptAges
    BY <2>1, <2>4 DEF AttemptAges, IInv, TypeOK, HasJob, Jobs
  <2> QED
    BY <2>2, <2>3, <2>4 DEF Next, LastQuestionCompleted, RecordingVerified,
       ConversationCompleted, CronSelects, OpenPage, LeavePage, PageStep, ReadConversation,
       ReadStatus, RefreshFails, Poll, ReadTranscript, TranscriptFails, worker
<1> QED  BY <1>1, JobInvariance, PTL DEF Spec, EndedJobStaysEnded
=============================================================================
