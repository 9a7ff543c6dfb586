---------------------------- MODULE Transcription ----------------------------
(***************************************************************************)
(* The transcription of one examination session's recording: its job row   *)
(* in D1, the requests and the cron handler that dispatch it, the workflow *)
(* that carries it out, and the review page that shows the result.         *)
(*   src/src/worker/transcription/enqueue-transcription.ts                 *)
(*   src/src/worker/transcription/transcription-workflow.ts                *)
(*   src/src/worker/index.ts (scheduled)                                   *)
(*   src/src/worker/examinations/examination-api.ts (review endpoints)     *)
(*   src/web/src/App.tsx (ReviewSessionPage)                               *)
(*                                                                         *)
(* One step per awaited call.  A call may fail with or without its effect; *)
(* a dispatcher that is thrown out of its handler simply stops.  Ages of   *)
(* dispatch attempts are kept as "recent" or "old" (five minutes).         *)
(***************************************************************************)
EXTENDS Integers

CONSTANTS
    Enqueuers,          \* upload completions (first or replayed) in flight
    Cron,               \* the scheduled handler
    StepRetries,        \* retries of a workflow step by default
    TranscribeRetries   \* retries of the transcription step

ASSUME TranscriptionAssumption ==
    /\ Cron \notin Enqueuers
    /\ StepRetries \in Nat
    /\ TranscribeRetries \in Nat

VARIABLES
    examComplete,   \* question_state of the session is 'complete'
    recording,      \* "missing", "verified", or "available" (conversation completed)
    job,            \* the transcription_jobs row, or "none"
    transcript,     \* the transcript artifact is in R2
    dispatchers,    \* what each dispatcher awaits next
    workflow,       \* the workflow instance with the job's id
    page            \* the review page

source == <<examComplete, recording>>
worker == <<job, transcript, dispatchers, workflow>>
vars   == <<source, worker, page>>

Dispatchers == Enqueuers \cup {Cron}

DispatchCalls == {"idle", "findSession", "insert", "findStatus", "mark", "create",
                  "clearError", "setError"}

Statuses   == {"queued", "running", "complete", "failed"}
ErrorCodes == {"none", "workflow_enqueue_failed", "stage_failed"}

NoJob == [status |-> "none", error |-> "none", attempt |-> "never"]

Jobs == [status : Statuses, error : ErrorCodes, attempt : {"never", "recent", "old"}]

HasJob == job # NoJob
Queued == job.status = "queued"

-----------------------------------------------------------------------------
(***************************************************************************)
(* Where the recording comes from: the examination and the conversation    *)
(***************************************************************************)

LastQuestionCompleted ==
    /\ ~examComplete
    /\ examComplete' = TRUE
    /\ UNCHANGED <<recording, worker, page>>

RecordingVerified ==
    /\ recording = "missing"
    /\ recording' = "verified"
    /\ UNCHANGED <<examComplete, worker, page>>

ConversationCompleted ==
    /\ recording = "verified"
    /\ recording' = "available"
    /\ UNCHANGED <<examComplete, worker, page>>

-----------------------------------------------------------------------------
(***************************************************************************)
(* Dispatching                                                             *)
(***************************************************************************)

At(d, call) == dispatchers[d] = call

Goto(d, call) == dispatchers' = [dispatchers EXCEPT ![d] = call]

(* completeRecordingUpload calls it once the recording is verified, and    *)
(* again when the completion is replayed.                                  *)
Enqueue(d) ==
    /\ At(d, "idle")
    /\ d \in Enqueuers
    /\ recording # "missing"
    /\ Goto(d, "findSession")
    /\ UNCHANGED <<source, job, transcript, workflow, page>>

FindSession(d) ==
    /\ At(d, "findSession")
    /\ Goto(d, IF examComplete THEN "insert" ELSE "idle")
    /\ UNCHANGED <<source, job, transcript, workflow, page>>

(* Regression: an upsert puts the job back in the queue.                   *)
InsertJobAgain(d) ==
    /\ At(d, "insert")
    /\ job' = [NoJob EXCEPT !.status = "queued"]
    /\ Goto(d, "mark")
    /\ UNCHANGED <<source, transcript, workflow, page>>

InsertJob(d) ==
    /\ At(d, "insert")
    /\ IF HasJob
       THEN Goto(d, "findStatus") /\ UNCHANGED job
       ELSE Goto(d, "mark") /\ job' = [NoJob EXCEPT !.status = "queued"]
    /\ UNCHANGED <<source, transcript, workflow, page>>

FindStatus(d) ==
    /\ At(d, "findStatus")
    /\ Goto(d, IF Queued THEN "mark" ELSE "idle")
    /\ UNCHANGED <<source, job, transcript, workflow, page>>

(* reconcileQueuedTranscriptionJobs: queued, and not tried recently.       *)
CronSelects ==
    /\ At(Cron, "idle")
    /\ Queued
    /\ job.attempt # "recent"
    /\ Goto(Cron, "mark")
    /\ UNCHANGED <<source, job, transcript, workflow, page>>

MarkAttempt(d) ==
    /\ At(d, "mark")
    /\ job' = IF Queued THEN [job EXCEPT !.attempt = "recent"] ELSE job
    /\ Goto(d, "create")
    /\ UNCHANGED <<source, transcript, workflow, page>>

FirstStep == [step |-> "verify", retries |-> StepRetries]

NoWorkflow == [step |-> "none", retries |-> 0]

Workflows ==
    [step    : {"none", "verify", "transcribe", "complete", "recordFailure",
                "succeeded", "failed", "lost"},
     retries : 0 .. StepRetries + TranscribeRetries]

(* Regression: the workflow is created under an id of its own each time.   *)
StartAnotherWorkflow == workflow' = FirstStep

(* createBatch leaves an instance alone whose id it knows.                 *)
StartWorkflow == workflow' = IF workflow = NoWorkflow THEN FirstStep ELSE workflow

CreateSucceeds(d) ==
    /\ At(d, "create")
    /\ StartWorkflow
    /\ Goto(d, "clearError")
    /\ UNCHANGED <<source, job, transcript, page>>

CreateFails(d) ==
    /\ At(d, "create")
    /\ StartWorkflow \/ UNCHANGED workflow
    /\ Goto(d, "setError")
    /\ UNCHANGED <<source, job, transcript, page>>

(* Regression: the error is written whatever the job has become since.     *)
SetDispatchErrorAnyway(d) ==
    /\ dispatchers[d] \in {"clearError", "setError"}
    /\ job' = [job EXCEPT !.error = IF At(d, "setError")
                                    THEN "workflow_enqueue_failed" ELSE "none"]
    /\ Goto(d, "idle")
    /\ UNCHANGED <<source, transcript, workflow, page>>

SetDispatchError(d) ==
    /\ dispatchers[d] \in {"clearError", "setError"}
    /\ job' = IF Queued
              THEN [job EXCEPT !.error = IF At(d, "setError")
                                         THEN "workflow_enqueue_failed" ELSE "none"]
              ELSE job
    /\ Goto(d, "idle")
    /\ UNCHANGED <<source, transcript, workflow, page>>

(* A D1 call throws, or the isolate is gone.                               *)
DispatcherStops(d) ==
    /\ ~At(d, "idle")
    /\ Goto(d, "idle")
    /\ UNCHANGED <<source, job, transcript, workflow, page>>

AttemptAges ==
    /\ job.attempt = "recent"
    /\ job' = [job EXCEPT !.attempt = "old"]
    /\ UNCHANGED <<source, transcript, dispatchers, workflow, page>>

-----------------------------------------------------------------------------
(***************************************************************************)
(* The workflow.  The engine runs a step until it returns or its retries   *)
(* are used up, and never runs it again once it has returned.  A run that  *)
(* failed may have had its effect all the same.                            *)
(***************************************************************************)

Running(step) == workflow.step = step

StepReturns(next) ==
    workflow' = [step |-> next,
                 retries |-> IF next = "transcribe" THEN TranscribeRetries
                             ELSE StepRetries]

(* Regression: the limit of the retries is not looked at.                  *)
StepFailsForever(giveUp) == workflow' = [workflow EXCEPT !.retries = @ - 1]

(* Every failure, a recording that is too large or has another etag        *)
(* included, is retried; then the failure is recorded, and when that fails *)
(* too the instance just ends.                                             *)
StepFails(giveUp) ==
    IF workflow.retries > 0
    THEN workflow' = [workflow EXCEPT !.retries = @ - 1]
    ELSE workflow' = [step |-> giveUp, retries |-> IF giveUp = "recordFailure"
                                                   THEN StepRetries ELSE 0]

SetRunning  == job' = [job EXCEPT !.status = "running", !.error = "none"]
SetComplete == job' = [job EXCEPT !.status = "complete", !.error = "none"]
SetFailed   == job' = [job EXCEPT !.status = "failed", !.error = "stage_failed"]

VerifyRecording ==
    /\ Running("verify")
    /\ \/ SetRunning /\ StepReturns("transcribe")
       \/ SetRunning /\ StepFails("recordFailure")
       \/ UNCHANGED job /\ StepFails("recordFailure")
    /\ UNCHANGED <<source, transcript, dispatchers, page>>

(* Regression: the job is complete before its transcript is written.       *)
TranscribeCompletesFirst ==
    /\ Running("transcribe")
    /\ SetComplete
    /\ StepReturns("complete")
    /\ UNCHANGED <<source, transcript, dispatchers, page>>

Transcribe ==
    /\ Running("transcribe")
    /\ \/ transcript' = TRUE /\ StepReturns("complete")
       \/ transcript' \in {transcript, TRUE} /\ StepFails("recordFailure")
    /\ UNCHANGED <<source, job, dispatchers, page>>

CompleteJob ==
    /\ Running("complete")
    /\ \/ SetComplete /\ StepReturns("succeeded")
       \/ SetComplete /\ StepFails("recordFailure")
       \/ UNCHANGED job /\ StepFails("recordFailure")
    /\ UNCHANGED <<source, transcript, dispatchers, page>>

(* Regression: the last write of the failure is given up at once.          *)
RecordFailureNever ==
    /\ Running("recordFailure")
    /\ workflow' = [step |-> "failed", retries |-> 0]
    /\ UNCHANGED <<source, job, transcript, dispatchers, page>>

RecordFailure ==
    /\ Running("recordFailure")
    /\ \/ SetFailed /\ workflow' = [step |-> "failed", retries |-> 0]
       \/ SetFailed /\ StepFails("lost")
       \/ UNCHANGED job /\ StepFails("lost")
    /\ UNCHANGED <<source, transcript, dispatchers, page>>

WorkflowStep == VerifyRecording \/ Transcribe \/ CompleteJob \/ RecordFailure

-----------------------------------------------------------------------------
(***************************************************************************)
(* The review page: getExaminationSession (the conversation's state, then  *)
(* the job's status one await later), and the transcript once the status   *)
(* it holds is "complete".                                                 *)
(***************************************************************************)

NoPage == [loads |-> "nothing", available |-> FALSE, status |-> "none",
           timer |-> FALSE, transcript |-> "none"]

Pages ==
    [loads      : {"nothing", "state", "status", "error", "transcript"},
     available  : BOOLEAN,
     status     : Statuses \cup {"none"},
     timer      : BOOLEAN,
     transcript : {"none", "shown", "unavailable"}]

OpenPage ==
    /\ page = NoPage
    /\ page' = [page EXCEPT !.loads = "state"]
    /\ UNCHANGED <<source, worker>>

LeavePage ==
    /\ page # NoPage
    /\ page' = NoPage
    /\ UNCHANGED <<source, worker>>

ReadConversation ==
    /\ page.loads = "state"
    /\ page' = [page EXCEPT !.loads = "status", !.available = recording = "available"]
    /\ UNCHANGED <<source, worker>>

(* Regression: a refresh keeps the status the page already has.            *)
ReadStatusOnce ==
    /\ page.loads = "status"
    /\ \E status \in {IF page.status = "none" THEN job.status ELSE page.status} :
        page' = [page EXCEPT
            !.loads  = IF status = "complete" THEN "transcript" ELSE "nothing",
            !.status = status,
            !.timer  = page.available /\ status \in {"queued", "running"}]
    /\ UNCHANGED <<source, worker>>

ReadStatus ==
    /\ page.loads = "status"
    /\ page' = [page EXCEPT
            !.loads  = IF job.status = "complete" THEN "transcript" ELSE "nothing",
            !.status = job.status,
            !.timer  = page.available /\ job.status \in {"queued", "running"}]
    /\ UNCHANGED <<source, worker>>

(* A refresh that fails shows the error and sets no timer.                 *)
RefreshFails ==
    /\ page.loads \in {"state", "status"}
    /\ page' = [page EXCEPT !.loads = "error"]
    /\ UNCHANGED <<source, worker>>

Poll ==
    /\ page.timer
    /\ page' = [page EXCEPT !.loads = "state", !.timer = FALSE]
    /\ UNCHANGED <<source, worker>>

(* getExaminationSessionTranscript: a complete job's object, or 409.       *)
ReadTranscript ==
    /\ page.loads = "transcript"
    /\ page' = [page EXCEPT
            !.loads = "nothing",
            !.transcript = IF job.status = "complete" /\ transcript
                           THEN "shown" ELSE "unavailable"]
    /\ UNCHANGED <<source, worker>>

TranscriptFails ==
    /\ page.loads = "transcript"
    /\ page' = [page EXCEPT !.loads = "nothing", !.transcript = "unavailable"]
    /\ UNCHANGED <<source, worker>>

PageStep == ReadConversation \/ ReadStatus \/ RefreshFails \/ Poll
            \/ ReadTranscript \/ TranscriptFails

-----------------------------------------------------------------------------

Init ==
    /\ examComplete = FALSE
    /\ recording = "missing"
    /\ job = NoJob
    /\ transcript = FALSE
    /\ dispatchers = [d \in Dispatchers |-> "idle"]
    /\ workflow = NoWorkflow
    /\ page = NoPage

DispatcherStep(d) ==
    \/ FindSession(d) \/ InsertJob(d) \/ FindStatus(d)
    \/ MarkAttempt(d) \/ CreateSucceeds(d) \/ CreateFails(d) \/ SetDispatchError(d)

Next ==
    \/ LastQuestionCompleted \/ RecordingVerified \/ ConversationCompleted
    \/ \E d \in Dispatchers : Enqueue(d) \/ DispatcherStep(d) \/ DispatcherStops(d)
    \/ CronSelects \/ AttemptAges
    \/ WorkflowStep
    \/ OpenPage \/ LeavePage \/ PageStep

Spec == Init /\ [][Next]_vars

(***************************************************************************)
(* Five minutes pass, the cron fires, and its calls to D1 and the workflow *)
(* engine do not fail forever; the engine runs its steps; the page's       *)
(* timer fires and its requests are answered.  Nobody has to enqueue.      *)
(***************************************************************************)
Fairness ==
    /\ WF_vars(AttemptAges)
    /\ SF_vars(CronSelects)
    /\ SF_vars(MarkAttempt(Cron))
    /\ SF_vars(CreateSucceeds(Cron))
    /\ WF_vars(SetDispatchError(Cron))
    /\ WF_vars(WorkflowStep)
    /\ WF_vars(PageStep)

FairSpec == Spec /\ Fairness

-----------------------------------------------------------------------------
(***************************************************************************)
(* Properties                                                              *)
(***************************************************************************)

TypeOK ==
    /\ examComplete \in BOOLEAN
    /\ recording \in {"missing", "verified", "available"}
    /\ job \in Jobs \cup {NoJob}
    /\ transcript \in BOOLEAN
    /\ dispatchers \in [Dispatchers -> DispatchCalls]
    /\ workflow \in Workflows
    /\ page \in Pages

(* A job exists only for a verified recording of a finished examination,   *)
(* and it is called complete only when its transcript can be read.         *)
CompleteMeansStored ==
    /\ HasJob => recording # "missing" /\ examComplete
    /\ job.status = "complete" => transcript

(* The dispatch error belongs to the queue: the write that reports it is   *)
(* late, and never marks a job the workflow has already taken over.        *)
DispatchErrorOnlyQueued ==
    job.error = "workflow_enqueue_failed" => Queued

(* What the row says and what the workflow does agree: a job that left the *)
(* queue has its workflow, and a workflow past its first step has taken    *)
(* the job out of the queue, whatever replays and cron runs race it.       *)
StatusFollowsWorkflow ==
    /\ job.status \in {"running", "complete", "failed"} => workflow.step # "none"
    /\ workflow.step # "none" => HasJob
    /\ workflow.step \in {"transcribe", "complete"} => ~Queued
    /\ workflow.step = "succeeded" => job.status = "complete"
    /\ workflow.step = "failed" => job.status = "failed"

(* A job that ended stays ended: no replayed upload, cron run or repeated  *)
(* step queues or runs it again.                                           *)
EndedJobStaysEnded ==
    [][job.status \in {"complete", "failed"} =>
        job'.status \in {"complete", "failed"}]_job

(* A job that was created ends in success or a recorded failure even if    *)
(* its request died after the insert; the only other way out is a workflow *)
(* that could not record its own failure.                                  *)
JobEnds ==
    HasJob ~> \/ job.status \in {"complete", "failed"}
              \/ workflow.step = "lost"

(* A page that waits for a job it saw is told how it ended, unless the     *)
(* reader leaves or the page shows an error.                               *)
WaitingPageSettles ==
    page.timer ~> \/ page = NoPage
                  \/ page.loads = "error"
                  \/ page.transcript # "none"
                  \/ page.status = "failed"
                  \/ workflow.step = "lost"

-----------------------------------------------------------------------------
(***************************************************************************)
(* What the repository says that the code does not do                      *)
(***************************************************************************)

(* src/web/src/App.tsx, below a recording without a transcript: "The       *)
(* transcript will appear automatically when processing is complete."      *)
Promised ==
    /\ page.loads = "nothing"
    /\ page.available
    /\ page.status # "failed"
    /\ page.transcript = "none"

TranscriptAppears ==
    Promised /\ job.status = "complete" ~> ~Promised
=============================================================================
