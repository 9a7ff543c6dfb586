--------------------------- MODULE RecordingUpload ---------------------------
(***************************************************************************)
(* The worker's recording requests over the conversation's Durable Object, *)
(* R2's multipart uploads and the transcription jobs:                      *)
(*   src/src/worker/recordings/multipart-recording.ts                      *)
(*   src/src/worker/conversations/apply-event-retry.ts                     *)
(*                                                                         *)
(* A request reads the conversation once and then makes one call after     *)
(* another, each one step: to the Durable Object, to R2 or to D1.  Between *)
(* any two of them other requests, the control socket's calls, the alarm   *)
(* and the clock go on.  The answer of a call may be lost after the call   *)
(* took effect, and a request may stop for ever after any step (nothing    *)
(* makes it go on), which is what a crash of its worker looks like.        *)
(***************************************************************************)
EXTENDS ConversationStore, Sequences

CONSTANTS
    Begins,         \* POST recording
    UploadBegins,   \* POST recording/upload
    Completions,    \* POST recording/complete
    MaxAttempts,    \* MAX_ATTEMPTS of applyConversationEvent
    DirectCalls     \* what others send the Durable Object: start and end

Requests == Begins \cup UploadBegins \cup Completions

-----------------------------------------------------------------------------
(***************************************************************************)
(* The events a request applies, in this order.  An event id is made of    *)
(* the type and the upload id, so a repeated request repeats its ids.      *)
(***************************************************************************)

BeginEvents       == <<"TransportConnected", "RecordingStarted", "SessionStarted">>
UploadBeginEvents == <<"SessionClosed", "RecordingUploadStarted">>
CompletionEvents  == <<"RecordingArtifactVerified">>

EventsOf(r) ==
    CASE r \in Begins       -> BeginEvents
      [] r \in UploadBegins -> UploadBeginEvents
      [] r \in Completions  -> CompletionEvents

RecordingEventTypes ==
    {"TransportConnected", "RecordingStarted", "SessionStarted",
     "SessionClosed", "RecordingUploadStarted", "RecordingArtifactVerified"}

RecordingEvent(type, upload, key) ==
    [type          |-> type,
     id            |-> <<type, upload>>,
     epoch         |-> IF type \in NeedsRecording THEN 0 ELSE 1,
     recordingId   |-> IF type \in NeedsRecording THEN upload ELSE None,
     expectedR2Key |-> IF type \in {"RecordingUploadStarted",
                                    "RecordingArtifactVerified"}
                       THEN key ELSE None]

RecordingEvents ==
    {RecordingEvent(type, upload, key) :
        type \in RecordingEventTypes, upload \in RecordingIds, key \in R2Keys}

ASSUME UploadAssumption ==
    /\ Begins \cap (UploadBegins \cup Completions) = {}
    /\ UploadBegins \cap Completions = {}
    /\ MaxAttempts \in Nat \ {0}
    /\ R2Keys # {}
    /\ DirectCalls \cup RecordingEvents \subseteq Calls
    /\ \A call \in DirectCalls : call.type \in {"StartRequested", "EndRequested"}
    /\ \A call \in DirectCalls, e \in RecordingEvents : call.id # e.id

VARIABLES
    requests,   \* how far each request is, and what it holds
    uploads,    \* R2's multipart uploads
    objects,    \* the upload whose data is stored under a key, None before
    jobs        \* rows of transcription_jobs

worker  == <<requests, uploads, objects, jobs>>
allVars == <<vars, worker>>

(* pc: the call a request makes next; "ok" and "failed" are its answers.   *)
RequestStates ==
    [pc       : {"read", "create", "apply", "abort", "assemble", "persist",
                 "ok", "failed"},
     upload   : RecordingIds \cup {None},
     key      : R2Keys \cup {None},
     revision : Nat,
     event    : 1 .. 3,
     attempt  : 1 .. MaxAttempts,
     unheard  : BOOLEAN]    \* observed: an answer to it was lost

(* R2 assembles an upload only from the parts it was sent.  "givenUp" and  *)
(* "aborted" are one status to R2: aborted by the begin that created the   *)
(* upload, or by the browser it was handed to.                             *)
Uploads == [status : {"none", "empty", "filled", "completed", "givenUp",
                      "aborted"},
            key    : R2Keys \cup {None}]

Jobs == [key : R2Keys, upload : RecordingIds]

WorkerInit ==
    /\ Init
    /\ requests = [r \in Requests |->
                    [pc |-> "read", upload |-> None, key |-> None,
                     revision |-> 0, event |-> 1, attempt |-> 1,
                     unheard |-> FALSE]]
    /\ uploads = [u \in RecordingIds |-> [status |-> "none", key |-> None]]
    /\ objects = [k \in R2Keys |-> None]
    /\ jobs = {}

-----------------------------------------------------------------------------
(***************************************************************************)
(* Helpers                                                                 *)
(***************************************************************************)

At(r, pc) == requests[r].pc = pc

Goto(r, pc) == requests' = [requests EXCEPT ![r].pc = pc]

(* A browser knows the uploads it was told about.                          *)
Known(u) == \E b \in Begins : requests[b].pc = "ok" /\ requests[b].upload = u

(* resumeMultipartUpload finds an upload only before its end.              *)
IsOpen(u) == uploads[u].status \in {"empty", "filled"}

GiveUp(u) ==
    uploads' = IF IsOpen(u) THEN [uploads EXCEPT ![u].status = "givenUp"]
                            ELSE uploads

Done(r) == requests[r].event = Len(EventsOf(r))

(* beginRecording gives its upload up when an event is refused.            *)
AfterRefusal(r) == IF r \in Begins THEN "abort" ELSE "failed"

AfterEvents(r) == IF r \in Completions THEN "persist" ELSE "ok"

(* The next event, or what follows the last one; the next call of          *)
(* applyConversationEvent starts from the revision just answered.          *)
NextPc(r) == IF Done(r) THEN AfterEvents(r) ELSE "apply"

NextEvent(r) == IF Done(r) THEN requests[r].event ELSE requests[r].event + 1

Advance(r, revision) ==
    requests' = [requests EXCEPT ![r] =
        [@ EXCEPT !.pc = NextPc(r), !.event = NextEvent(r), !.attempt = 1,
                  !.revision = revision]]

EventOf(r) ==
    RecordingEvent(EventsOf(r)[requests[r].event],
                   requests[r].upload, requests[r].key)

-----------------------------------------------------------------------------
(***************************************************************************)
(* Applying one event: one round of applyConversationEvent's loop          *)
(***************************************************************************)

(* Regression: the events carry no deadline.                               *)
EventAppliedWithoutDeadline(r) ==
    /\ At(r, "apply")
    /\ ApplyEvent(requests[r].revision,
                  [Stamped(EventOf(r), 0) EXCEPT !.deadlineAt = None])
    /\ Advance(r, conversation'.revision)
    /\ UNCHANGED <<uploads, objects, jobs>>

EventApplied(r) ==
    /\ At(r, "apply")
    /\ \E lead \in LeadsOf(EventOf(r)) :
          ApplyEvent(requests[r].revision, Stamped(EventOf(r), lead))
    /\ Advance(r, conversation'.revision)
    /\ UNCHANGED <<uploads, objects, jobs>>

EventDuplicate(r) ==
    /\ At(r, "apply")
    /\ ApplyDuplicate(EventOf(r))
    /\ Advance(r, conversation.revision)
    /\ UNCHANGED <<uploads, objects, jobs>>

IsConflict(r) ==
    /\ Initialized
    /\ ~HasReceipt(EventOf(r).id)
    /\ requests[r].revision # conversation.revision

IsRejected(r) ==
    /\ Initialized
    /\ ~HasReceipt(EventOf(r).id)
    /\ requests[r].revision = conversation.revision
    /\ ~Accepts(conversation, EventOf(r))

(* Regression: conflicts are retried without end.                          *)
EventConflictUnbounded(r) ==
    /\ At(r, "apply")
    /\ IsConflict(r)
    /\ requests' = [requests EXCEPT ![r] =
          [@ EXCEPT !.attempt = requests[r].attempt + 1,
                    !.revision = conversation.revision]]
    /\ UNCHANGED <<vars, uploads, objects, jobs>>

EventConflict(r) ==
    /\ At(r, "apply")
    /\ IsConflict(r)
    /\ \/ /\ requests[r].attempt < MaxAttempts
          /\ requests' = [requests EXCEPT ![r] =
                [@ EXCEPT !.attempt = requests[r].attempt + 1,
                          !.revision = conversation.revision]]
       \/ /\ requests[r].attempt = MaxAttempts
          /\ Goto(r, AfterRefusal(r))
    /\ UNCHANGED <<vars, uploads, objects, jobs>>

(* Regression: a rejected event is taken for one that was applied before.  *)
RejectionTakenForDuplicate(r) ==
    /\ At(r, "apply")
    /\ IsRejected(r)
    /\ Advance(r, conversation.revision)
    /\ UNCHANGED <<vars, uploads, objects, jobs>>

EventRejected(r) ==
    /\ At(r, "apply")
    /\ IsRejected(r)
    /\ Goto(r, AfterRefusal(r))
    /\ UNCHANGED <<vars, uploads, objects, jobs>>

(* The call throws: before the Durable Object saw it, or after it applied. *)
EventCallFails(r) ==
    /\ At(r, "apply")
    /\ Goto(r, AfterRefusal(r))
    /\ UNCHANGED <<vars, uploads, objects, jobs>>

EventAnswerLost(r) ==
    /\ At(r, "apply")
    /\ \E lead \in LeadsOf(EventOf(r)) :
          ApplyEvent(requests[r].revision, Stamped(EventOf(r), lead))
    /\ requests' = [requests EXCEPT ![r] =
          [@ EXCEPT !.pc = AfterRefusal(r), !.unheard = TRUE]]
    /\ UNCHANGED <<uploads, objects, jobs>>

ApplyEvents(r) ==
    \/ EventApplied(r)
    \/ EventDuplicate(r)
    \/ EventConflict(r)
    \/ EventRejected(r)
    \/ EventCallFails(r)
    \/ EventAnswerLost(r)

-----------------------------------------------------------------------------
(***************************************************************************)
(* beginRecording.  A request that is refused on what it read changes      *)
(* nothing and is no step.                                                 *)
(***************************************************************************)

BeginRecording(r) ==
    /\ At(r, "read")
    /\ Initialized /\ conversation.tag = "starting"
    /\ requests' = [requests EXCEPT ![r] =
          [@ EXCEPT !.pc = "create", !.revision = conversation.revision]]
    /\ UNCHANGED <<vars, uploads, objects, jobs>>

(* The answer of createMultipartUpload may be lost: nobody knows the       *)
(* upload then, and R2 drops it in the end.                                *)
CreateMultipartUpload(r) ==
    /\ At(r, "create")
    /\ \E u \in RecordingIds, k \in R2Keys :
        /\ uploads[u].status = "none"
        /\ uploads' = [uploads EXCEPT ![u] = [status |-> "empty", key |-> k]]
        /\ requests' = [requests EXCEPT ![r] =
              [@ EXCEPT !.pc = "apply", !.upload = u, !.key = k]]
    /\ UNCHANGED <<vars, objects, jobs>>

CreateFails(r) ==
    /\ At(r, "create")
    /\ Goto(r, "failed")
    /\ UNCHANGED <<vars, uploads, objects, jobs>>

(* Regression: the upload given up is the one the conversation records.    *)
AbortCurrentUpload(r) ==
    /\ At(r, "abort")
    /\ Goto(r, "failed")
    /\ \/ conversation.artifact.recordingId # None
          /\ GiveUp(conversation.artifact.recordingId)
       \/ UNCHANGED uploads
    /\ UNCHANGED <<vars, objects, jobs>>

(* Best effort: the abort itself may fail.                                 *)
AbortOwnUpload(r) ==
    /\ At(r, "abort")
    /\ Goto(r, "failed")
    /\ GiveUp(requests[r].upload) \/ UNCHANGED uploads
    /\ UNCHANGED <<vars, objects, jobs>>

-----------------------------------------------------------------------------
(***************************************************************************)
(* beginRecordingUpload, uploadRecordingPart, abortRecordingUpload         *)
(***************************************************************************)

BeginRecordingUpload(r) ==
    /\ At(r, "read")
    /\ Initialized /\ conversation.tag = "ending"
    /\ \E u \in RecordingIds :
        /\ Known(u)
        /\ requests' = [requests EXCEPT ![r] =
              [@ EXCEPT !.pc = "apply", !.upload = u, !.key = uploads[u].key,
                        !.revision = conversation.revision]]
    /\ UNCHANGED <<vars, uploads, objects, jobs>>

(* Neither of these looks at the conversation.                             *)
UploadRecordingPart(u) ==
    /\ Known(u)
    /\ uploads[u].status = "empty"
    /\ uploads' = [uploads EXCEPT ![u].status = "filled"]
    /\ UNCHANGED <<vars, requests, objects, jobs>>

AbortRecordingUpload(u) ==
    /\ Known(u)
    /\ IsOpen(u)
    /\ uploads' = [uploads EXCEPT ![u].status = "aborted"]
    /\ UNCHANGED <<vars, requests, objects, jobs>>

-----------------------------------------------------------------------------
(***************************************************************************)
(* completeRecordingUpload                                                 *)
(***************************************************************************)

(* Regression: an upload that is not yet verified counts as a replay.      *)
ReplayWhileUploading(u) ==
    /\ conversation.artifact.status \in {"uploading", "ready"}
    /\ conversation.artifact.recordingId = u

(* The artifact is ready: only the job may be missing.                     *)
IsReplay(u) ==
    /\ conversation.artifact.status = "ready"
    /\ conversation.artifact.recordingId = u
    /\ conversation.artifact.expectedR2Key = uploads[u].key

IsUploading(u) ==
    /\ conversation.tag = "ending"
    /\ conversation.artifact.status = "uploading"
    /\ conversation.artifact.expectedR2Key = uploads[u].key

CompleteRecordingUpload(r) ==
    /\ At(r, "read")
    /\ Initialized
    /\ \E u \in RecordingIds :
        /\ Known(u)
        /\ IsReplay(u) \/ IsUploading(u)
        /\ requests' = [requests EXCEPT ![r] =
              [@ EXCEPT !.pc = IF IsReplay(u) THEN "persist" ELSE "assemble",
                        !.upload = u, !.key = uploads[u].key,
                        !.revision = conversation.revision]]
    /\ UNCHANGED <<vars, uploads, objects, jobs>>

(* Regression: the answer of upload.complete is not looked at.             *)
AssembleUnchecked(r) ==
    /\ At(r, "assemble")
    /\ Goto(r, "apply")
    /\ UNCHANGED <<vars, uploads, objects, jobs>>

(* upload.complete stores the object; its answer may be lost.              *)
Assemble(r) ==
    /\ At(r, "assemble")
    /\ \E u \in {requests[r].upload} :
        /\ uploads[u].status = "filled"
        /\ uploads' = [uploads EXCEPT ![u].status = "completed"]
        /\ objects' = [objects EXCEPT ![requests[r].key] = u]
    /\ Goto(r, "apply") \/ Goto(r, "failed")
    /\ UNCHANGED <<vars, jobs>>

(* No such upload, or R2 does not answer.                                  *)
AssembleFails(r) ==
    /\ At(r, "assemble")
    /\ Goto(r, "failed")
    /\ UNCHANGED <<vars, uploads, objects, jobs>>

(* persistTranscriptionJob: INSERT OR IGNORE of the one row for this       *)
(* recording.  No row, and still an answer, when the examination was not   *)
(* completed; and D1 may fail before the row or after it.                  *)
PersistJob(r) ==
    /\ At(r, "persist")
    /\ \/ jobs' = jobs \cup {[key |-> requests[r].key,
                              upload |-> requests[r].upload]}
       \/ UNCHANGED jobs
    /\ Goto(r, "ok") \/ Goto(r, "failed")
    /\ UNCHANGED <<vars, uploads, objects>>

-----------------------------------------------------------------------------

(* What happens to the Durable Object without these requests.              *)
OtherCalls ==
    /\ \/ Initialize
       \/ InitializeAgain
       \/ \E call \in DirectCalls :
            \/ \E expectedRevision \in SeenRevisions, lead \in LeadsOf(call) :
                  ApplyEvent(expectedRevision, Stamped(call, lead))
            \/ ApplyDuplicate(call)
       \/ RunAlarm
       \/ AlarmFails
       \/ Tick
    /\ UNCHANGED worker

WorkerNext ==
    \/ OtherCalls
    \/ \E r \in Requests : ApplyEvents(r)
    \/ \E r \in Begins :
        \/ BeginRecording(r)
        \/ CreateMultipartUpload(r)
        \/ CreateFails(r)
        \/ AbortOwnUpload(r)
    \/ \E r \in UploadBegins : BeginRecordingUpload(r)
    \/ \E r \in Completions :
        \/ CompleteRecordingUpload(r)
        \/ Assemble(r)
        \/ AssembleFails(r)
        \/ PersistJob(r)
    \/ \E u \in RecordingIds :
        \/ UploadRecordingPart(u)
        \/ AbortRecordingUpload(u)

WorkerSpec == WorkerInit /\ [][WorkerNext]_allVars

-----------------------------------------------------------------------------
(***************************************************************************)
(* Safety                                                                  *)
(***************************************************************************)

WorkerTypeOK ==
    /\ requests \in [Requests -> RequestStates]
    /\ uploads \in [RecordingIds -> Uploads]
    /\ objects \in [R2Keys -> RecordingIds \cup {None}]
    /\ jobs \subseteq Jobs

Records(u) == Initialized /\ conversation.artifact.recordingId = u

IsReady == Initialized /\ conversation.artifact.status = "ready"

Stored(u, k) == objects[k] = u

(* A completed conversation has its recording in R2, under the key it      *)
(* names, and no other recording ever takes its place.                     *)
CompletedHasObject ==
    IsReady =>
        Stored(conversation.artifact.recordingId,
               conversation.artifact.expectedR2Key)

(* A 2xx answer tells the truth, for as long as anybody may rely on it.    *)
(* begin: the conversation went live with this upload as its recording, so *)
(* at most one begin is told so.  upload: the session is closed and the    *)
(* upload was asked for.  complete: the recording is verified and stored.  *)
OkMeansDone ==
    \A r \in Requests : requests[r].pc = "ok" =>
        /\ Records(requests[r].upload)
        /\ r \in Begins => Happened("SessionStarted")
        /\ r \in UploadBegins =>
            /\ Happened("SessionClosed")
            /\ Happened("RecordingUploadStarted")
        /\ r \in Completions =>
            /\ IsReady
            /\ Stored(requests[r].upload, requests[r].key)

(* A transcription job is for the conversation's one verified recording.   *)
JobHasRecording ==
    \A job \in jobs :
        /\ IsReady
        /\ Records(job.upload)
        /\ conversation.artifact.expectedR2Key = job.key
        /\ Stored(job.upload, job.key)

(* A begin that loses gives up its own upload, never the one of a session  *)
(* that started.  Such a session's upload is given up only by a begin that *)
(* never heard that its last event was applied.                            *)
StartedRecordingSurvives ==
    /\ Initialized
    /\ Happened("SessionStarted")
    /\ uploads[conversation.artifact.recordingId].status = "givenUp"
    => \E b \in Begins :
          /\ requests[b].upload = conversation.artifact.recordingId
          /\ requests[b].unheard

-----------------------------------------------------------------------------
(***************************************************************************)
(* The inductive invariant behind the properties above                     *)
(***************************************************************************)

(* A begin holds the upload it created, under its key.                     *)
BeginHoldsUpload(b) ==
    /\ requests[b].pc \in {"read", "create", "apply", "abort", "ok", "failed"}
    /\ requests[b].pc \in {"read", "create"} =>
        requests[b].upload = None /\ requests[b].event = 1
    /\ requests[b].pc \in {"apply", "abort", "ok"} => requests[b].upload # None
    /\ requests[b].unheard => requests[b].pc \in {"abort", "failed"}
    /\ requests[b].upload # None =>
        /\ requests[b].key # None
        /\ uploads[requests[b].upload].key = requests[b].key
        /\ uploads[requests[b].upload].status # "none"

(* What a begin has reached, its conversation and its receipts know.       *)
BeginProgress(b) ==
    /\ requests[b].pc = "apply" /\ requests[b].event = 3 =>
          Records(requests[b].upload)
    /\ requests[b].pc = "ok" =>
          /\ Records(requests[b].upload)
          /\ HasReceipt(<<"SessionStarted", requests[b].upload>>)

(* The other requests work on an upload their browser was told of, which   *)
(* is then the conversation's.                                             *)
UsesKnownUpload(r) ==
    /\ requests[r].pc \notin {"create", "abort"}
    /\ requests[r].pc # "read" =>
        /\ Known(requests[r].upload)
        /\ uploads[requests[r].upload].key = requests[r].key

UploadBeginProgress(r) ==
    /\ requests[r].pc \in {"read", "apply", "ok", "failed"}
    /\ requests[r].event \in 1 .. 2
    /\ requests[r].pc = "read" => requests[r].event = 1
    /\ \/ requests[r].pc = "apply" /\ requests[r].event = 2
       \/ requests[r].pc = "ok"
       => HasReceipt(<<"SessionClosed", requests[r].upload>>)
    /\ requests[r].pc = "ok" =>
          HasReceipt(<<"RecordingUploadStarted", requests[r].upload>>)

CompletionProgress(r) ==
    /\ requests[r].event = 1
    /\ requests[r].pc = "apply" => Stored(requests[r].upload, requests[r].key)
    /\ requests[r].pc \in {"persist", "ok"} => IsReady

RequestSound(r) ==
    /\ r \in Begins => BeginHoldsUpload(r) /\ BeginProgress(r)
    /\ r \in UploadBegins => UsesKnownUpload(r) /\ UploadBeginProgress(r)
    /\ r \in Completions => UsesKnownUpload(r) /\ CompletionProgress(r)

UploadsHaveOneOwner ==
    \A b, d \in Begins :
        requests[b].upload # None /\ requests[b].upload = requests[d].upload
        => b = d

(* Event ids tell the event's type and upload.                             *)
ReceiptsTellUpload ==
    \A receipt \in receipts :
        /\ receipt.eventType \in RecordingEventTypes =>
              \E u \in RecordingIds : receipt.eventId = <<receipt.eventType, u>>
        /\ \A type \in RecordingEventTypes, u \in RecordingIds :
              receipt.eventId = <<type, u>> =>
                /\ receipt.eventType = type
                /\ type # "TransportConnected" => Records(u)

(* A session started by a begin that was answered, or never heard it.      *)
SessionHasBegin ==
    \A u \in RecordingIds : HasReceipt(<<"SessionStarted", u>>) =>
        \E b \in Begins :
            /\ requests[b].upload = u
            /\ requests[b].pc = "ok" \/ requests[b].unheard

(* What was verified stays ready: no later event takes the artifact back.  *)
VerifiedIsReady ==
    \A u \in RecordingIds :
        HasReceipt(<<"RecordingArtifactVerified", u>>) => IsReady

UploadIsKnown ==
    Initialized /\ conversation.artifact.status \in {"uploading", "ready"} =>
        /\ Known(conversation.artifact.recordingId)
        /\ conversation.artifact.expectedR2Key =
              uploads[conversation.artifact.recordingId].key

GivenUpByOwner ==
    \A u \in RecordingIds : uploads[u].status = "givenUp" =>
        \E b \in Begins : requests[b].upload = u /\ requests[b].pc = "failed"

WorkerIInv ==
    /\ IInv
    /\ WorkerTypeOK
    /\ \A r \in Requests : RequestSound(r)
    /\ UploadsHaveOneOwner
    /\ ReceiptsTellUpload
    /\ SessionHasBegin
    /\ VerifiedIsReady
    /\ UploadIsKnown
    /\ GivenUpByOwner
    /\ CompletedHasObject
    /\ JobHasRecording

-----------------------------------------------------------------------------

(* The requests use the Durable Object as its specification allows any     *)
(* caller to, so what holds of the store holds here.                       *)
ImplementsStore == Spec
=============================================================================
