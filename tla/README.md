# TLA+ model of the oral-examination conversation platform

A student talks to an AI examiner in the browser. The audio runs over WebRTC
between the browser and the OpenAI Realtime API; a Cloudflare Worker and one
Durable Object per conversation decide what state the conversation is in, R2
keeps the recording, D1 keeps the examination and the transcription jobs. This
directory models the parts of that system where order, time and failure decide
the outcome, checks them with TLC and proves the main results with TLAPS.

Paths below are relative to the repository root.

## 1. Inventory

| Part | State it keeps | Operations | Talks to |
|---|---|---|---|
| Conversation state machine, `src/domain/conversation-state-machine.ts` | none (pure); a conversation value: tag, revision, transport, artifact, deadlines | `createConversation`, `transitionRuntime` over 16 event types | called by the store |
| Deadlines, `src/domain/conversation-deadlines.ts` | none (pure) | `deadlineForState`, `deadlineEventForState` | called by the store |
| Aggregate store, `src/durable-object/conversation-aggregate-store.ts` | snapshot, one receipt per applied event, the storage alarm | `initialize`, `applyEvent`, `applyDeadline`, each one storage transaction | storage |
| Alarm runner, `src/durable-object/conversation-alarm-runner.ts` | none | `run`: apply the deadline, or try again in 5 s | store, platform alarm |
| `ConversationSession`, `src/durable-object/conversation-session.ts` | none of its own | RPCs, `alarm`, WebSocket callbacks | worker, gateway, store |
| Control-socket gateway, `src/durable-object/conversation-socket-gateway.ts` | one attachment per socket: phase, connection id, epoch | hello, end request, ping, observations, snapshot broadcast | browser, store |
| Recording requests, `src/worker/recordings/multipart-recording.ts`, `src/worker/conversations/apply-event-retry.ts` | the progress of each HTTP request; R2's multipart uploads | begin, begin upload, upload part, complete, abort | store (RPC), R2, transcription |
| Conversation routes, `src/worker/http/routes/conversation-routes.ts` | none | create (idempotent), start, state, connect | store, gateway |
| Examinations, `src/worker/examinations/*` | D1 rows: examination, session, question completions | create session, current question, complete question, recording and transcript download | D1, store, R2 |
| Transcription, `src/worker/transcription/*` | D1 `transcription_jobs`, workflow instances, transcript objects | enqueue, cron redispatch, workflow steps | D1, workflow engine, R2, provider |
| Browser authentication, `src/worker/http/browser-auth.ts` | D1 `sessions`, `login_attempts` | login, logout, authenticate | D1 |
| API routes and middleware, `src/worker/http/hono-api.ts`, `src/worker/http/routes/*` | none | origin policy, header limits, session and owner checks, then a handler | all of the above |
| Courses, `src/worker/courses/*` | D1 rows: course | create, read, list | D1 |
| Browser runtime, `packages/conversation-client/src/runtime.ts` | sockets, recorder, upload, one finalization promise, a waiter | connect, requestEnd, close, message handlers | worker, gateway, OpenAI |
| Web app, `web/src/App.tsx` | one page's view: connecting, ending, the review's polling | connect, end, open a review | runtime, worker |
| Wire codec, contract schemas, realtime call, telemetry | none that decides anything here | | |

What is hard about it:

* **Interleaving.** The worker's requests are sequences of RPCs; the control
  socket, a second browser tab and the alarm send commands between any two of
  them. The store answers with an expected revision and a receipt per event id.
* **Time.** Five deadlines share one alarm that may run early, late, twice, or
  fail. Callers compute their deadlines on their own clocks.
* **Two halves of a shutdown.** The session's close and the recording's
  verification come in either order, or only one of them, or a failure instead.
* **Failure between two stores.** R2 assembles the object before the
  conversation is told; the conversation completes before the job is inserted.
* **Delivery.** Answers are lost and requests repeated, with the state already
  moved on. Snapshots over the socket and answers over HTTP overtake each other.
  A socket that the object has closed may still have messages on their way to it.
* **Two stores, no transaction.** A session's conversation is in a Durable Object,
  its row in D1; a job's row is in D1, its run in the workflow engine.

What makes each part correct:

* state machine and deadlines: they agree (a selected deadline's event is
  accepted where it was selected), tags say the truth about transport and artifact;
* store: one winner per revision, each event applied once, receipts are the
  history, the alarm covers the earliest deadline, terminal is final;
* gateway: at most one active socket that is open, no command from a socket that
  said no hello, the active page told of what changes;
* recording requests: a losing begin leaves the winner alone, a completed
  conversation has its object, a repeated completion repairs what a crash left;
* examinations: a question is completed once and in order, a session row refers
  to a conversation that exists, an answer that was given stays true;
* transcription: one job and one run per recording, its status is the truth, a
  job whose request died is dispatched all the same;
* browser authentication: one session per user, an ended session stays out, the
  limit of failed logins holds;
* browser runtime: a page shows the conversation as it is and never goes back,
  and finalizes its recording when, and only when, the conversation ends.

## 2. Plan

In this order, most important first. All of it exists.

1. `ConversationFSM`: state machine and deadlines as operators.
2. `ConversationStore`: the Durable Object's transactions, alarm and clock.
3. `ConversationLifecycle`: the abstract specification the store implements.
4. `ConversationFSMProofs`, `ConversationStoreProofs`.
5. `RecordingUpload`, `RecordingUploadProofs`: the recording requests over the
   store and R2, with lost answers, crashes and repeated requests.
6. `ExaminationSessions` over the store, with `QuestionLedger` as what it promises,
   and `ExaminationSessionsProofs`.
7. `Transcription` and `TranscriptionProofs`; `RecordingRange` and
   `RecordingRangeProofs`.
8. `SocketGateway` over the recording requests, `BrowserRuntime` over both, and
   `BrowserRuntimeProofs`.
9. `HttpRoutes`, `BrowserAuth` and `BrowserAuthProofs`.

What composes what (each extends the one on its left):

    ConversationFSM - ConversationStore - RecordingUpload - SocketGateway - BrowserRuntime
                                        \ ExaminationSessions
    HttpRoutes - BrowserAuth
    Transcription, RecordingRange

Left: the retry of the alarm when arming it fails; a browser that uses two pages of
the runtime at once (the second client of `browser_session` is any client of the
protocol, with no page of its own).

## 3. Modules and the code

### `ConversationFSM`

A conversation is a record with the union of the fields of the TypeScript
variants; a field a variant lacks keeps its last value, as the code's
`{ ...state.data, ...changes }` does. `AllowedEvents` is the `switch` of
`fromCreated` to `fromEnding`, `GuardHolds` the `require...` and `guard...`
helpers, `Outcome` the resulting error kind, `FromX` the assignments.
`FinalizeIfReady` follows a revise in the same event and adds no revision.
`EarliestDeadline` keeps the order of the candidate list, so ties fall as in the
code. `at`, `enteredAt`, `updatedAt`, reasons, error codes and R2 etags decide
nothing and are not there. `Consistent` is what the inductive invariant says of
one conversation.

### `ConversationStore`

| Action | Code |
|---|---|
| `Initialize`, `InitializeAgain` | `initialize`: new and `"existing"` |
| `ApplyEvent` | `applyEvent` that is applied: transition, receipt, alarm |
| `ApplyDuplicate` | the event id has a receipt: only the alarm is reconciled |
| `AlarmFindsNoDeadline`, `AlarmRunsEarly`, `AlarmAppliesDeadline` | the outcomes of `applyDeadline` |
| `AlarmTransitionRejected`, `AlarmFails` | the runner's retry: alarm 5 s on |
| `Tick` | `Date.now()` |

A Durable Object's `storage.transaction` is atomic and serialised, so each is
one step; a transaction that throws is rolled back and is either no step or
`AlarmFails`. A rejected command writes nothing and is a stuttering step. The
alarm's own event never meets a receipt (`DeadlineEventAccepted`, proved), so
the runner's `transition_duplicate` outcome has no action.

Callers are the whole world outside: every call of `Calls` may come at any time,
any number of times, with any revision its sender can have seen. That covers
lost, repeated, delayed and reordered requests, several tabs and several
workers, and the crash of any of them. The deadline in an event is `now` plus a
member of `Leads` on the caller's clock. A deadline in the past is as due as one
that is due now, so it is modelled as lead 0.

`winners` is the one variable the code does not have: it remembers which command
took which revision.

### `ConversationLifecycle`

What users of a conversation rely on, in four variables (`phase`, `session`,
`recording`, `intent`): the session opens once, the recording begins before the
conversation is live, only a live conversation can be meant to complete, and a
shutdown ends in the very step that leaves the session over and, if it is to
complete, the recording stored. `ConversationStore` maps to it with
`PhaseOf`, `SessionOf`, `RecordingOf`, `IntentOf`.

### `MCConversationStore`

The calls of the shipped worker and of the tests as model values, grouped into
`FailureRun` and `LivenessRun`.

### `RecordingUpload`

Extends `ConversationStore`: its variables are the store's plus `requests`,
`uploads`, `objects` and `jobs`, and its steps use the store's own actions.

| Action | Code |
|---|---|
| `BeginRecording`, `CreateMultipartUpload`, `CreateFails`, `AbortOwnUpload` | `beginRecording` outside its loop: the read, the upload, the clean-up |
| `BeginRecordingUpload` | `beginRecordingUpload` up to its loop |
| `EventApplied`, `EventDuplicate`, `EventConflict`, `EventRejected`, `EventCallFails`, `EventAnswerLost` | one round of `applyConversationEvent`, by what it is answered |
| `UploadRecordingPart`, `AbortRecordingUpload` | the routes of the same name |
| `CompleteRecordingUpload`, `Assemble`, `AssembleFails`, `PersistJob` | `completeRecordingUpload` and `persistTranscriptionJob`, call by call |
| `OtherCalls` | start, end, initialise, the alarm and the clock |

A request holds what its handler holds: where it is (`pc`), the upload and key it
works on, the revision it last saw, the event and the attempt it is at. One step
is one await: a call to the Durable Object, R2 or D1. Between two steps of a
request anything else may happen, and a request need not go on, which is a crash
of its worker. `EventCallFails` is a call that threw before it took effect,
`EventAnswerLost` one that threw after; `Assemble` and `PersistJob` may lose their
answer too. `unheard` is observed, not stored: the answer to an applied event
was lost.

Choices. A request refused on what it read (wrong tag, unknown conversation, bad
body) changes nothing and is no step. Browsers use the upload id and key they were
told with a 2xx (`Known`); the handlers trust them for that. `givenUp` and
`aborted` are one status to R2, kept apart to tell who aborted. R2 assembles an
upload once, from parts it holds. Keys are shared by uploads, as
`recordingObjectKey` derives them from the conversation and the content type. The
job row stands for job id and etag; that the examination may be incomplete is the
choice of `PersistJob` not to insert, and its dispatch belongs to `Transcription`.
The shipped browser never repeats a failed completion (it remembers its
finalization), so nothing is claimed about what is eventually uploaded.

### `ExaminationSessions` and `QuestionLedger`

Extends `ConversationStore`, so the session's conversation is the store's own and
its other callers, its alarm and the clock move between any two calls of a
request (`ConversationMoves`). One step is one awaited call.

| Action | Code |
|---|---|
| `InsertCourse`, `GetCourse` | `course-api.ts`, `course-repository.ts` |
| `FindCourse`, `InsertExamination`, `GetExamination` | creating and reading an examination; the examination and its questions are one batch |
| `CreateForKey` | `createConversation`: initialise under the id the key names |
| `FindExamination`, `InitializeConversation`, `InsertSession`, `ReadSession` | `createExaminationSession` |
| `OwnedSession`, `GetSession`, `CurrentQuestion` | the owner's reads |
| `ReadRow`, `ReadCompletion`, `BatchCommits`, `BatchAnswerLost`, `BatchFails`, `ReadRepeated`, `ReadLatest` | `completeQuestion`, call by call |
| `GetState`, `ReadState`, `StartApplied`, `StartDuplicate`, `StartRejected`, `RereadState` | `getState` and `startConversation` |
| `CallFails` | an awaited call that throws: the request answers 500 |

A slot of `Requests` keeps the answer it gave until it is used again, so
`AnswersStayTrue` is about what clients were told and not about requests still
running. A confirmation keeps with it what it confirmed. Users, the question and
the expected revision of a tool call are the caller's and arbitrary: the model
that speaks as the examiner repeats calls, races them and sends old revisions.

Choices. There is one examination and one session: rows of different keys never
meet. The id of a session derives from its key alone and not from the user, so
both users of the run name the same one. A caller of `createConversation`
chooses its key freely, the one a session's id derives from included; the
session then finds its conversation "existing" and answers "returned", which the
code does too.

`QuestionLedger` is the promise: `done` grows by the next question, `over` holds
when all are done. The mapping takes the completion rows and the session's state,
which the code writes in two statements of a batch.

### `Transcription`

| Action | Code |
|---|---|
| `Enqueue`, `FindSession`, `InsertJob`, `FindStatus` | `enqueueTranscription` of a completed, or replayed, upload |
| `CronSelects` | `reconcileQueuedTranscriptionJobs` from `scheduled` |
| `MarkAttempt`, `CreateSucceeds`, `CreateFails`, `SetDispatchError` | the dispatch both share |
| `DispatcherStops` | a D1 call throws, or the isolate is gone |
| `VerifyRecording`, `Transcribe`, `CompleteJob`, `RecordFailure` | the workflow's steps |
| `OpenPage`, `ReadConversation`, `ReadStatus`, `Poll`, `ReadTranscript`, `RefreshFails`, `TranscriptFails`, `LeavePage` | `ReviewSessionPage` and the review endpoints |

The workflow engine is external, modelled from how it is used: it knows an
instance by the job's id, runs a step until it returns or its retries are used
up, and never again once it has returned. A run that failed may have had its
effect. Retries are counted, delays are not. Ages of dispatch attempts are
"recent" or "old", the five minutes of the cron's query.

### `RecordingRange`

`parseRange` as an operator, beside the meaning of the header: `Named` is the set
of bytes a range names, `ServesWhatIsNamed` says that exactly those are served
and that 416 is answered exactly when there are none.

### `SocketGateway`

Extends `RecordingUpload` by the sockets' attachments (`phase`), whether the object
can still send on a socket (`link`), and what was sent and is unread (`outbox`,
kept for `Readers` only).

| Action | Code |
|---|---|
| `Accept` | `connectConversation`, `accept` |
| `HandleHello` | `handleClientHello`: accepted, closing the active sockets before it, or refused for an epoch that is over |
| `HandleEndRequested` | an end request applied, duplicate, stale or rejected, with its answer |
| `ProtocolViolation`, `MessageBeforeHello` | messages that close the socket |
| `IntegrationEvent` | `applyIntegrationEvent`: the recording requests' commands, published when applied |
| `AlarmPublishes`, `AlarmStaysSilent` | `alarm` and what it broadcasts |
| `SocketDrops` | the network or the client closes the socket; what was on its way to the client is lost |

The object handles one message, RPC or alarm at a time, so a handler with its
transaction and its messages is one step.

`phase` and `link` are apart because the code decides by the first and
`ws.close()` changes only the second. A hello closes the active sockets before
it (`Activate`) and leaves their attachments active. What their clients had sent
is therefore handled as before: an end among it is applied, its answer has
nobody to go to, and end requests are not broadcast. The active page then shows
the conversation as it was just before that end, until a recording request's
event or the alarm is published, or it asks for the end itself and is answered
that its revision is stale. No document of the repository says
otherwise, so it is stated (`MissesEnd`) and not a finding.

### `BrowserRuntime`

Extends `SocketGateway` by one page: its runtime (`page`), what it sent on its
socket (`inbox`) and the requests it made (`sent`).

| Action | Code |
|---|---|
| `LoadState`, `StartConversation`, `ConnectControl`, `StartMedia`, `RecordingBegun`, `ConnectFails` | the page's `connect` and the runtime's, await by await |
| `RequestEnd`, `EndTimesOut` | `requestEnd` and its waiter |
| `PartsUploaded`, `StateRefreshed`, `RecordingFinalized`, `FinalizationFails` | `finalizeRecording`, remembered |
| `HandleControlMessage` | a snapshot: taken if it is not older, waking the waiter, starting the finalization |
| `ControlCloses` | the browser sees the object's close, after all that was sent before it; nothing listens, `sendControl` finds the socket closed |
| `ClosePage`, `AbortUpload` | `close` |
| `RunRequest`, `HandleInbox` | the worker's and the object's side of what the page sent |
| `OtherClient`, `Object`, `ControlDrops` | everybody else, the alarm and the network |

`page.control` is the socket as the page sees it, `link[Own]` as the object does:
between the two the page may send an end on a socket that is superseded already,
and `HandleInbox` handles it. `ClosePage` leaves `inbox` as it is for the same
reason; only `ControlDrops` loses it. Other clients have no `inbox`: any message
of theirs may be handled at any time, before or after their socket is closed.

The requests run to their end here: their own failures are `RecordingUpload`'s
subject. For the page any of them may fail (`ConnectFails`, `FinalizationFails`)
while the worker goes on.

### `HttpRoutes` and `BrowserAuth`

`HttpRoutes` lists every route with its checks in the order they run, and says
what a request with given flaws is answered at each. `BrowserAuth` runs such a
request, stopping where it awaits D1, and is the login module itself.

| Action | Code |
|---|---|
| `Receive`, `Delivered` | the middleware up to the first await; the answer |
| `Authenticate`, `AuthorizeOwner`, `CheckFails` | the session and owner checks |
| `Handle` | the handlers that other modules are about, and `createRealtimeCall`'s answers |
| `BeginLogin`, `ReadAttempts`, `RecordFailure`, `Login`, `LoginFails` | `login`, await by await |
| `Logout`, `LogoutFails` | `logout` |
| `Tick` | `Date.now()` |

What a check stores for the handler (`user`, a conversation's or a resource's id)
is kept, because a handler throws when it is not there: that is how a route
wired wrongly shows. Tokens are drawn once. Rows of other client addresses never
meet.

## 4. Runs

| Run | Question | Bounds |
|---|---|---|
| `store_failures` | are outcomes truthful and final under failures, restarts of the upload and every order of calls, and does the store implement the lifecycle? | clock 0..2, callers' deadlines 1 or 2 ahead, retries and grace 1 |
| `store_liveness` | does a started conversation end with all callers silent; is a recovery window ever extended? | clock 0..2, two interruptions, two epochs, fairness |
| `upload_race` | two begins at once, an upload, a completion: are 2xx answers true, is the live session's upload safe? | 2 begins, 1 upload begin, 1 completion, 2 uploads, 2 keys, 3 attempts, clock 0..2 |
| `upload_retry` | repeated upload begins and completions: does "completed" mean stored, is the job for that recording, are the requests callers the store allows? | 1 begin, 2 upload begins, 2 completions, 1 key, 3 attempts, clock 0..2 |
| `examinations` | do racing, repeated and failing requests complete each question once and in order, and keep what they answered? | 2 users, 2 requests at once, 3 questions, clock 0..1 |
| `transcription` | is the job's status the truth, does the job end once, is a waiting page told? | 1 upload completion in flight at a time, replayed at will, beside the cron; 1 retry of each step |
| `browser_session` | does the page show what is, and finalize at the end and only then? | 1 begin, 1 upload, 1 completion, 2 sockets, 2 unread messages, 1 click on End, 2 attempts, clock 0..1 |
| `http_api` | is any route wired wrongly, does an ended session get in, does the limit of logins hold? | 2 clients, 2 users, 2 tokens, 1 flaw per request, 2 login attempts, clock 0..1 |
| `terminal_has_no_deadline`, `artifact_follows_diagram`, `transcript_appears`, `page_closed` | violations: see findings | |

Bounds. `MaxTime` stops the clock; a time beyond it is taken as `MaxTime`, so
"the last instant" stands for all later ones and every deadline set before the
end still becomes due. Callers' deadlines are one or two ahead in `store_failures`,
the alarm's retry one: an alarm left from a later deadline is then later than
anything an earlier one allows, and `AlarmCoversDeadline` can fail by the alarm's
time as well as by its absence. Two or three instants are enough for a deadline to be
set, to race another one, to be retried and to expire. Each call is one event id
and is applied at most once, which bounds revisions and receipts by the number of
calls plus the alarm's events; two interruptions, two uploads of a recording, two
closes and two unrelated failures are there because the interesting cases need a
second one. Two recordings and two keys are enough to tell "same" from "other".

The upload runs with the code's three attempts. Two requests of a kind are what
it takes to race or to repeat; two uploads are as many as two begins can create;
two keys let the begins differ in content type. `MCSymmetry` permutes requests of
one kind and uploads, of which neither the module nor its properties name any;
`ImplementsStore` is a safety property over variables in which they occur
symmetrically, so the reduction is sound for it as well.

Two requests at once are enough for the examinations' races, because a request
keeps only what it read of one row; three questions have a first, a middle and a
last one. One enqueuer is many upload completions one after the other; beside
the cron it makes two dispatchers, and a third repeats what one of the two does.
`MaxQueued` bounds how far a page may lag behind its socket: two messages are one
that is read and a newer one behind it, as many as it takes to be late
(`BrowserRuntimeProofs` has every bound). In `http_api` a flaw that is looked for
before the session is combined with no session only: there the session is not
looked at.

Fairness. `ConversationStore!FairSpec`: weak fairness of `Tick`, for time passes; strong
fairness of a due alarm's handler, for the platform runs a due alarm at least
once and the runner re-arms after a failure, so a handler that is tried again and
again and does not fail for ever eventually runs. Nothing is assumed of callers.
`Transcription!FairSpec`: attempts age; the cron fires, and its calls, when tried for ever,
do not fail for ever (strong fairness of `CronSelects`, `MarkAttempt(Cron)`
and `CreateSucceeds(Cron)`); the engine runs its steps; the page's timer fires
and its reads are answered. Nobody has to enqueue, and a step of the workflow may
fail to its last retry. `FairBrowserSpec`: a message is handled as long as its
socket is there. No request has to be answered.

`CHECK_DEADLOCK` is left on everywhere.

## 5. Proofs

`ConversationFSMProofs` proves about one transition, with no state machine
around it: `TransitionConsistent` (an accepted event keeps `Consistent`),
`ActiveHasDeadline`, `DeadlineEventIsAccepted`.

`ConversationStoreProofs` proves `Spec => []IInv`. The properties are not
inductive alone. `CompletedMeansRecorded` needs `StateHasCause`: the state
remembers which kinds of event brought it there. `DeadlineEventAccepted` needs
`Consistent` (a live conversation has its maximum, a reconnecting transport its
deadline) and `ReceiptsFitRevision` (an alarm's id carries the revision it was
built from and no receipt has the present one). `OneWinnerPerRevision` needs
`WinnersHaveReceipts` and `ReceiptPerEvent`. `AlarmCoversDeadline` is a conjunct.
From `IInv` follow the six state properties and, with the step lemmas, the four
action properties.

Its last section proves `Spec => ImplementsLifecycle`: the initial state maps to the
abstract one, and each action to an abstract action or a stutter.

`RecordingUploadProofs` proves `WorkerSpec => []WorkerIInv` and, from it, the five
safety properties of the upload runs and `WorkerSpec => ImplementsStore`. The
argument: an upload has one owner among the begins (`UploadsHaveOneOwner`), so a
begin's clean-up touches only its own; receipts tell which upload their event was
about and, but for the first event, that upload is the conversation's
(`ReceiptsTellUpload`), which is why a duplicate answer may be taken for success;
an upload whose begin was answered is the conversation's for good, so whatever a
completion assembles under the conversation's key is the conversation's recording
(`KnownUpload`, `AssembleKeeps`); and a verified artifact never leaves `ready`,
because the one event that could take it back has its receipt already
(`AppliedFacts`). `Move` says what a step of one request leaves alone, and
`MoveKeepsOthers` that this keeps all the others' parts of the invariant; each
action's lemma then has only its own request to look at.

What the store accepts and what the shipped requests send it differ, and its last
section says what the difference buys. A recording request sends `SessionClosed`
before `RecordingUploadStarted` (`WorkerStepEvents`, `SentEvent`), so an artifact
that is uploading or ready has its transport over (`SessionBeforeUpload`): a
verified recording is then the last thing a shutdown waits for (`ReadyIsOver`),
and a conversation that is over has no upload under way. Hence `EndHasNoDeadline`
and `ExpiredDeadlineIsAccepted`: of what `terminal_has_no_deadline` finds at the
Durable Object, nothing can happen behind the shipped routes.

`ExaminationSessionsProofs` proves `ExamSpec => []ExamIInv`, the three state
properties of the run and `ExamSpec => ImplementsLedger`. The argument: the
conversation is never lost, its receipts only grow, and one that is starting was
started (`StartHasCause`, from the store's invariant). The rows only move forward
(`RowsMove`): a session keeps its owner, its current question never goes back and
no completion is lost. So what a request has learnt by the call it is at (`Knows`) stays
true whatever the others do (`KnowledgeKept`). A request at its batch read a row
whose current question was its own and later found no completion of it; with the
completions being exactly those before the current question, a commit whose
INSERT is new is of the current question still (`CompletionIsNext`), so its
UPDATE matches: the two statements have their effect together, which is the
ledger's step.

`TranscriptionProofs` proves `Spec => []IInv`, the four state properties and
`EndedJobStaysEnded`, for any number of replayed completions and of retries. The
properties need what a dispatcher past a call learnt by it (`DispatchersKnow`)
and what the workflow's place says of the job (`WorkflowKnows`): a completing step
finds the transcript stored, and past the first step the job is out of the queue.

`RecordingRangeProofs` proves `EveryRangeIsServed` for all sizes and ranges.

`BrowserAuthProofs` proves `Spec => []AuthIInv` and from it every property of the run
`http_api`, for any number of clients, users and tokens. Two arguments meet. Every
list of checks a route has is in an order that works (`ChainsAreSound`, over all
paths and methods): it ends in a handler or a refusal, the session is checked
before every handler but the login's, and what the owner's check or the handler
reads was stored by a check before it. And whatever moves the tables (`WorldMoves`: a login, a
logout, time) keeps what a waiting request relies on (`SoundnessKept`): a token
is drawn once, so a request that came with the token of an ended session meets
no live one later, and a login about to count a failure read a row below the
limit, so a row that many such logins read does not pass it.

`BrowserRuntimeProofs` proves `BrowserSpec => []BrowserIInv` and from it every safety
and action property of `browser_session`, for any number of sockets, requests and
calls and any queue length. First, every step of a page, a socket or another
client is a step of the worker or changes nothing it has (`PagesUseWorker`): with
it, whatever is proved of the worker and the store holds here, the lifecycle
included (`PagesLiveTheLifecycle`). Then `PageInv`. None of the properties is
inductive alone:

* `OneActiveSocket` is about attachment and link together: a socket becomes active
  in the step that closes all the other active ones, and none is opened again.
* `ActivePageIsCurrent` speaks of a page that has read everything; `Informed` says
  what holds before: the newest message on its way to an active page, or what it
  shows when there is none, is `Current`: the conversation as it is, or as it was
  just before an end that a superseded client had sent (`MissesEnd`). With an
  active page, the only step that changes the conversation and tells the active page nothing is such an
  end, and what was current until then is what `MissesEnd` allows (`EndIsMissed`):
  no second one follows, for an ending accepts no end. A step that leaves the
  conversation alone keeps both (`NothingMissed`). Otherwise `Informed` is kept
  because a step that changes what a page is shown sends it a message or its
  socket is not active (`Told`), which is shown for each handler (`HelloMoves`,
  `EndMoves`, `PublishedMoves`, `SocketCloses`). `Initialize` and a start publish
  nothing; there `Attached` says that the page's socket is not active yet.
* `PageNeverGoesBack` and the case of a snapshot that is not news need `Past`: a view
  on its way or on the screen is of a revision the conversation had, is its
  present view if it has its present revision, and the last one if it shows the
  end. `Past` is kept because conversations only move on (`Grew`).
* The HTTP answer of a finalization is taken whatever its revision. That is sound
  only because a completion is answered when the recording is verified, and then
  the conversation is over (`ReadyIsOver` of the worker): what was fetched stays the
  conversation's last state (`PageSound`).
* `FinalizesOnlyAtTheEnd`: a page begins to finalize on a message that shows an
  ending, and what `Past` shows ending is ending or over.

`PagesShowTheTruth` is the same for a page without a socket: it may be late, but
what it shows has been, and an end that it shows is the end.

Assumed, by name: `NoneAssumption`, `StoreAssumption`, `UploadAssumption`,
`ExaminationAssumption`, `TranscriptionAssumption`, `MissingAssumption`,
`BrowserAuthAssumption`, `GatewayAssumption`, `RuntimeAssumption` and nothing else: `None` is outside the ids, keys, times,
conversations, users and session rows, calls are well formed, callers do not make
up event ids of the alarm's shape nor the start's, delays and the clock bound are
naturals; requests of different kinds are different, others send start and end
only, under ids of their own; there is a question; the cron is no enqueuer;
retries are naturals; `NoToken` is no token, requests are well formed, the limits
of logins and the session's life are positive; the page has a socket whose messages are
kept, and its end requests are among the calls. The sets `Calls`, `EventIds`,
`Leads`, `RecordingIds`, `R2Keys`, `Users`, `Enqueuers`, `Clients`, `Tokens`, `Sockets` and
the sets of requests are arbitrary. TLC evaluates the assumptions in every run.

Only model-checked: the liveness properties `StartedConversationEnds`, `JobEnds`,
`WaitingPageSettles` and `EndingIsFinalized`: liveness under fairness is outside what
the prover does. Every other property of a passing run is a theorem.

## 6. Findings

* `terminal_has_no_deadline`: `earliestDeadline` adds the artifact deadline in
  every tag. A conversation that fails while its artifact is uploading and its
  transport open keeps an alarm; its event is rejected, and the runner arms the
  next try five seconds later, again and again. A test says terminal states have
  no deadline. The shipped recording route closes the session before it begins
  the upload, so its own order of calls avoids it: for conversations behind the
  shipped routes the test's sentence is a theorem (`EndHasNoDeadline`).
* `artifact_follows_diagram`: the state machine lets an upload begin again from
  `ready` and `failed`, and a `ready` artifact fail; the diagram in
  `docs/conversation_fsm.mmd` has no such arrows.
* `transcript_appears`: a review page opened when the recording is available and
  the job row is not there yet reads no status, sets no timer, and still says that
  the transcript will appear automatically. It does not, until the page is
  loaded anew.
* `page_closed`: `close()` promises to release the media. Called while `connect()`
  waits for the microphone it finds none to stop; `connect()` goes on, takes the
  stream and starts the recorder, and nobody closes again.

## 7. Not modelled

* Arming the alarm's retry can itself fail; the runner swallows that error and
  leaves no alarm until the next command. The model takes it to succeed: with
  the failure as a step `AlarmCoversDeadline` is false, as the hazards say.
* An undecodable snapshot, and an identity mismatch in `initialize`: every
  operation then answers an error and writes nothing.
* The wire protocol's encoding, the contract schemas, telemetry: no state.
* The runtime's audio playback and muting, and the data channel that carries the
  tool calls. What the calls do to the examination is `ExaminationSessions`.
* A request body that cannot be read where none is allowed (`validateNoBody`): the
  request then ends with `internal_error` and no handler runs. In the model
  `internal_error` stands for a missing context value only.
* The lists of courses, examinations and sessions (reads with `LIMIT 100`),
  response headers and error bodies, forms and rendering.
* What a model transcribes, the session configuration sent to the provider,
  password hashing and cookies.
* The repository's lint rules and build tools: not part of the running system.
