------------------------- MODULE ExaminationSessions -------------------------
(***************************************************************************)
(* Courses, one examination, and the one examination session a browser's   *)
(* Idempotency-Key names: the D1 rows, the requests that read and write    *)
(* them, and the session's conversation in the Durable Object.             *)
(*   src/src/worker/examinations/examination-api.ts                        *)
(*   src/src/worker/examinations/examination-repository.ts                 *)
(*   src/src/worker/courses/course-api.ts, course-repository.ts            *)
(*   src/src/worker/http/routes/conversation-routes.ts (create and start)  *)
(*                                                                         *)
(* A request takes one step per awaited call, so other requests, the       *)
(* object's alarm and its other callers run between any two of its calls.  *)
(* Every call may fail, and the batch may also commit and lose its answer. *)
(* A request's record is kept until its slot is used again, so the answer  *)
(* is known long after it was given; a client that hears nothing just      *)
(* sends the next request.                                                 *)
(***************************************************************************)
EXTENDS ConversationStore

CONSTANTS
    Users,          \* authenticated users
    Requests,       \* slots for requests in flight
    QuestionCount,  \* the examination's questions are numbered from 1
    StartEventId,   \* "system:http:start:v1:<conversationId>"
    StartWindow     \* STARTING_WINDOW_MS

Ordinals == 1 .. QuestionCount

CourseKinds   == {"createCourse", "getCourse"}
ExamKinds     == {"createExamination", "getExamination"}
SessionKinds  == {"createConversation", "createSession", "getSession"}
QuestionKinds == {"currentQuestion", "completeQuestion"}
Kinds == CourseKinds \cup ExamKinds \cup SessionKinds \cup QuestionKinds
         \cup {"start", "getState"}

Sessions ==
    [user     : Users,
     state    : {"in_progress", "complete"},
     ordinal  : Ordinals,
     revision : 0 .. QuestionCount]

(* Callers' ids are "client:" or "system:alarm:" ones and an upload's own  *)
(* records: none is the start event's.                                     *)
ASSUME ExaminationAssumption ==
    /\ QuestionCount \in Nat \ {0}
    /\ StartEventId \in EventIds
    /\ StartWindow \in Nat
    /\ None \notin Users
    /\ None \notin Sessions
    /\ \A call \in Calls : call.id # StartEventId

VARIABLES
    catalog,        \* the rows so far: "empty", "course" or "examination"
    session,        \* the examination_sessions row, None before the insert
    completions,    \* the questions with an examination_question_completions row
    requests        \* what each slot's request is doing, or answered last

examRows == <<catalog, session, completions>>
examVars == <<vars, examRows, requests>>

-----------------------------------------------------------------------------
(***************************************************************************)
(* Requests                                                                *)
(***************************************************************************)

Idle ==
    [kind |-> "none", user |-> None, question |-> 0, expected |-> 0,
     pc |-> "idle", row |-> None, seen |-> 0, answer |-> "none"]

\* the other requests await one call, named like them
FirstCall(kind) ==
    CASE kind = "createCourse"                      -> "insertCourse"
      [] kind = "createExamination"                 -> "findCourse"
      [] kind = "createSession"                     -> "findExamination"
      [] kind \in {"getSession"} \cup QuestionKinds -> "ownedSession"
      [] kind = "start"                             -> "readState"
      [] OTHER                                      -> kind

Receive(r, kind, user, question, expected) ==
    /\ requests[r].pc = "idle"
    /\ requests' = [requests EXCEPT ![r] =
            [kind |-> kind, user |-> user, question |-> question,
             expected |-> expected, pc |-> FirstCall(kind), row |-> None,
             seen |-> 0, answer |-> "none"]]
    /\ UNCHANGED <<vars, examRows>>

At(r, call) == requests[r].pc = call

Kind(r) == requests[r].kind

(* An answer that promises nothing is kept without its request.            *)
Answer(r, answer) ==
    requests' = [requests EXCEPT ![r] = [Idle EXCEPT !.answer = answer]]

(* A confirmation is kept with what it confirms.                           *)
Confirm(r, answer, row) ==
    requests' = [requests EXCEPT ![r] =
        [kind |-> "none", user |-> requests[r].user,
         question |-> requests[r].question, expected |-> 0, pc |-> "idle",
         row |-> row, seen |-> 0, answer |-> answer]]

Continue(r, call) == requests' = [requests EXCEPT ![r].pc = call]

ContinueWith(r, row, call) ==
    requests' = [requests EXCEPT ![r].pc = call, ![r].row = row]

(* An awaited call throws before it had any effect: the request answers    *)
(* 500.  The batch's failure is handled (BatchFails).                      *)
CallFails(r) ==
    /\ requests[r].pc \notin {"idle", "batch"}
    /\ Answer(r, "failed")
    /\ UNCHANGED <<vars, examRows>>

-----------------------------------------------------------------------------
(***************************************************************************)
(* Courses and the examination                                             *)
(***************************************************************************)

InsertCourse(r) ==
    /\ At(r, "insertCourse")
    /\ catalog' = IF catalog = "empty" THEN "course" ELSE catalog
    /\ Answer(r, "course_created")
    /\ UNCHANGED <<vars, session, completions>>

GetCourse(r) ==
    /\ At(r, "getCourse")
    /\ Answer(r, IF catalog = "empty" THEN "not_found" ELSE "course_returned")
    /\ UNCHANGED <<vars, examRows>>

FindCourse(r) ==
    /\ At(r, "findCourse")
    /\ IF catalog = "empty" THEN Answer(r, "not_found")
                            ELSE Continue(r, "insertExamination")
    /\ UNCHANGED <<vars, examRows>>

(* One batch: the examination and its questions, or nothing.               *)
InsertExamination(r) ==
    /\ At(r, "insertExamination")
    /\ catalog' = "examination"
    /\ Answer(r, "examination_created")
    /\ UNCHANGED <<vars, session, completions>>

GetExamination(r) ==
    /\ At(r, "getExamination")
    /\ Answer(r, IF catalog = "examination" THEN "examination_returned"
                                            ELSE "not_found")
    /\ UNCHANGED <<vars, examRows>>

(* Regression: the session row comes first, its conversation after it.     *)
FindExaminationInsertsFirst(r) ==
    /\ At(r, "findExamination")
    /\ IF catalog = "examination" THEN Continue(r, "insertSession")
                                  ELSE Answer(r, "not_found")
    /\ UNCHANGED <<vars, examRows>>

FindExamination(r) ==
    /\ At(r, "findExamination")
    /\ IF catalog = "examination" THEN Continue(r, "initialize")
                                  ELSE Answer(r, "not_found")
    /\ UNCHANGED <<vars, examRows>>

-----------------------------------------------------------------------------
(***************************************************************************)
(* createExaminationSession and createConversation.  The session's id is   *)
(* its conversation's id; the user is no part of it, and a caller of       *)
(* createConversation may choose the key a session's id is derived from.   *)
(***************************************************************************)

(* The status is "initialized" for one request only.                       *)
InitializeAs(status) ==
    \/ status = "initialized" /\ Initialize
    \/ status = "existing" /\ InitializeAgain

CreateForKey(r) ==
    /\ At(r, "createConversation")
    /\ \E status \in {"initialized", "existing"} :
          InitializeAs(status) /\ Answer(r, status)
    /\ UNCHANGED examRows

InitializeConversation(r) ==
    /\ At(r, "initialize")
    /\ \E status \in {"initialized", "existing"} :
        /\ InitializeAs(status)
        /\ requests' = [requests EXCEPT ![r].pc = "insertSession",
                                        ![r].answer = status]
    /\ UNCHANGED examRows

NewSession(user) ==
    [user |-> user, state |-> "in_progress", ordinal |-> 1, revision |-> 0]

(* Regression: INSERT OR REPLACE instead of ON CONFLICT(id) DO NOTHING.    *)
InsertSessionReplaces(r) ==
    /\ At(r, "insertSession")
    /\ session' = NewSession(requests[r].user)
    /\ Continue(r, "readSession")
    /\ UNCHANGED <<vars, catalog, completions>>

InsertSession(r) ==
    /\ At(r, "insertSession")
    /\ session' = IF session = None THEN NewSession(requests[r].user) ELSE session
    /\ Continue(r, "readSession")
    /\ UNCHANGED <<vars, catalog, completions>>

SessionOutcome(r) ==
    IF requests[r].answer = "initialized" THEN "session_created"
                                          ELSE "session_returned"

ReadSession(r) ==
    /\ At(r, "readSession")
    /\ IF session.user # requests[r].user THEN Answer(r, "conflict")
       ELSE Confirm(r, SessionOutcome(r), session)
    /\ UNCHANGED <<vars, examRows>>

-----------------------------------------------------------------------------
(***************************************************************************)
(* An owner's reads, and the questions                                     *)
(***************************************************************************)

OwnedSession(r) ==
    /\ At(r, "ownedSession")
    /\ IF session = None \/ session.user # requests[r].user
       THEN Answer(r, "not_found")
       ELSE Continue(r, IF Kind(r) = "completeQuestion" THEN "readRow" ELSE Kind(r))
    /\ UNCHANGED <<vars, examRows>>

GetSession(r) ==
    /\ At(r, "getSession")
    /\ Answer(r, "session_returned_to_owner")
    /\ UNCHANGED <<vars, examRows>>

CurrentQuestion(r) ==
    /\ At(r, "currentQuestion")
    /\ Answer(r, "current_question_returned")
    /\ UNCHANGED <<vars, examRows>>

ReadRow(r) ==
    /\ At(r, "readRow")
    /\ ContinueWith(r, session, "readCompletion")
    /\ UNCHANGED <<vars, examRows>>

(* Regression: the expected revision alone decides.                        *)
MayCompleteByRevision(row, request) ==
    /\ row.state = "in_progress"
    /\ row.revision = request.expected

MayComplete(row, request) ==
    /\ row.state = "in_progress"
    /\ row.ordinal = request.question
    /\ row.revision = request.expected

(* A question that has its completion is answered from the row that was    *)
(* read one await earlier.                                                 *)
ReadCompletion(r) ==
    /\ At(r, "readCompletion")
    /\ IF requests[r].question \in completions
       THEN Confirm(r, "already_completed", requests[r].row)
       ELSE IF MayComplete(requests[r].row, requests[r])
       THEN Continue(r, "batch")
       ELSE Answer(r, "conflict")
    /\ UNCHANGED <<vars, examRows>>

(* The UPDATE: guarded by the state, ordinal and revision that were read;  *)
(* it may match no row.                                                    *)
UpdateMatches(row) ==
    /\ session.state = "in_progress"
    /\ session.ordinal = row.ordinal
    /\ session.revision = row.revision

Advanced(row) ==
    IF row.ordinal >= QuestionCount
    THEN [session EXCEPT !.state = "complete", !.revision = @ + 1]
    ELSE [session EXCEPT !.ordinal = row.ordinal + 1, !.revision = @ + 1]

(* The batch commits: the INSERT's primary key is new.                     *)
WriteCompletion(r) ==
    /\ requests[r].question \notin completions
    /\ session' = IF UpdateMatches(requests[r].row)
                  THEN Advanced(requests[r].row) ELSE session
    /\ completions' = completions \cup {requests[r].question}
    /\ UNCHANGED <<vars, catalog>>

BatchCommits(r) ==
    /\ At(r, "batch")
    /\ WriteCompletion(r)
    /\ Continue(r, "readLatest")

BatchAnswerLost(r) ==
    /\ At(r, "batch")
    /\ WriteCompletion(r)
    /\ Continue(r, "readRepeated")

(* Regression: the two statements are not one transaction.                 *)
BatchFailsHalfway(r) ==
    /\ At(r, "batch")
    /\ session' = IF UpdateMatches(requests[r].row)
                  THEN Advanced(requests[r].row) ELSE session
    /\ Continue(r, "readRepeated")
    /\ UNCHANGED <<vars, catalog, completions>>

(* A second INSERT of the same completion, or D1 itself, rolls both back.  *)
BatchFails(r) ==
    /\ At(r, "batch")
    /\ Continue(r, "readRepeated")
    /\ UNCHANGED <<vars, examRows>>

ReadRepeated(r) ==
    /\ At(r, "readRepeated")
    /\ IF requests[r].question \in completions
       THEN Continue(r, "readLatestRepeated")
       ELSE Answer(r, "failed")
    /\ UNCHANGED <<vars, examRows>>

ReadLatest(r) ==
    /\ \/ At(r, "readLatest") /\ Confirm(r, "completed", session)
       \/ At(r, "readLatestRepeated") /\ Confirm(r, "already_completed", session)
    /\ UNCHANGED <<vars, examRows>>

-----------------------------------------------------------------------------
(***************************************************************************)
(* startConversation, and reads of the conversation                        *)
(***************************************************************************)

StartEvent ==
    Stamped([type |-> "StartRequested", id |-> StartEventId, epoch |-> 0,
             recordingId |-> None, expectedR2Key |-> None], StartWindow)

GetState(r) ==
    /\ At(r, "getState")
    /\ Answer(r, IF Initialized THEN "state_returned" ELSE "not_found")
    /\ UNCHANGED <<vars, examRows>>

ReadState(r) ==
    /\ At(r, "readState")
    /\ IF ~Initialized THEN Answer(r, "not_found")
       ELSE IF conversation.tag = "starting" THEN Answer(r, "already_starting")
       ELSE IF conversation.tag # "created" THEN Answer(r, "not_startable")
       ELSE requests' = [requests EXCEPT ![r].pc   = "applyStart",
                                         ![r].seen = conversation.revision]
    /\ UNCHANGED <<vars, examRows>>

StartApplied(r) ==
    /\ At(r, "applyStart")
    /\ ApplyEvent(requests[r].seen, StartEvent)
    /\ Answer(r, "start_requested")
    /\ UNCHANGED examRows

StartDuplicate(r) ==
    /\ At(r, "applyStart")
    /\ ApplyDuplicate(StartEvent)
    /\ Answer(r, "already_starting")
    /\ UNCHANGED examRows

StartRejected(r) ==
    /\ At(r, "applyStart")
    /\ ~IsDuplicate(StartEvent)
    /\ ~IsApplied(requests[r].seen, StartEvent)
    /\ Continue(r, "rereadState")
    /\ UNCHANGED <<vars, examRows>>

RereadState(r) ==
    /\ At(r, "rereadState")
    /\ Answer(r, IF conversation.tag = "starting" THEN "already_starting"
                                                  ELSE "not_startable")
    /\ UNCHANGED <<vars, examRows>>

-----------------------------------------------------------------------------

ExamInit ==
    /\ Init
    /\ catalog = "empty"
    /\ session = None
    /\ completions = {}
    /\ requests = [r \in Requests |-> Idle]

RequestStep(r) ==
    \/ InsertCourse(r) \/ GetCourse(r) \/ FindCourse(r)
    \/ InsertExamination(r) \/ GetExamination(r) \/ FindExamination(r)
    \/ CreateForKey(r) \/ InitializeConversation(r)
    \/ InsertSession(r) \/ ReadSession(r)
    \/ OwnedSession(r) \/ GetSession(r) \/ CurrentQuestion(r)
    \/ ReadRow(r) \/ ReadCompletion(r)
    \/ BatchCommits(r) \/ BatchAnswerLost(r) \/ BatchFails(r)
    \/ ReadRepeated(r) \/ ReadLatest(r)
    \/ GetState(r) \/ ReadState(r)
    \/ StartApplied(r) \/ StartDuplicate(r) \/ StartRejected(r) \/ RereadState(r)
    \/ CallFails(r)

ReceiveAny(r) ==
    \E user \in Users :
        \/ \E kind \in Kinds \ {"completeQuestion"} : Receive(r, kind, user, 0, 0)
        \/ \E question \in Ordinals, expected \in 0 .. QuestionCount :
              Receive(r, "completeQuestion", user, question, expected)

(* The conversation's other callers, its alarm and the clock.              *)
ConversationMoves ==
    /\ Next
    /\ UNCHANGED <<examRows, requests>>

ExamNext ==
    \/ \E r \in Requests : ReceiveAny(r) \/ RequestStep(r)
    \/ ConversationMoves

ExamSpec == ExamInit /\ [][ExamNext]_examVars

-----------------------------------------------------------------------------
(***************************************************************************)
(* Properties                                                              *)
(***************************************************************************)

(* The session row and the completion rows, written by two statements and  *)
(* read one await apart, always tell the same progress: the completed      *)
(* questions are those before the current one, all of them once the        *)
(* session is complete, and each moved the revision by one.                *)
ProgressMatchesCompletions ==
    /\ session = None => completions = {}
    /\ session # None =>
        /\ completions = IF session.state = "complete" THEN Ordinals
                         ELSE 1 .. session.ordinal - 1
        /\ session.state = "complete" => session.ordinal = QuestionCount
        /\ session.revision = IF session.state = "complete" THEN QuestionCount
                              ELSE session.ordinal - 1

(* A session row is never ahead of what it refers to: its examination and, *)
(* in another store and without a transaction across the two, its          *)
(* conversation exist.                                                     *)
SessionHasConversation ==
    session # None => Initialized /\ catalog = "examination"

(* What an answered request was told stays true, whoever raced it: the     *)
(* session of a 2xx create is the caller's, a completion that was          *)
(* confirmed is recorded and its question is not the session's current     *)
(* one, and a confirmed start reached the conversation.                    *)
AnswersStayTrue ==
    \A r \in Requests :
        LET answer == requests[r].answer
        IN  requests[r].pc = "idle" =>
            /\ answer \in {"session_created", "session_returned"} =>
                  session # None /\ session.user = requests[r].user
            /\ answer \in {"completed", "already_completed"} =>
                  /\ requests[r].question \in completions
                  /\ \/ session.state = "complete"
                     \/ session.ordinal # requests[r].question
            /\ answer \in {"start_requested", "already_starting"} =>
                  Happened("StartRequested")

-----------------------------------------------------------------------------

Ledger == INSTANCE QuestionLedger WITH
    done <- completions,
    over <- session # None /\ session.state = "complete"

(* Whatever the examiner's tool calls repeat or race, the session goes     *)
(* through its questions once each and in order.                           *)
ImplementsLedger == Ledger!Spec
=============================================================================
