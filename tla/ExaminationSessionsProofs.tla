--------------------- MODULE ExaminationSessionsProofs ---------------------
(***************************************************************************)
(* Proofs about ExaminationSessions, for any number of users, requests and *)
(* questions and any other callers of the conversation: the inductive      *)
(* invariant ExamIInv, the safety properties that follow from it, and the  *)
(* question ledger the session implements.                                 *)
(***************************************************************************)
EXTENDS ExaminationSessions, ConversationStoreProofs

-----------------------------------------------------------------------------
(***************************************************************************)
(* The inductive invariant behind the properties                           *)
(***************************************************************************)

Calling ==
    Kinds \cup {"none", "idle", "insertCourse", "findCourse", "insertExamination",
               "findExamination", "initialize", "insertSession", "readSession",
               "ownedSession", "readRow", "readCompletion", "batch",
               "readRepeated", "readLatest", "readLatestRepeated",
               "readState", "applyStart", "rereadState"}

Answers ==
    {"none", "failed", "not_found", "conflict", "course_created",
     "course_returned", "examination_created", "examination_returned",
     "initialized", "existing", "session_created", "session_returned",
     "session_returned_to_owner", "current_question_returned",
     "completed", "already_completed", "state_returned",
     "start_requested", "already_starting", "not_startable"}

RequestRecords ==
    [kind     : Kinds \cup {"none"},
     user     : Users \cup {None},
     question : 0 .. QuestionCount,
     expected : 0 .. QuestionCount,
     pc       : Calling,
     row      : Sessions \cup {None},
     seen     : Nat,
     answer   : Answers]

ExamTypeOK ==
    /\ catalog \in {"empty", "course", "examination"}
    /\ session \in Sessions \cup {None}
    /\ completions \subseteq Ordinals
    /\ requests \in [Requests -> RequestRecords]

(* A row that was read is the session's, now or at an earlier question.    *)
RowIsPast(row) ==
    /\ session # None
    /\ row \in Sessions
    /\ row.ordinal <= session.ordinal
    /\ row.state = "in_progress" => row.revision = row.ordinal - 1

(* What a request has learnt by its calls so far, or was answered, is true.*)
Knows(q) ==
    /\ q.pc \in {"findExamination", "initialize", "insertSession"} =>
          q.user \in Users
    /\ q.pc \in {"initialize", "insertSession"} => catalog = "examination"
    /\ q.pc = "insertSession" => Initialized
    /\ q.pc \in {"applyStart", "rereadState"} => Initialized
    /\ q.pc \in {"readSession", "readRow"} => session # None
    /\ q.pc \in {"readCompletion", "batch"} => RowIsPast(q.row)
    /\ q.pc = "batch" => q.row.state = "in_progress" /\ q.row.ordinal = q.question
    /\ q.pc \in {"readLatest", "readLatestRepeated"} => q.question \in completions
    /\ q.pc = "idle" =>
        /\ q.answer \in {"session_created", "session_returned"} =>
              session # None /\ session.user = q.user
        /\ q.answer \in {"completed", "already_completed"} =>
              q.question \in completions
        /\ q.answer \in {"start_requested", "already_starting"} =>
              Happened("StartRequested")

(* A conversation that is starting was started by a start request, and the *)
(* id of a start request is no other event's.                              *)
StartHasCause ==
    /\ Initialized /\ conversation.tag = "starting" => Happened("StartRequested")
    /\ \A receipt \in receipts :
          receipt.eventId = StartEventId => receipt.eventType = "StartRequested"

ExamIInv ==
    /\ IInv
    /\ StartHasCause
    /\ ExamTypeOK
    /\ ProgressMatchesCompletions
    /\ SessionHasConversation
    /\ \A r \in Requests : Knows(requests[r])

-----------------------------------------------------------------------------
(***************************************************************************)
(* The conversation: it is never lost, its receipts only grow, and a       *)
(* starting one was started                                                *)
(***************************************************************************)

LEMMA OnlyStartStarts ==
    ASSUME NEW c \in Conversations, NEW e, WellFormed(e), Consistent(c),
           Accepts(c, e), Transition(c, e).tag = "starting"
    PROVE  c.tag = "starting" \/ e.type = "StartRequested"
<1>. DEFINE d == Transition(c, e)
<1>0. /\ c.tag \in {"created", "starting", "live", "ending"}
      /\ e.type \in AllowedEvents(c.tag)
      /\ c.tag = "live" => LiveFields(c, e, d)
      /\ c.tag = "ending" => EndingFields(c, e, d)
  BY TransitionFields
<1>1. CASE c.tag = "created"
  BY <1>0, <1>1, FromCreatedFields DEF Transition
<1>. HIDE DEF d
<1>2. CASE c.tag = "live"
  BY <1>0, <1>2 DEF AllowedEvents, LiveFields, d
<1>3. CASE c.tag = "ending"
  BY <1>0, <1>3 DEF AllowedEvents, EndingFields, Finalized, TerminalTagOf, d
<1>. QED
  BY <1>0, <1>1, <1>2, <1>3

StoreMoves ==
    /\ IInv'
    /\ StartHasCause'
    /\ Initialized => Initialized'
    /\ receipts \subseteq receipts'

LEMMA RearmMoves ==
    ASSUME StartHasCause, IInv', UNCHANGED <<conversation, receipts>>
    PROVE  StoreMoves
BY DEF StoreMoves, StartHasCause, Happened, Initialized

LEMMA WriteMoves ==
    ASSUME IInv, StartHasCause, Initialized, NEW e, WellFormed(e),
           e.id \in EventIds \/ (e.id \in AlarmIds /\ e.id[2] = conversation.revision),
           e.id = StartEventId => e.type = "StartRequested",
           ~HasReceipt(e.id), Accepts(conversation, e),
           WriteTransition(conversation.revision, e), UNCHANGED now
    PROVE  StoreMoves /\ Happened(e.type)'
<1>. DEFINE new == Receipt(e, conversation, Transition(conversation, e))
<1>1. IInv'
  BY WriteKeepsInvariant
<1>2. /\ conversation' = Transition(conversation, e)
      /\ receipts' = receipts \cup {new}
  BY DEF WriteTransition
<1>3. conversation \in Conversations /\ Consistent(conversation)
  BY AlarmCoversType
<1>4. Transition(conversation, e) \in Conversations
  BY <1>3, TransitionConsistent DEF Preserved
<1>5. Initialized'
  BY <1>2, <1>4, StoreAssumption DEF Initialized
<1>6. new.eventId = e.id /\ new.eventType = e.type
  BY DEF Receipt
<1>. HIDE DEF new
<1>7. Happened(e.type)'
  BY <1>2, <1>6 DEF Happened
<1>8. conversation'.tag = "starting" => Happened("StartRequested")'
  <2>1. conversation'.tag = "starting" =>
          conversation.tag = "starting" \/ e.type = "StartRequested"
    BY <1>2, <1>3, OnlyStartStarts
  <2>2. conversation.tag = "starting" => Happened("StartRequested")
    BY DEF StartHasCause
  <2>. QED
    BY <1>2, <1>6, <2>1, <2>2 DEF Happened
<1>9. StartHasCause'
  BY <1>2, <1>6, <1>8 DEF StartHasCause
<1>. QED
  BY <1>1, <1>2, <1>5, <1>7, <1>9 DEF StoreMoves

LEMMA NextMoves ==
    ASSUME IInv, StartHasCause, [Next]_vars
    PROVE  StoreMoves
<1>0. IInv' /\ now \in 0 .. MaxTime
  BY NextKeepsInvariant, AlarmCoversType
<1>1. CASE Initialize
  <2>1. /\ conversation' = CreateConversation /\ receipts = {} /\ receipts' = {}
        /\ ~Initialized
    BY <1>1 DEF Initialize, IInv
  <2>. QED
    BY <1>0, <2>1, CreatedConsistent DEF StoreMoves, StartHasCause
<1>2. ASSUME NEW call \in Calls, NEW expectedRevision \in SeenRevisions,
             NEW lead \in LeadsOf(call),
             ApplyEvent(expectedRevision, Stamped(call, lead))
      PROVE  StoreMoves
  <2>. DEFINE e == Stamped(call, lead)
  <2>1. WellFormed(e) /\ e.id \in EventIds /\ e.id # StartEventId
    BY <1>0, StampedWellFormed, ExaminationAssumption
  <2>2. /\ Initialized /\ ~HasReceipt(e.id) /\ Accepts(conversation, e)
        /\ WriteTransition(conversation.revision, e) /\ UNCHANGED now
    BY <1>2 DEF ApplyEvent, IsApplied
  <2>. HIDE DEF e
  <2>. QED
    BY <2>1, <2>2, WriteMoves
<1>3. CASE AlarmAppliesDeadline
  <2>. DEFINE e == AlarmEvent
  <2>1. /\ Initialized /\ conversation.tag # "created"
        /\ ~HasReceipt(e.id) /\ Accepts(conversation, e)
        /\ WriteTransition(conversation.revision, e) /\ UNCHANGED now
    BY <1>3 DEF AlarmAppliesDeadline, DeadlineExpired, AlarmMayRun, IsApplied
  <2>2. conversation \in Conversations /\ Consistent(conversation)
    BY <2>1, AlarmCoversType
  <2>3. conversation.tag \in ActiveTags
    BY <2>1, <2>2 DEF Accepts, Outcome, AllowedEvents, Conversations, Tags, ActiveTags
  <2>4. TimeAfter(AlarmGrace) \in Nat
    BY <1>0, TimeAfterType, StoreAssumption
  <2>5. WellFormed(e)
    BY <2>2, <2>3, <2>4, DeadlineEventIsAccepted DEF AlarmEvent
  <2>6. e.id \in AlarmIds /\ e.id[2] = conversation.revision
    <3>1. DeadlineForState(conversation) \in Nat
      BY <2>2, <2>3, ActiveHasDeadline
    <3>2. e.id = <<conversation.tag, conversation.revision,
                   DeadlineForState(conversation)>>
      BY DEF AlarmEvent, DeadlineEvent, AlarmEventId
    <3>. QED
      BY <2>2, <3>1, <3>2 DEF AlarmIds, Conversations
  <2>7. e.id # StartEventId
    BY <2>6, StoreAssumption, ExaminationAssumption DEF AlarmIds
  <2>. HIDE DEF e
  <2>. QED
    BY <2>1, <2>5, <2>6, <2>7, WriteMoves
<1>4. CASE \/ InitializeAgain \/ AlarmFindsNoDeadline \/ AlarmRunsEarly
           \/ AlarmTransitionRejected \/ AlarmFails \/ Tick \/ UNCHANGED vars
           \/ \E call \in Calls : ApplyDuplicate(call)
  <2>1. UNCHANGED <<conversation, receipts>>
    BY <1>4
    DEF InitializeAgain, AlarmFindsNoDeadline, AlarmRunsEarly, AlarmTransitionRejected,
        AlarmFails, Tick, vars, stored, ApplyDuplicate
  <2>. QED
    BY <1>0, <2>1, RearmMoves
<1>. QED
  BY <1>1, <1>2, <1>3, <1>4 DEF Next, RunAlarm

-----------------------------------------------------------------------------
(***************************************************************************)
(* What a request knows stays true while the rows and the conversation     *)
(* only move forward                                                       *)
(***************************************************************************)

RowsMove ==
    /\ catalog' \in {"empty", "course", "examination"}
    /\ session' \in Sessions \cup {None}
    /\ completions' \subseteq Ordinals
    /\ catalog = "examination" => catalog' = "examination"
    /\ session # None =>
        /\ session' # None
        /\ session'.user = session.user
        /\ session.ordinal <= session'.ordinal
    /\ completions \subseteq completions'
    /\ ProgressMatchesCompletions'
    /\ SessionHasConversation'

WorldMoves == StoreMoves /\ RowsMove

LEMMA SessionType ==
    ASSUME ExamTypeOK, session # None
    PROVE  /\ session \in Sessions
           /\ session.user \in Users /\ session.state \in {"in_progress", "complete"}
           /\ session.ordinal \in Ordinals /\ session.ordinal \in Nat
           /\ session.revision \in 0 .. QuestionCount
<1>1. session \in Sessions
  BY DEF ExamTypeOK
<1>2. Ordinals \subseteq Nat
  BY ExaminationAssumption DEF Ordinals
<1>. QED
  BY <1>1, <1>2 DEF Sessions

LEMMA RowsStay ==
    ASSUME ExamIInv, UNCHANGED examRows, StoreMoves
    PROVE  RowsMove
<1>1. UNCHANGED <<catalog, session, completions>>
  BY DEF examRows
<1>2. ProgressMatchesCompletions' /\ SessionHasConversation'
  BY <1>1
  DEF ExamIInv, ProgressMatchesCompletions, SessionHasConversation, StoreMoves
<1>3. session # None => session.ordinal \in Nat
  BY SessionType DEF ExamIInv
<1>. QED
  BY <1>1, <1>2, <1>3 DEF ExamIInv, ExamTypeOK, RowsMove

LEMMA StoreStays ==
    ASSUME ExamIInv, UNCHANGED vars
    PROVE  StoreMoves
BY NextMoves DEF ExamIInv

LEMMA WorldStays ==
    ASSUME ExamIInv, UNCHANGED <<vars, examRows>>
    PROVE  WorldMoves
BY StoreStays, RowsStay DEF WorldMoves

LEMMA KnowledgeKept ==
    ASSUME ExamTypeOK, WorldMoves, NEW q, Knows(q)
    PROVE  Knows(q)'
<1>1. \A type : Happened(type) => Happened(type)'
  BY DEF WorldMoves, StoreMoves, Happened
<1>2. RowIsPast(q.row) => RowIsPast(q.row)'
  <2>. SUFFICES ASSUME RowIsPast(q.row) PROVE RowIsPast(q.row)'
    OBVIOUS
  <2>1. /\ session # None /\ q.row \in Sessions /\ q.row.ordinal <= session.ordinal
        /\ q.row.state = "in_progress" => q.row.revision = q.row.ordinal - 1
    BY DEF RowIsPast
  <2>2. session.ordinal \in Nat
    BY <2>1, SessionType
  <2>3. /\ session' # None /\ session' \in Sessions
        /\ session.ordinal <= session'.ordinal
    BY <2>1 DEF WorldMoves, RowsMove
  <2>4. q.row.ordinal \in Nat /\ session'.ordinal \in Nat
    BY <2>1, <2>3, ExaminationAssumption DEF Sessions, Ordinals
  <2>5. q.row.ordinal <= session'.ordinal
    BY <2>1, <2>2, <2>3, <2>4
  <2>. QED
    BY <2>1, <2>3, <2>5 DEF RowIsPast
<1>. QED
  BY <1>1, <1>2 DEF Knows, WorldMoves, StoreMoves, RowsMove

(* One request moves, and what it now knows is true.                       *)
LEMMA RequestMoves ==
    ASSUME ExamIInv, WorldMoves, NEW r \in Requests, NEW q \in RequestRecords,
           requests' = [requests EXCEPT ![r] = q], Knows(q)'
    PROVE  ExamIInv'
<1>1. ExamTypeOK'
  BY DEF ExamIInv, ExamTypeOK, WorldMoves, RowsMove
<1>2. ASSUME NEW p \in Requests PROVE Knows(requests[p])'
  <2>1. CASE p = r
    <3>1. requests'[p] = q
      BY <2>1 DEF ExamIInv, ExamTypeOK
    <3>. QED
      BY <3>1 DEF Knows, RowIsPast, Happened
  <2>2. CASE p # r
    <3>1. PICK old : old = requests[p]
      OBVIOUS
    <3>2. requests'[p] = old
      BY <2>2, <3>1 DEF ExamIInv, ExamTypeOK
    <3>3. Knows(old)
      BY <3>1 DEF ExamIInv, Knows, RowIsPast, Happened
    <3>4. Knows(old)'
      BY <3>3, KnowledgeKept DEF ExamIInv
    <3>. QED
      BY <3>2, <3>4 DEF Knows, RowIsPast, Happened
  <2>. QED
    BY <2>1, <2>2
<1>. QED
  BY <1>1, <1>2 DEF ExamIInv, WorldMoves, StoreMoves, RowsMove

LEMMA AnswerMoves ==
    ASSUME ExamIInv, WorldMoves, NEW r \in Requests, NEW answer \in Answers,
           Answer(r, answer),
           answer \notin {"session_created", "session_returned",
                          "completed", "already_completed"},
           answer \in {"start_requested", "already_starting"} =>
               Happened("StartRequested")'
    PROVE  ExamIInv'
<1>. DEFINE q == [Idle EXCEPT !.answer = answer]
<1>1. q = [kind |-> "none", user |-> None, question |-> 0, expected |-> 0,
           pc |-> "idle", row |-> None, seen |-> 0, answer |-> answer]
  BY DEF Idle
<1>2. 0 \in 0 .. QuestionCount /\ "idle" \in Calling
  BY ExaminationAssumption DEF Calling
<1>3. q \in RequestRecords /\ q.pc = "idle" /\ q.answer = answer
  BY <1>1, <1>2 DEF RequestRecords
<1>4. requests' = [requests EXCEPT ![r] = q]
  BY DEF Answer
<1>. HIDE DEF q
<1>5. Knows(q)'
  BY <1>3 DEF Knows
<1>. QED
  BY <1>3, <1>4, <1>5, RequestMoves

(* The request goes on to its next call, with its other fields as they     *)
(* were.                                                                   *)
LEMMA ContinueMoves ==
    ASSUME ExamIInv, WorldMoves, NEW r \in Requests, NEW call \in Calling,
           Continue(r, call),
           NEW q, q = [requests[r] EXCEPT !.pc = call], Knows(q)'
    PROVE  ExamIInv'
<1>1. q \in RequestRecords
  BY DEF ExamIInv, ExamTypeOK, RequestRecords
<1>2. requests' = [requests EXCEPT ![r] = q]
  BY DEF Continue
<1>. QED
  BY <1>1, <1>2, RequestMoves

LEMMA ConfirmMoves ==
    ASSUME ExamIInv, WorldMoves, NEW r \in Requests, NEW answer \in Answers,
           NEW row \in Sessions \cup {None}, NEW old, old = requests[r],
           Confirm(r, answer, row),
           answer \in {"session_created", "session_returned"} =>
               session' # None /\ session'.user = old.user,
           answer \in {"completed", "already_completed"} =>
               old.question \in completions',
           answer \notin {"start_requested", "already_starting"}
    PROVE  ExamIInv'
<1>. DEFINE q == [kind |-> "none", user |-> old.user, question |-> old.question,
                  expected |-> 0, pc |-> "idle", row |-> row, seen |-> 0,
                  answer |-> answer]
<1>1. requests' = [requests EXCEPT ![r] = q]
  BY DEF Confirm
<1>2. 0 \in 0 .. QuestionCount /\ "idle" \in Calling
  BY ExaminationAssumption DEF Calling
<1>3. old.user \in Users \cup {None} /\ old.question \in 0 .. QuestionCount
  BY DEF ExamIInv, ExamTypeOK, RequestRecords
<1>4. q \in RequestRecords
  BY <1>2, <1>3 DEF RequestRecords
<1>5. /\ q.pc = "idle" /\ q.answer = answer /\ q.user = old.user
      /\ q.question = old.question
  OBVIOUS
<1>. HIDE DEF q
<1>6. Knows(q)'
  BY <1>5 DEF Knows
<1>. QED
  BY <1>1, <1>4, <1>6, RequestMoves

-----------------------------------------------------------------------------
(***************************************************************************)
(* The steps of a request                                                  *)
(***************************************************************************)

LEMMA ReceiveKeeps ==
    ASSUME ExamIInv, NEW r \in Requests, NEW kind \in Kinds, NEW user \in Users,
           NEW question \in 0 .. QuestionCount, NEW expected \in 0 .. QuestionCount,
           Receive(r, kind, user, question, expected)
    PROVE  ExamIInv'
<1>. DEFINE q == [kind |-> kind, user |-> user, question |-> question,
                  expected |-> expected, pc |-> FirstCall(kind), row |-> None,
                  seen |-> 0, answer |-> "none"]
<1>1. FirstCall(kind) \in {"insertCourse", "findCourse", "findExamination",
                           "ownedSession", "readState"} \cup Kinds
  BY DEF FirstCall
<1>2. FirstCall(kind) \in Calling /\ 0 \in Nat /\ "none" \in Answers
  BY <1>1 DEF Calling, Answers
<1>3. q \in RequestRecords /\ q.pc = FirstCall(kind) /\ q.user = user
  BY <1>2 DEF RequestRecords
<1>4. requests' = [requests EXCEPT ![r] = q] /\ UNCHANGED <<vars, examRows>>
  BY DEF Receive
<1>. HIDE DEF q
<1>5. Knows(q)'
  BY <1>1, <1>3
  DEF Knows, Kinds, CourseKinds, ExamKinds, SessionKinds, QuestionKinds
<1>. QED
  BY <1>3, <1>4, <1>5, WorldStays, RequestMoves

(* Steps that answer without a promise, or fail, and change nothing else.  *)
LEMMA PlainAnswerKeeps ==
    ASSUME ExamIInv, NEW r \in Requests, NEW answer \in Answers,
           Answer(r, answer), UNCHANGED <<vars, examRows>>,
           answer \notin {"session_created", "session_returned",
                          "completed", "already_completed",
                          "start_requested", "already_starting"}
    PROVE  ExamIInv'
BY WorldStays, AnswerMoves

LEMMA CatalogKeeps ==
    ASSUME ExamIInv, NEW r \in Requests,
           \/ InsertCourse(r) \/ GetCourse(r) \/ FindCourse(r)
           \/ InsertExamination(r) \/ GetExamination(r) \/ FindExamination(r)
    PROVE  ExamIInv'
<1>0. PICK old : old = requests[r] /\ old \in RequestRecords /\ Knows(old)
  BY DEF ExamIInv, ExamTypeOK
<1>1. CASE InsertCourse(r) \/ InsertExamination(r)
  <2>1. /\ UNCHANGED <<vars, session, completions>>
        /\ catalog' \in {"course", "examination"}
        /\ catalog = "examination" => catalog' = "examination"
        /\ Answer(r, "course_created") \/ Answer(r, "examination_created")
    BY <1>1 DEF InsertCourse, InsertExamination, ExamIInv, ExamTypeOK
  <2>2. StoreMoves
    BY <2>1, StoreStays
  <2>3. ProgressMatchesCompletions' /\ SessionHasConversation'
    BY <2>1, <2>2
    DEF ExamIInv, ProgressMatchesCompletions, SessionHasConversation, StoreMoves
  <2>4. RowsMove
    BY <2>1, <2>3, SessionType DEF RowsMove, ExamIInv, ExamTypeOK
  <2>. QED
    BY <2>1, <2>2, <2>4, AnswerMoves DEF WorldMoves, Answers
<1>2. CASE GetCourse(r) \/ GetExamination(r)
  <2>1. PICK answer : /\ Answer(r, answer) /\ UNCHANGED <<vars, examRows>>
                      /\ answer \in {"not_found", "course_returned",
                                     "examination_returned"}
    BY <1>2 DEF GetCourse, GetExamination
  <2>. QED
    BY <2>1, PlainAnswerKeeps DEF Answers
<1>3. CASE FindCourse(r) \/ FindExamination(r)
  <2>1. UNCHANGED <<vars, examRows>>
    BY <1>3 DEF FindCourse, FindExamination
  <2>2. CASE Answer(r, "not_found")
    BY <2>1, <2>2, PlainAnswerKeeps DEF Answers
  <2>3. CASE FindCourse(r) /\ Continue(r, "insertExamination")
    <3>1. PICK q : q = [old EXCEPT !.pc = "insertExamination"]
      OBVIOUS
    <3>2. q.pc = "insertExamination"
      BY <1>0, <3>1 DEF RequestRecords
    <3>3. Knows(q)'
      BY <3>2 DEF Knows
    <3>. QED
      BY <1>0, <2>1, <2>3, <3>1, <3>3, WorldStays, ContinueMoves DEF Calling
  <2>4. CASE /\ At(r, "findExamination") /\ catalog = "examination"
             /\ Continue(r, "initialize")
    <3>1. PICK q : q = [old EXCEPT !.pc = "initialize"]
      OBVIOUS
    <3>2. q.pc = "initialize" /\ q.user = old.user
      BY <1>0, <3>1 DEF RequestRecords
    <3>3. old.pc = "findExamination"
      BY <1>0, <2>4 DEF At
    <3>4. Knows(q)'
      BY <1>0, <2>1, <2>4, <3>2, <3>3 DEF Knows, examRows
    <3>. QED
      BY <1>0, <2>1, <2>4, <3>1, <3>4, WorldStays, ContinueMoves DEF Calling
  <2>. QED
    BY <1>3, <2>2, <2>3, <2>4 DEF FindCourse, FindExamination
<1>. QED
  BY <1>1, <1>2, <1>3

LEMMA CreateKeeps ==
    ASSUME ExamIInv, NEW r \in Requests,
           CreateForKey(r) \/ InitializeConversation(r)
    PROVE  ExamIInv'
<1>0. PICK old : old = requests[r] /\ old \in RequestRecords /\ Knows(old)
  BY DEF ExamIInv, ExamTypeOK
<1>1. PICK status \in {"initialized", "existing"} :
        /\ InitializeAs(status)
        /\ UNCHANGED examRows
        /\ \/ Answer(r, status)
           \/ /\ At(r, "initialize")
              /\ requests' = [requests EXCEPT ![r].pc = "insertSession",
                                              ![r].answer = status]
  BY DEF CreateForKey, InitializeConversation
<1>2. StoreMoves
  BY <1>1, NextMoves DEF InitializeAs, Next, ExamIInv
<1>3. Initialized'
  <2>1. InitializeAgain => Initialized
    BY DEF InitializeAgain
  <2>2. Initialize => Initialized'
    BY CreatedConsistent, StoreAssumption DEF Initialize, Initialized
  <2>. QED
    BY <1>1, <1>2, <2>1, <2>2 DEF InitializeAs, StoreMoves
<1>4. WorldMoves
  BY <1>1, <1>2, RowsStay DEF WorldMoves
<1>5. CASE Answer(r, status)
  BY <1>4, <1>5, AnswerMoves DEF Answers
<1>6. CASE /\ At(r, "initialize")
           /\ requests' = [requests EXCEPT ![r].pc = "insertSession", ![r].answer = status]
  <2>a. PICK mid : mid = [old EXCEPT !.pc = "insertSession"]
    OBVIOUS
  <2>b. mid \in RequestRecords /\ mid.pc = "insertSession" /\ mid.user = old.user
    BY <1>0, <2>a DEF RequestRecords, Calling
  <2>1. PICK q : q = [mid EXCEPT !.answer = status]
    OBVIOUS
  <2>2. q \in RequestRecords /\ q.pc = "insertSession" /\ q.user = old.user
    BY <2>b, <2>1 DEF RequestRecords, Answers
  <2>3. requests' = [requests EXCEPT ![r] = q]
    BY <1>0, <1>6, <2>a, <2>1 DEF ExamIInv, ExamTypeOK
  <2>4. catalog' = "examination" /\ old.user \in Users
    BY <1>0, <1>1, <1>6 DEF At, Knows, examRows
  <2>5. Knows(q)'
    BY <1>3, <2>2, <2>4 DEF Knows
  <2>. QED
    BY <1>4, <2>2, <2>3, <2>5, RequestMoves
<1>. QED
  BY <1>1, <1>5, <1>6

NeedsKnowledge ==
    {"findExamination", "initialize", "insertSession", "applyStart", "rereadState",
     "readSession", "readRow", "readCompletion", "batch", "readLatest",
     "readLatestRepeated", "idle"}

(* Going on to a call that needs no more than the request knew before.     *)
LEMMA PlainContinueKeeps ==
    ASSUME ExamIInv, NEW r \in Requests, NEW call \in Calling,
           Continue(r, call), UNCHANGED <<vars, examRows>>,
           call \notin NeedsKnowledge
    PROVE  ExamIInv'
<1>1. PICK q : q = [requests[r] EXCEPT !.pc = call]
  OBVIOUS
<1>2. q.pc = call
  BY <1>1 DEF ExamIInv, ExamTypeOK, RequestRecords
<1>3. Knows(q)'
  BY <1>2 DEF Knows, NeedsKnowledge
<1>. QED
  BY <1>1, <1>3, WorldStays, ContinueMoves

LEMMA SessionKeeps ==
    ASSUME ExamIInv, NEW r \in Requests, InsertSession(r) \/ ReadSession(r)
    PROVE  ExamIInv'
<1>0. PICK old : old = requests[r] /\ old \in RequestRecords /\ Knows(old)
  BY DEF ExamIInv, ExamTypeOK
<1>1. CASE InsertSession(r)
  <2>0. /\ old.pc = "insertSession" /\ UNCHANGED <<vars, catalog, completions>>
        /\ session' = IF session = None THEN NewSession(old.user) ELSE session
        /\ Continue(r, "readSession")
    BY <1>0, <1>1 DEF InsertSession, At
  <2>1. StoreMoves
    BY <2>0, StoreStays
  <2>2. catalog = "examination" /\ Initialized
    BY <1>0, <2>0 DEF Knows
  <2>3. PICK new : new = NewSession(old.user)
    OBVIOUS
  <2>4. /\ new \in Sessions /\ new # None /\ new.state = "in_progress"
        /\ new.ordinal = 1 /\ new.revision = 0 /\ new.user = old.user
    <3>1. old.user \in Users
      BY <1>0, <2>0 DEF Knows
    <3>2. 1 \in Ordinals /\ 0 \in 0 .. QuestionCount
      BY ExaminationAssumption DEF Ordinals
    <3>3. new \in Sessions
      BY <2>3, <3>1, <3>2 DEF NewSession, Sessions
    <3>. QED
      BY <2>3, <3>3, ExaminationAssumption DEF NewSession
  <2>5. session' = IF session = None THEN new ELSE session
    BY <2>0, <2>3
  <2>6. ProgressMatchesCompletions' /\ SessionHasConversation'
    <3>1. CASE session = None
      <4>1. completions = {} /\ 1 .. 1 - 1 = {}
        BY <3>1 DEF ExamIInv, ProgressMatchesCompletions
      <4>. QED
        BY <2>0, <2>1, <2>2, <2>4, <2>5, <3>1, <4>1
        DEF ProgressMatchesCompletions, SessionHasConversation, StoreMoves
    <3>2. CASE session # None
      BY <2>0, <2>1, <2>2, <2>5, <3>2
      DEF ExamIInv, ProgressMatchesCompletions, SessionHasConversation, StoreMoves
    <3>. QED
      BY <3>1, <3>2
  <2>7. session # None => session.ordinal \in Nat
    BY SessionType DEF ExamIInv
  <2>8. RowsMove
    BY <2>0, <2>4, <2>5, <2>6, <2>7 DEF RowsMove, ExamIInv, ExamTypeOK
  <2>9. PICK q : q = [old EXCEPT !.pc = "readSession"]
    OBVIOUS
  <2>10. q.pc = "readSession"
    BY <1>0, <2>9 DEF RequestRecords
  <2>11. session' # None
    BY <2>4, <2>5
  <2>12. Knows(q)'
    BY <2>10, <2>11 DEF Knows
  <2>. QED
    BY <1>0, <2>0, <2>1, <2>8, <2>9, <2>12, ContinueMoves DEF WorldMoves, Calling
<1>2. CASE ReadSession(r)
  <2>0. old.pc = "readSession" /\ UNCHANGED <<vars, examRows>>
    BY <1>0, <1>2 DEF ReadSession, At
  <2>1. session # None
    BY <1>0, <2>0 DEF Knows
  <2>2. CASE Answer(r, "conflict")
    BY <2>0, <2>2, PlainAnswerKeeps DEF Answers
  <2>3. CASE session.user = old.user /\ Confirm(r, SessionOutcome(r), session)
    <3>1. PICK answer : /\ answer = SessionOutcome(r)
                        /\ answer \in {"session_created", "session_returned"}
      BY DEF SessionOutcome
    <3>2. PICK row : row = session /\ row \in Sessions \cup {None}
      BY DEF ExamIInv, ExamTypeOK
    <3>3. Confirm(r, answer, row)
      BY <2>3, <3>1, <3>2
    <3>4. session' # None /\ session'.user = old.user
      BY <2>0, <2>1, <2>3 DEF examRows
    <3>. QED
      BY <1>0, <2>0, <3>1, <3>2, <3>3, <3>4, WorldStays, ConfirmMoves DEF Answers
  <2>. QED
    BY <1>0, <1>2, <2>2, <2>3 DEF ReadSession
<1>. QED
  BY <1>1, <1>2

LEMMA OwnerKeeps ==
    ASSUME ExamIInv, NEW r \in Requests,
           OwnedSession(r) \/ GetSession(r) \/ CurrentQuestion(r) \/ ReadRow(r)
    PROVE  ExamIInv'
<1>0. PICK old : old = requests[r] /\ old \in RequestRecords /\ Knows(old)
  BY DEF ExamIInv, ExamTypeOK
<1>1. CASE OwnedSession(r)
  <2>1. UNCHANGED <<vars, examRows>>
    BY <1>1 DEF OwnedSession
  <2>2. CASE Answer(r, "not_found")
    BY <2>1, <2>2, PlainAnswerKeeps DEF Answers
  <2>3. CASE session # None /\ Continue(r, "readRow")
    <3>1. PICK q : q = [old EXCEPT !.pc = "readRow"]
      OBVIOUS
    <3>2. q.pc = "readRow"
      BY <1>0, <3>1 DEF RequestRecords
    <3>3. Knows(q)'
      BY <2>1, <2>3, <3>2 DEF Knows, examRows
    <3>. QED
      BY <1>0, <2>1, <2>3, <3>1, <3>3, WorldStays, ContinueMoves DEF Calling
  <2>4. CASE Continue(r, Kind(r))
    <3>1. PICK kind : kind = Kind(r) /\ kind \in Kinds \cup {"none"}
      BY <1>0 DEF Kind, RequestRecords
    <3>2. kind \in Calling
      BY <3>1 DEF Calling
    <3>3. kind \notin NeedsKnowledge
      BY <3>1
      DEF NeedsKnowledge, Kinds, CourseKinds, ExamKinds, SessionKinds, QuestionKinds
    <3>. QED
      BY <2>1, <2>4, <3>1, <3>2, <3>3, PlainContinueKeeps
  <2>. QED
    BY <1>1, <2>2, <2>3, <2>4 DEF OwnedSession
<1>2. CASE GetSession(r) \/ CurrentQuestion(r)
  <2>1. /\ UNCHANGED <<vars, examRows>>
        /\ \/ Answer(r, "session_returned_to_owner")
           \/ Answer(r, "current_question_returned")
    BY <1>2 DEF GetSession, CurrentQuestion
  <2>. QED
    BY <2>1, PlainAnswerKeeps DEF Answers
<1>3. CASE ReadRow(r)
  <2>1. /\ old.pc = "readRow" /\ UNCHANGED <<vars, examRows>>
        /\ ContinueWith(r, session, "readCompletion")
    BY <1>0, <1>3 DEF ReadRow, At
  <2>2. session # None
    BY <1>0, <2>1 DEF Knows
  <2>3. PICK row : row = session
    OBVIOUS
  <2>4. row \in Sessions
    BY <2>2, <2>3 DEF ExamIInv, ExamTypeOK
  <2>5. RowIsPast(row)
    BY <2>2, <2>3, <2>4, SessionType
    DEF ExamIInv, ProgressMatchesCompletions, RowIsPast, Sessions
  <2>6. PICK mid : mid = [old EXCEPT !.pc = "readCompletion"]
    OBVIOUS
  <2>7. mid \in RequestRecords /\ mid.pc = "readCompletion"
    BY <1>0, <2>6 DEF RequestRecords, Calling
  <2>8. PICK q : q = [mid EXCEPT !.row = row]
    OBVIOUS
  <2>9. q \in RequestRecords /\ q.pc = "readCompletion" /\ q.row = row
    BY <2>4, <2>7, <2>8 DEF RequestRecords
  <2>10. requests' = [requests EXCEPT ![r] = q]
    BY <1>0, <2>1, <2>3, <2>6, <2>8 DEF ContinueWith, ExamIInv, ExamTypeOK
  <2>11. RowIsPast(row)'
    BY <2>1, <2>5 DEF RowIsPast, examRows
  <2>12. Knows(q)'
    BY <2>9, <2>11 DEF Knows
  <2>. QED
    BY <2>1, <2>9, <2>10, <2>12, WorldStays, RequestMoves
<1>. QED
  BY <1>1, <1>2, <1>3

(* The completion's INSERT succeeds only for the session's current         *)
(* question, and then its UPDATE matches the row.                          *)
LEMMA CompletionIsNext ==
    ASSUME ExamIInv, NEW q, RowIsPast(q.row), q.row.state = "in_progress",
           q.row.ordinal = q.question, q.question \notin completions
    PROVE  /\ session \in Sessions /\ session.state = "in_progress"
           /\ session.ordinal = q.question /\ q.question \in Ordinals
           /\ session.revision = q.question - 1
           /\ completions = 1 .. q.question - 1
           /\ UpdateMatches(q.row)
<1>1. /\ session # None /\ q.row \in Sessions
      /\ q.row.ordinal <= session.ordinal
      /\ q.row.revision = q.row.ordinal - 1
  BY DEF RowIsPast
<1>2. /\ session \in Sessions /\ session.ordinal \in Nat
      /\ session.state \in {"in_progress", "complete"}
  BY <1>1, SessionType DEF ExamIInv
<1>3. q.question \in Ordinals /\ q.question \in Nat /\ 1 <= q.question
  BY <1>1, ExaminationAssumption DEF Sessions, Ordinals
<1>4. session.state = "in_progress"
  BY <1>1, <1>2, <1>3 DEF ExamIInv, ProgressMatchesCompletions
<1>5. /\ completions = 1 .. session.ordinal - 1
      /\ session.revision = session.ordinal - 1
  BY <1>1, <1>4 DEF ExamIInv, ProgressMatchesCompletions
<1>6. session.ordinal <= q.question
  BY <1>2, <1>3, <1>5
<1>7. session.ordinal = q.question
  BY <1>1, <1>2, <1>3, <1>6
<1>. QED
  BY <1>1, <1>2, <1>3, <1>4, <1>5, <1>7 DEF UpdateMatches

LEMMA WriteCompletionMoves ==
    ASSUME ExamIInv, NEW r \in Requests, At(r, "batch"), WriteCompletion(r)
    PROVE  /\ WorldMoves
           /\ requests[r].question \in completions'
           /\ completions = 1 .. requests[r].question - 1
           /\ completions' = 1 .. requests[r].question
           /\ requests[r].question \in Ordinals
           /\ session' # None
           /\ session'.state = "complete" <=> requests[r].question = QuestionCount
<1>0. PICK old : old = requests[r] /\ old \in RequestRecords /\ Knows(old)
  BY DEF ExamIInv, ExamTypeOK
<1>. DEFINE n == old.question
<1>1. /\ RowIsPast(old.row) /\ old.row.state = "in_progress" /\ old.row.ordinal = n
      /\ n \notin completions
  BY <1>0 DEF At, Knows, WriteCompletion
<1>2. /\ session \in Sessions /\ session.state = "in_progress" /\ session # None
      /\ session.ordinal = n /\ n \in Ordinals /\ session.revision = n - 1
      /\ completions = 1 .. n - 1 /\ UpdateMatches(old.row)
  BY <1>1, CompletionIsNext, ExaminationAssumption
<1>3. n \in Nat /\ 1 <= n /\ n <= QuestionCount /\ QuestionCount \in Nat
  BY <1>2, ExaminationAssumption DEF Ordinals
<1>4. /\ completions' = completions \cup {n} /\ session' = Advanced(old.row)
      /\ UNCHANGED <<vars, catalog>>
  BY <1>0, <1>2 DEF WriteCompletion
<1>. HIDE DEF n
<1>5. completions' = 1 .. n
  BY <1>2, <1>3, <1>4
<1>6. StoreMoves
  BY <1>4, StoreStays
<1>7. CASE n = QuestionCount
  <2>1. session' = [session EXCEPT !.state = "complete", !.revision = @ + 1]
    BY <1>1, <1>3, <1>4, <1>7 DEF Advanced
  <2>2. PICK mid : mid = [session EXCEPT !.state = "complete"]
    OBVIOUS
  <2>3. /\ mid \in Sessions /\ mid.state = "complete" /\ mid.ordinal = n
        /\ mid.revision = n - 1 /\ mid.user = session.user
    BY <1>2, <2>2 DEF Sessions
  <2>4. session' = [mid EXCEPT !.revision = @ + 1]
    BY <1>2, <2>1, <2>2 DEF Sessions
  <2>5. n \in 0 .. QuestionCount /\ (n - 1) + 1 = n
    BY <1>3
  <2>6. /\ session' \in Sessions /\ session'.state = "complete"
        /\ session'.ordinal = n /\ session'.revision = n
        /\ session'.user = session.user
    BY <2>3, <2>4, <2>5 DEF Sessions
  <2>7. session' # None
    BY <2>6, ExaminationAssumption
  <2>8. ProgressMatchesCompletions' /\ SessionHasConversation'
    BY <1>2, <1>4, <1>5, <1>6, <1>7, <2>6, <2>7
    DEF ExamIInv, ProgressMatchesCompletions, SessionHasConversation, StoreMoves, Ordinals
  <2>9. RowsMove
    BY <1>2, <1>3, <1>4, <1>5, <1>7, <2>6, <2>7, <2>8
    DEF RowsMove, ExamIInv, ExamTypeOK, Ordinals
  <2>. QED
    BY <1>0, <1>2, <1>3, <1>5, <1>6, <1>7, <2>6, <2>7, <2>9 DEF WorldMoves, n
<1>8. CASE n # QuestionCount
  <2>1. session' = [session EXCEPT !.ordinal = n + 1, !.revision = @ + 1]
    BY <1>1, <1>3, <1>4, <1>8 DEF Advanced
  <2>0. n + 1 \in Ordinals /\ n \in 0 .. QuestionCount /\ (n - 1) + 1 = n
    BY <1>3, <1>8 DEF Ordinals
  <2>2. PICK mid : mid = [session EXCEPT !.ordinal = n + 1]
    OBVIOUS
  <2>3. /\ mid \in Sessions /\ mid.state = "in_progress" /\ mid.ordinal = n + 1
        /\ mid.revision = n - 1 /\ mid.user = session.user
    BY <1>2, <2>0, <2>2 DEF Sessions
  <2>4. session' = [mid EXCEPT !.revision = @ + 1]
    BY <1>2, <2>1, <2>2 DEF Sessions
  <2>6. /\ session' \in Sessions /\ session'.state = "in_progress"
        /\ session'.ordinal = n + 1 /\ session'.revision = n
        /\ session'.user = session.user
    BY <2>0, <2>3, <2>4 DEF Sessions
  <2>7. session' # None
    BY <2>6, ExaminationAssumption
  <2>8. ProgressMatchesCompletions' /\ SessionHasConversation'
    <3>1. (n + 1) - 1 = n
      BY <1>3
    <3>. QED
      BY <1>2, <1>4, <1>5, <1>6, <2>6, <2>7, <3>1
      DEF ExamIInv, ProgressMatchesCompletions, SessionHasConversation, StoreMoves
  <2>9. RowsMove
    BY <1>2, <1>3, <1>4, <1>5, <2>6, <2>7, <2>8
    DEF RowsMove, ExamIInv, ExamTypeOK, Ordinals
  <2>. QED
    BY <1>0, <1>2, <1>3, <1>5, <1>6, <1>8, <2>6, <2>7, <2>9 DEF WorldMoves, n
<1>. QED
  BY <1>7, <1>8

LEMMA QuestionKeeps ==
    ASSUME ExamIInv, NEW r \in Requests,
           \/ ReadCompletion(r) \/ BatchCommits(r) \/ BatchAnswerLost(r)
           \/ BatchFails(r) \/ ReadRepeated(r) \/ ReadLatest(r)
    PROVE  ExamIInv'
<1>0. PICK old : old = requests[r] /\ old \in RequestRecords /\ Knows(old)
  BY DEF ExamIInv, ExamTypeOK
<1>1. CASE ReadCompletion(r)
  <2>1. old.pc = "readCompletion" /\ UNCHANGED <<vars, examRows>>
    BY <1>0, <1>1 DEF ReadCompletion, At
  <2>2. RowIsPast(old.row) /\ old.row \in Sessions \cup {None}
    BY <1>0, <2>1 DEF Knows, RowIsPast
  <2>3. CASE old.question \in completions /\ Confirm(r, "already_completed", old.row)
    <3>1. old.question \in completions'
      BY <2>1, <2>3 DEF examRows
    <3>. QED
      BY <1>0, <2>1, <2>2, <2>3, <3>1, WorldStays, ConfirmMoves DEF Answers
  <2>4. CASE Answer(r, "conflict")
    BY <2>1, <2>4, PlainAnswerKeeps DEF Answers
  <2>5. CASE MayComplete(old.row, old) /\ Continue(r, "batch")
    <3>1. PICK q : q = [old EXCEPT !.pc = "batch"]
      OBVIOUS
    <3>2. q.pc = "batch" /\ q.row = old.row /\ q.question = old.question
      BY <1>0, <3>1 DEF RequestRecords
    <3>3. RowIsPast(q.row)'
      BY <2>1, <2>2, <3>2 DEF RowIsPast, examRows
    <3>4. Knows(q)'
      BY <2>5, <3>2, <3>3 DEF Knows, MayComplete
    <3>. QED
      BY <1>0, <2>1, <2>5, <3>1, <3>4, WorldStays, ContinueMoves DEF Calling
  <2>. QED
    BY <1>0, <1>1, <2>3, <2>4, <2>5 DEF ReadCompletion
<1>2. CASE BatchCommits(r) \/ BatchAnswerLost(r)
  <2>1. PICK call : /\ call \in {"readLatest", "readRepeated"}
                    /\ At(r, "batch") /\ WriteCompletion(r) /\ Continue(r, call)
    BY <1>2 DEF BatchCommits, BatchAnswerLost
  <2>2. WorldMoves /\ old.question \in completions'
    BY <1>0, <2>1, WriteCompletionMoves
  <2>3. PICK q : q = [old EXCEPT !.pc = call]
    OBVIOUS
  <2>4. q.pc = call /\ q.question = old.question
    BY <1>0, <2>3 DEF RequestRecords
  <2>5. Knows(q)'
    BY <2>1, <2>2, <2>4 DEF Knows
  <2>. QED
    BY <1>0, <2>1, <2>2, <2>3, <2>5, ContinueMoves DEF Calling
<1>3. CASE BatchFails(r)
  BY <1>3, PlainContinueKeeps DEF BatchFails, Calling, NeedsKnowledge
<1>4. CASE ReadRepeated(r)
  <2>1. UNCHANGED <<vars, examRows>>
    BY <1>4 DEF ReadRepeated
  <2>2. CASE old.question \in completions /\ Continue(r, "readLatestRepeated")
    <3>1. PICK q : q = [old EXCEPT !.pc = "readLatestRepeated"]
      OBVIOUS
    <3>2. q.pc = "readLatestRepeated" /\ q.question = old.question
      BY <1>0, <3>1 DEF RequestRecords
    <3>3. Knows(q)'
      BY <2>1, <2>2, <3>2 DEF Knows, examRows
    <3>. QED
      BY <1>0, <2>1, <2>2, <3>1, <3>3, WorldStays, ContinueMoves DEF Calling
  <2>3. CASE Answer(r, "failed")
    BY <2>1, <2>3, PlainAnswerKeeps DEF Answers
  <2>. QED
    BY <1>0, <1>4, <2>2, <2>3 DEF ReadRepeated
<1>5. CASE ReadLatest(r)
  <2>1. PICK answer : /\ answer \in {"completed", "already_completed"}
                      /\ Confirm(r, answer, session)
                      /\ At(r, "readLatest") \/ At(r, "readLatestRepeated")
                      /\ UNCHANGED <<vars, examRows>>
    BY <1>5 DEF ReadLatest
  <2>2. PICK row : row = session /\ row \in Sessions \cup {None}
    BY DEF ExamIInv, ExamTypeOK
  <2>3. old.question \in completions'
    BY <1>0, <2>1 DEF At, Knows, examRows
  <2>4. Confirm(r, answer, row)
    BY <2>1, <2>2
  <2>. QED
    BY <1>0, <2>1, <2>2, <2>3, <2>4, WorldStays, ConfirmMoves DEF Answers
<1>. QED
  BY <1>1, <1>2, <1>3, <1>4, <1>5

LEMMA StartEventWellFormed ==
    ASSUME now \in 0 .. MaxTime
    PROVE  /\ WellFormed(StartEvent) /\ StartEvent.id = StartEventId
           /\ StartEvent.type = "StartRequested" /\ StartEventId \in EventIds
<1>1. TimeAfter(StartWindow) \in Nat
  BY TimeAfterType, StoreAssumption, ExaminationAssumption
<1>2. TimeAfter(StartWindow) \in MaybeTime /\ TimeAfter(StartWindow) # None
  BY <1>1, NoneAssumption DEF MaybeTime
<1>3. "StartRequested" \in EventTypes /\ "StartRequested" \notin NeedsRecording
  BY DEF EventTypes, CallerEventTypes, NeedsRecording
<1>. QED
  BY <1>2, <1>3, ExaminationAssumption DEF WellFormed, StartEvent, Stamped

LEMMA StartKeeps ==
    ASSUME ExamIInv, NEW r \in Requests,
           \/ GetState(r) \/ ReadState(r) \/ StartApplied(r)
           \/ StartDuplicate(r) \/ StartRejected(r) \/ RereadState(r)
    PROVE  ExamIInv'
<1>0. PICK old : old = requests[r] /\ old \in RequestRecords /\ Knows(old)
  BY DEF ExamIInv, ExamTypeOK
<1>1. now \in 0 .. MaxTime /\ IInv /\ StartHasCause
  BY AlarmCoversType DEF ExamIInv
<1>2. CASE GetState(r)
  <2>1. /\ UNCHANGED <<vars, examRows>>
        /\ Answer(r, "state_returned") \/ Answer(r, "not_found")
    BY <1>2 DEF GetState
  <2>. QED
    BY <2>1, PlainAnswerKeeps DEF Answers
<1>3. CASE ReadState(r) \/ RereadState(r)
  <2>1. UNCHANGED <<vars, examRows>>
    BY <1>3 DEF ReadState, RereadState
  <2>2. CASE Answer(r, "not_found") \/ Answer(r, "not_startable")
    BY <2>1, <2>2, PlainAnswerKeeps DEF Answers
  <2>3. CASE /\ Initialized /\ conversation.tag = "starting"
             /\ Answer(r, "already_starting")
    <3>1. Happened("StartRequested")
      BY <1>1, <2>3 DEF StartHasCause
    <3>2. Happened("StartRequested")'
      BY <2>1, <3>1 DEF Happened, vars, stored
    <3>. QED
      BY <2>1, <2>3, <3>2, WorldStays, AnswerMoves DEF Answers
  <2>4. CASE /\ Initialized
             /\ requests' = [requests EXCEPT ![r].pc   = "applyStart",
                                             ![r].seen = conversation.revision]
    <3>1. PICK mid : mid = [old EXCEPT !.pc = "applyStart"]
      OBVIOUS
    <3>2. mid \in RequestRecords /\ mid.pc = "applyStart"
      BY <1>0, <3>1 DEF RequestRecords, Calling
    <3>3. PICK seen : seen = conversation.revision
      OBVIOUS
    <3>4. seen \in Nat
      BY <1>1, <2>4, <3>3, AlarmCoversType DEF Conversations
    <3>5. PICK q : q = [mid EXCEPT !.seen = seen]
      OBVIOUS
    <3>6. q \in RequestRecords /\ q.pc = "applyStart"
      BY <3>2, <3>4, <3>5 DEF RequestRecords
    <3>7. requests' = [requests EXCEPT ![r] = q]
      BY <1>0, <2>4, <3>1, <3>3, <3>5 DEF ExamIInv, ExamTypeOK
    <3>8. Knows(q)'
      BY <2>1, <2>4, <3>6 DEF Knows, Initialized, vars, stored
    <3>. QED
      BY <2>1, <3>6, <3>7, <3>8, WorldStays, RequestMoves
  <2>5. RereadState(r) => Initialized
    BY <1>0 DEF RereadState, At, Knows
  <2>. QED
    BY <1>3, <2>2, <2>3, <2>4, <2>5 DEF ReadState, RereadState
<1>4. CASE StartApplied(r)
  <2>. DEFINE e == StartEvent
  <2>1. /\ WellFormed(e) /\ e.id = StartEventId /\ e.type = "StartRequested"
        /\ e.id \in EventIds
    BY <1>1, StartEventWellFormed
  <2>2. /\ Initialized /\ ~HasReceipt(e.id) /\ Accepts(conversation, e)
        /\ WriteTransition(conversation.revision, e) /\ UNCHANGED now
        /\ Answer(r, "start_requested") /\ UNCHANGED examRows
    BY <1>4 DEF StartApplied, ApplyEvent, IsApplied
  <2>. HIDE DEF e
  <2>3. StoreMoves /\ Happened("StartRequested")'
    BY <1>1, <2>1, <2>2, WriteMoves
  <2>. QED
    BY <2>2, <2>3, RowsStay, AnswerMoves DEF WorldMoves, Answers
<1>5. CASE StartDuplicate(r)
  <2>1. /\ Initialized /\ HasReceipt(StartEventId)
        /\ UNCHANGED <<now, conversation, receipts, winners>>
        /\ alarm' = DeadlineForState(conversation)
        /\ Answer(r, "already_starting") /\ UNCHANGED examRows
    BY <1>1, <1>5, StartEventWellFormed
    DEF StartDuplicate, ApplyDuplicate, IsDuplicate, ReconcileAlarm
  <2>2. IInv'
    BY <1>1, <2>1, RearmCovers, KeepsInvariant
  <2>3. StoreMoves
    BY <1>1, <2>1, <2>2, RearmMoves
  <2>4. Happened("StartRequested")'
    BY <1>1, <2>1 DEF HasReceipt, StartHasCause, Happened
  <2>. QED
    BY <2>1, <2>3, <2>4, RowsStay, AnswerMoves DEF WorldMoves, Answers
<1>6. CASE StartRejected(r)
  <2>1. /\ old.pc = "applyStart" /\ UNCHANGED <<vars, examRows>>
        /\ Continue(r, "rereadState")
    BY <1>0, <1>6 DEF StartRejected, At
  <2>2. Initialized'
    BY <1>0, <2>1 DEF Knows, Initialized, vars, stored
  <2>3. PICK q : q = [old EXCEPT !.pc = "rereadState"]
    OBVIOUS
  <2>4. q.pc = "rereadState"
    BY <1>0, <2>3 DEF RequestRecords
  <2>5. Knows(q)'
    BY <2>2, <2>4 DEF Knows
  <2>. QED
    BY <1>0, <2>1, <2>3, <2>5, WorldStays, ContinueMoves DEF Calling
<1>. QED
  BY <1>2, <1>3, <1>4, <1>5, <1>6

-----------------------------------------------------------------------------
(***************************************************************************)
(* The invariant                                                           *)
(***************************************************************************)

LEMMA ExamInitEstablishes == ExamInit => ExamIInv
<1>. SUFFICES ASSUME ExamInit PROVE ExamIInv
  OBVIOUS
<1>1. IInv /\ receipts = {} /\ ~Initialized
  BY InitEstablishesInvariant DEF ExamInit, Init, Initialized
<1>2. 0 \in 0 .. QuestionCount /\ "idle" \in Calling /\ "none" \in Answers
  BY ExaminationAssumption DEF Calling, Answers
<1>3. Idle \in RequestRecords
  BY <1>2 DEF Idle, RequestRecords
<1>4. ExamTypeOK
  BY <1>3 DEF ExamInit, ExamTypeOK
<1>5. ASSUME NEW r \in Requests PROVE Knows(requests[r])
  <2>1. requests[r] = Idle
    BY DEF ExamInit
  <2>2. Idle.pc = "idle" /\ Idle.answer = "none"
    BY DEF Idle
  <2>. QED
    BY <2>1, <2>2 DEF Knows
<1>6. ProgressMatchesCompletions /\ SessionHasConversation
  BY DEF ExamInit, ProgressMatchesCompletions, SessionHasConversation
<1>7. StartHasCause
  BY <1>1 DEF StartHasCause
<1>. QED
  BY <1>1, <1>4, <1>5, <1>6, <1>7 DEF ExamIInv

(* Every request, failed call and other caller of the conversation keeps   *)
(* the invariant.                                                          *)
LEMMA ConversationKeeps ==
    ASSUME ExamIInv, [Next]_vars, UNCHANGED <<examRows, requests>>
    PROVE  ExamIInv'
<1>1. WorldMoves
  BY NextMoves, RowsStay DEF ExamIInv, WorldMoves
<1>2. ExamTypeOK'
  BY <1>1 DEF ExamIInv, ExamTypeOK, WorldMoves, RowsMove
<1>3. ASSUME NEW p \in Requests PROVE Knows(requests[p])'
  <2>1. PICK old : old = requests[p] /\ requests'[p] = old
    OBVIOUS
  <2>2. Knows(old)
    BY <2>1 DEF ExamIInv, Knows, RowIsPast, Happened
  <2>3. Knows(old)'
    BY <1>1, <2>2, KnowledgeKept DEF ExamIInv
  <2>. QED
    BY <2>1, <2>3 DEF Knows, RowIsPast, Happened
<1>. QED
  BY <1>1, <1>2, <1>3 DEF ExamIInv, WorldMoves, StoreMoves, RowsMove

LEMMA ExamNextKeeps == ExamIInv /\ [ExamNext]_examVars => ExamIInv'
<1>. SUFFICES ASSUME ExamIInv, [ExamNext]_examVars PROVE ExamIInv'
  OBVIOUS
<1>1. ASSUME NEW r \in Requests, RequestStep(r)
      PROVE  ExamIInv'
  <2>1. CASE CallFails(r)
    BY <2>1, PlainAnswerKeeps DEF CallFails, Answers
  <2>. QED
    BY <1>1, <2>1, CatalogKeeps, CreateKeeps, SessionKeeps, OwnerKeeps,
       QuestionKeeps, StartKeeps
    DEF RequestStep
<1>2. ASSUME NEW r \in Requests, ReceiveAny(r)
      PROVE  ExamIInv'
  <2>1. 0 \in 0 .. QuestionCount /\ Ordinals \subseteq 0 .. QuestionCount
    BY ExaminationAssumption DEF Ordinals
  <2>2. "completeQuestion" \in Kinds
    BY DEF Kinds, QuestionKinds
  <2>. QED
    BY <1>2, <2>1, <2>2, ReceiveKeeps DEF ReceiveAny
<1>3. CASE ConversationMoves
  BY <1>3, ConversationKeeps DEF ConversationMoves
<1>4. CASE UNCHANGED examVars
  BY <1>4, ConversationKeeps DEF examVars
<1>. QED
  BY <1>1, <1>2, <1>3, <1>4 DEF ExamNext

(* The invariant holds in every reachable state.                           *)
THEOREM ExaminationInvariance == ExamSpec => []ExamIInv
<1>. QED
  BY ExamInitEstablishes, ExamNextKeeps, PTL DEF ExamSpec

-----------------------------------------------------------------------------
(***************************************************************************)
(* What follows from it                                                    *)
(***************************************************************************)

(* The session row and the completion rows always tell the same progress,  *)
(* whatever requests race.                                                 *)
THEOREM RowsAgree == ExamSpec => []ProgressMatchesCompletions
<1>1. ExamIInv => ProgressMatchesCompletions
  BY DEF ExamIInv
<1>. QED
  BY <1>1, ExaminationInvariance, PTL

(* A session row always has its conversation in the other store.           *)
THEOREM SessionsHaveConversations == ExamSpec => []SessionHasConversation
<1>1. ExamIInv => SessionHasConversation
  BY DEF ExamIInv
<1>. QED
  BY <1>1, ExaminationInvariance, PTL

LEMMA KnowledgeIsTruth ==
    ASSUME ExamIInv
    PROVE  AnswersStayTrue
<1>. SUFFICES ASSUME NEW r \in Requests, requests[r].pc = "idle"
              PROVE  /\ requests[r].answer \in {"session_created", "session_returned"} =>
                           session # None /\ session.user = requests[r].user
                     /\ requests[r].answer \in {"completed", "already_completed"} =>
                           /\ requests[r].question \in completions
                           /\ \/ session.state = "complete"
                              \/ session.ordinal # requests[r].question
                     /\ requests[r].answer \in {"start_requested", "already_starting"} =>
                           Happened("StartRequested")
  BY DEF AnswersStayTrue
<1>1. Knows(requests[r])
  BY DEF ExamIInv
<1>2. ASSUME requests[r].question \in completions
      PROVE  session.state = "complete" \/ session.ordinal # requests[r].question
  <2>1. session # None
    BY <1>2 DEF ExamIInv, ProgressMatchesCompletions
  <2>2. session.ordinal \in Nat
    BY <2>1, SessionType DEF ExamIInv
  <2>. QED
    BY <1>2, <2>1, <2>2 DEF ExamIInv, ProgressMatchesCompletions
<1>. QED
  BY <1>1, <1>2 DEF Knows

(* Nothing that happens later makes an answer untrue.                      *)
THEOREM AnswersAreKept == ExamSpec => []AnswersStayTrue
BY ExaminationInvariance, KnowledgeIsTruth, PTL

-----------------------------------------------------------------------------
(***************************************************************************)
(* The ledger                                                              *)
(***************************************************************************)

LEMMA LedgerInit == ExamInit => Ledger!Init
BY DEF ExamInit, Ledger!Init

(* Only a committed completion changes what the ledger shows.              *)
LEMMA LedgerStep ==
    ASSUME ExamIInv, [ExamNext]_examVars
    PROVE  [Ledger!Next]_<<completions, session # None /\ session.state = "complete">>
<1>1. CASE UNCHANGED <<session, completions>>
  BY <1>1
<1>2. ASSUME NEW r \in Requests, InsertSession(r)
      PROVE  UNCHANGED <<completions, session # None /\ session.state = "complete">>
  <2>1. NewSession(requests[r].user).state = "in_progress"
    BY DEF NewSession
  <2>. QED
    BY <1>2, <2>1 DEF InsertSession
<1>3. ASSUME NEW r \in Requests, BatchCommits(r) \/ BatchAnswerLost(r)
      PROVE  Ledger!Next
  <2>1. PICK n : n = requests[r].question
    OBVIOUS
  <2>2. /\ completions = 1 .. n - 1 /\ completions' = 1 .. n
        /\ n \in 1 .. QuestionCount /\ session' # None
        /\ session'.state = "complete" <=> n = QuestionCount
    BY <1>3, <2>1, WriteCompletionMoves DEF BatchCommits, BatchAnswerLost, Ordinals
  <2>3. Ledger!CompleteQuestion(n)
    BY <2>2 DEF Ledger!CompleteQuestion
  <2>. QED
    BY <2>2, <2>3 DEF Ledger!Next
<1>4. ASSUME NEW r \in Requests, RequestStep(r), ~InsertSession(r),
             ~BatchCommits(r), ~BatchAnswerLost(r)
      PROVE  UNCHANGED <<session, completions>>
  BY <1>4
  DEF RequestStep, examRows, InsertCourse, GetCourse, FindCourse, InsertExamination,
      GetExamination, FindExamination, CreateForKey, InitializeConversation,
      ReadSession, OwnedSession, GetSession, CurrentQuestion, ReadRow, ReadCompletion,
      BatchFails, ReadRepeated, ReadLatest, GetState, ReadState, StartApplied,
      StartDuplicate, StartRejected, RereadState, CallFails
<1>5. CASE ConversationMoves \/ UNCHANGED examVars
           \/ \E r \in Requests : ReceiveAny(r)
  BY <1>1, <1>5 DEF ConversationMoves, examVars, examRows, ReceiveAny, Receive
<1>. QED
  BY <1>1, <1>2, <1>3, <1>4, <1>5 DEF ExamNext

(* The session implements the ledger: each question once, in order.        *)
THEOREM LedgerIsImplemented == ExamSpec => ImplementsLedger
<1>1. ExamIInv /\ [ExamNext]_examVars =>
        [Ledger!Next]_<<completions, session # None /\ session.state = "complete">>
  BY LedgerStep
<1>. QED
  BY <1>1, LedgerInit, ExaminationInvariance, PTL
  DEF ExamSpec, ImplementsLedger, Ledger!Spec
=============================================================================
