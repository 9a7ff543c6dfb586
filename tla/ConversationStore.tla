------------------------- MODULE ConversationStore -------------------------
(***************************************************************************)
(* One ConversationSession Durable Object: the persisted conversation, the *)
(* transition receipts, the single storage alarm and the handler that runs *)
(* when it fires.                                                          *)
(*   src/src/durable-object/conversation-aggregate-store.ts                *)
(*   src/src/durable-object/conversation-alarm-runner.ts                   *)
(*   src/src/durable-object/conversation-session.ts                        *)
(*                                                                         *)
(* Every RPC and every alarm invocation is one storage transaction, so     *)
(* each is one step.  Callers are arbitrary: any of them may send any      *)
(* event of Calls at any time, any number of times, with any revision it   *)
(* has ever seen.  That covers lost, delayed, repeated and reordered       *)
(* requests.  A rejected command writes nothing and is a stuttering step.  *)
(***************************************************************************)
EXTENDS ConversationFSM

CONSTANTS
    Calls,              \* the events callers may send, without a deadline
    Leads,              \* how far ahead of the clock a caller sets a deadline
    EventIds,           \* event ids callers make up
    AlarmGrace,         \* ALARM_SHUTDOWN_GRACE_MS
    AlarmRetryDelay,    \* ALARM_RETRY_DELAY_MS
    MaxTime             \* the clock stops here: it stands for every later time

Call == [type          : CallerEventTypes,
         id            : EventIds,
         epoch         : Nat,
         recordingId   : RecordingIds \cup {None},
         expectedR2Key : R2Keys \cup {None}]

(* An object without a snapshot holds None; alarm event ids carry a prefix *)
(* no caller uses.                                                         *)
ASSUME StoreAssumption ==
    /\ None \notin Conversations
    /\ \A call \in Calls :
        /\ call \in Call
        /\ call.type \in NeedsRecording => call.recordingId # None
    /\ Leads \subseteq Nat
    /\ \A id \in EventIds : id \notin Tags \X Nat \X Nat
    /\ AlarmGrace \in Nat
    /\ AlarmRetryDelay \in Nat
    /\ MaxTime \in Nat

VARIABLES
    now,            \* the clock (Date.now())
    conversation,   \* the persisted snapshot, None before initialize
    receipts,       \* the persisted transition receipts
    alarm,          \* when the storage alarm fires, None when there is none
    (* Observed, not stored: which command won which revision.             *)
    winners         \* {[expectedRevision, eventId]} of the applied commands

stored == <<conversation, receipts, alarm>>
vars   == <<now, stored, winners>>

AlarmIds == Tags \X Nat \X Nat

Receipts ==
    [eventId        : EventIds \cup AlarmIds,
     eventType      : EventTypes,
     sourceState    : Tags,
     targetState    : Tags,
     sourceRevision : Nat,
     targetRevision : Nat]

-----------------------------------------------------------------------------
(***************************************************************************)
(* Helpers                                                                 *)
(***************************************************************************)

TimeAfter(delay) == IF now + delay < MaxTime THEN now + delay ELSE MaxTime

Initialized == conversation # None

Active == Initialized /\ conversation.tag \in ActiveTags

(* A caller's event with its deadline, computed on the caller's clock; one *)
(* that is already past is as due as one that is due now.                  *)
LeadsOf(call) == IF call.type \in NeedsDeadline THEN Leads ELSE {0}

Stamped(call, lead) ==
    [type          |-> call.type,
     id            |-> call.id,
     epoch         |-> call.epoch,
     recordingId   |-> call.recordingId,
     expectedR2Key |-> call.expectedR2Key,
     deadlineAt    |-> TimeAfter(lead)]

HasReceipt(id) == \E r \in receipts : r.eventId = id

Receipt(e, source, target) ==
    [eventId        |-> e.id,
     eventType      |-> e.type,
     sourceState    |-> source.tag,
     targetState    |-> target.tag,
     sourceRevision |-> source.revision,
     targetRevision |-> target.revision]

(* setAlarm for the conversation's deadline, deleteAlarm when it has none. *)
ReconcileAlarm(c) == alarm' = DeadlineForState(c)

(* applyEventInTransaction: a known event id is a duplicate before         *)
(* anything else is looked at.                                             *)
IsDuplicate(e) == Initialized /\ HasReceipt(e.id)

(* Regression: the expected revision is not compared.                      *)
IsAppliedToAnyRevision(expectedRevision, e) ==
    Initialized /\ ~HasReceipt(e.id) /\ Accepts(conversation, e)

IsApplied(expectedRevision, e) ==
    /\ Initialized
    /\ ~HasReceipt(e.id)
    /\ expectedRevision = conversation.revision
    /\ Accepts(conversation, e)

(* Regression: an alarm that is set already is left as it is.              *)
WriteTransitionKeepsAlarm(expectedRevision, e) ==
    \E next \in {Transition(conversation, e)} :
        /\ conversation' = next
        /\ receipts' = receipts \cup {Receipt(e, conversation, next)}
        /\ IF alarm = None THEN ReconcileAlarm(next) ELSE UNCHANGED alarm
        /\ winners' = winners \cup {[expectedRevision |-> expectedRevision,
                                     eventId |-> e.id]}

WriteTransition(expectedRevision, e) ==
    \E next \in {Transition(conversation, e)} :
        /\ conversation' = next
        /\ receipts' = receipts \cup {Receipt(e, conversation, next)}
        /\ ReconcileAlarm(next)
        /\ winners' = winners \cup {[expectedRevision |-> expectedRevision,
                                     eventId |-> e.id]}

-----------------------------------------------------------------------------
(***************************************************************************)
(* RPCs                                                                    *)
(***************************************************************************)

(* Regression: initialize overwrites what is there.                        *)
InitializeOverwrites ==
    /\ conversation' = CreateConversation
    /\ ReconcileAlarm(CreateConversation)
    /\ UNCHANGED <<now, receipts, winners>>

Initialize ==
    /\ ~Initialized
    /\ conversation' = CreateConversation
    /\ ReconcileAlarm(CreateConversation)
    /\ UNCHANGED <<now, receipts, winners>>

(* initialize once more: status "existing".                                *)
InitializeAgain ==
    /\ Initialized
    /\ ReconcileAlarm(conversation)
    /\ UNCHANGED <<now, conversation, receipts, winners>>

ApplyEvent(expectedRevision, e) ==
    /\ IsApplied(expectedRevision, e)
    /\ WriteTransition(expectedRevision, e)
    /\ UNCHANGED now

ApplyDuplicate(e) ==
    /\ IsDuplicate(e)
    /\ ReconcileAlarm(conversation)
    /\ UNCHANGED <<now, conversation, receipts, winners>>

-----------------------------------------------------------------------------
(***************************************************************************)
(* The alarm handler.  The platform runs it at least once after the alarm  *)
(* is due, so it may also run again, early or late, once an alarm was ever *)
(* set; the handler decides from the persisted state and the clock.        *)
(***************************************************************************)

AlarmMayRun == Initialized /\ conversation.tag # "created"

AlarmDue == alarm # None /\ alarm <= now

Deadline == DeadlineForState(conversation)

AlarmFindsNoDeadline ==
    /\ AlarmMayRun
    /\ Deadline = None
    /\ alarm' = None
    /\ UNCHANGED <<now, conversation, receipts, winners>>

AlarmRunsEarly ==
    /\ AlarmMayRun
    /\ Deadline # None
    /\ now < Deadline
    /\ alarm' = Deadline
    /\ UNCHANGED <<now, conversation, receipts, winners>>

DeadlineExpired == AlarmMayRun /\ Deadline # None /\ Deadline <= now

AlarmEvent == DeadlineEvent(conversation, TimeAfter(AlarmGrace))

AlarmAppliesDeadline ==
    /\ DeadlineExpired
    /\ \E e \in {AlarmEvent} :
        /\ IsApplied(conversation.revision, e)
        /\ WriteTransition(conversation.revision, e)
    /\ UNCHANGED now

(* The runner's answer to a rejected transition: try again later.          *)
AlarmTransitionRejected ==
    /\ DeadlineExpired
    /\ ~HasReceipt(AlarmEvent.id)
    /\ ~Accepts(conversation, AlarmEvent)
    /\ alarm' = TimeAfter(AlarmRetryDelay)
    /\ UNCHANGED <<now, conversation, receipts, winners>>

(* The transaction throws and is rolled back: the runner tries again later.*)
AlarmFails ==
    /\ AlarmMayRun
    /\ alarm' = TimeAfter(AlarmRetryDelay)
    /\ UNCHANGED <<now, conversation, receipts, winners>>

RunAlarm ==
    \/ AlarmFindsNoDeadline
    \/ AlarmRunsEarly
    \/ AlarmAppliesDeadline
    \/ AlarmTransitionRejected

-----------------------------------------------------------------------------

Tick ==
    /\ now < MaxTime
    /\ now' = now + 1
    /\ UNCHANGED <<stored, winners>>

Init ==
    /\ now = 0
    /\ conversation = None
    /\ receipts = {}
    /\ alarm = None
    /\ winners = {}

SeenRevisions == IF Initialized THEN 0 .. conversation.revision ELSE {}

Next ==
    \/ Initialize
    \/ InitializeAgain
    \/ \E call \in Calls :
        \/ \E expectedRevision \in SeenRevisions, lead \in LeadsOf(call) :
            ApplyEvent(expectedRevision, Stamped(call, lead))
        \/ ApplyDuplicate(call)
    \/ RunAlarm
    \/ AlarmFails
    \/ Tick

Spec == Init /\ [][Next]_vars

(***************************************************************************)
(* Time passes, and the platform keeps running a due alarm until a run     *)
(* succeeds: an alarm whose handler keeps failing promises nothing.        *)
(* Callers owe nothing: they may all fall silent.                          *)
(***************************************************************************)
Fairness ==
    /\ WF_vars(Tick)
    /\ SF_vars(AlarmDue /\ RunAlarm)

FairSpec == Spec /\ Fairness

-----------------------------------------------------------------------------
(***************************************************************************)
(* Safety                                                                  *)
(***************************************************************************)

(* Every variable holds a value of its kind; the clock keeps its bound.    *)
TypeOK ==
    /\ now \in 0 .. MaxTime
    /\ conversation \in Conversations \cup {None}
    /\ receipts \subseteq Receipts
    /\ alarm \in MaybeTime
    /\ winners \subseteq [expectedRevision : Nat,
                         eventId : EventIds \cup AlarmIds]

(* No conversation is over while its realtime transport is still open: a   *)
(* terminal conversation's transport is closed or failed, unless it was    *)
(* cancelled before it ever started.                                       *)
NoOpenTransportAtTheEnd ==
    Initialized /\ conversation.tag \in TerminalTags =>
        \/ IsTransportTerminal(conversation.transport)
        \/ conversation.tag = "cancelled" /\ conversation.transport.status = "idle"

Happened(type) == \E r \in receipts : r.eventType = type

(* A completed conversation went live, asked for a recording upload, had   *)
(* the upload verified and saw its session close, whatever the order of    *)
(* those events was; and nothing completes without its recording.          *)
CompletedMeansRecorded ==
    Initialized /\ conversation.tag = "completed" =>
        /\ conversation.artifact.status = "ready"
        /\ conversation.artifact.recordingId # None
        /\ conversation.transport.status = "closed"
        /\ \A type \in {"SessionStarted", "RecordingUploadStarted",
                         "RecordingArtifactVerified", "SessionClosed"} :
              Happened(type)

(* A conversation that has started and is not over always has an alarm,    *)
(* armed no later than its earliest deadline or, after a failed run, no    *)
(* later than one retry delay from now: nobody waits forever.              *)
AlarmCoversDeadline ==
    Active =>
        /\ Deadline # None
        /\ alarm # None
        /\ alarm <= Deadline \/ alarm <= now + AlarmRetryDelay

(* The event the alarm builds from an unfinished conversation is always    *)
(* new and always legal there: deadline selection and the state machine,   *)
(* two functions in two files, agree on every reachable state.             *)
DeadlineEventAccepted ==
    Active =>
        /\ ~HasReceipt(AlarmEvent.id)
        /\ Accepts(conversation, AlarmEvent)

(* The receipts are the conversation's history: one for each revision, in  *)
(* an unbroken chain of tags from "created" to the present tag.            *)
ReceiptsAreHistory ==
    Initialized =>
        /\ \A n \in 0 .. conversation.revision - 1 :
              \E r \in receipts : r.sourceRevision = n
        /\ \A r \in receipts :
              /\ r.targetRevision = r.sourceRevision + 1
              /\ r.targetRevision <= conversation.revision
              /\ r.sourceRevision = 0 => r.sourceState = "created"
              /\ r.targetRevision = conversation.revision =>
                    r.targetState = conversation.tag
        /\ \A r, s \in receipts :
              /\ r.sourceRevision = s.sourceRevision => r = s
              /\ r.targetRevision = s.sourceRevision =>
                    r.targetState = s.sourceState

(* Of the commands sent with one expected revision at most one is ever     *)
(* applied, and no event is applied twice: a caller whose command was      *)
(* applied decided on the state it was applied to.                         *)
OneWinnerPerRevision ==
    \A v, w \in winners :
        v.expectedRevision = w.expectedRevision \/ v.eventId = w.eventId => v = w

-----------------------------------------------------------------------------
(***************************************************************************)
(* The inductive invariant behind the properties above                     *)
(***************************************************************************)

(* Each receipt records one step of the history; alarm ids carry the       *)
(* revision they were built from.                                          *)
ReceiptsFitRevision ==
    /\ conversation.revision = 0 => conversation.tag = "created"
    /\ \A r \in receipts :
        /\ r.sourceRevision < conversation.revision
        /\ r.eventId \in EventIds \/ r.eventId[2] = r.sourceRevision

WinnersHaveReceipts ==
    \A w \in winners : \E r \in receipts :
        r.eventId = w.eventId /\ r.sourceRevision = w.expectedRevision

ReceiptPerEvent ==
    \A r, s \in receipts : r.eventId = s.eventId => r = s

(* The state remembers which kinds of event brought it there.              *)
StateHasCause ==
    LET c == conversation
    IN  /\ c.tag = "live" \/ c.target = "complete" => Happened("SessionStarted")
        /\ c.artifact.status \in {"uploading", "ready"} =>
              Happened("RecordingUploadStarted")
        /\ c.artifact.status = "ready" => Happened("RecordingArtifactVerified")
        /\ c.transport.status = "closed" => Happened("SessionClosed")

IInv ==
    /\ TypeOK
    /\ ReceiptsAreHistory
    /\ WinnersHaveReceipts
    /\ ReceiptPerEvent
    /\ Initialized =>
        /\ Consistent(conversation)
        /\ ReceiptsFitRevision
        /\ StateHasCause
    /\ ~Initialized => receipts = {}
    /\ AlarmCoversDeadline

-----------------------------------------------------------------------------
(***************************************************************************)
(* Action properties                                                       *)
(***************************************************************************)

(* Once completed, cancelled or failed, nothing changes the conversation,  *)
(* not a late upload verification, nor a late alarm.                       *)
TerminalIsFinal ==
    [][Initialized /\ conversation.tag \in TerminalTags =>
        UNCHANGED conversation]_conversation

(* The 20 s recovery window runs from the first interruption: however many *)
(* more are reported, the deadline stays; only a new epoch ends it.        *)
RecoveryWindowNotExtended ==
    [][Initialized
       /\ conversation.transport.status = "reconnecting"
       /\ conversation'.transport.status = "reconnecting"
        => conversation'.transport = conversation.transport]_conversation

(* A conversation keeps the recording it first named: no event, failure or *)
(* restart of the upload moves it to another recording or to none.         *)
RecordingNeverSwapped ==
    [][Initialized /\ conversation.artifact.recordingId # None =>
        conversation'.artifact.recordingId =
            conversation.artifact.recordingId]_conversation

(* A shutdown that failed, or that cancels, never turns into a completion, *)
(* even when the missing upload arrives after all.                         *)
IntentNeverUpgraded ==
    [][Initialized /\ conversation.tag = "ending"
       /\ conversation.target \in {"cancel", "fail"} =>
        /\ conversation'.target \in {conversation.target, "fail"}
        /\ conversation'.tag # "completed"]_conversation

-----------------------------------------------------------------------------
(***************************************************************************)
(* The abstract lifecycle this object implements                           *)
(***************************************************************************)

SessionIn(transport) ==
    CASE transport.status = "idle"        -> "none"
      [] IsTransportTerminal(transport)   -> "over"
      [] OTHER                            -> "open"

RecordingIn(artifact) ==
    CASE artifact.status = "pending" -> "none"
      [] artifact.status = "ready"   -> "stored"
      [] artifact.status = "failed"  -> "lost"
      [] OTHER                       -> "held"

PhaseOf     == IF Initialized THEN conversation.tag ELSE "absent"
SessionOf   == IF Initialized THEN SessionIn(conversation.transport) ELSE "none"
RecordingOf == IF Initialized THEN RecordingIn(conversation.artifact) ELSE "none"
IntentOf    == IF Initialized THEN conversation.target ELSE "none"

Lifecycle ==
    INSTANCE ConversationLifecycle WITH
        phase <- PhaseOf, session <- SessionOf,
        recording <- RecordingOf, intent <- IntentOf

(* Every step of the Durable Object is a step of the lifecycle its users   *)
(* were promised, or changes nothing they can see.                         *)
ImplementsLifecycle == Lifecycle!Spec

-----------------------------------------------------------------------------
(***************************************************************************)
(* Liveness                                                                *)
(***************************************************************************)

(* A conversation that was started ends, even if no caller is ever heard   *)
(* of again.                                                               *)
StartedConversationEnds ==
    Active ~> (Initialized /\ conversation.tag \in TerminalTags)

-----------------------------------------------------------------------------
(***************************************************************************)
(* What the repository says that the code does not do                      *)
(***************************************************************************)

(* test/conversation-deadlines.test.ts: "has no deadline for terminal      *)
(* states".  A failed conversation may keep an artifact that is uploading, *)
(* and with it a deadline whose event no terminal state accepts.           *)
TerminalHasNoDeadline ==
    Initialized /\ conversation.tag \in TerminalTags => Deadline = None

(* docs/conversation_fsm.mmd, "Required recording artifact": the only      *)
(* arrow into uploading leaves recording, and ready is final.              *)
ArtifactFollowsDiagram ==
    [][Initialized =>
        LET from == conversation.artifact.status
            to   == conversation'.artifact.status
        IN  from # to =>
              <<from, to>> \in
                {<<"pending", "recording">>, <<"recording", "uploading">>,
                 <<"uploading", "ready">>, <<"pending", "failed">>,
                 <<"recording", "failed">>, <<"uploading", "failed">>}
       ]_conversation
=============================================================================
