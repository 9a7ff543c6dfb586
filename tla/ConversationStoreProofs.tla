---------------------- MODULE ConversationStoreProofs ----------------------
(***************************************************************************)
(* Proofs about ConversationStore: the inductive invariant IInv and what   *)
(* follows from it, for every set of calls, every number of revisions and  *)
(* every clock bound.                                                      *)
(***************************************************************************)
EXTENDS ConversationStore, ConversationFSMProofs

-----------------------------------------------------------------------------
(***************************************************************************)
(* Events                                                                  *)
(***************************************************************************)

LEMMA TimeAfterType ==
    ASSUME now \in 0 .. MaxTime, NEW delay \in Nat
    PROVE  TimeAfter(delay) \in 0 .. MaxTime /\ TimeAfter(delay) <= now + delay
BY StoreAssumption DEF TimeAfter

(* What a caller sends has the shape its type asks for.                    *)
LEMMA StampedWellFormed ==
    ASSUME now \in 0 .. MaxTime, NEW call \in Calls, NEW lead \in LeadsOf(call)
    PROVE  /\ WellFormed(Stamped(call, lead))
           /\ Stamped(call, lead).id = call.id
           /\ call.id \in EventIds
<1>1. call \in Call /\ (call.type \in NeedsRecording => call.recordingId # None)
  BY StoreAssumption
<1>2. lead \in Nat
  BY StoreAssumption DEF LeadsOf
<1>3. TimeAfter(lead) \in Nat
  BY <1>2, TimeAfterType, StoreAssumption
<1>4. TimeAfter(lead) \in MaybeTime /\ TimeAfter(lead) # None
  BY <1>3, NoneAssumption DEF MaybeTime
<1>. QED
  BY <1>1, <1>4 DEF WellFormed, Stamped, Call, EventTypes

-----------------------------------------------------------------------------
(***************************************************************************)
(* The two kinds of steps: those that leave the conversation and its       *)
(* receipts alone, and those that apply an event                           *)
(***************************************************************************)

LEMMA KeepsInvariant ==
    ASSUME IInv, UNCHANGED <<conversation, receipts, winners>>,
           now' \in 0 .. MaxTime, alarm' \in MaybeTime, AlarmCoversDeadline'
    PROVE  IInv'
<1>1. TypeOK'
  BY DEF IInv, TypeOK
<1>2. ReceiptsAreHistory' /\ WinnersHaveReceipts' /\ ReceiptPerEvent'
  BY DEF IInv, ReceiptsAreHistory, WinnersHaveReceipts, ReceiptPerEvent, Initialized
<1>3. Initialized' => Consistent(conversation') /\ ReceiptsFitRevision' /\ StateHasCause'
  BY DEF IInv, Initialized, ReceiptsFitRevision, StateHasCause, Happened
<1>4. ~Initialized' => receipts' = {}
  BY DEF IInv, Initialized
<1>. QED
  BY <1>1, <1>2, <1>3, <1>4 DEF IInv

(* Rearming the alarm for the deadline, or for a retry, covers it.         *)
LEMMA RearmCovers ==
    ASSUME IInv, UNCHANGED <<now, conversation>>,
           \/ Initialized /\ alarm' = DeadlineForState(conversation)
           \/ alarm' = TimeAfter(AlarmRetryDelay)
    PROVE  alarm' \in MaybeTime /\ AlarmCoversDeadline'
<1>1. now \in 0 .. MaxTime /\ conversation \in Conversations \cup {None}
  BY DEF IInv, TypeOK
<1>2. Initialized => conversation \in Conversations /\ Consistent(conversation)
  BY <1>1 DEF IInv, Initialized
<1>3. Active => DeadlineForState(conversation) \in Nat
  BY <1>2, ActiveHasDeadline DEF Active
<1>4. Active' = Active /\ Deadline' = Deadline
  BY DEF Active, Initialized, Deadline
<1>5. CASE Initialized /\ alarm' = DeadlineForState(conversation)
  <2>1. alarm' \in MaybeTime
    BY <1>2, <1>5, DeadlineType
  <2>. QED
    BY <1>3, <1>4, <1>5, <2>1, NoneAssumption DEF AlarmCoversDeadline, Deadline
<1>6. CASE alarm' = TimeAfter(AlarmRetryDelay)
  <2>1. alarm' \in 0 .. MaxTime /\ alarm' <= now + AlarmRetryDelay
    BY <1>1, <1>6, TimeAfterType, StoreAssumption
  <2>2. alarm' \in Nat
    BY <2>1, StoreAssumption
  <2>. QED
    BY <1>3, <1>4, <2>1, <2>2, NoneAssumption
    DEF AlarmCoversDeadline, Deadline, MaybeTime
<1>. QED
  BY <1>5, <1>6

(* Applying an event: a caller's under its own id, or the alarm's under an *)
(* id that carries the revision.                                           *)
LEMMA WriteKeepsInvariant ==
    ASSUME IInv, Initialized, NEW e, WellFormed(e),
           e.id \in EventIds \/ (e.id \in AlarmIds /\ e.id[2] = conversation.revision),
           ~HasReceipt(e.id), Accepts(conversation, e),
           WriteTransition(conversation.revision, e), UNCHANGED now
    PROVE  IInv'
<1>. DEFINE c == conversation
            d == Transition(c, e)
            receipt == Receipt(e, c, d)
            winner == [expectedRevision |-> c.revision, eventId |-> e.id]
<1>1. /\ c \in Conversations /\ Consistent(c)
      /\ now \in 0 .. MaxTime /\ receipts \subseteq Receipts
      /\ winners \subseteq [expectedRevision : Nat, eventId : EventIds \cup AlarmIds]
  BY DEF IInv, Initialized, TypeOK
<1>2. d \in Conversations /\ Consistent(d) /\ d.revision = c.revision + 1
  BY <1>1, TransitionConsistent DEF Preserved
<1>3. /\ conversation' = d
      /\ receipts' = receipts \cup {receipt}
      /\ winners' = winners \cup {winner}
      /\ alarm' = DeadlineForState(d)
  BY DEF WriteTransition, ReconcileAlarm
<1>4. Initialized'
  <2>1. None \notin Conversations
    BY StoreAssumption
  <2>. QED
    BY <1>2, <1>3, <2>1 DEF Initialized
<1>5. /\ receipt.eventId = e.id /\ receipt.eventType = e.type
      /\ receipt.sourceState = c.tag /\ receipt.targetState = d.tag
      /\ receipt.sourceRevision = c.revision
      /\ receipt.targetRevision = d.revision
      /\ receipt \in Receipts
  <2>1. /\ c.tag \in Tags /\ d.tag \in Tags /\ c.revision \in Nat /\ d.revision \in Nat
    BY <1>1, <1>2 DEF Conversations
  <2>. QED
    BY <2>1 DEF Receipt, Receipts, WellFormed
<1>6. TypeOK'
  <2>1. alarm' \in MaybeTime
    BY <1>2, <1>3, DeadlineType
  <2>2. winner \in [expectedRevision : Nat, eventId : EventIds \cup AlarmIds]
    BY <1>1 DEF Conversations
  <2>. QED
    BY <1>1, <1>2, <1>3, <1>5, <2>1, <2>2 DEF TypeOK
<1>7. ReceiptsFitRevision /\ ReceiptsAreHistory /\ ReceiptPerEvent /\ WinnersHaveReceipts
  BY DEF IInv
<1>a. c.revision \in Nat /\ (\A r \in receipts : r.sourceRevision \in Nat
                                               /\ r.targetRevision \in Nat)
  BY <1>1 DEF Conversations, Receipts
<1>. HIDE DEF d, receipt, winner
<1>8. ReceiptsAreHistory'
  <2>1. ASSUME NEW n \in 0 .. d.revision - 1
        PROVE  \E r \in receipts' : r.sourceRevision = n
    <3>1. CASE n = c.revision
      BY <1>3, <1>5, <3>1
    <3>2. CASE n # c.revision
      <4>1. n \in 0 .. c.revision - 1
        BY <1>2, <1>a, <3>2
      <4>. QED
        BY <1>3, <1>7, <4>1 DEF ReceiptsAreHistory
    <3>. QED
      BY <3>1, <3>2
  <2>2. ASSUME NEW r \in receipts'
        PROVE  /\ r.targetRevision = r.sourceRevision + 1
               /\ r.targetRevision <= d.revision
               /\ r.sourceRevision = 0 => r.sourceState = "created"
               /\ r.targetRevision = d.revision => r.targetState = d.tag
    <3>1. CASE r = receipt
      BY <1>2, <1>5, <1>7, <1>a, <3>1 DEF ReceiptsFitRevision
    <3>2. CASE r \in receipts
      BY <1>2, <1>7, <1>a, <3>2 DEF ReceiptsAreHistory
    <3>. QED
      BY <1>3, <3>1, <3>2
  <2>3. ASSUME NEW r \in receipts', NEW s \in receipts'
        PROVE  /\ r.sourceRevision = s.sourceRevision => r = s
               /\ r.targetRevision = s.sourceRevision => r.targetState = s.sourceState
    <3>1. CASE r \in receipts /\ s \in receipts
      BY <1>7, <3>1 DEF ReceiptsAreHistory
    <3>2. CASE r = receipt /\ s \in receipts
      <4>1. s.sourceRevision < c.revision
        BY <1>7, <3>2 DEF ReceiptsFitRevision
      <4>. QED
        BY <1>2, <1>5, <1>a, <3>2, <4>1
    <3>3. CASE r \in receipts /\ s = receipt
      <4>1. r.sourceRevision < c.revision
        BY <1>7, <3>3 DEF ReceiptsFitRevision
      <4>2. r.targetRevision = c.revision => r.targetState = c.tag
        BY <1>7, <3>3 DEF ReceiptsAreHistory
      <4>. QED
        BY <1>5, <1>a, <3>3, <4>1, <4>2
    <3>4. CASE r = receipt /\ s = receipt
      BY <1>2, <1>5, <1>a, <3>4
    <3>. QED
      BY <1>3, <3>1, <3>2, <3>3, <3>4
  <2>. QED
    BY <1>3, <2>1, <2>2, <2>3 DEF ReceiptsAreHistory
<1>9. WinnersHaveReceipts'
  <2>1. winner.eventId = e.id /\ winner.expectedRevision = c.revision
    BY DEF winner
  <2>. QED
    BY <1>3, <1>5, <1>7, <2>1 DEF WinnersHaveReceipts
<1>10. ReceiptPerEvent'
  BY <1>3, <1>5, <1>7 DEF ReceiptPerEvent, HasReceipt
<1>11. ReceiptsFitRevision'
  <2>1. ASSUME NEW r \in receipts'
        PROVE  /\ r.sourceRevision < d.revision
               /\ r.eventId \in EventIds \/ r.eventId[2] = r.sourceRevision
    <3>1. CASE r = receipt
      BY <1>2, <1>5, <1>a, <3>1
    <3>2. CASE r \in receipts
      BY <1>2, <1>7, <1>a, <3>2 DEF ReceiptsFitRevision
    <3>. QED
      BY <1>3, <3>1, <3>2
  <2>2. d.revision # 0
    BY <1>2, <1>a
  <2>. QED
    BY <1>3, <2>1, <2>2 DEF ReceiptsFitRevision
<1>12. StateHasCause'
  <2>1. StateHasCause
    BY DEF IInv
  <2>2. ASSUME NEW type
        PROVE  Happened(type)' <=> Happened(type) \/ e.type = type
    BY <1>3, <1>5 DEF Happened
  <2>3. /\ d.tag = "live" => c.tag = "live" \/ e.type = "SessionStarted"
        /\ d.target = "complete" => c.target = "complete" \/ c.tag = "live"
        /\ d.artifact.status \in {"uploading", "ready"} =>
             \/ c.artifact.status \in {"uploading", "ready"}
             \/ e.type = "RecordingUploadStarted"
        /\ d.artifact.status = "ready" =>
             \/ c.artifact.status = "ready"
             \/ e.type = "RecordingArtifactVerified"
        /\ d.transport.status = "closed" =>
             c.transport.status = "closed" \/ e.type = "SessionClosed"
    BY <1>1, TransitionCauses DEF d
  <2>. QED
    BY <1>3, <2>1, <2>2, <2>3 DEF StateHasCause
<1>13. AlarmCoversDeadline'
  <2>1. Active' => d.tag \in ActiveTags
    BY <1>3 DEF Active
  <2>2. Active' => DeadlineForState(d) \in Nat
    BY <1>2, <2>1, ActiveHasDeadline
  <2>. QED
    BY <1>3, <2>2, NoneAssumption DEF AlarmCoversDeadline, Deadline
<1>. QED
  BY <1>2, <1>3, <1>4, <1>6, <1>8, <1>9, <1>10, <1>11, <1>12, <1>13 DEF IInv

-----------------------------------------------------------------------------
(***************************************************************************)
(* The invariant                                                           *)
(***************************************************************************)

LEMMA CreatedConsistent ==
    /\ CreateConversation \in Conversations
    /\ Consistent(CreateConversation)
    /\ CreateConversation.tag = "created" /\ CreateConversation.revision = 0
    /\ CreateConversation.target = "none"
    /\ CreateConversation.transport.status = "idle"
    /\ CreateConversation.artifact.status = "pending"
<1>1. Transport("idle", 0) \in Transports /\ Transport("idle", 0).status = "idle"
  BY TransportType
<1>2. /\ Artifact("pending", None, None) \in Artifacts
      /\ Artifact("pending", None, None).status = "pending"
      /\ Artifact("pending", None, None).recordingId = None
  BY ArtifactType
<1>3. CreateConversation \in Conversations
  BY <1>1, <1>2 DEF CreateConversation, Conversations, Tags, MaybeTime, Targets, Stages
<1>4. /\ CreateConversation.tag = "created" /\ CreateConversation.revision = 0
      /\ CreateConversation.target = "none"
      /\ CreateConversation.transport = Transport("idle", 0)
      /\ CreateConversation.artifact = Artifact("pending", None, None)
  BY DEF CreateConversation
<1>5. Consistent(CreateConversation)
  BY <1>1, <1>2, <1>4 DEF Consistent, ConsistentTag, ConsistentParts
<1>. QED
  BY <1>1, <1>2, <1>3, <1>4, <1>5

LEMMA InitEstablishesInvariant == Init => IInv
BY StoreAssumption
DEF Init, IInv, TypeOK, ReceiptsAreHistory, WinnersHaveReceipts, ReceiptPerEvent,
    AlarmCoversDeadline, Active, Initialized, MaybeTime

LEMMA InitializeKeepsInvariant == IInv /\ Initialize => IInv'
<1>. SUFFICES ASSUME IInv, Initialize PROVE IInv'
  OBVIOUS
<1>1. /\ receipts = {} /\ receipts' = {} /\ winners' = winners /\ now' = now
      /\ conversation' = CreateConversation
      /\ alarm' = DeadlineForState(CreateConversation)
  BY DEF IInv, Initialize, ReconcileAlarm
<1>2. winners' = {}
  BY <1>1 DEF IInv, WinnersHaveReceipts
<1>3. TypeOK'
  BY <1>1, <1>2, CreatedConsistent, DeadlineType DEF IInv, TypeOK
<1>4. Consistent(conversation') /\ ReceiptsFitRevision' /\ StateHasCause'
  BY <1>1, CreatedConsistent DEF ReceiptsFitRevision, StateHasCause
<1>5. ReceiptsAreHistory' /\ WinnersHaveReceipts' /\ ReceiptPerEvent'
  BY <1>1, <1>2, CreatedConsistent
  DEF ReceiptsAreHistory, WinnersHaveReceipts, ReceiptPerEvent
<1>6. AlarmCoversDeadline'
  BY <1>1, CreatedConsistent DEF AlarmCoversDeadline, Active, ActiveTags
<1>. QED
  BY <1>1, <1>3, <1>4, <1>5, <1>6 DEF IInv

LEMMA ApplyEventKeepsInvariant ==
    ASSUME IInv, NEW call \in Calls, NEW lead \in LeadsOf(call),
           NEW expectedRevision, ApplyEvent(expectedRevision, Stamped(call, lead))
    PROVE  IInv'
<1>. DEFINE e == Stamped(call, lead)
<1>1. now \in 0 .. MaxTime
  BY DEF IInv, TypeOK
<1>2. WellFormed(e) /\ e.id \in EventIds
  BY <1>1, StampedWellFormed
<1>3. /\ Initialized /\ ~HasReceipt(e.id)
      /\ expectedRevision = conversation.revision
      /\ Accepts(conversation, e)
      /\ WriteTransition(expectedRevision, e) /\ UNCHANGED now
  BY DEF ApplyEvent, IsApplied
<1>. HIDE DEF e
<1>. QED
  BY <1>2, <1>3, WriteKeepsInvariant

(* Where an alarm's event is accepted, the conversation is unfinished, so  *)
(* the event is the one its deadline asks for.                             *)
LEMMA AlarmAppliesDeadlineKeepsInvariant ==
    ASSUME IInv, AlarmAppliesDeadline
    PROVE  IInv'
<1>. DEFINE e == AlarmEvent
<1>1. /\ Initialized /\ conversation.tag # "created" /\ now \in 0 .. MaxTime
      /\ ~HasReceipt(e.id) /\ Accepts(conversation, e)
      /\ WriteTransition(conversation.revision, e) /\ UNCHANGED now
  BY DEF AlarmAppliesDeadline, DeadlineExpired, AlarmMayRun, IsApplied, IInv, TypeOK
<1>2. conversation \in Conversations /\ Consistent(conversation)
  BY <1>1 DEF IInv, TypeOK, Initialized
<1>3. conversation.tag \in ActiveTags
  BY <1>1, <1>2
  DEF Accepts, Outcome, AllowedEvents, Conversations, Tags, ActiveTags
<1>4. TimeAfter(AlarmGrace) \in Nat
  BY <1>1, TimeAfterType, StoreAssumption
<1>5. WellFormed(e)
  BY <1>2, <1>3, <1>4, DeadlineEventIsAccepted DEF AlarmEvent
<1>6. e.id \in AlarmIds /\ e.id[2] = conversation.revision
  <2>1. DeadlineForState(conversation) \in Nat
    BY <1>2, <1>3, ActiveHasDeadline
  <2>2. e.id = <<conversation.tag, conversation.revision,
                 DeadlineForState(conversation)>>
    BY DEF AlarmEvent, DeadlineEvent, AlarmEventId
  <2>. QED
    BY <1>2, <2>1, <2>2 DEF AlarmIds, Conversations
<1>. HIDE DEF e
<1>. QED
  BY <1>1, <1>5, <1>6, WriteKeepsInvariant

LEMMA AlarmCoversType ==
    ASSUME IInv
    PROVE  /\ now \in 0 .. MaxTime /\ alarm \in MaybeTime
           /\ Initialized => conversation \in Conversations /\ Consistent(conversation)
           /\ Active => DeadlineForState(conversation) \in Nat /\ alarm \in Nat
<1>1. /\ now \in 0 .. MaxTime /\ alarm \in MaybeTime
      /\ Initialized => conversation \in Conversations /\ Consistent(conversation)
  BY DEF IInv, TypeOK, Initialized
<1>2. Active => DeadlineForState(conversation) \in Nat
  BY <1>1, ActiveHasDeadline DEF Active
<1>3. Active => alarm \in Nat
  BY <1>1 DEF IInv, AlarmCoversDeadline, MaybeTime
<1>. QED
  BY <1>1, <1>2, <1>3

LEMMA NextKeepsInvariant == IInv /\ [Next]_vars => IInv'
<1>. SUFFICES ASSUME IInv, [Next]_vars PROVE IInv'
  OBVIOUS
<1>0. /\ now \in 0 .. MaxTime /\ alarm \in MaybeTime
      /\ Initialized => conversation \in Conversations /\ Consistent(conversation)
      /\ Active => DeadlineForState(conversation) \in Nat /\ alarm \in Nat
  BY AlarmCoversType
<1>1. CASE Initialize
  BY <1>1, InitializeKeepsInvariant
<1>2. CASE InitializeAgain
  <2>1. /\ UNCHANGED <<now, conversation, receipts, winners>>
        /\ Initialized /\ alarm' = DeadlineForState(conversation)
    BY <1>2 DEF InitializeAgain, ReconcileAlarm
  <2>. QED
    BY <1>0, <2>1, RearmCovers, KeepsInvariant
<1>3. ASSUME NEW call \in Calls, NEW expectedRevision \in SeenRevisions,
             NEW lead \in LeadsOf(call),
             ApplyEvent(expectedRevision, Stamped(call, lead))
      PROVE  IInv'
  BY <1>3, ApplyEventKeepsInvariant
<1>4. ASSUME NEW call \in Calls, ApplyDuplicate(call)
      PROVE  IInv'
  <2>1. /\ UNCHANGED <<now, conversation, receipts, winners>>
        /\ Initialized /\ alarm' = DeadlineForState(conversation)
    BY <1>4 DEF ApplyDuplicate, IsDuplicate, ReconcileAlarm
  <2>. QED
    BY <1>0, <2>1, RearmCovers, KeepsInvariant
<1>5. CASE AlarmFindsNoDeadline
  <2>1. /\ UNCHANGED <<now, conversation, receipts, winners>>
        /\ Initialized /\ alarm' = DeadlineForState(conversation)
    BY <1>5 DEF AlarmFindsNoDeadline, AlarmMayRun, Deadline
  <2>. QED
    BY <1>0, <2>1, RearmCovers, KeepsInvariant
<1>6. CASE AlarmRunsEarly
  <2>1. /\ UNCHANGED <<now, conversation, receipts, winners>>
        /\ Initialized /\ alarm' = DeadlineForState(conversation)
    BY <1>6 DEF AlarmRunsEarly, AlarmMayRun, Deadline
  <2>. QED
    BY <1>0, <2>1, RearmCovers, KeepsInvariant
<1>7. CASE AlarmAppliesDeadline
  BY <1>7, AlarmAppliesDeadlineKeepsInvariant
<1>8. CASE AlarmTransitionRejected \/ AlarmFails
  <2>1. /\ UNCHANGED <<now, conversation, receipts, winners>>
        /\ alarm' = TimeAfter(AlarmRetryDelay)
    BY <1>8 DEF AlarmTransitionRejected, AlarmFails
  <2>. QED
    BY <1>0, <2>1, RearmCovers, KeepsInvariant
<1>9. CASE Tick
  <2>1. /\ UNCHANGED <<conversation, receipts, winners, alarm>>
        /\ now' = now + 1 /\ now' \in 0 .. MaxTime
    BY <1>0, <1>9, StoreAssumption DEF Tick, stored
  <2>2. AlarmCoversDeadline'
    <3>1. Active' = Active /\ Deadline' = Deadline
      BY <2>1 DEF Active, Initialized, Deadline
    <3>2. AlarmCoversDeadline
      BY DEF IInv
    <3>. QED
      BY <1>0, <2>1, <3>1, <3>2, StoreAssumption DEF AlarmCoversDeadline, Deadline
  <2>. QED
    BY <1>0, <2>1, <2>2, KeepsInvariant
<1>10. CASE UNCHANGED vars
  <2>1. /\ UNCHANGED <<now, conversation, receipts, winners, alarm>>
    BY <1>10 DEF vars, stored
  <2>2. AlarmCoversDeadline'
    BY <2>1 DEF IInv, AlarmCoversDeadline, Active, Initialized, Deadline
  <2>. QED
    BY <1>0, <2>1, <2>2, KeepsInvariant
<1>. QED
  BY <1>1, <1>2, <1>3, <1>4, <1>5, <1>6, <1>7, <1>8, <1>9, <1>10 DEF Next, RunAlarm

(* The invariant holds in every reachable state.                           *)
THEOREM Invariance == Spec => []IInv
<1>. QED
  BY InitEstablishesInvariant, NextKeepsInvariant, PTL DEF Spec

-----------------------------------------------------------------------------
(***************************************************************************)
(* The safety properties                                                   *)
(***************************************************************************)

LEMMA InvariantImpliesSafety ==
    ASSUME IInv
    PROVE  /\ NoOpenTransportAtTheEnd /\ CompletedMeansRecorded
           /\ DeadlineEventAccepted /\ OneWinnerPerRevision
<1>1. /\ now \in 0 .. MaxTime
      /\ Initialized => conversation \in Conversations /\ Consistent(conversation)
      /\ Active => DeadlineForState(conversation) \in Nat
  BY AlarmCoversType
<1>2. NoOpenTransportAtTheEnd
  BY <1>1
  DEF NoOpenTransportAtTheEnd, Consistent, ConsistentTag, TerminalTags,
      IsTransportTerminal
<1>3. CompletedMeansRecorded
  <2>. SUFFICES ASSUME Initialized, conversation.tag = "completed"
                PROVE  /\ conversation.artifact.status = "ready"
                       /\ conversation.artifact.recordingId # None
                       /\ conversation.transport.status = "closed"
                       /\ Happened("SessionStarted")
                       /\ Happened("RecordingUploadStarted")
                       /\ Happened("RecordingArtifactVerified")
                       /\ Happened("SessionClosed")
    BY DEF CompletedMeansRecorded
  <2>1. /\ conversation.artifact.status = "ready"
        /\ conversation.artifact.recordingId # None
        /\ conversation.transport.status = "closed"
        /\ conversation.target = "complete"
    BY <1>1 DEF Consistent, ConsistentTag, ConsistentParts
  <2>. QED
    BY <2>1 DEF IInv, StateHasCause
<1>4. DeadlineEventAccepted
  <2>. SUFFICES ASSUME Active
                PROVE  ~HasReceipt(AlarmEvent.id) /\ Accepts(conversation, AlarmEvent)
    BY DEF DeadlineEventAccepted
  <2>1. /\ Initialized /\ conversation.tag \in ActiveTags
        /\ conversation \in Conversations /\ Consistent(conversation)
        /\ DeadlineForState(conversation) \in Nat
    BY <1>1 DEF Active
  <2>2. TimeAfter(AlarmGrace) \in Nat
    BY <1>1, TimeAfterType, StoreAssumption
  <2>3. Accepts(conversation, AlarmEvent)
    BY <2>1, <2>2, DeadlineEventIsAccepted DEF AlarmEvent
  <2>4. AlarmEvent.id = <<conversation.tag, conversation.revision,
                          DeadlineForState(conversation)>>
    BY DEF AlarmEvent, DeadlineEvent, AlarmEventId
  <2>5. AlarmEvent.id \in AlarmIds /\ AlarmEvent.id[2] = conversation.revision
    BY <2>1, <2>4 DEF AlarmIds, Conversations
  <2>6. ASSUME NEW r \in receipts PROVE r.eventId # AlarmEvent.id
    <3>1. /\ r.sourceRevision < conversation.revision
          /\ r.eventId \in EventIds \/ r.eventId[2] = r.sourceRevision
          /\ r.sourceRevision \in Nat /\ conversation.revision \in Nat
      BY <2>1 DEF IInv, ReceiptsFitRevision, TypeOK, Receipts, Conversations
    <3>2. r.eventId \in EventIds => r.eventId \notin AlarmIds
      BY StoreAssumption DEF AlarmIds
    <3>. QED
      BY <2>5, <3>1, <3>2
  <2>. QED
    BY <2>3, <2>6 DEF HasReceipt
<1>5. OneWinnerPerRevision
  <2>. SUFFICES ASSUME NEW v \in winners, NEW w \in winners,
                       v.expectedRevision = w.expectedRevision \/ v.eventId = w.eventId
                PROVE  v = w
    BY DEF OneWinnerPerRevision
  <2>1. PICK r \in receipts :
          r.eventId = v.eventId /\ r.sourceRevision = v.expectedRevision
    BY DEF IInv, WinnersHaveReceipts
  <2>2. PICK s \in receipts :
          s.eventId = w.eventId /\ s.sourceRevision = w.expectedRevision
    BY DEF IInv, WinnersHaveReceipts
  <2>3. Initialized
    BY <2>1 DEF IInv
  <2>4. r = s
    BY <2>1, <2>2, <2>3 DEF IInv, ReceiptPerEvent, ReceiptsAreHistory
  <2>5. v.expectedRevision = w.expectedRevision /\ v.eventId = w.eventId
    BY <2>1, <2>2, <2>4
  <2>. QED
    BY <2>5 DEF IInv, TypeOK
<1>. QED
  BY <1>2, <1>3, <1>4, <1>5

(* Every variable keeps its kind, for any calls and any clock.             *)
THEOREM TypeCorrect == Spec => []TypeOK
<1>1. IInv => TypeOK
  BY DEF IInv
<1>. QED
  BY <1>1, Invariance, PTL

(* No conversation ends with its transport open.                           *)
THEOREM EndsWithTransportOver == Spec => []NoOpenTransportAtTheEnd
BY Invariance, InvariantImpliesSafety, PTL

(* Completed conversations were live, uploaded, verified and closed.       *)
THEOREM CompletionIsEarned == Spec => []CompletedMeansRecorded
BY Invariance, InvariantImpliesSafety, PTL

(* An unfinished conversation always has an alarm that is early enough.    *)
THEOREM AlarmAlwaysCovers == Spec => []AlarmCoversDeadline
<1>1. IInv => AlarmCoversDeadline
  BY DEF IInv
<1>. QED
  BY <1>1, Invariance, PTL

(* The alarm's event is new and legal wherever it is needed.               *)
THEOREM AlarmEventAlwaysAccepted == Spec => []DeadlineEventAccepted
BY Invariance, InvariantImpliesSafety, PTL

(* The receipts are a complete history.                                    *)
THEOREM HistoryIsComplete == Spec => []ReceiptsAreHistory
<1>1. IInv => ReceiptsAreHistory
  BY DEF IInv
<1>. QED
  BY <1>1, Invariance, PTL

(* Optimistic concurrency: one command at most wins each revision, and     *)
(* each event is applied at most once.                                     *)
THEOREM RevisionsHaveOneWinner == Spec => []OneWinnerPerRevision
BY Invariance, InvariantImpliesSafety, PTL

-----------------------------------------------------------------------------
(***************************************************************************)
(* The action properties                                                   *)
(***************************************************************************)

(* The conversation changes only by being created or by accepting an event.*)
LEMMA ConversationStep ==
    ASSUME IInv, [Next]_vars
    PROVE  \/ UNCHANGED conversation
           \/ ~Initialized /\ conversation' = CreateConversation
           \/ /\ Initialized
              /\ \E e : /\ WellFormed(e)
                        /\ Accepts(conversation, e)
                        /\ conversation' = Transition(conversation, e)
<1>0. /\ now \in 0 .. MaxTime
      /\ Initialized => conversation \in Conversations /\ Consistent(conversation)
  BY AlarmCoversType
<1>1. CASE Initialize
  BY <1>1 DEF Initialize
<1>2. ASSUME NEW call \in Calls, NEW expectedRevision \in SeenRevisions,
             NEW lead \in LeadsOf(call),
             ApplyEvent(expectedRevision, Stamped(call, lead))
      PROVE  /\ Initialized
             /\ WellFormed(Stamped(call, lead))
             /\ Accepts(conversation, Stamped(call, lead))
             /\ conversation' = Transition(conversation, Stamped(call, lead))
  BY <1>0, <1>2, StampedWellFormed DEF ApplyEvent, IsApplied, WriteTransition
<1>3. CASE AlarmAppliesDeadline
  <2>1. /\ Initialized /\ conversation.tag # "created"
        /\ Accepts(conversation, AlarmEvent)
        /\ conversation' = Transition(conversation, AlarmEvent)
    BY <1>3
    DEF AlarmAppliesDeadline, DeadlineExpired, AlarmMayRun, IsApplied, WriteTransition
  <2>2. conversation.tag \in ActiveTags
    BY <1>0, <2>1 DEF Accepts, Outcome, AllowedEvents, Conversations, Tags, ActiveTags
  <2>3. TimeAfter(AlarmGrace) \in Nat
    BY <1>0, TimeAfterType, StoreAssumption
  <2>4. WellFormed(AlarmEvent)
    BY <1>0, <2>1, <2>2, <2>3, DeadlineEventIsAccepted DEF AlarmEvent
  <2>. QED
    BY <2>1, <2>4
<1>4. CASE \/ InitializeAgain \/ AlarmFindsNoDeadline \/ AlarmRunsEarly
           \/ AlarmTransitionRejected \/ AlarmFails \/ Tick \/ UNCHANGED vars
           \/ \E call \in Calls : ApplyDuplicate(call)
  BY <1>4
  DEF InitializeAgain, AlarmFindsNoDeadline, AlarmRunsEarly, AlarmTransitionRejected,
      AlarmFails, Tick, vars, stored, ApplyDuplicate
<1>. QED
  BY <1>1, <1>2, <1>3, <1>4 DEF Next, RunAlarm

LEMMA StepActionProperties ==
    ASSUME IInv, [Next]_vars
    PROVE  /\ Initialized /\ conversation.tag \in TerminalTags => UNCHANGED conversation
           /\ (/\ Initialized
               /\ conversation.transport.status = "reconnecting"
               /\ conversation'.transport.status = "reconnecting")
              => conversation'.transport = conversation.transport
           /\ Initialized /\ conversation.artifact.recordingId # None =>
                conversation'.artifact.recordingId = conversation.artifact.recordingId
           /\ (/\ Initialized /\ conversation.tag = "ending"
               /\ conversation.target \in {"cancel", "fail"}
               /\ conversation' # conversation)
              => /\ conversation'.target \in {conversation.target, "fail"}
                 /\ conversation'.tag # "completed"
<1>1. CASE UNCHANGED conversation
  BY <1>1
<1>2. CASE ~Initialized
  BY <1>2
<1>3. ASSUME Initialized, NEW e, WellFormed(e), Accepts(conversation, e),
             conversation' = Transition(conversation, e)
      PROVE  /\ conversation.tag \notin TerminalTags
             /\ (/\ conversation.transport.status = "reconnecting"
                 /\ conversation'.transport.status = "reconnecting")
                => conversation'.transport = conversation.transport
             /\ conversation.artifact.recordingId # None =>
                  conversation'.artifact.recordingId = conversation.artifact.recordingId
             /\ conversation.tag = "ending" /\ conversation.target \in {"cancel", "fail"}
                => /\ conversation'.target \in {conversation.target, "fail"}
                   /\ conversation'.tag # "completed"
  <2>1. conversation \in Conversations /\ Consistent(conversation)
    BY <1>3, AlarmCoversType
  <2>2. conversation.tag \notin TerminalTags
    BY <1>3 DEF Accepts, Outcome, AllowedEvents, TerminalTags
  <2>3. (/\ conversation.transport.status = "reconnecting"
         /\ conversation'.transport.status = "reconnecting")
        => conversation'.transport = conversation.transport
    BY <1>3, <2>1, RecoveryWindowKept
  <2>4. conversation.artifact.recordingId # None =>
          conversation'.artifact.recordingId = conversation.artifact.recordingId
    BY <1>3, <2>1, RecordingKept
  <2>5. conversation.tag = "ending" /\ conversation.target \in {"cancel", "fail"}
        => /\ conversation'.target \in {conversation.target, "fail"}
           /\ conversation'.tag # "completed"
    BY <1>3, <2>1, IntentKept
  <2>. QED
    BY <2>2, <2>3, <2>4, <2>5
<1>. QED
  BY <1>1, <1>2, <1>3, ConversationStep

(* A finished conversation never changes again.                            *)
THEOREM FinishedStaysFinished == Spec => TerminalIsFinal
<1>1. IInv /\ [Next]_vars =>
        [Initialized /\ conversation.tag \in TerminalTags => UNCHANGED conversation]_conversation
  BY StepActionProperties
<1>. QED
  BY <1>1, Invariance, PTL DEF Spec, TerminalIsFinal

(* Repeated interruptions do not prolong the recovery window.              *)
THEOREM RecoveryWindowIsFixed == Spec => RecoveryWindowNotExtended
<1>1. IInv /\ [Next]_vars =>
        [Initialized
         /\ conversation.transport.status = "reconnecting"
         /\ conversation'.transport.status = "reconnecting"
          => conversation'.transport = conversation.transport]_conversation
  BY StepActionProperties
<1>. QED
  BY <1>1, Invariance, PTL DEF Spec, RecoveryWindowNotExtended

(* A conversation never changes the recording it named.                    *)
THEOREM RecordingIsKept == Spec => RecordingNeverSwapped
<1>1. IInv /\ [Next]_vars =>
        [Initialized /\ conversation.artifact.recordingId # None =>
          conversation'.artifact.recordingId =
            conversation.artifact.recordingId]_conversation
  BY StepActionProperties
<1>. QED
  BY <1>1, Invariance, PTL DEF Spec, RecordingNeverSwapped

(* A cancelled or failed shutdown never ends in completion.                *)
THEOREM IntentIsKept == Spec => IntentNeverUpgraded
<1>1. IInv /\ [Next]_vars =>
        [Initialized /\ conversation.tag = "ending"
         /\ conversation.target \in {"cancel", "fail"} =>
          /\ conversation'.target \in {conversation.target, "fail"}
          /\ conversation'.tag # "completed"]_conversation
  BY StepActionProperties
<1>. QED
  BY <1>1, Invariance, PTL DEF Spec, IntentNeverUpgraded

-----------------------------------------------------------------------------
(***************************************************************************)
(* The Durable Object implements the abstract lifecycle: under PhaseOf,    *)
(* SessionOf, RecordingOf and IntentOf, every step of ConversationStore is *)
(* a step of ConversationLifecycle or stutters.                            *)
(***************************************************************************)

(* How the constructors look from the lifecycle.                           *)
LEMMA SeenSession ==
    /\ \A epoch : /\ SessionIn(Transport("connecting", epoch)) = "open"
                  /\ SessionIn(Transport("connected", epoch)) = "open"
                  /\ SessionIn(Transport("closed", epoch)) = "over"
    /\ \A c : SessionIn(FailedTransport(c)) = "over"
    /\ \A c, e : SessionIn(Interrupted(c, e)) = "open"
    /\ \A t : /\ IsTransportTerminal(t) <=> SessionIn(t) = "over"
              /\ t.status \in {"connecting", "connected", "reconnecting"} =>
                    SessionIn(t) = "open"
BY DEF SessionIn, Transport, FailedTransport, Interrupted, Reconnecting, IsTransportTerminal

LEMMA SeenRecording ==
    /\ \A id, key : /\ RecordingIn(Artifact("recording", id, key)) = "held"
                    /\ RecordingIn(Artifact("ready", id, key)) = "stored"
    /\ \A id, key, deadline : RecordingIn(Uploading(id, key, deadline)) = "held"
    /\ \A c, id : RecordingIn(FailedArtifact(c, id)) = "lost"
    /\ \A a : /\ RecordingIn(a) \in {"none", "held", "stored", "lost"}
              /\ a.status = "ready" <=> RecordingIn(a) = "stored"
              /\ a.status = "pending" <=> RecordingIn(a) = "none"
              /\ a.status = "recording" => RecordingIn(a) = "held"
              /\ a.status = "uploading" => RecordingIn(a) = "held"
BY DEF RecordingIn, Artifact, Uploading, FailedArtifact

(* A conversation and the next one, as the lifecycle sees them.            *)
SeenStep(c, d) ==
    /\ PhaseOf = c.tag /\ SessionOf = SessionIn(c.transport)
    /\ RecordingOf = RecordingIn(c.artifact) /\ IntentOf = c.target
    /\ PhaseOf' = d.tag /\ SessionOf' = SessionIn(d.transport)
    /\ RecordingOf' = RecordingIn(d.artifact) /\ IntentOf' = d.target

-----------------------------------------------------------------------------
(***************************************************************************)
(* One lemma per tag                                                       *)
(***************************************************************************)

LEMMA CreatedStep ==
    ASSUME NEW c \in Conversations, NEW e, c.tag = "created", Consistent(c),
           Accepts(c, e), SeenStep(c, FromCreated(c, e))
    PROVE  Lifecycle!Next
<1>1. e.type \in {"StartRequested", "EndRequested"}
  BY DEF Accepts, Outcome, AllowedEvents
<1>2. CASE e.type = "StartRequested"
  <2>1. Lifecycle!Start
    BY <1>2, FromCreatedFields, SeenSession DEF SeenStep, Lifecycle!Start
  <2>. QED
    BY <2>1 DEF Lifecycle!Next
<1>3. CASE e.type = "EndRequested"
  <2>1. Lifecycle!Abandon
    BY <1>3, FromCreatedFields DEF SeenStep, Lifecycle!Abandon
  <2>. QED
    BY <2>1 DEF Lifecycle!Next
<1>. QED
  BY <1>1, <1>2, <1>3

LEMMA StartingStep ==
    ASSUME NEW c \in Conversations, NEW e, c.tag = "starting", Consistent(c),
           e.type \in AllowedEvents("starting"), GuardHolds(c, e),
           NEW d, StartingFields(c, e, d), SeenStep(c, d)
    PROVE  Lifecycle!Next \/ UNCHANGED Lifecycle!vars
<1>1. SessionOf = "open"
  BY SeenSession DEF SeenStep, Consistent, ConsistentTag
<1>2. CASE e.type = "TransportConnected"
  BY <1>1, <1>2, SeenSession DEF StartingFields, SeenStep, Lifecycle!vars
<1>3. CASE e.type = "RecordingStarted"
  <2>1. Lifecycle!StartRecording
    BY <1>3, SeenRecording DEF StartingFields, SeenStep, GuardHolds, Lifecycle!StartRecording
  <2>. QED
    BY <2>1 DEF Lifecycle!Next
<1>4. CASE e.type = "SessionStarted"
  <2>1. RecordingOf = "held"
    BY <1>4, SeenRecording DEF SeenStep, GuardHolds
  <2>2. Lifecycle!GoLive
    BY <1>1, <1>4, <2>1 DEF StartingFields, SeenStep, Lifecycle!GoLive
  <2>. QED
    BY <2>2 DEF Lifecycle!Next
<1>5. CASE e.type = "EndRequested"
  <2>1. Lifecycle!BeginEnding
    BY <1>5 DEF StartingFields, SeenStep, Lifecycle!BeginEnding
  <2>. QED
    BY <2>1 DEF Lifecycle!Next
<1>6. CASE e.type \in {"FatalTransportError", "StartingDeadlineExceeded", "SessionClosed"}
  <2>1. Lifecycle!Break
    BY <1>6, SeenSession DEF StartingFields, SeenStep, Lifecycle!Break
  <2>. QED
    BY <2>1 DEF Lifecycle!Next
<1>7. CASE e.type = "ArtifactFailed"
  <2>1. Lifecycle!BeginEnding
    BY <1>7, SeenRecording DEF StartingFields, SeenStep, Lifecycle!BeginEnding
  <2>. QED
    BY <2>1 DEF Lifecycle!Next
<1>. QED
  BY <1>2, <1>3, <1>4, <1>5, <1>6, <1>7 DEF AllowedEvents

LEMMA LiveStep ==
    ASSUME NEW c \in Conversations, NEW e, c.tag = "live", Consistent(c),
           e.type \in AllowedEvents("live"), GuardHolds(c, e),
           NEW d, LiveFields(c, e, d), SeenStep(c, d)
    PROVE  Lifecycle!Next \/ UNCHANGED Lifecycle!vars
<1>1. SessionOf = "open"
  BY SeenSession DEF SeenStep, Consistent, ConsistentTag
<1>2. CASE e.type \in {"TransportConnected", "TransportInterrupted"}
  BY <1>1, <1>2, SeenSession DEF LiveFields, SeenStep, Lifecycle!vars
<1>3. CASE e.type \in {"EndRequested", "TimeLimitReached"}
  <2>1. Lifecycle!BeginEnding
    BY <1>3 DEF LiveFields, SeenStep, Lifecycle!BeginEnding
  <2>. QED
    BY <2>1 DEF Lifecycle!Next
<1>4. CASE e.type \in {"FatalTransportError", "RecoveryDeadlineExceeded", "SessionClosed"}
  <2>1. Lifecycle!Break
    BY <1>4, SeenSession DEF LiveFields, SeenStep, Lifecycle!Break
  <2>. QED
    BY <2>1 DEF Lifecycle!Next
<1>5. CASE e.type = "ArtifactFailed"
  <2>1. Lifecycle!BeginEnding
    BY <1>5, SeenRecording DEF LiveFields, SeenStep, Lifecycle!BeginEnding
  <2>. QED
    BY <2>1 DEF Lifecycle!Next
<1>. QED
  BY <1>2, <1>3, <1>4, <1>5 DEF AllowedEvents

(* A step of the shutdown ends it exactly when it leaves nothing to wait   *)
(* for.                                                                    *)
LEMMA EndingStep ==
    ASSUME NEW c \in Conversations, NEW e, c.tag = "ending", Consistent(c),
           e.type \in AllowedEvents("ending"), GuardHolds(c, e),
           NEW d, EndingFields(c, e, d), SeenStep(c, d)
    PROVE  Lifecycle!Next \/ UNCHANGED Lifecycle!vars
<1>1. PhaseOf = "ending" /\ RecordingOf \in {"none", "held", "stored", "lost"}
  BY SeenRecording DEF SeenStep
<1>2. Finalized(d) => PhaseOf' = IF /\ SessionOf' = "over"
                                    /\ IntentOf' = "complete" => RecordingOf' = "stored"
                                 THEN Lifecycle!OutcomeOf(IntentOf') ELSE "ending"
  BY SeenSession, SeenRecording
  DEF Finalized, SeenStep, TerminalTagOf, Lifecycle!OutcomeOf
<1>3. SessionOf = "over" => IntentOf = "complete" /\ RecordingOf # "stored"
  BY SeenSession, SeenRecording
  DEF SeenStep, Consistent, ConsistentTag, IsTransportTerminal
<1>4. CASE e.type = "TransportConnected"
  <2>1. SessionOf = "open"
    BY <1>4, SeenSession DEF GuardHolds, TransportConnectedGuard, SeenStep
  <2>. QED
    BY <1>4, <2>1, SeenSession DEF EndingFields, SeenStep, Lifecycle!vars
<1>5. CASE e.type = "SessionClosed"
  <2>1. /\ SessionOf' = "over" /\ RecordingOf' = RecordingOf
        /\ IntentOf' = IntentOf /\ Finalized(d)
    BY <1>5, SeenSession DEF EndingFields, SeenStep
  <2>2. Lifecycle!ShutDown
    BY <1>1, <1>2, <2>1 DEF Lifecycle!ShutDown, Lifecycle!RecordingMoves
  <2>. QED
    BY <2>2 DEF Lifecycle!Next
<1>6. CASE e.type = "RecordingUploadStarted"
  <2>1. /\ SessionOf' = SessionOf /\ IntentOf' = IntentOf
        /\ RecordingOf' = "held" /\ PhaseOf' = "ending"
    BY <1>6, SeenRecording DEF EndingFields, SeenStep
  <2>2. RecordingOf # "none"
    BY <1>6, SeenRecording DEF GuardHolds, SameRecording, SeenStep
  <2>3. Lifecycle!ShutDown
    BY <1>1, <1>3, <2>1, <2>2 DEF Lifecycle!ShutDown, Lifecycle!RecordingMoves
  <2>. QED
    BY <2>3 DEF Lifecycle!Next
<1>7. CASE e.type = "RecordingArtifactVerified"
  <2>1. /\ SessionOf' = SessionOf /\ IntentOf' = IntentOf
        /\ RecordingOf' = "stored" /\ Finalized(d)
    BY <1>7, SeenRecording DEF EndingFields, SeenStep
  <2>2. RecordingOf # "none"
    BY <1>7, SeenRecording DEF GuardHolds, SameRecording, SeenStep
  <2>3. Lifecycle!ShutDown
    BY <1>1, <1>2, <2>1, <2>2 DEF Lifecycle!ShutDown, Lifecycle!RecordingMoves
  <2>. QED
    BY <2>3 DEF Lifecycle!Next
<1>8. CASE e.type \in {"ArtifactFailed", "ArtifactDeadlineExceeded"}
  <2>1. /\ SessionOf' = SessionOf /\ IntentOf' = "fail"
        /\ RecordingOf' = "lost" /\ Finalized(d)
    BY <1>8, SeenRecording DEF EndingFields, SeenStep
  <2>2. Lifecycle!ShutDown
    BY <1>1, <1>2, <2>1 DEF Lifecycle!ShutDown, Lifecycle!RecordingMoves
  <2>. QED
    BY <2>2 DEF Lifecycle!Next
<1>9. CASE e.type = "FatalTransportError"
  <2>1. /\ SessionOf' = "over" /\ IntentOf' = "fail"
        /\ RecordingOf' = RecordingOf /\ Finalized(d)
    BY <1>9, SeenSession DEF EndingFields, SeenStep
  <2>2. Lifecycle!ShutDown
    BY <1>1, <1>2, <2>1 DEF Lifecycle!ShutDown, Lifecycle!RecordingMoves
  <2>. QED
    BY <2>2 DEF Lifecycle!Next
<1>10. CASE e.type = "EndingDeadlineExceeded"
  <2>1. /\ PhaseOf' = "failed" /\ SessionOf' = "over" /\ IntentOf' = IntentOf
        /\ RecordingOf' \in {RecordingOf, "lost"}
    BY <1>10, SeenSession, SeenRecording DEF EndingFields, SeenStep
  <2>2. Lifecycle!Expire
    BY <1>1, <2>1 DEF Lifecycle!Expire
  <2>. QED
    BY <2>2 DEF Lifecycle!Next
<1>. QED
  BY <1>4, <1>5, <1>6, <1>7, <1>8, <1>9, <1>10 DEF AllowedEvents

-----------------------------------------------------------------------------

LEMMA LifecycleInit == Init => Lifecycle!Init
BY DEF Init, Lifecycle!Init, PhaseOf, SessionOf, RecordingOf, IntentOf, Initialized

LEMMA LifecycleStep ==
    ASSUME IInv, [Next]_vars
    PROVE  [Lifecycle!Next]_(Lifecycle!vars)
<1>1. CASE UNCHANGED conversation
  BY <1>1 DEF Lifecycle!vars, PhaseOf, SessionOf, RecordingOf, IntentOf, Initialized
<1>2. CASE ~Initialized /\ conversation' = CreateConversation
  <2>1. CreateConversation # None
    BY CreatedConsistent, StoreAssumption
  <2>2. SessionIn(CreateConversation.transport) = "none"
    BY CreatedConsistent DEF SessionIn, IsTransportTerminal
  <2>3. RecordingIn(CreateConversation.artifact) = "none"
    BY CreatedConsistent DEF RecordingIn
  <2>4. Lifecycle!Create
    BY <1>2, <2>1, <2>2, <2>3, CreatedConsistent
    DEF Lifecycle!Create, PhaseOf, SessionOf, RecordingOf, IntentOf, Initialized
  <2>. QED
    BY <2>4 DEF Lifecycle!Next
<1>3. ASSUME Initialized, NEW e, WellFormed(e), Accepts(conversation, e),
             conversation' = Transition(conversation, e)
      PROVE  Lifecycle!Next \/ UNCHANGED Lifecycle!vars
  <2>. DEFINE c == conversation
              d == Transition(c, e)
  <2>1. c \in Conversations /\ Consistent(c)
    BY <1>3, AlarmCoversType
  <2>2. d \in Conversations
    BY <1>3, <2>1, TransitionConsistent DEF Preserved
  <2>3. SeenStep(c, d)
    BY <1>3, <2>2, StoreAssumption
    DEF SeenStep, PhaseOf, SessionOf, RecordingOf, IntentOf, Initialized
  <2>4. /\ c.tag \in {"created", "starting", "live", "ending"}
        /\ e.type \in AllowedEvents(c.tag) /\ GuardHolds(c, e)
        /\ c.tag = "starting" => StartingFields(c, e, d)
        /\ c.tag = "live" => LiveFields(c, e, d)
        /\ c.tag = "ending" => EndingFields(c, e, d)
    BY <1>3, <2>1, TransitionFields
  <2>5. CASE c.tag = "created"
    BY <1>3, <2>1, <2>3, <2>5, CreatedStep DEF Transition
  <2>6. CASE c.tag = "starting"
    BY <2>1, <2>3, <2>4, <2>6, StartingStep
  <2>7. CASE c.tag = "live"
    BY <2>1, <2>3, <2>4, <2>7, LiveStep
  <2>8. CASE c.tag = "ending"
    BY <2>1, <2>3, <2>4, <2>8, EndingStep
  <2>. QED
    BY <2>4, <2>5, <2>6, <2>7, <2>8
<1>. QED
  BY <1>1, <1>2, <1>3, ConversationStep

(* The Durable Object implements the lifecycle.                            *)
THEOREM LifecycleIsImplemented == Spec => ImplementsLifecycle
<1>1. IInv /\ [Next]_vars => [Lifecycle!Next]_(Lifecycle!vars)
  BY LifecycleStep
<1>. QED
  BY <1>1, LifecycleInit, Invariance, PTL DEF Spec, ImplementsLifecycle, Lifecycle!Spec
=============================================================================
