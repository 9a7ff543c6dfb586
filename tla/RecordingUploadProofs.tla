----------------------- MODULE RecordingUploadProofs -----------------------
(***************************************************************************)
(* Proofs about RecordingUpload, for every set of requests, recordings and *)
(* keys: the requests implement ConversationStore, WorkerIInv is inductive,*)
(* and the safety properties follow.                                       *)
(***************************************************************************)
EXTENDS RecordingUpload, ConversationStoreProofs

-----------------------------------------------------------------------------
(***************************************************************************)
(* The requests are callers of the store                                   *)
(***************************************************************************)

LEMMA RequestEvents ==
    ASSUME NEW r \in Requests
    PROVE  /\ r \in Begins => /\ EventsOf(r) = BeginEvents
                              /\ r \notin UploadBegins /\ r \notin Completions
           /\ r \in UploadBegins => /\ EventsOf(r) = UploadBeginEvents
                                    /\ r \notin Begins /\ r \notin Completions
           /\ r \in Completions => /\ EventsOf(r) = CompletionEvents
                                   /\ r \notin Begins /\ r \notin UploadBegins
BY UploadAssumption DEF EventsOf, Requests

(* Every event a request may apply is one the store is told to expect.     *)
LEMMA RecordingEventIsCall ==
    ASSUME NEW type \in RecordingEventTypes, NEW u \in RecordingIds, NEW k \in R2Keys
    PROVE  /\ RecordingEvent(type, u, k) \in Calls
           /\ <<type, u>> \in EventIds
<1>1. RecordingEvent(type, u, k) \in RecordingEvents
  BY DEF RecordingEvents
<1>2. RecordingEvent(type, u, k) \in Calls
  BY <1>1, UploadAssumption
<1>3. RecordingEvent(type, u, k).id \in EventIds
  BY <1>2, StoreAssumption DEF Call
<1>. QED
  BY <1>2, <1>3 DEF RecordingEvent

LEMMA EventIdIsNew ==
    ASSUME NEW type \in RecordingEventTypes, NEW u \in RecordingIds
    PROVE  /\ <<type, u>> \notin AlarmIds
           /\ \A call \in DirectCalls : call.id # <<type, u>>
<1>1. PICK k \in R2Keys : TRUE
  BY UploadAssumption
<1>2. <<type, u>> \in EventIds
  BY <1>1, RecordingEventIsCall
<1>3. <<type, u>> \notin AlarmIds
  BY <1>2, StoreAssumption DEF AlarmIds
<1>4. /\ RecordingEvent(type, u, k) \in RecordingEvents
      /\ RecordingEvent(type, u, k).id = <<type, u>>
  BY <1>1 DEF RecordingEvents, RecordingEvent
<1>. QED
  BY <1>3, <1>4, UploadAssumption

(* The event a request is at, its type, and where it stands in the list.   *)
LEMMA EventOfRequest ==
    ASSUME WorkerTypeOK, NEW r \in Requests,
           requests[r].upload # None, requests[r].key # None,
           r \in UploadBegins => requests[r].event \in 1 .. 2,
           r \in Completions => requests[r].event = 1
    PROVE  LET type == EventsOf(r)[requests[r].event]
           IN  /\ type \in RecordingEventTypes
               /\ EventOf(r) = RecordingEvent(type, requests[r].upload,
                                              requests[r].key)
               /\ EventOf(r) \in Calls
               /\ EventOf(r).id = <<type, requests[r].upload>>
               /\ EventOf(r).type = type
               /\ requests[r].upload \in RecordingIds
               /\ requests[r].key \in R2Keys
<1>. DEFINE type == EventsOf(r)[requests[r].event]
<1>1. /\ requests[r].upload \in RecordingIds
      /\ requests[r].key \in R2Keys
      /\ requests[r].event \in 1 .. 3
  BY DEF WorkerTypeOK, RequestStates
<1>2. type \in RecordingEventTypes
  <2>1. CASE r \in Begins
    BY <1>1, <2>1, RequestEvents DEF BeginEvents, RecordingEventTypes
  <2>2. CASE r \in UploadBegins
    BY <1>1, <2>2, RequestEvents DEF UploadBeginEvents, RecordingEventTypes
  <2>3. CASE r \in Completions
    BY <1>1, <2>3, RequestEvents DEF CompletionEvents, RecordingEventTypes
  <2>. QED
    BY <2>1, <2>2, <2>3 DEF Requests
<1>3. EventOf(r) = RecordingEvent(type, requests[r].upload, requests[r].key)
  BY DEF EventOf
<1>. HIDE DEF type
<1>4. EventOf(r) \in Calls
  BY <1>1, <1>2, <1>3, RecordingEventIsCall
<1>5. EventOf(r).id = <<type, requests[r].upload>> /\ EventOf(r).type = type
  BY <1>3 DEF RecordingEvent
<1>. QED
  BY <1>1, <1>2, <1>3, <1>4, <1>5 DEF type

-----------------------------------------------------------------------------
(***************************************************************************)
(* What one applied event does to the artifact and the receipts            *)
(***************************************************************************)

LEMMA ArtifactEffect ==
    ASSUME NEW c \in Conversations, NEW e, WellFormed(e), Consistent(c),
           Accepts(c, e), e.type # "ArtifactFailed", NEW d, d = Transition(c, e)
    PROVE  /\ e.type = "RecordingStarted" =>
                /\ d.artifact.status = "recording"
                /\ d.artifact.recordingId = e.recordingId
                /\ c.artifact.status = "pending"
           /\ e.type = "RecordingUploadStarted" =>
                /\ d.artifact.status = "uploading"
                /\ d.artifact.recordingId = e.recordingId
                /\ d.artifact.expectedR2Key = e.expectedR2Key
           /\ e.type = "RecordingArtifactVerified" =>
                /\ d.artifact.status = "ready"
                /\ d.artifact.recordingId = e.recordingId
                /\ d.artifact.expectedR2Key = e.expectedR2Key
                /\ c.artifact.status = "uploading"
           /\ e.type \notin {"RecordingStarted", "RecordingUploadStarted",
                             "RecordingArtifactVerified"} =>
                \/ d.artifact = c.artifact
                \/ c.artifact.status # "ready" /\ d.artifact.status = "failed"
<1>1. /\ c.tag \in {"created", "starting", "live", "ending"}
      /\ e.type \in AllowedEvents(c.tag) /\ GuardHolds(c, e)
      /\ c.tag = "starting" => StartingFields(c, e, d)
      /\ c.tag = "live" => LiveFields(c, e, d)
      /\ c.tag = "ending" => EndingFields(c, e, d)
  BY TransitionFields
<1>2. CASE c.tag = "created"
  <2>1. e.type \in {"StartRequested", "EndRequested"}
    BY <1>1, <1>2 DEF AllowedEvents
  <2>2. d.artifact = c.artifact
    BY <1>2, FromCreatedFields DEF Transition
  <2>. QED
    BY <2>1, <2>2
<1>3. CASE c.tag = "starting"
  <2>1. e.type \in AllowedEvents("starting")
    BY <1>1, <1>3
  <2>2. e.type = "RecordingStarted" => c.artifact.status = "pending"
    BY <1>1 DEF GuardHolds
  <2>. QED
    BY <1>1, <1>3, <2>1, <2>2 DEF StartingFields, AllowedEvents, Artifact
<1>4. CASE c.tag = "live"
  <2>1. e.type \in AllowedEvents("live")
    BY <1>1, <1>4
  <2>. QED
    BY <1>1, <1>4, <2>1 DEF LiveFields, AllowedEvents
<1>5. CASE c.tag = "ending"
  <2>1. e.type \in AllowedEvents("ending")
    BY <1>1, <1>5
  <2>2. e.type \in {"RecordingArtifactVerified", "ArtifactDeadlineExceeded"} =>
          c.artifact.status = "uploading"
    BY <1>1 DEF GuardHolds
  <2>. QED
    BY <1>1, <1>5, <2>1, <2>2
    DEF EndingFields, AllowedEvents, Artifact, Uploading, FailedArtifact
<1>. QED
  BY <1>1, <1>2, <1>3, <1>4, <1>5

(* The store applies event e.                                              *)
EventStep(e) ==
    /\ Initialized
    /\ WellFormed(e)
    /\ ~HasReceipt(e.id)
    /\ Accepts(conversation, e)
    /\ conversation' = Transition(conversation, e)
    /\ receipts' = receipts \cup {Receipt(e, conversation, conversation')}

LEMMA EventStepEffect ==
    ASSUME IInv, NEW e, EventStep(e), e.type # "ArtifactFailed"
    PROVE  /\ Initialized /\ Initialized'
           /\ \A id : HasReceipt(id)' <=> HasReceipt(id) \/ id = e.id
           /\ \A u \in RecordingIds : Records(u) => Records(u)'
           /\ IsReady /\ e.type # "RecordingUploadStarted" =>
                conversation'.artifact = conversation.artifact
           /\ \/ conversation'.artifact = conversation.artifact
              \/ conversation'.artifact.status \in {"recording", "failed"}
              \/ /\ e.type \in {"RecordingUploadStarted",
                                "RecordingArtifactVerified"}
                 /\ conversation'.artifact.recordingId = e.recordingId
                 /\ conversation'.artifact.expectedR2Key = e.expectedR2Key
                 /\ conversation'.artifact.status = "ready" =>
                      e.type = "RecordingArtifactVerified"
           /\ e.type = "RecordingStarted" => Records(e.recordingId)'
           /\ e.type = "RecordingArtifactVerified" => IsReady'
<1>. DEFINE c == conversation
            d == Transition(conversation, e)
<1>1. /\ Initialized /\ c \in Conversations /\ Consistent(c)
      /\ WellFormed(e) /\ Accepts(c, e) /\ conversation' = d
  BY AlarmCoversType DEF EventStep
<1>2. d \in Conversations
  BY <1>1, TransitionConsistent DEF Preserved
<1>3. Initialized'
  BY <1>1, <1>2, StoreAssumption DEF Initialized
<1>4. \A id : HasReceipt(id)' <=> HasReceipt(id) \/ id = e.id
  <2>1. Receipt(e, conversation, conversation').eventId = e.id
    BY DEF Receipt
  <2>. QED
    BY <2>1 DEF EventStep, HasReceipt
<1>5. \A u \in RecordingIds : Records(u) => Records(u)'
  BY <1>1, <1>3, RecordingKept, NoneAssumption DEF Records
<1>. HIDE DEF c, d
<1>6. /\ e.type = "RecordingStarted" =>
            /\ d.artifact.status = "recording"
            /\ d.artifact.recordingId = e.recordingId
            /\ c.artifact.status = "pending"
      /\ e.type = "RecordingUploadStarted" =>
            /\ d.artifact.status = "uploading"
            /\ d.artifact.recordingId = e.recordingId
            /\ d.artifact.expectedR2Key = e.expectedR2Key
      /\ e.type = "RecordingArtifactVerified" =>
            /\ d.artifact.status = "ready"
            /\ d.artifact.recordingId = e.recordingId
            /\ d.artifact.expectedR2Key = e.expectedR2Key
            /\ c.artifact.status = "uploading"
      /\ e.type \notin {"RecordingStarted", "RecordingUploadStarted",
                        "RecordingArtifactVerified"} =>
            \/ d.artifact = c.artifact
            \/ c.artifact.status # "ready" /\ d.artifact.status = "failed"
  BY <1>1, ArtifactEffect DEF c, d
<1>7. c = conversation /\ d = conversation'
  BY <1>1 DEF c
<1>. QED
  BY <1>1, <1>3, <1>4, <1>5, <1>6, <1>7 DEF IsReady, Records

-----------------------------------------------------------------------------
(***************************************************************************)
(* Steps of the store                                                      *)
(***************************************************************************)

LEMMA ApplyEventIsEventStep ==
    ASSUME IInv, NEW call \in Calls, NEW lead \in LeadsOf(call), NEW revision,
           ApplyEvent(revision, Stamped(call, lead))
    PROVE  /\ EventStep(Stamped(call, lead))
           /\ Stamped(call, lead).id = call.id
           /\ Stamped(call, lead).type = call.type
           /\ Stamped(call, lead).recordingId = call.recordingId
           /\ Stamped(call, lead).expectedR2Key = call.expectedR2Key
           /\ revision \in SeenRevisions
<1>. DEFINE e == Stamped(call, lead)
<1>1. now \in 0 .. MaxTime
  BY AlarmCoversType
<1>2. WellFormed(e)
  BY <1>1, StampedWellFormed
<1>3. /\ e.id = call.id /\ e.type = call.type
      /\ e.recordingId = call.recordingId
      /\ e.expectedR2Key = call.expectedR2Key
  BY DEF Stamped
<1>. HIDE DEF e
<1>4. /\ Initialized /\ ~HasReceipt(e.id) /\ Accepts(conversation, e)
      /\ conversation' = Transition(conversation, e)
      /\ receipts' = receipts \cup {Receipt(e, conversation, conversation')}
      /\ revision = conversation.revision
  BY DEF ApplyEvent, IsApplied, WriteTransition, e
<1>5. conversation.revision \in Nat
  BY <1>4, AlarmCoversType DEF Conversations
<1>. QED
  BY <1>2, <1>3, <1>4, <1>5 DEF EventStep, SeenRevisions, e

(* Event ids of requests.                                                  *)
RecordingEventIds == RecordingEventTypes \X RecordingIds

(* An event no request sends.                                              *)
OtherEvent(e) ==
    /\ e.type \in {"StartRequested", "EndRequested"} \cup AlarmEventTypes
    /\ e.id \notin RecordingEventIds

LEMMA OtherCallsEffect ==
    ASSUME IInv, OtherCalls
    PROVE  \/ UNCHANGED <<conversation, receipts>>
           \/ /\ ~Initialized /\ receipts = {} /\ receipts' = {}
              /\ conversation' = CreateConversation
           \/ \E e : EventStep(e) /\ OtherEvent(e)
<1>0. /\ now \in 0 .. MaxTime
      /\ Initialized => conversation \in Conversations /\ Consistent(conversation)
  BY AlarmCoversType
<1>1. CASE Initialize
  BY <1>1 DEF Initialize, IInv
<1>2. ASSUME NEW call \in DirectCalls, NEW expectedRevision \in SeenRevisions,
             NEW lead \in LeadsOf(call),
             ApplyEvent(expectedRevision, Stamped(call, lead))
      PROVE  EventStep(Stamped(call, lead)) /\ OtherEvent(Stamped(call, lead))
  <2>1. call \in Calls /\ call.type \in {"StartRequested", "EndRequested"}
    BY UploadAssumption
  <2>2. /\ EventStep(Stamped(call, lead))
        /\ Stamped(call, lead).id = call.id
        /\ Stamped(call, lead).type = call.type
    BY <1>2, <2>1, ApplyEventIsEventStep
  <2>3. call.id \notin RecordingEventIds
    BY EventIdIsNew DEF RecordingEventIds
  <2>. QED
    BY <2>1, <2>2, <2>3 DEF OtherEvent
<1>3. CASE AlarmAppliesDeadline
  <2>1. /\ Initialized /\ conversation.tag # "created"
        /\ ~HasReceipt(AlarmEvent.id)
        /\ Accepts(conversation, AlarmEvent)
        /\ conversation' = Transition(conversation, AlarmEvent)
        /\ receipts' = receipts \cup {Receipt(AlarmEvent, conversation, conversation')}
    BY <1>3
    DEF AlarmAppliesDeadline, DeadlineExpired, AlarmMayRun, IsApplied, WriteTransition
  <2>2. conversation.tag \in ActiveTags
    BY <1>0, <2>1 DEF Accepts, Outcome, AllowedEvents, Conversations, Tags, ActiveTags
  <2>3. TimeAfter(AlarmGrace) \in Nat
    BY <1>0, TimeAfterType, StoreAssumption
  <2>4. WellFormed(AlarmEvent)
    BY <1>0, <2>1, <2>2, <2>3, DeadlineEventIsAccepted DEF AlarmEvent
  <2>5. EarliestDeadline(conversation) \in DeadlineKinds
    BY <1>0, <2>1, <2>2, EarliestDeadlineOfActive
  <2>6. AlarmEvent.type \in AlarmEventTypes
    BY <2>5 DEF AlarmEvent, DeadlineEvent, AlarmEventType, AlarmEventTypes, DeadlineKinds
  <2>7. AlarmEvent.id \in AlarmIds
    <3>1. AlarmEvent.id = <<conversation.tag, conversation.revision,
                            DeadlineForState(conversation)>>
      BY DEF AlarmEvent, DeadlineEvent, AlarmEventId
    <3>2. DeadlineForState(conversation) \in Nat
      BY <1>0, <2>1, <2>2, ActiveHasDeadline
    <3>3. conversation.tag \in Tags /\ conversation.revision \in Nat
      BY <1>0, <2>1 DEF Conversations
    <3>. QED
      BY <3>1, <3>2, <3>3 DEF AlarmIds
  <2>8. AlarmEvent.id \notin RecordingEventIds
    BY <2>7, EventIdIsNew DEF RecordingEventIds
  <2>. QED
    BY <2>1, <2>4, <2>6, <2>8 DEF EventStep, OtherEvent
<1>4. CASE \/ InitializeAgain \/ AlarmFindsNoDeadline \/ AlarmRunsEarly
           \/ AlarmTransitionRejected \/ AlarmFails \/ Tick
           \/ \E call \in DirectCalls : ApplyDuplicate(call)
  BY <1>4
  DEF InitializeAgain, AlarmFindsNoDeadline, AlarmRunsEarly, AlarmTransitionRejected,
      AlarmFails, Tick, stored, ApplyDuplicate
<1>. QED
  BY <1>1, <1>2, <1>3, <1>4 DEF OtherCalls, RunAlarm

(* What is common to every step, whoever takes it.                         *)
LEMMA OtherCallsAreStoreSteps ==
    OtherCalls => Next
BY UploadAssumption DEF OtherCalls, Next

-----------------------------------------------------------------------------
(***************************************************************************)
(* WorkerIInv is inductive: steps of others                                *)
(***************************************************************************)

LEMMA OtherCallsFacts ==
    ASSUME IInv, OtherCalls
    PROVE  /\ \A u \in RecordingIds : Records(u) => Records(u)'
           /\ \A id \in RecordingEventIds : HasReceipt(id)' <=> HasReceipt(id)
           /\ IsReady => IsReady'
           /\ (/\ Initialized'
               /\ conversation'.artifact.status \in {"uploading", "ready"})
              => Initialized /\ conversation'.artifact = conversation.artifact
           /\ \A receipt \in receipts' : receipt \in receipts \/
                /\ receipt.eventType \notin RecordingEventTypes
                /\ receipt.eventId \notin RecordingEventIds
           /\ receipts \subseteq receipts'
<1>1. CASE UNCHANGED <<conversation, receipts>>
  BY <1>1 DEF Records, Initialized, HasReceipt, IsReady
<1>2. CASE /\ ~Initialized /\ receipts = {} /\ receipts' = {}
           /\ conversation' = CreateConversation
  BY <1>2, CreatedConsistent DEF Records, HasReceipt, IsReady
<1>3. ASSUME NEW e, EventStep(e), OtherEvent(e)
      PROVE  /\ \A u \in RecordingIds : Records(u) => Records(u)'
             /\ \A id \in RecordingEventIds : HasReceipt(id)' <=> HasReceipt(id)
             /\ IsReady => IsReady'
             /\ (/\ Initialized'
                 /\ conversation'.artifact.status \in {"uploading", "ready"})
                => Initialized /\ conversation'.artifact = conversation.artifact
             /\ \A receipt \in receipts' : receipt \in receipts \/
                  /\ receipt.eventType \notin RecordingEventTypes
                  /\ receipt.eventId \notin RecordingEventIds
             /\ receipts \subseteq receipts'
  <2>1. /\ e.type \notin RecordingEventTypes
        /\ e.type # "ArtifactFailed"
        /\ e.id \notin RecordingEventIds
    BY <1>3 DEF OtherEvent, AlarmEventTypes, RecordingEventTypes
  <2>2. /\ Initialized /\ Initialized'
        /\ \A id : HasReceipt(id)' <=> HasReceipt(id) \/ id = e.id
        /\ \A u \in RecordingIds : Records(u) => Records(u)'
        /\ IsReady => conversation'.artifact = conversation.artifact
        /\ \/ conversation'.artifact = conversation.artifact
           \/ conversation'.artifact.status \in {"recording", "failed"}
    BY <1>3, <2>1, EventStepEffect DEF RecordingEventTypes
  <2>3. /\ receipts' = receipts \cup {Receipt(e, conversation, conversation')}
        /\ Receipt(e, conversation, conversation').eventType = e.type
        /\ Receipt(e, conversation, conversation').eventId = e.id
    BY <1>3 DEF EventStep, Receipt
  <2>. QED
    BY <2>1, <2>2, <2>3 DEF IsReady
<1>. QED
  BY <1>1, <1>2, <1>3, OtherCallsEffect

LEMMA OtherCallsKeep ==
    ASSUME WorkerIInv, OtherCalls
    PROVE  WorkerIInv'
<1>1. IInv' /\ UNCHANGED worker
  BY OtherCallsAreStoreSteps, NextKeepsInvariant DEF WorkerIInv, OtherCalls
<1>2. /\ \A u \in RecordingIds : Records(u) => Records(u)'
      /\ \A id \in RecordingEventIds : HasReceipt(id)' <=> HasReceipt(id)
      /\ IsReady => IsReady'
      /\ (/\ Initialized'
          /\ conversation'.artifact.status \in {"uploading", "ready"})
         => Initialized /\ conversation'.artifact = conversation.artifact
      /\ \A receipt \in receipts' : receipt \in receipts \/
           /\ receipt.eventType \notin RecordingEventTypes
           /\ receipt.eventId \notin RecordingEventIds
      /\ receipts \subseteq receipts'
  BY OtherCallsFacts DEF WorkerIInv
<1>3. UNCHANGED <<requests, uploads, objects, jobs>>
  BY <1>1 DEF worker
<1>4. \A u : Known(u)' <=> Known(u)
  BY <1>3 DEF Known
<1>5. WorkerTypeOK' /\ UploadsHaveOneOwner' /\ GivenUpByOwner'
  BY <1>3 DEF WorkerIInv, WorkerTypeOK, UploadsHaveOneOwner, GivenUpByOwner
<1>6. ASSUME NEW r \in Requests
      PROVE  RequestSound(r)'
  <2>1. RequestSound(r) /\ requests[r].upload \in RecordingIds \cup {None}
    BY DEF WorkerIInv, WorkerTypeOK, RequestStates
  <2>2. \A id : HasReceipt(id) => HasReceipt(id)'
    BY <1>2 DEF HasReceipt
  <2>3. CASE r \in Begins
    <3>1. BeginHoldsUpload(r)'
      BY <1>3, <2>1, <2>3 DEF RequestSound, BeginHoldsUpload
    <3>2. BeginProgress(r)'
      BY <1>2, <1>3, <2>1, <2>2, <2>3 DEF RequestSound, BeginProgress, BeginHoldsUpload
    <3>. QED
      BY <2>3, <3>1, <3>2, RequestEvents DEF RequestSound
  <2>4. CASE r \in UploadBegins
    <3>1. UsesKnownUpload(r)'
      BY <1>3, <1>4, <2>1, <2>4 DEF RequestSound, UsesKnownUpload
    <3>2. UploadBeginProgress(r)'
      BY <1>3, <2>1, <2>2, <2>4 DEF RequestSound, UploadBeginProgress
    <3>. QED
      BY <2>4, <3>1, <3>2, RequestEvents DEF RequestSound
  <2>5. CASE r \in Completions
    <3>1. UsesKnownUpload(r)'
      BY <1>3, <1>4, <2>1, <2>5 DEF RequestSound, UsesKnownUpload
    <3>2. CompletionProgress(r)'
      BY <1>2, <1>3, <2>1, <2>5 DEF RequestSound, CompletionProgress, Stored
    <3>. QED
      BY <2>5, <3>1, <3>2, RequestEvents DEF RequestSound
  <2>. QED
    BY <2>3, <2>4, <2>5 DEF Requests
<1>10. ReceiptsTellUpload'
  <2>1. ASSUME NEW receipt \in receipts'
        PROVE  /\ receipt.eventType \in RecordingEventTypes =>
                    \E u \in RecordingIds : receipt.eventId = <<receipt.eventType, u>>
               /\ \A type \in RecordingEventTypes, u \in RecordingIds :
                    receipt.eventId = <<type, u>> =>
                      /\ receipt.eventType = type
                      /\ type # "TransportConnected" => Records(u)'
    <3>1. CASE receipt \in receipts
      BY <1>2, <3>1 DEF WorkerIInv, ReceiptsTellUpload
    <3>2. CASE /\ receipt.eventType \notin RecordingEventTypes
               /\ receipt.eventId \notin RecordingEventIds
      BY <3>2 DEF RecordingEventIds
    <3>. QED
      BY <1>2, <2>1, <3>1, <3>2
  <2>. QED
    BY <2>1 DEF ReceiptsTellUpload
<1>11. SessionHasBegin'
  BY <1>2, <1>3 DEF WorkerIInv, SessionHasBegin, RecordingEventIds, RecordingEventTypes
<1>15. VerifiedIsReady'
  BY <1>2 DEF WorkerIInv, VerifiedIsReady, RecordingEventIds, RecordingEventTypes
<1>12. UploadIsKnown'
  BY <1>2, <1>3, <1>4 DEF WorkerIInv, UploadIsKnown
<1>13. CompletedHasObject'
  BY <1>2, <1>3 DEF WorkerIInv, CompletedHasObject, IsReady, Stored
<1>14. JobHasRecording'
  BY <1>2, <1>3 DEF WorkerIInv, JobHasRecording, IsReady, Records, Stored
<1>. QED
  BY <1>1, <1>3, <1>5, <1>6, <1>10, <1>11, <1>12, <1>13, <1>14, <1>15
  DEF WorkerIInv

-----------------------------------------------------------------------------
(***************************************************************************)
(* WorkerIInv is inductive: what one request's step leaves to the others   *)
(***************************************************************************)

(* An upload a browser was told of is the conversation's.                  *)
LEMMA KnownUpload ==
    ASSUME WorkerIInv, NEW u, Known(u)
    PROVE  /\ u \in RecordingIds
           /\ Records(u)
           /\ HasReceipt(<<"SessionStarted", u>>)
           /\ uploads[u].status # "none"
           /\ uploads[u].key \in R2Keys
<1>1. PICK b \in Begins : requests[b].pc = "ok" /\ requests[b].upload = u
  BY DEF Known
<1>2. b \in Requests
  BY <1>1 DEF Requests
<1>3. BeginHoldsUpload(b) /\ BeginProgress(b) /\ requests[b] \in RequestStates
  BY <1>1, <1>2 DEF WorkerIInv, RequestSound, WorkerTypeOK
<1>. QED
  BY <1>1, <1>3 DEF BeginHoldsUpload, BeginProgress, RequestStates

(* No request but r moves, and r not once it is answered; a begin takes an *)
(* upload only when nobody has it, and keeps it; nothing known is undone.  *)
Move(r) ==
    /\ \A d \in Requests :
        \/ requests'[d] = requests[d]
        \/ /\ d = r
           /\ requests[d].pc \notin {"ok", "failed"}
           /\ requests[d].unheard => requests'[d].unheard
           /\ \/ requests'[d].upload = requests[d].upload
              \/ /\ requests[d].pc \in {"read", "create"}
                 /\ d \in Begins => uploads[requests'[d].upload].status = "none"
    /\ \A u \in RecordingIds :
        /\ uploads[u].status # "none" =>
              uploads'[u].status # "none" /\ uploads'[u].key = uploads[u].key
        /\ uploads'[u].status = "givenUp" =>
              \/ uploads[u].status = "givenUp"
              \/ /\ r \in Begins
                 /\ requests'[r].upload = u /\ requests'[r].pc = "failed"
        /\ Records(u) => Records(u)'
        /\ Records(u) => \A k \in R2Keys : Stored(u, k) => Stored(u, k)'
    /\ \A id : HasReceipt(id) => HasReceipt(id)'
    /\ IsReady => IsReady'

LEMMA MoveKeepsOthers ==
    ASSUME WorkerIInv, NEW r, Move(r)
    PROVE  /\ \A u : Known(u) => Known(u)'
           /\ \A d \in Requests : requests'[d] = requests[d] => RequestSound(d)'
           /\ UploadsHaveOneOwner'
           /\ GivenUpByOwner'
           /\ \A u \in RecordingIds : HasReceipt(<<"SessionStarted", u>>) =>
                \E b \in Begins :
                    /\ requests'[b].upload = u
                    /\ requests'[b].pc = "ok" \/ requests'[b].unheard
<1>0. /\ \A d \in Requests : requests[d] \in RequestStates /\ RequestSound(d)
      /\ \A b \in Begins : /\ b \in Requests
                             /\ BeginHoldsUpload(b) /\ BeginProgress(b)
  BY DEF WorkerIInv, WorkerTypeOK, RequestSound, Requests
<1>1. ASSUME NEW u, Known(u) PROVE Known(u)'
  BY <1>0, <1>1 DEF Known, Move
<1>2. ASSUME NEW d \in Requests, requests'[d] = requests[d]
      PROVE  RequestSound(d)'
  <2>1. /\ RequestSound(d)
        /\ requests[d].upload \in RecordingIds \cup {None}
        /\ requests[d].key \in R2Keys \cup {None}
    BY <1>0 DEF RequestStates
  <2>2. CASE d \in Begins
    <3>1. BeginHoldsUpload(d)'
      BY <1>2, <2>1, <2>2 DEF RequestSound, BeginHoldsUpload, Move
    <3>2. BeginProgress(d)'
      BY <1>2, <2>1, <2>2 DEF RequestSound, BeginHoldsUpload, BeginProgress, Move
    <3>. QED
      BY <2>2, <3>1, <3>2, RequestEvents DEF RequestSound
  <2>3. ASSUME d \in UploadBegins \cup Completions PROVE UsesKnownUpload(d)'
    <3>1. UsesKnownUpload(d)
      BY <2>1, <2>3 DEF RequestSound
    <3>2. CASE requests[d].pc # "read"
      <4>1. /\ Known(requests[d].upload)
            /\ uploads[requests[d].upload].key = requests[d].key
        BY <3>1, <3>2 DEF UsesKnownUpload
      <4>2. /\ requests[d].upload \in RecordingIds
            /\ uploads[requests[d].upload].status # "none"
        BY <4>1, KnownUpload
      <4>3. Known(requests[d].upload)'
        BY <4>1, <1>1, <1>2 DEF Known
      <4>4. uploads'[requests[d].upload].key = requests[d].key
        BY <4>1, <4>2 DEF Move
      <4>. QED
        BY <1>2, <3>1, <4>3, <4>4 DEF UsesKnownUpload
    <3>. QED
      BY <1>2, <3>1, <3>2 DEF UsesKnownUpload
  <2>4. CASE d \in UploadBegins
    <3>1. UploadBeginProgress(d)'
      BY <1>2, <2>1, <2>4 DEF RequestSound, UploadBeginProgress, Move
    <3>. QED
      BY <2>3, <2>4, <3>1, RequestEvents DEF RequestSound
  <2>5. CASE d \in Completions
    <3>1. CASE requests[d].pc = "apply"
      <4>1. /\ Known(requests[d].upload)
            /\ uploads[requests[d].upload].key = requests[d].key
            /\ Stored(requests[d].upload, requests[d].key)
        BY <2>1, <2>5, <3>1 DEF RequestSound, UsesKnownUpload, CompletionProgress
      <4>2. Stored(requests[d].upload, requests[d].key)'
        <5>1. /\ requests[d].upload \in RecordingIds /\ Records(requests[d].upload)
              /\ requests[d].key \in R2Keys
          BY <4>1, KnownUpload
        <5>2. Stored(requests[d].upload, requests[d].key)'
                <=> objects'[requests'[d].key] = requests'[d].upload
          BY DEF Stored
        <5>3. objects'[requests[d].key] = requests[d].upload
          BY <4>1, <5>1 DEF Move, Stored
        <5>. QED
          BY <1>2, <5>2, <5>3
      <4>. QED
        BY <1>2, <2>1, <2>5, <3>1, <4>2, <2>3, RequestEvents
        DEF RequestSound, CompletionProgress
    <3>2. CASE requests[d].pc # "apply"
      BY <1>2, <2>1, <2>5, <3>2, <2>3, RequestEvents
      DEF RequestSound, CompletionProgress, Move
    <3>. QED
      BY <3>1, <3>2
  <2>. QED
    BY <2>2, <2>4, <2>5 DEF Requests
<1>3. UploadsHaveOneOwner'
  <2>1. ASSUME NEW b \in Begins, NEW d \in Begins, requests'[b].upload # None,
               requests'[b].upload = requests'[d].upload, b # d
        PROVE  FALSE
    <3>1. \A x \in Begins : requests[x].upload # None =>
             uploads[requests[x].upload].status # "none"
      BY <1>0 DEF BeginHoldsUpload
    <3>2. b # r \/ d # r
      BY <2>1
    <3>3. requests[b].upload = requests[d].upload => requests[b].upload = None
      BY <2>1 DEF WorkerIInv, UploadsHaveOneOwner
    <3>. QED
      BY <1>0, <2>1, <3>1, <3>2, <3>3 DEF Move
  <2>. QED
    BY <2>1 DEF UploadsHaveOneOwner
<1>4. GivenUpByOwner'
  <2>1. ASSUME NEW u \in RecordingIds, uploads'[u].status = "givenUp"
        PROVE  \E b \in Begins : requests'[b].upload = u /\ requests'[b].pc = "failed"
    <3>1. CASE uploads[u].status = "givenUp"
      <4>1. PICK b \in Begins : requests[b].upload = u /\ requests[b].pc = "failed"
        BY <3>1 DEF WorkerIInv, GivenUpByOwner
      <4>. QED
        BY <1>0, <4>1 DEF Move
    <3>. QED
      BY <2>1, <3>1 DEF Move
  <2>. QED
    BY <2>1 DEF GivenUpByOwner
<1>5. ASSUME NEW u \in RecordingIds, HasReceipt(<<"SessionStarted", u>>)
      PROVE  \E b \in Begins :
                /\ requests'[b].upload = u
                /\ requests'[b].pc = "ok" \/ requests'[b].unheard
  <2>1. PICK b \in Begins : /\ requests[b].upload = u
                            /\ requests[b].pc = "ok" \/ requests[b].unheard
    BY <1>5 DEF WorkerIInv, SessionHasBegin
  <2>2. requests[b].pc \notin {"read", "create"}
    BY <1>0, <2>1 DEF BeginHoldsUpload
  <2>. QED
    BY <1>0, <2>1, <2>2 DEF Move
<1>. QED
  BY <1>1, <1>2, <1>3, <1>4, <1>5

(* A move that changes neither the conversation nor its receipts.          *)
LEMMA QuietMove ==
    ASSUME WorkerIInv, IInv', WorkerTypeOK', UNCHANGED <<conversation, receipts>>,
           NEW r, Move(r), r \in Requests => RequestSound(r)',
           \A job \in jobs' : job \in jobs \/
              /\ IsReady /\ Records(job.upload)
              /\ conversation.artifact.expectedR2Key = job.key
              /\ Stored(job.upload, job.key)
    PROVE  WorkerIInv'
<1>1. /\ \A u : Known(u) => Known(u)'
      /\ \A d \in Requests : requests'[d] = requests[d] => RequestSound(d)'
      /\ UploadsHaveOneOwner'
      /\ GivenUpByOwner'
      /\ \A u \in RecordingIds : HasReceipt(<<"SessionStarted", u>>) =>
            \E b \in Begins :
                /\ requests'[b].upload = u
                /\ requests'[b].pc = "ok" \/ requests'[b].unheard
  BY MoveKeepsOthers
<1>2. \A d \in Requests : RequestSound(d)'
  BY <1>1 DEF Move
<1>3. ReceiptsTellUpload'
  BY DEF WorkerIInv, ReceiptsTellUpload, Records, Initialized
<1>4. SessionHasBegin'
  BY <1>1 DEF SessionHasBegin, HasReceipt
<1>9. VerifiedIsReady'
  BY DEF WorkerIInv, VerifiedIsReady, HasReceipt, IsReady, Initialized
<1>. DEFINE rec == conversation.artifact.recordingId
            key == conversation.artifact.expectedR2Key
<1>5. Initialized /\ conversation.artifact.status \in {"uploading", "ready"} =>
        /\ Known(rec) /\ rec \in RecordingIds /\ Records(rec)
        /\ uploads[rec].status # "none" /\ key = uploads[rec].key /\ key \in R2Keys
  BY KnownUpload DEF WorkerIInv, UploadIsKnown
<1>6. UploadIsKnown'
  BY <1>1, <1>5 DEF UploadIsKnown, Move, Initialized
<1>7. CompletedHasObject'
  <2>1. IsReady => rec \in RecordingIds /\ Records(rec) /\ key \in R2Keys /\ Stored(rec, key)
    BY <1>5 DEF IsReady, WorkerIInv, CompletedHasObject
  <2>2. IsReady => Stored(rec, key)'
    BY <2>1 DEF Move
  <2>. QED
    BY <2>2 DEF CompletedHasObject, IsReady, Initialized, Stored
<1>8. JobHasRecording'
  <2>1. ASSUME NEW job \in jobs'
        PROVE  /\ IsReady' /\ Records(job.upload)'
               /\ conversation'.artifact.expectedR2Key = job.key
               /\ Stored(job.upload, job.key)'
    <3>1. /\ IsReady /\ Records(job.upload)
          /\ conversation.artifact.expectedR2Key = job.key
          /\ Stored(job.upload, job.key)
      BY <2>1 DEF WorkerIInv, JobHasRecording
    <3>2. job.upload \in RecordingIds /\ job.key \in R2Keys
      BY <1>5, <3>1 DEF IsReady, Records
    <3>3. Stored(job.upload, job.key)'
      BY <3>1, <3>2 DEF Move
    <3>4. IsReady' /\ Records(job.upload)'
      BY <3>1, <3>2 DEF Move
    <3>. QED
      BY <3>1, <3>3, <3>4
  <2>. QED
    BY <2>1 DEF JobHasRecording
<1>. QED
  BY <1>1, <1>2, <1>3, <1>4, <1>6, <1>7, <1>8, <1>9 DEF WorkerIInv

(* A step of request r that changes nothing but the request.               *)
LEMMA RequestOnlyMove ==
    ASSUME WorkerIInv, IInv', UNCHANGED <<conversation, receipts>>,
           UNCHANGED <<uploads, objects, jobs>>,
           NEW r \in Requests, requests[r].pc \notin {"ok", "failed"},
           requests' \in [Requests -> RequestStates],
           \A d \in Requests : d # r => requests'[d] = requests[d],
           requests[r].unheard => requests'[r].unheard,
           \/ requests'[r].upload = requests[r].upload
           \/ requests[r].pc = "read" /\ r \notin Begins,
           RequestSound(r)'
    PROVE  WorkerIInv'
<1>1. WorkerTypeOK'
  BY DEF WorkerIInv, WorkerTypeOK
<1>2. Move(r)
  BY DEF Move, Records, Initialized, Stored, HasReceipt, IsReady
<1>3. \A job \in jobs' : job \in jobs
  OBVIOUS
<1>. QED
  BY <1>1, <1>2, <1>3, QuietMove

LEMMA StoreUntouched ==
    ASSUME WorkerIInv, UNCHANGED vars
    PROVE  /\ IInv'
           /\ UNCHANGED <<conversation, receipts>>
           /\ \A u : Records(u)' <=> Records(u)
           /\ \A id : HasReceipt(id)' <=> HasReceipt(id)
           /\ IsReady' <=> IsReady
BY NextKeepsInvariant
DEF WorkerIInv, vars, stored, Records, Initialized, HasReceipt, IsReady

-----------------------------------------------------------------------------
(***************************************************************************)
(* WorkerIInv is inductive: steps that leave the store alone               *)
(***************************************************************************)

LEMMA RequestFacts ==
    ASSUME WorkerIInv, NEW r \in Requests
    PROVE  /\ requests \in [Requests -> RequestStates]
           /\ requests[r] \in RequestStates
           /\ RequestSound(r)
           /\ r \in Begins => BeginHoldsUpload(r) /\ BeginProgress(r)
           /\ r \in UploadBegins => UsesKnownUpload(r) /\ UploadBeginProgress(r)
           /\ r \in Completions => UsesKnownUpload(r) /\ CompletionProgress(r)
BY DEF WorkerIInv, WorkerTypeOK, RequestSound

(* A request that applies events has an upload, and its event is a call.   *)
LEMMA RequestHolds ==
    ASSUME WorkerIInv, NEW r \in Requests, At(r, "apply")
    PROVE  LET type == EventsOf(r)[requests[r].event]
           IN  /\ type \in RecordingEventTypes
               /\ EventOf(r) \in Calls
               /\ EventOf(r).id = <<type, requests[r].upload>>
               /\ EventOf(r).type = type
               /\ EventOf(r) = RecordingEvent(type, requests[r].upload,
                                              requests[r].key)
               /\ requests[r].upload \in RecordingIds
               /\ requests[r].key \in R2Keys
<1>1. requests[r].upload # None /\ requests[r].key # None
  <2>1. CASE r \in Begins
    BY <2>1, RequestFacts DEF At, BeginHoldsUpload
  <2>2. CASE r \in UploadBegins \cup Completions
    <3>1. /\ Known(requests[r].upload)
          /\ uploads[requests[r].upload].key = requests[r].key
      BY <2>2, RequestFacts DEF At, UsesKnownUpload
    <3>. QED
      BY <3>1, KnownUpload, NoneAssumption
  <2>. QED
    BY <2>1, <2>2 DEF Requests
<1>2. /\ r \in UploadBegins => requests[r].event \in 1 .. 2
      /\ r \in Completions => requests[r].event = 1
  BY RequestFacts DEF UploadBeginProgress, CompletionProgress
<1>. QED
  BY <1>1, <1>2, EventOfRequest DEF WorkerIInv

LEMMA RequestUpdate ==
    ASSUME WorkerIInv, NEW r \in Requests, NEW new \in RequestStates,
           requests' = [requests EXCEPT ![r] = new]
    PROVE  /\ requests' \in [Requests -> RequestStates]
           /\ \A d \in Requests : d # r => requests'[d] = requests[d]
           /\ requests'[r] = new
BY RequestFacts

LEMMA BeginRecordingKeeps ==
    ASSUME WorkerIInv, NEW r \in Begins, BeginRecording(r)
    PROVE  WorkerIInv'
<1>. DEFINE new == [requests[r] EXCEPT !.pc = "create",
                                       !.revision = conversation.revision]
<1>1. r \in Requests
  BY DEF Requests
<1>2. /\ conversation.revision \in Nat /\ UNCHANGED vars
      /\ requests[r].pc = "read"
      /\ requests' = [requests EXCEPT ![r] = new]
      /\ UNCHANGED <<uploads, objects, jobs>>
  BY AlarmCoversType DEF WorkerIInv, BeginRecording, Conversations, At
<1>3. /\ new \in RequestStates
      /\ new.pc = "create" /\ new.upload = requests[r].upload
      /\ new.event = requests[r].event /\ new.unheard = requests[r].unheard
  BY <1>1, <1>2, RequestFacts DEF RequestStates
<1>. HIDE DEF new
<1>4. /\ requests' \in [Requests -> RequestStates]
      /\ \A d \in Requests : d # r => requests'[d] = requests[d]
      /\ requests'[r] = new
  BY <1>1, <1>2, <1>3, RequestUpdate
<1>5. BeginHoldsUpload(r)' /\ BeginProgress(r)'
  BY <1>1, <1>2, <1>3, <1>4, RequestFacts DEF BeginHoldsUpload, BeginProgress
<1>6. RequestSound(r)'
  BY <1>1, <1>5, RequestEvents DEF RequestSound
<1>. QED
  BY <1>1, <1>2, <1>3, <1>4, <1>6, StoreUntouched, RequestOnlyMove

(* A request that gives up, or a begin that turns to aborting its upload.  *)
LEMMA GivesUpKeeps ==
    ASSUME WorkerIInv, NEW r \in Requests, UNCHANGED vars,
           UNCHANGED <<uploads, objects, jobs>>,
           requests[r].pc \notin {"ok", "failed"},
           r \notin Begins => requests[r].pc # "read",
           NEW pc \in {"failed", "abort"},
           pc = "abort" => r \in Begins /\ requests[r].pc = "apply",
           Goto(r, pc)
    PROVE  WorkerIInv'
<1>1. /\ requests' \in [Requests -> RequestStates]
      /\ \A d \in Requests : d # r => requests'[d] = requests[d]
      /\ requests'[r] = [requests[r] EXCEPT !.pc = pc]
  BY RequestFacts DEF RequestStates, Goto
<1>2. RequestSound(r)'
  <2>1. CASE r \in Begins
    BY <1>1, <2>1, RequestFacts, RequestEvents
    DEF RequestSound, BeginHoldsUpload, BeginProgress, RequestStates
  <2>2. CASE r \notin Begins
    <3>0. requests'[r] = [requests[r] EXCEPT !.pc = "failed"]
      BY <1>1, <2>2
    <3>1. UsesKnownUpload(r) /\ (\A u : Known(u) => Known(u)')
      <4>1. \A b \in Begins : requests[b].pc = "ok" => requests'[b] = requests[b]
        BY <1>1 DEF Requests
      <4>. QED
        BY <2>2, <4>1, RequestFacts DEF Known, Requests
    <3>2. UsesKnownUpload(r)'
      BY <3>0, <2>2, <3>1, RequestFacts DEF UsesKnownUpload, RequestStates
    <3>3. r \in UploadBegins => UploadBeginProgress(r)'
      BY <3>0, RequestFacts DEF UploadBeginProgress, RequestStates
    <3>4. r \in Completions => CompletionProgress(r)'
      BY <3>0, RequestFacts DEF CompletionProgress, RequestStates
    <3>. QED
      BY <2>2, <3>2, <3>3, <3>4 DEF RequestSound
  <2>. QED
    BY <2>1, <2>2
<1>. QED
  BY <1>1, <1>2, RequestFacts, StoreUntouched, RequestOnlyMove DEF RequestStates

LEMMA RefusedKeeps ==
    ASSUME WorkerIInv, NEW r \in Requests, At(r, "apply"),
           Goto(r, AfterRefusal(r)), UNCHANGED <<vars, uploads, objects, jobs>>
    PROVE  WorkerIInv'
<1>1. /\ AfterRefusal(r) \in {"failed", "abort"}
      /\ AfterRefusal(r) = "abort" => r \in Begins
  BY DEF AfterRefusal
<1>. QED
  BY <1>1, GivesUpKeeps DEF At

LEMMA EventConflictKeeps ==
    ASSUME WorkerIInv, NEW r \in Requests, EventConflict(r)
    PROVE  WorkerIInv'
<1>1. /\ requests[r].pc = "apply"
      /\ UNCHANGED vars /\ UNCHANGED <<uploads, objects, jobs>>
      /\ requests[r].attempt \in 1 .. MaxAttempts
      /\ conversation.revision \in Nat
  BY RequestFacts, AlarmCoversType
  DEF WorkerIInv, EventConflict, IsConflict, At, RequestStates, Conversations
<1>2. CASE /\ requests[r].attempt < MaxAttempts
           /\ requests' = [requests EXCEPT ![r] =
                 [@ EXCEPT !.attempt = requests[r].attempt + 1,
                           !.revision = conversation.revision]]
  <2>1. requests[r].attempt + 1 \in 1 .. MaxAttempts
    BY <1>1, <1>2, UploadAssumption
  <2>. DEFINE new == [requests[r] EXCEPT !.attempt = requests[r].attempt + 1,
                                         !.revision = conversation.revision]
  <2>0. /\ new \in RequestStates
        /\ new.pc = "apply"
        /\ new.upload = requests[r].upload
        /\ new.key = requests[r].key
        /\ new.event = requests[r].event
        /\ new.unheard = requests[r].unheard
    BY <1>1, <2>1, RequestFacts DEF RequestStates
  <2>a. requests' = [requests EXCEPT ![r] = new]
    BY <1>2
  <2>. HIDE DEF new
  <2>2. /\ requests' \in [Requests -> RequestStates]
        /\ \A d \in Requests : d # r => requests'[d] = requests[d]
        /\ requests'[r] = new
    BY <2>0, <2>a, RequestUpdate
  <2>3. /\ requests'[r].pc = "apply"
        /\ requests'[r].upload = requests[r].upload
        /\ requests'[r].key = requests[r].key
        /\ requests'[r].event = requests[r].event
        /\ requests'[r].unheard = requests[r].unheard
    BY <2>0, <2>2
  <2>4. RequestSound(r)'
    <3>1. CASE r \in Begins
      BY <1>1, <2>3, <3>1, RequestFacts, RequestEvents, StoreUntouched
      DEF RequestSound, BeginHoldsUpload, BeginProgress
    <3>2. CASE r \notin Begins
      <4>1. \A u : Known(u) => Known(u)'
        <5>1. \A b \in Begins : requests[b].pc = "ok" => requests'[b] = requests[b]
          BY <1>1, <2>2 DEF Requests
        <5>. QED
          BY <5>1 DEF Known
      <4>2. UsesKnownUpload(r)'
        BY <1>1, <2>3, <3>2, <4>1, RequestFacts DEF UsesKnownUpload, Requests
      <4>3. r \in UploadBegins => UploadBeginProgress(r)'
        BY <1>1, <2>3, RequestFacts, StoreUntouched DEF UploadBeginProgress
      <4>4. r \in Completions => CompletionProgress(r)'
        BY <1>1, <2>3, RequestFacts, StoreUntouched DEF CompletionProgress, Stored
      <4>. QED
        BY <3>2, <4>2, <4>3, <4>4 DEF RequestSound
    <3>. QED
      BY <3>1, <3>2
  <2>. QED
    BY <1>1, <2>2, <2>3, <2>4, StoreUntouched, RequestOnlyMove
<1>3. CASE Goto(r, AfterRefusal(r))
  BY <1>1, <1>3, RefusedKeeps DEF At
<1>. QED
  BY <1>2, <1>3 DEF EventConflict

(* A new upload is nobody's yet.                                           *)
LEMMA CreateMultipartUploadKeeps ==
    ASSUME WorkerIInv, NEW r \in Begins, CreateMultipartUpload(r)
    PROVE  WorkerIInv'
<1>1. PICK u \in RecordingIds, k \in R2Keys :
        /\ uploads[u].status = "none"
        /\ uploads' = [uploads EXCEPT ![u] = [status |-> "empty", key |-> k]]
        /\ requests' = [requests EXCEPT ![r] =
              [@ EXCEPT !.pc = "apply", !.upload = u, !.key = k]]
  BY DEF CreateMultipartUpload
<1>. DEFINE new == [requests[r] EXCEPT !.pc = "apply", !.upload = u, !.key = k]
<1>2. /\ r \in Requests /\ requests[r].pc = "create"
      /\ UNCHANGED vars /\ UNCHANGED <<objects, jobs>>
      /\ requests' = [requests EXCEPT ![r] = new]
  BY <1>1 DEF CreateMultipartUpload, Requests, At
<1>3. /\ new \in RequestStates
      /\ new.pc = "apply" /\ new.upload = u /\ new.key = k
      /\ new.event = requests[r].event /\ new.unheard = requests[r].unheard
  BY <1>1, <1>2, RequestFacts DEF RequestStates
<1>. HIDE DEF new
<1>4. /\ requests' \in [Requests -> RequestStates]
      /\ \A d \in Requests : d # r => requests'[d] = requests[d]
      /\ requests'[r] = new
  BY <1>2, <1>3, RequestUpdate
<1>5. /\ uploads' \in [RecordingIds -> Uploads]
      /\ uploads'[u] = [status |-> "empty", key |-> k]
      /\ \A x \in RecordingIds : x # u => uploads'[x] = uploads[x]
  BY <1>1 DEF WorkerIInv, WorkerTypeOK, Uploads
<1>6. WorkerTypeOK'
  BY <1>2, <1>4, <1>5 DEF WorkerIInv, WorkerTypeOK
<1>7. ~requests[r].unheard /\ requests[r].event = 1
  BY <1>2, RequestFacts DEF BeginHoldsUpload
<1>8. /\ requests'[r].pc = "apply" /\ requests'[r].event = 1
      /\ requests'[r].upload = u /\ requests'[r].key = k
      /\ requests'[r].unheard = FALSE
      /\ uploads'[u].key = k /\ uploads'[u].status = "empty"
  BY <1>3, <1>4, <1>5, <1>7, RequestFacts DEF RequestStates
<1>9. RequestSound(r)'
  <2>1. BeginHoldsUpload(r)'
    BY <1>8, NoneAssumption DEF BeginHoldsUpload
  <2>2. BeginProgress(r)'
    BY <1>8 DEF BeginProgress
  <2>. QED
    BY <1>2, <2>1, <2>2, RequestEvents DEF RequestSound
<1>10. Move(r)
  BY <1>1, <1>2, <1>3, <1>4, <1>5, <1>7, StoreUntouched DEF Move, Stored
<1>. QED
  BY <1>2, <1>6, <1>9, <1>10, StoreUntouched, QuietMove

(* The upload a begin gives up is its own.                                 *)
LEMMA AbortOwnUploadKeeps ==
    ASSUME WorkerIInv, NEW r \in Begins, AbortOwnUpload(r)
    PROVE  WorkerIInv'
<1>1. /\ r \in Requests /\ requests[r].pc = "abort" /\ Goto(r, "failed")
      /\ UNCHANGED vars /\ UNCHANGED <<objects, jobs>>
  BY DEF AbortOwnUpload, Requests, At
<1>2. CASE UNCHANGED uploads
  BY <1>1, <1>2, GivesUpKeeps
<1>3. CASE GiveUp(requests[r].upload)
  <2>. DEFINE u == requests[r].upload
              new == [requests[r] EXCEPT !.pc = "failed"]
  <2>1. /\ u \in RecordingIds /\ u # None
        /\ uploads[u].key = requests[r].key /\ uploads[u].status # "none"
    BY <1>1, RequestFacts DEF BeginHoldsUpload, RequestStates
  <2>2. /\ new \in RequestStates
        /\ requests' = [requests EXCEPT ![r] = new]
        /\ new.pc = "failed" /\ new.upload = u /\ new.key = requests[r].key
        /\ new.event = requests[r].event /\ new.unheard = requests[r].unheard
    BY <1>1, RequestFacts DEF RequestStates, Goto
  <2>. HIDE DEF new
  <2>3. /\ requests' \in [Requests -> RequestStates]
        /\ \A d \in Requests : d # r => requests'[d] = requests[d]
        /\ requests'[r] = new
    BY <1>1, <2>2, RequestUpdate
  <2>4. /\ uploads' \in [RecordingIds -> Uploads]
        /\ uploads'[u].key = uploads[u].key
        /\ uploads'[u].status # "none"
        /\ \A x \in RecordingIds : x # u => uploads'[x] = uploads[x]
    BY <1>3, <2>1 DEF WorkerIInv, WorkerTypeOK, Uploads, GiveUp
  <2>5. WorkerTypeOK'
    BY <1>1, <2>3, <2>4 DEF WorkerIInv, WorkerTypeOK
  <2>6. BeginHoldsUpload(r)' /\ BeginProgress(r)'
    BY <1>1, <2>1, <2>2, <2>3, <2>4, RequestFacts DEF BeginHoldsUpload, BeginProgress
  <2>7. RequestSound(r)'
    BY <1>1, <2>6, RequestEvents DEF RequestSound
  <2>8. Move(r)
    BY <1>1, <2>1, <2>2, <2>3, <2>4, StoreUntouched DEF Move, Stored
  <2>. QED
    BY <1>1, <2>5, <2>7, <2>8, StoreUntouched, QuietMove
<1>. QED
  BY <1>2, <1>3 DEF AbortOwnUpload

(* What the browser does to an upload itself moves no request.             *)
LEMMA BrowserKeeps ==
    ASSUME WorkerIInv, NEW u \in RecordingIds,
           UploadRecordingPart(u) \/ AbortRecordingUpload(u)
    PROVE  WorkerIInv'
<1>1. /\ UNCHANGED vars /\ UNCHANGED <<requests, objects, jobs>>
      /\ uploads[u].status # "none"
      /\ uploads' \in [RecordingIds -> Uploads]
      /\ uploads'[u].key = uploads[u].key
      /\ uploads'[u].status \in {"filled", "aborted"}
      /\ \A x \in RecordingIds : x # u => uploads'[x] = uploads[x]
  BY DEF UploadRecordingPart, AbortRecordingUpload, IsOpen,
         WorkerIInv, WorkerTypeOK, Uploads
<1>2. WorkerTypeOK'
  BY <1>1 DEF WorkerIInv, WorkerTypeOK
<1>3. \A r : Move(r)
  BY <1>1, StoreUntouched DEF Move, Stored
<1>4. \A r \in Requests : RequestSound(r)'
  BY <1>1, <1>3, MoveKeepsOthers
<1>. QED
  BY <1>1, <1>2, <1>3, <1>4, StoreUntouched, QuietMove

LEMMA BeginRecordingUploadKeeps ==
    ASSUME WorkerIInv, NEW r \in UploadBegins, BeginRecordingUpload(r)
    PROVE  WorkerIInv'
<1>1. PICK u \in RecordingIds :
        /\ Known(u)
        /\ requests' = [requests EXCEPT ![r] =
              [@ EXCEPT !.pc = "apply", !.upload = u, !.key = uploads[u].key,
                        !.revision = conversation.revision]]
  BY DEF BeginRecordingUpload
<1>. DEFINE new == [requests[r] EXCEPT !.pc = "apply", !.upload = u,
                                       !.key = uploads[u].key,
                                       !.revision = conversation.revision]
<1>2. /\ r \in Requests /\ requests[r].pc = "read"
      /\ r \notin Begins /\ r \notin Completions
      /\ UNCHANGED vars /\ UNCHANGED <<uploads, objects, jobs>>
      /\ requests' = [requests EXCEPT ![r] = new]
  BY <1>1, UploadAssumption DEF BeginRecordingUpload, Requests, At
<1>3. conversation.revision \in Nat /\ uploads[u].key \in R2Keys
  BY <1>1, AlarmCoversType, KnownUpload
  DEF WorkerIInv, BeginRecordingUpload, Conversations
<1>4. /\ new \in RequestStates
      /\ new.pc = "apply" /\ new.upload = u /\ new.key = uploads[u].key
      /\ new.event = requests[r].event /\ new.unheard = requests[r].unheard
  BY <1>1, <1>2, <1>3, RequestFacts DEF RequestStates
<1>. HIDE DEF new
<1>5. /\ requests' \in [Requests -> RequestStates]
      /\ \A d \in Requests : d # r => requests'[d] = requests[d]
      /\ requests'[r] = new
  BY <1>2, <1>4, RequestUpdate
<1>6. Move(r)
  BY <1>2, <1>4, <1>5, StoreUntouched DEF Move, Stored
<1>7. Known(u)'
  BY <1>1, <1>6, MoveKeepsOthers
<1>8. UsesKnownUpload(r)'
  BY <1>2, <1>4, <1>5, <1>7 DEF UsesKnownUpload
<1>9. requests[r].event = 1
  BY <1>2, RequestFacts DEF UploadBeginProgress
<1>10. UploadBeginProgress(r)'
  BY <1>4, <1>5, <1>9 DEF UploadBeginProgress
<1>11. RequestSound(r)'
  BY <1>2, <1>8, <1>10 DEF RequestSound
<1>. QED
  BY <1>2, <1>4, <1>5, <1>11, StoreUntouched, RequestOnlyMove

LEMMA CompleteRecordingUploadKeeps ==
    ASSUME WorkerIInv, NEW r \in Completions, CompleteRecordingUpload(r)
    PROVE  WorkerIInv'
<1>1. PICK u \in RecordingIds :
        /\ Known(u)
        /\ requests' = [requests EXCEPT ![r] =
              [@ EXCEPT !.pc = IF IsReplay(u) THEN "persist" ELSE "assemble",
                        !.upload = u, !.key = uploads[u].key,
                        !.revision = conversation.revision]]
  BY DEF CompleteRecordingUpload
<1>. DEFINE pc == IF IsReplay(u) THEN "persist" ELSE "assemble"
            new == [requests[r] EXCEPT !.pc = pc, !.upload = u,
                                       !.key = uploads[u].key,
                                       !.revision = conversation.revision]
<1>2. /\ r \in Requests /\ requests[r].pc = "read"
      /\ r \notin Begins /\ r \notin UploadBegins
      /\ UNCHANGED vars /\ UNCHANGED <<uploads, objects, jobs>>
      /\ requests' = [requests EXCEPT ![r] = new]
  BY <1>1, UploadAssumption DEF CompleteRecordingUpload, Requests, At
<1>3. /\ conversation.revision \in Nat /\ uploads[u].key \in R2Keys
      /\ pc \in {"persist", "assemble"}
      /\ pc = "persist" => IsReady
  BY <1>1, AlarmCoversType, KnownUpload
  DEF WorkerIInv, CompleteRecordingUpload, Conversations, IsReplay, IsReady
<1>. HIDE DEF pc
<1>4. /\ new \in RequestStates
      /\ new.pc = pc /\ new.upload = u /\ new.key = uploads[u].key
      /\ new.event = requests[r].event /\ new.unheard = requests[r].unheard
  BY <1>1, <1>2, <1>3, RequestFacts DEF RequestStates
<1>. HIDE DEF new
<1>5. /\ requests' \in [Requests -> RequestStates]
      /\ \A d \in Requests : d # r => requests'[d] = requests[d]
      /\ requests'[r] = new
  BY <1>2, <1>4, RequestUpdate
<1>6. Move(r)
  BY <1>2, <1>4, <1>5, StoreUntouched DEF Move, Stored
<1>7. Known(u)'
  BY <1>1, <1>6, MoveKeepsOthers
<1>8. UsesKnownUpload(r)'
  BY <1>2, <1>3, <1>4, <1>5, <1>7 DEF UsesKnownUpload
<1>9. requests[r].event = 1
  BY <1>2, RequestFacts DEF CompletionProgress
<1>10. CompletionProgress(r)'
  BY <1>2, <1>3, <1>4, <1>5, <1>9, StoreUntouched DEF CompletionProgress
<1>11. RequestSound(r)'
  BY <1>2, <1>8, <1>10 DEF RequestSound
<1>. QED
  BY <1>2, <1>4, <1>5, <1>11, StoreUntouched, RequestOnlyMove

(* Whatever takes a known upload's place under its key is that upload.     *)
LEMMA AssembleKeeps ==
    ASSUME WorkerIInv, NEW r \in Completions, Assemble(r)
    PROVE  WorkerIInv'
<1>0. PICK u, k : u = requests[r].upload /\ k = requests[r].key
  OBVIOUS
<1>1. /\ r \in Requests /\ requests[r].pc = "assemble"
      /\ r \notin Begins /\ r \notin UploadBegins
      /\ UNCHANGED vars /\ jobs' = jobs
      /\ uploads[u].status = "filled"
      /\ uploads' = [uploads EXCEPT ![u].status = "completed"]
      /\ objects' = [objects EXCEPT ![k] = u]
      /\ Goto(r, "apply") \/ Goto(r, "failed")
  BY <1>0, UploadAssumption DEF Assemble, Requests, At
<1>2. PICK pc \in {"apply", "failed"} : Goto(r, pc)
  BY <1>1
<1>. DEFINE new == [requests[r] EXCEPT !.pc = pc]
<1>3. Known(u) /\ uploads[u].key = k
  BY <1>0, <1>1, RequestFacts DEF UsesKnownUpload
<1>4. u \in RecordingIds /\ Records(u) /\ k \in R2Keys
  BY <1>3, KnownUpload
<1>5. /\ new \in RequestStates
      /\ requests' = [requests EXCEPT ![r] = new]
      /\ new.pc = pc /\ new.upload = u /\ new.key = k
      /\ new.event = requests[r].event /\ new.unheard = requests[r].unheard
  BY <1>0, <1>1, <1>2, RequestFacts DEF RequestStates, Goto
<1>. HIDE DEF new
<1>6. /\ requests' \in [Requests -> RequestStates]
      /\ \A d \in Requests : d # r => requests'[d] = requests[d]
      /\ requests'[r] = new
  BY <1>1, <1>5, RequestUpdate
<1>7. /\ uploads' \in [RecordingIds -> Uploads]
      /\ uploads'[u].key = uploads[u].key
      /\ uploads'[u].status = "completed"
      /\ \A x \in RecordingIds : x # u => uploads'[x] = uploads[x]
  BY <1>1, <1>4 DEF WorkerIInv, WorkerTypeOK, Uploads
<1>8. /\ objects' \in [R2Keys -> RecordingIds \cup {None}]
      /\ objects'[k] = u
      /\ \A x \in R2Keys : x # k => objects'[x] = objects[x]
  BY <1>1, <1>4 DEF WorkerIInv, WorkerTypeOK
<1>9. WorkerTypeOK'
  BY <1>1, <1>6, <1>7, <1>8 DEF WorkerIInv, WorkerTypeOK
<1>10. \A x \in RecordingIds : Records(x) => x = u
  BY <1>4 DEF Records
<1>11. Move(r)
  BY <1>0, <1>1, <1>4, <1>5, <1>6, <1>7, <1>8, <1>10, StoreUntouched DEF Move, Stored
<1>12. Known(u)'
  BY <1>3, <1>11, MoveKeepsOthers
<1>13. UsesKnownUpload(r)'
  BY <1>2, <1>3, <1>5, <1>6, <1>7, <1>12 DEF UsesKnownUpload
<1>14. CompletionProgress(r)'
  BY <1>2, <1>5, <1>6, <1>8, RequestFacts DEF CompletionProgress, Stored
<1>15. RequestSound(r)'
  BY <1>1, <1>13, <1>14 DEF RequestSound
<1>. QED
  BY <1>1, <1>9, <1>11, <1>15, StoreUntouched, QuietMove

(* A known upload of a ready artifact is stored under its key.             *)
LEMMA ReadyUpload ==
    ASSUME WorkerIInv, IsReady, NEW u, Known(u)
    PROVE  /\ Records(u)
           /\ conversation.artifact.expectedR2Key = uploads[u].key
           /\ Stored(u, uploads[u].key)
BY KnownUpload
DEF WorkerIInv, UploadIsKnown, CompletedHasObject, IsReady, Records

LEMMA PersistJobKeeps ==
    ASSUME WorkerIInv, NEW r \in Completions, PersistJob(r)
    PROVE  WorkerIInv'
<1>0. PICK u, k : u = requests[r].upload /\ k = requests[r].key
  OBVIOUS
<1>. DEFINE job == [key |-> k, upload |-> u]
<1>1. /\ r \in Requests /\ requests[r].pc = "persist"
      /\ r \notin Begins /\ r \notin UploadBegins
      /\ UNCHANGED vars /\ UNCHANGED <<uploads, objects>>
      /\ jobs' \subseteq jobs \cup {job}
      /\ Goto(r, "ok") \/ Goto(r, "failed")
  BY <1>0, UploadAssumption DEF PersistJob, Requests, At
<1>2. PICK pc \in {"ok", "failed"} : Goto(r, pc)
  BY <1>1
<1>. DEFINE new == [requests[r] EXCEPT !.pc = pc]
<1>3. Known(u) /\ uploads[u].key = k /\ IsReady
  BY <1>0, <1>1, RequestFacts DEF UsesKnownUpload, CompletionProgress
<1>4. /\ u \in RecordingIds /\ k \in R2Keys
      /\ Records(u) /\ Stored(u, k)
      /\ conversation.artifact.expectedR2Key = k
  BY <1>3, KnownUpload, ReadyUpload
<1>5. /\ new \in RequestStates
      /\ requests' = [requests EXCEPT ![r] = new]
      /\ new.pc = pc /\ new.upload = u /\ new.key = k
      /\ new.event = requests[r].event /\ new.unheard = requests[r].unheard
  BY <1>0, <1>1, <1>2, RequestFacts DEF RequestStates, Goto
<1>. HIDE DEF new
<1>6. /\ requests' \in [Requests -> RequestStates]
      /\ \A d \in Requests : d # r => requests'[d] = requests[d]
      /\ requests'[r] = new
  BY <1>1, <1>5, RequestUpdate
<1>7. job \in Jobs /\ job.key = k /\ job.upload = u
  BY <1>4 DEF Jobs
<1>8. WorkerTypeOK'
  BY <1>1, <1>6, <1>7 DEF WorkerIInv, WorkerTypeOK
<1>9. Move(r)
  BY <1>0, <1>1, <1>5, <1>6, StoreUntouched DEF Move, Stored
<1>10. Known(u)'
  BY <1>3, <1>9, MoveKeepsOthers
<1>11. UsesKnownUpload(r)'
  BY <1>1, <1>2, <1>3, <1>5, <1>6, <1>10 DEF UsesKnownUpload
<1>12. CompletionProgress(r)'
  BY <1>1, <1>2, <1>3, <1>5, <1>6, RequestFacts, StoreUntouched
  DEF CompletionProgress
<1>13. RequestSound(r)'
  BY <1>1, <1>11, <1>12 DEF RequestSound
<1>. HIDE DEF job
<1>14. \A j \in jobs' : j \in jobs \/
          /\ IsReady /\ Records(j.upload)
          /\ conversation.artifact.expectedR2Key = j.key
          /\ Stored(j.upload, j.key)
  BY <1>1, <1>3, <1>4, <1>7
<1>. QED
  BY <1>1, <1>8, <1>9, <1>13, <1>14, StoreUntouched, QuietMove

-----------------------------------------------------------------------------
(***************************************************************************)
(* WorkerIInv is inductive: events                                         *)
(***************************************************************************)

(* Which request sends an event of a type, and when.                       *)
LEMMA EventSchedule ==
    ASSUME WorkerIInv, NEW r \in Requests
    PROVE  LET type  == EventsOf(r)[requests[r].event]
               event == requests[r].event
           IN  /\ r \in Begins =>
                    /\ event \in 1 .. 3
                    /\ Done(r) <=> event = 3
                    /\ event = 2 => type = "RecordingStarted"
                    /\ event = 3 => type = "SessionStarted"
                    /\ type \in {"TransportConnected", "RecordingStarted",
                                 "SessionStarted"}
               /\ r \in UploadBegins =>
                    /\ event \in 1 .. 2
                    /\ Done(r) <=> event = 2
                    /\ event = 1 => type = "SessionClosed"
                    /\ event = 2 => type = "RecordingUploadStarted"
               /\ r \in Completions =>
                    /\ event = 1
                    /\ Done(r)
                    /\ type = "RecordingArtifactVerified"
               /\ type = "SessionStarted" => r \in Begins /\ event = 3 /\ Done(r)
<1>1. CASE r \in Begins
  <2>1. /\ EventsOf(r) = <<"TransportConnected", "RecordingStarted", "SessionStarted">>
        /\ r \notin UploadBegins /\ r \notin Completions
    BY <1>1, RequestEvents DEF BeginEvents
  <2>2. requests[r].event \in 1 .. 3
    BY RequestFacts DEF RequestStates
  <2>. QED
    BY <1>1, <2>1, <2>2 DEF Done
<1>2. CASE r \in UploadBegins
  <2>1. /\ EventsOf(r) = <<"SessionClosed", "RecordingUploadStarted">>
        /\ r \notin Begins /\ r \notin Completions
    BY <1>2, RequestEvents DEF UploadBeginEvents
  <2>2. requests[r].event \in 1 .. 2
    BY <1>2, RequestFacts DEF UploadBeginProgress
  <2>. QED
    BY <1>2, <2>1, <2>2 DEF Done
<1>3. CASE r \in Completions
  <2>1. /\ EventsOf(r) = <<"RecordingArtifactVerified">>
        /\ r \notin Begins /\ r \notin UploadBegins
    BY <1>3, RequestEvents DEF CompletionEvents
  <2>2. requests[r].event = 1
    BY <1>3, RequestFacts DEF CompletionProgress
  <2>. QED
    BY <1>3, <2>1, <2>2 DEF Done
<1>4. r \in Begins \/ r \in UploadBegins \/ r \in Completions
  BY DEF Requests
<1>. QED
  BY <1>1, <1>2, <1>3, <1>4

LEMMA AdvanceMoves ==
    ASSUME WorkerIInv, NEW r \in Requests, At(r, "apply"),
           NEW revision \in Nat, Advance(r, revision)
    PROVE  /\ requests' \in [Requests -> RequestStates]
           /\ \A d \in Requests : d # r => requests'[d] = requests[d]
           /\ requests'[r].upload = requests[r].upload
           /\ requests'[r].key = requests[r].key
           /\ requests'[r].unheard = requests[r].unheard
           /\ requests'[r].event = NextEvent(r)
           /\ requests'[r].pc = NextPc(r)
<1>. DEFINE new == [requests[r] EXCEPT !.pc = NextPc(r), !.event = NextEvent(r),
                                       !.attempt = 1, !.revision = revision]
<1>1. requests' = [requests EXCEPT ![r] = new]
  BY DEF Advance
<1>2. NextEvent(r) \in 1 .. 3
  BY EventSchedule DEF Requests, NextEvent
<1>3. NextPc(r) \in {"apply", "persist", "ok"}
  BY DEF AfterEvents, NextPc
<1>4. 1 \in 1 .. MaxAttempts
  BY UploadAssumption
<1>5. /\ new \in RequestStates
      /\ new.upload = requests[r].upload /\ new.key = requests[r].key
      /\ new.unheard = requests[r].unheard
      /\ new.event = NextEvent(r) /\ new.pc = NextPc(r)
  BY <1>2, <1>3, <1>4, RequestFacts DEF RequestStates
<1>. HIDE DEF new
<1>6. /\ requests' \in [Requests -> RequestStates]
      /\ \A d \in Requests : d # r => requests'[d] = requests[d]
      /\ requests'[r] = new
  BY <1>1, <1>5, RequestUpdate
<1>. QED
  BY <1>5, <1>6

LEMMA AdvanceSound ==
    ASSUME WorkerIInv, NEW r \in Requests, At(r, "apply"),
           NEW revision \in Nat, Advance(r, revision), Move(r),
           UNCHANGED <<uploads, objects, jobs>>,
           NEW type, type = EventsOf(r)[requests[r].event],
           NEW u, u = requests[r].upload,
           HasReceipt(<<type, u>>)',
           type # "TransportConnected" => Records(u)',
           type = "RecordingArtifactVerified" => IsReady'
    PROVE  RequestSound(r)'
<1>1. requests[r].pc = "apply"
  BY DEF At
<1>2. /\ requests'[r].upload = u
      /\ requests'[r].key = requests[r].key
      /\ requests'[r].unheard = requests[r].unheard
      /\ requests'[r].event = NextEvent(r)
      /\ requests'[r].pc = NextPc(r)
  BY AdvanceMoves
<1>3. CASE r \in Begins
  <2>1. /\ ~requests[r].unheard /\ u # None /\ requests[r].key # None
        /\ uploads[u].key = requests[r].key /\ uploads[u].status # "none"
    BY <1>1, <1>3, RequestFacts DEF BeginHoldsUpload
  <2>2. AfterEvents(r) = "ok"
    BY <1>3, RequestEvents DEF AfterEvents
  <2>3. BeginHoldsUpload(r)'
    BY <1>2, <2>1, <2>2 DEF BeginHoldsUpload, NextPc
  <2>4. BeginProgress(r)'
    BY <1>2, <1>3, <2>2, EventSchedule DEF BeginProgress, NextEvent, NextPc
  <2>. QED
    BY <1>3, <2>3, <2>4, RequestEvents DEF RequestSound
<1>4. ASSUME r \in UploadBegins \cup Completions
      PROVE  UsesKnownUpload(r)'
  <2>1. Known(u) /\ uploads[u].key = requests[r].key
    BY <1>1, <1>4, RequestFacts DEF UsesKnownUpload
  <2>2. Known(u)'
    BY <2>1, MoveKeepsOthers
  <2>3. requests'[r].pc \in {"apply", "persist", "ok"}
    BY <1>2 DEF AfterEvents, NextPc
  <2>. QED
    BY <1>2, <2>1, <2>2, <2>3 DEF UsesKnownUpload
<1>5. CASE r \in UploadBegins
  <2>1. AfterEvents(r) = "ok"
    BY <1>5, RequestEvents DEF AfterEvents
  <2>2. requests[r].event = 2 => HasReceipt(<<"SessionClosed", u>>)'
    BY <1>1, <1>5, RequestFacts DEF UploadBeginProgress, Move
  <2>3. UploadBeginProgress(r)'
    BY <1>2, <1>5, <2>1, <2>2, EventSchedule DEF UploadBeginProgress, NextEvent, NextPc
  <2>. QED
    BY <1>4, <1>5, <2>3, RequestEvents DEF RequestSound
<1>6. CASE r \in Completions
  <2>1. CompletionProgress(r)'
    BY <1>2, <1>6, EventSchedule
    DEF CompletionProgress, AfterEvents, NextEvent, NextPc
  <2>. QED
    BY <1>4, <1>6, <2>1, RequestEvents DEF RequestSound
<1>. QED
  BY <1>3, <1>5, <1>6 DEF Requests

(* A repeated event has left its traces.                                   *)
LEMMA EventDuplicateKeeps ==
    ASSUME WorkerIInv, NEW r \in Requests, EventDuplicate(r)
    PROVE  Next /\ WorkerIInv'
<1>0. PICK type, u : /\ type = EventsOf(r)[requests[r].event]
                    /\ u = requests[r].upload
  OBVIOUS
<1>1. /\ At(r, "apply") /\ ApplyDuplicate(EventOf(r))
      /\ Advance(r, conversation.revision)
      /\ UNCHANGED <<uploads, objects, jobs>>
  BY DEF EventDuplicate
<1>2. /\ type \in RecordingEventTypes /\ u \in RecordingIds
      /\ EventOf(r) \in Calls /\ EventOf(r).id = <<type, u>>
  BY <1>0, <1>1, RequestHolds
<1>3. Next
  BY <1>1, <1>2 DEF Next
<1>4. IInv'
  BY <1>3, NextKeepsInvariant DEF WorkerIInv
<1>5. /\ UNCHANGED <<conversation, receipts>> /\ Initialized
      /\ HasReceipt(<<type, u>>)
  BY <1>1, <1>2 DEF ApplyDuplicate, IsDuplicate
<1>6. conversation.revision \in Nat
  BY <1>5, AlarmCoversType DEF WorkerIInv, Conversations
<1>7. /\ requests' \in [Requests -> RequestStates]
      /\ \A d \in Requests : d # r => requests'[d] = requests[d]
      /\ requests'[r].upload = requests[r].upload
      /\ requests'[r].unheard = requests[r].unheard
      /\ requests[r].pc = "apply"
  BY <1>1, <1>6, AdvanceMoves DEF At
<1>8. Move(r)
  BY <1>1, <1>5, <1>7 DEF Move, Records, Initialized, Stored, HasReceipt, IsReady
<1>9. /\ type # "TransportConnected" => Records(u)
      /\ type = "RecordingArtifactVerified" => IsReady
  BY <1>2, <1>5 DEF WorkerIInv, ReceiptsTellUpload, VerifiedIsReady, HasReceipt
<1>10. /\ HasReceipt(<<type, u>>)'
       /\ type # "TransportConnected" => Records(u)'
       /\ type = "RecordingArtifactVerified" => IsReady'
  BY <1>2, <1>5, <1>8, <1>9 DEF Move
<1>11. RequestSound(r)'
  BY <1>0, <1>1, <1>6, <1>8, <1>10, AdvanceSound
<1>12. WorkerIInv'
  BY <1>1, <1>4, <1>5, <1>7, <1>11, RequestOnlyMove
<1>. QED
  BY <1>3, <1>12

(* What the store's application of a request's event does, given where the *)
(* requests stand.                                                         *)
LEMMA AppliedFacts ==
    ASSUME WorkerIInv, NEW r \in Requests, At(r, "apply"),
           NEW lead \in LeadsOf(EventOf(r)),
           ApplyEvent(requests[r].revision, Stamped(EventOf(r), lead)),
           NEW type, type = EventsOf(r)[requests[r].event],
           NEW u, u = requests[r].upload
    PROVE  /\ Next /\ IInv' /\ Initialized /\ Initialized'
           /\ type \in RecordingEventTypes /\ u \in RecordingIds
           /\ \A id : HasReceipt(id)' <=> HasReceipt(id) \/ id = <<type, u>>
           /\ \A receipt \in receipts' : receipt \in receipts \/
                /\ receipt.eventType = type
                /\ receipt.eventId = <<type, u>>
           /\ \A v \in RecordingIds : Records(v) => Records(v)'
           /\ type # "TransportConnected" => Records(u)'
           /\ IsReady => IsReady' /\ conversation'.artifact = conversation.artifact
           /\ type = "RecordingArtifactVerified" => IsReady'
           /\ \/ conversation'.artifact = conversation.artifact
              \/ conversation'.artifact.status \in {"recording", "failed"}
              \/ /\ r \notin Begins
                 /\ conversation'.artifact.recordingId = u
                 /\ conversation'.artifact.expectedR2Key = requests[r].key
                 /\ conversation'.artifact.status = "ready" => r \in Completions
<1>0. PICK e, k : e = Stamped(EventOf(r), lead) /\ k = requests[r].key
  OBVIOUS
<1>1. /\ type \in RecordingEventTypes /\ u \in RecordingIds
      /\ EventOf(r) \in Calls
      /\ EventOf(r).id = <<type, u>> /\ EventOf(r).type = type
      /\ EventOf(r) = RecordingEvent(type, u, k)
  BY <1>0, RequestHolds
<1>2. IInv
  BY DEF WorkerIInv
<1>3. /\ EventStep(e)
      /\ e.id = <<type, u>> /\ e.type = type
      /\ e.recordingId = EventOf(r).recordingId
      /\ e.expectedR2Key = EventOf(r).expectedR2Key
      /\ requests[r].revision \in SeenRevisions
  BY <1>0, <1>1, <1>2, ApplyEventIsEventStep
<1>4. /\ type \in {"RecordingStarted", "RecordingUploadStarted",
                   "RecordingArtifactVerified"} => e.recordingId = u
      /\ type \in {"RecordingUploadStarted", "RecordingArtifactVerified"} =>
            e.expectedR2Key = k
  <2>1. /\ EventOf(r).recordingId = IF type \in NeedsRecording THEN u ELSE None
        /\ EventOf(r).expectedR2Key =
              IF type \in {"RecordingUploadStarted", "RecordingArtifactVerified"}
              THEN k ELSE None
    BY <1>1 DEF RecordingEvent
  <2>. QED
    BY <1>3, <2>1 DEF NeedsRecording
<1>5. Next
  BY <1>0, <1>1, <1>3 DEF Next
<1>6. IInv'
  BY <1>2, <1>5, NextKeepsInvariant
<1>7. /\ receipts' = receipts \cup {Receipt(e, conversation, conversation')}
      /\ Receipt(e, conversation, conversation').eventType = type
      /\ Receipt(e, conversation, conversation').eventId = <<type, u>>
      /\ ~HasReceipt(<<type, u>>)
  BY <1>3 DEF EventStep, Receipt
<1>8. type # "ArtifactFailed"
  BY <1>1 DEF RecordingEventTypes
<1>9. /\ Initialized /\ Initialized'
      /\ \A id : HasReceipt(id)' <=> HasReceipt(id) \/ id = e.id
      /\ \A v \in RecordingIds : Records(v) => Records(v)'
      /\ IsReady /\ e.type # "RecordingUploadStarted" =>
            conversation'.artifact = conversation.artifact
      /\ \/ conversation'.artifact = conversation.artifact
         \/ conversation'.artifact.status \in {"recording", "failed"}
         \/ /\ e.type \in {"RecordingUploadStarted", "RecordingArtifactVerified"}
            /\ conversation'.artifact.recordingId = e.recordingId
            /\ conversation'.artifact.expectedR2Key = e.expectedR2Key
            /\ conversation'.artifact.status = "ready" =>
                  e.type = "RecordingArtifactVerified"
      /\ e.type = "RecordingStarted" => Records(e.recordingId)'
      /\ e.type = "RecordingArtifactVerified" => IsReady'
  BY <1>2, <1>3, <1>8, EventStepEffect
<1>10. type \in {"RecordingUploadStarted", "RecordingArtifactVerified"} =>
          r \notin Begins
  BY EventSchedule
<1>11. type = "RecordingArtifactVerified" => r \in Completions
  <2>1. r \in UploadBegins => type # "RecordingArtifactVerified"
    BY EventSchedule
  <2>. QED
    BY <2>1, <1>10 DEF Requests
<1>12. type # "TransportConnected" => Records(u)'
  <2>1. CASE r \in Begins
    <3>1. requests[r].event = 3 => Records(u)
      BY <2>1, RequestFacts DEF BeginProgress, At
    <3>. QED
      BY <1>1, <1>3, <1>4, <1>9, <2>1, <3>1, EventSchedule
  <2>2. CASE r \in UploadBegins \cup Completions
    <3>1. Known(u)
      BY <2>2, RequestFacts DEF UsesKnownUpload, At
    <3>2. Records(u)
      BY <3>1, KnownUpload
    <3>. QED
      BY <1>1, <1>9, <3>2
  <2>. QED
    BY <2>1, <2>2 DEF Requests
<1>13. IsReady => type # "RecordingUploadStarted"
  <2>1. SUFFICES ASSUME IsReady, type = "RecordingUploadStarted" PROVE FALSE
    OBVIOUS
  <2>2. Happened("RecordingUploadStarted")
    BY <1>2, <2>1 DEF IInv, StateHasCause, IsReady
  <2>3. PICK receipt \in receipts : receipt.eventType = "RecordingUploadStarted"
    BY <2>2 DEF Happened
  <2>4. "RecordingUploadStarted" \in RecordingEventTypes
    BY DEF RecordingEventTypes
  <2>5. PICK v \in RecordingIds : receipt.eventId = <<"RecordingUploadStarted", v>>
    BY <2>3, <2>4 DEF WorkerIInv, ReceiptsTellUpload
  <2>6. Records(v)
    BY <2>4, <2>5 DEF WorkerIInv, ReceiptsTellUpload
  <2>7. r \notin Begins
    BY <1>10, <2>1
  <2>8. Known(u)
    BY <2>7, RequestFacts DEF UsesKnownUpload, At, Requests
  <2>9. Records(u)
    BY <2>8, KnownUpload
  <2>10. u = v
    BY <2>6, <2>9 DEF Records
  <2>. QED
    BY <1>7, <2>1, <2>3, <2>5, <2>10 DEF HasReceipt
<1>14. IsReady => IsReady' /\ conversation'.artifact = conversation.artifact
  BY <1>3, <1>9, <1>13 DEF IsReady
<1>15. \/ conversation'.artifact = conversation.artifact
       \/ conversation'.artifact.status \in {"recording", "failed"}
       \/ /\ r \notin Begins
          /\ conversation'.artifact.recordingId = u
          /\ conversation'.artifact.expectedR2Key = k
          /\ conversation'.artifact.status = "ready" => r \in Completions
  BY <1>3, <1>4, <1>9, <1>10, <1>11
<1>16. \A receipt \in receipts' : receipt \in receipts \/
          /\ receipt.eventType = type
          /\ receipt.eventId = <<type, u>>
  BY <1>7
<1>. QED
  BY <1>0, <1>1, <1>3, <1>5, <1>6, <1>9, <1>12, <1>14, <1>15, <1>16

(* An event of request r is applied, and the request hears of it or not.   *)
LEMMA AppliedKeeps ==
    ASSUME WorkerIInv, NEW r \in Requests, At(r, "apply"),
           NEW lead \in LeadsOf(EventOf(r)),
           ApplyEvent(requests[r].revision, Stamped(EventOf(r), lead)),
           UNCHANGED <<uploads, objects, jobs>>,
           NEW type, type = EventsOf(r)[requests[r].event],
           NEW u, u = requests[r].upload,
           requests' \in [Requests -> RequestStates],
           \A d \in Requests : d # r => requests'[d] = requests[d],
           requests[r].unheard => requests'[r].unheard,
           requests'[r].upload = u,
           Move(r) => RequestSound(r)',
           type = "SessionStarted" => requests'[r].pc = "ok" \/ requests'[r].unheard
    PROVE  WorkerIInv'
<1>1. /\ IInv' /\ Initialized /\ Initialized'
      /\ type \in RecordingEventTypes /\ u \in RecordingIds
      /\ \A id : HasReceipt(id)' <=> HasReceipt(id) \/ id = <<type, u>>
      /\ \A receipt \in receipts' : receipt \in receipts \/
            /\ receipt.eventType = type
            /\ receipt.eventId = <<type, u>>
      /\ \A v \in RecordingIds : Records(v) => Records(v)'
      /\ type # "TransportConnected" => Records(u)'
      /\ IsReady => IsReady' /\ conversation'.artifact = conversation.artifact
      /\ type = "RecordingArtifactVerified" => IsReady'
      /\ \/ conversation'.artifact = conversation.artifact
         \/ conversation'.artifact.status \in {"recording", "failed"}
         \/ /\ r \notin Begins
            /\ conversation'.artifact.recordingId = u
            /\ conversation'.artifact.expectedR2Key = requests[r].key
            /\ conversation'.artifact.status = "ready" => r \in Completions
  BY AppliedFacts
<1>2. Move(r)
  BY <1>1 DEF Move, Stored, At
<1>3. /\ \A v : Known(v) => Known(v)'
      /\ \A d \in Requests : requests'[d] = requests[d] => RequestSound(d)'
      /\ UploadsHaveOneOwner'
      /\ GivenUpByOwner'
      /\ \A v \in RecordingIds : HasReceipt(<<"SessionStarted", v>>) =>
            \E b \in Begins :
                /\ requests'[b].upload = v
                /\ requests'[b].pc = "ok" \/ requests'[b].unheard
  BY <1>2, MoveKeepsOthers
<1>4. WorkerTypeOK' /\ \A d \in Requests : RequestSound(d)'
  BY <1>2, <1>3 DEF WorkerIInv, WorkerTypeOK
<1>5. ReceiptsTellUpload'
  <2>1. ASSUME NEW receipt \in receipts'
        PROVE  /\ receipt.eventType \in RecordingEventTypes =>
                    \E v \in RecordingIds : receipt.eventId = <<receipt.eventType, v>>
               /\ \A t \in RecordingEventTypes, v \in RecordingIds :
                    receipt.eventId = <<t, v>> =>
                      /\ receipt.eventType = t
                      /\ t # "TransportConnected" => Records(v)'
    <3>1. CASE receipt \in receipts
      BY <1>1, <3>1 DEF WorkerIInv, ReceiptsTellUpload
    <3>2. CASE receipt.eventType = type /\ receipt.eventId = <<type, u>>
      BY <1>1, <3>2
    <3>. QED
      BY <1>1, <2>1, <3>1, <3>2
  <2>. QED
    BY <2>1 DEF ReceiptsTellUpload
<1>6. SessionHasBegin'
  <2>1. ASSUME NEW v \in RecordingIds, HasReceipt(<<"SessionStarted", v>>)'
        PROVE  \E b \in Begins :
                  /\ requests'[b].upload = v
                  /\ requests'[b].pc = "ok" \/ requests'[b].unheard
    <3>1. CASE HasReceipt(<<"SessionStarted", v>>)
      BY <1>3, <3>1
    <3>2. CASE <<"SessionStarted", v>> = <<type, u>>
      <4>1. type = "SessionStarted" /\ v = u
        BY <3>2
      <4>2. r \in Begins
        BY <4>1, EventSchedule
      <4>. QED
        BY <4>1, <4>2
    <3>. QED
      BY <1>1, <2>1, <3>1, <3>2
  <2>. QED
    BY <2>1 DEF SessionHasBegin
<1>7. VerifiedIsReady'
  BY <1>1 DEF WorkerIInv, VerifiedIsReady
<1>8. r \notin Begins => Known(u) /\ uploads[u].key = requests[r].key
  BY RequestFacts DEF UsesKnownUpload, At, Requests
<1>9. UploadIsKnown'
  BY <1>1, <1>3, <1>8 DEF WorkerIInv, UploadIsKnown
<1>10. CompletedHasObject'
  <2>1. ASSUME IsReady'
        PROVE  objects'[conversation'.artifact.expectedR2Key] =
                 conversation'.artifact.recordingId
    <3>1. CASE conversation'.artifact = conversation.artifact
      BY <1>1, <2>1, <3>1 DEF WorkerIInv, CompletedHasObject, IsReady, Stored
    <3>2. CASE /\ r \in Completions
               /\ conversation'.artifact.recordingId = u
               /\ conversation'.artifact.expectedR2Key = requests[r].key
      BY <3>2, RequestFacts DEF CompletionProgress, At, Stored
    <3>. QED
      BY <1>1, <2>1, <3>1, <3>2 DEF IsReady
  <2>. QED
    BY <2>1 DEF CompletedHasObject, Stored
<1>11. JobHasRecording'
  BY <1>1 DEF WorkerIInv, JobHasRecording, Records, Stored
<1>. QED
  BY <1>1, <1>3, <1>4, <1>5, <1>6, <1>7, <1>9, <1>10, <1>11 DEF WorkerIInv

LEMMA EventAppliedKeeps ==
    ASSUME WorkerIInv, NEW r \in Requests, EventApplied(r)
    PROVE  Next /\ WorkerIInv'
<1>0. PICK type, u : /\ type = EventsOf(r)[requests[r].event]
                    /\ u = requests[r].upload
  OBVIOUS
<1>1. PICK lead \in LeadsOf(EventOf(r)) :
        ApplyEvent(requests[r].revision, Stamped(EventOf(r), lead))
  BY DEF EventApplied
<1>2. /\ At(r, "apply") /\ Advance(r, conversation'.revision)
      /\ UNCHANGED <<uploads, objects, jobs>>
  BY DEF EventApplied
<1>3. /\ Next /\ IInv' /\ Initialized'
      /\ HasReceipt(<<type, u>>)'
      /\ type # "TransportConnected" => Records(u)'
      /\ type = "RecordingArtifactVerified" => IsReady'
  BY <1>0, <1>1, <1>2, AppliedFacts
<1>4. conversation'.revision \in Nat
  BY <1>3 DEF IInv, TypeOK, Initialized, Conversations
<1>5. /\ requests' \in [Requests -> RequestStates]
      /\ \A d \in Requests : d # r => requests'[d] = requests[d]
      /\ requests'[r].upload = u
      /\ requests'[r].unheard = requests[r].unheard
      /\ requests'[r].pc = NextPc(r)
  BY <1>0, <1>2, <1>4, AdvanceMoves
<1>6. Move(r) => RequestSound(r)'
  BY <1>0, <1>2, <1>3, <1>4, AdvanceSound
<1>7. type = "SessionStarted" => requests'[r].pc = "ok"
  <2>1. ASSUME type = "SessionStarted" PROVE r \in Begins /\ Done(r)
    BY <1>0, <2>1, EventSchedule
  <2>. QED
    BY <1>5, <2>1, RequestEvents DEF NextPc, AfterEvents
<1>8. WorkerIInv'
  BY <1>0, <1>1, <1>2, <1>5, <1>6, <1>7, AppliedKeeps
<1>. QED
  BY <1>3, <1>8

(* The event took effect; the request gives up all the same.               *)
LEMMA EventAnswerLostKeeps ==
    ASSUME WorkerIInv, NEW r \in Requests, EventAnswerLost(r)
    PROVE  Next /\ WorkerIInv'
<1>0. PICK type, u : /\ type = EventsOf(r)[requests[r].event]
                    /\ u = requests[r].upload
  OBVIOUS
<1>. DEFINE new == [requests[r] EXCEPT !.pc = AfterRefusal(r), !.unheard = TRUE]
<1>1. PICK lead \in LeadsOf(EventOf(r)) :
        ApplyEvent(requests[r].revision, Stamped(EventOf(r), lead))
  BY DEF EventAnswerLost
<1>2. /\ At(r, "apply") /\ requests[r].pc = "apply"
      /\ UNCHANGED <<uploads, objects, jobs>>
      /\ requests' = [requests EXCEPT ![r] = new]
  BY DEF EventAnswerLost, At
<1>3. Next
  BY <1>0, <1>1, <1>2, AppliedFacts
<1>4. /\ AfterRefusal(r) \in {"abort", "failed"}
      /\ r \notin Begins => AfterRefusal(r) = "failed"
  BY DEF AfterRefusal
<1>5. /\ new \in RequestStates
      /\ new.pc = AfterRefusal(r) /\ new.unheard = TRUE
      /\ new.upload = u /\ new.key = requests[r].key
      /\ new.event = requests[r].event
  BY <1>0, <1>4, RequestFacts DEF RequestStates
<1>. HIDE DEF new
<1>6. /\ requests' \in [Requests -> RequestStates]
      /\ \A d \in Requests : d # r => requests'[d] = requests[d]
      /\ requests'[r] = new
  BY <1>2, <1>5, RequestUpdate
<1>7. ASSUME Move(r)
      PROVE  RequestSound(r)'
  <2>1. CASE r \in Begins
    <3>1. BeginHoldsUpload(r)'
      BY <1>0, <1>2, <1>4, <1>5, <1>6, <2>1, RequestFacts DEF BeginHoldsUpload
    <3>2. BeginProgress(r)'
      BY <1>4, <1>5, <1>6 DEF BeginProgress
    <3>. QED
      BY <2>1, <3>1, <3>2, RequestEvents DEF RequestSound
  <2>2. CASE r \notin Begins
    <3>1. Known(u) /\ uploads[u].key = requests[r].key
      BY <1>0, <1>2, <2>2, RequestFacts DEF UsesKnownUpload, Requests
    <3>2. Known(u)'
      BY <1>7, <3>1, MoveKeepsOthers
    <3>3. UsesKnownUpload(r)'
      BY <1>2, <1>4, <1>5, <1>6, <2>2, <3>1, <3>2 DEF UsesKnownUpload
    <3>4. r \in UploadBegins => UploadBeginProgress(r)'
      BY <1>2, <1>4, <1>5, <1>6, <2>2, RequestFacts DEF UploadBeginProgress
    <3>5. r \in Completions => CompletionProgress(r)'
      BY <1>2, <1>4, <1>5, <1>6, <2>2, RequestFacts DEF CompletionProgress
    <3>. QED
      BY <2>2, <3>3, <3>4, <3>5 DEF RequestSound
  <2>. QED
    BY <2>1, <2>2
<1>8. WorkerIInv'
  BY <1>0, <1>1, <1>2, <1>5, <1>6, <1>7, AppliedKeeps
<1>. QED
  BY <1>3, <1>8

-----------------------------------------------------------------------------
(***************************************************************************)
(* WorkerIInv is an invariant                                              *)
(***************************************************************************)

LEMMA InitEstablishesWorkerInvariant ==
    WorkerInit => WorkerIInv
<1>. SUFFICES ASSUME WorkerInit PROVE WorkerIInv
  OBVIOUS
<1>1. /\ IInv /\ ~Initialized /\ receipts = {} /\ jobs = {}
      /\ uploads = [u \in RecordingIds |-> [status |-> "none", key |-> None]]
      /\ objects = [k \in R2Keys |-> None]
      /\ requests = [r \in Requests |->
                      [pc |-> "read", upload |-> None, key |-> None,
                       revision |-> 0, event |-> 1, attempt |-> 1,
                       unheard |-> FALSE]]
  BY InitEstablishesInvariant DEF WorkerInit, Init, Initialized
<1>2. \A r \in Requests :
        /\ requests[r].pc = "read" /\ requests[r].upload = None
        /\ requests[r].event = 1 /\ requests[r].unheard = FALSE
  BY <1>1
<1>3. WorkerTypeOK
  <2>1. 1 \in 1 .. MaxAttempts
    BY UploadAssumption
  <2>2. requests \in [Requests -> RequestStates]
    BY <1>1, <2>1 DEF RequestStates
  <2>3. uploads \in [RecordingIds -> Uploads]
    BY <1>1 DEF Uploads
  <2>4. objects \in [R2Keys -> RecordingIds \cup {None}] /\ jobs \subseteq Jobs
    BY <1>1
  <2>. QED
    BY <2>2, <2>3, <2>4 DEF WorkerTypeOK
<1>4. ASSUME NEW r \in Requests PROVE RequestSound(r)
  BY <1>2, RequestEvents
  DEF RequestSound, BeginHoldsUpload, BeginProgress, UsesKnownUpload,
      UploadBeginProgress, CompletionProgress
<1>5. UploadsHaveOneOwner
  BY <1>2 DEF UploadsHaveOneOwner, Requests
<1>6. ReceiptsTellUpload /\ SessionHasBegin /\ VerifiedIsReady
  BY <1>1 DEF ReceiptsTellUpload, SessionHasBegin, VerifiedIsReady, HasReceipt
<1>7. UploadIsKnown /\ GivenUpByOwner /\ CompletedHasObject /\ JobHasRecording
  BY <1>1
  DEF UploadIsKnown, GivenUpByOwner, CompletedHasObject, JobHasRecording, IsReady
<1>. QED
  BY <1>1, <1>3, <1>4, <1>5, <1>6, <1>7 DEF WorkerIInv

(* One case for each action: the invariant is kept, and the step is one of *)
(* the store's, or leaves the store alone.                                 *)
LEMMA WorkerStep ==
    ASSUME WorkerIInv, [WorkerNext]_allVars
    PROVE  WorkerIInv' /\ [Next]_vars
<1>1. CASE OtherCalls
  BY <1>1, OtherCallsKeep, OtherCallsAreStoreSteps
<1>2. ASSUME NEW r \in Requests, ApplyEvents(r)
      PROVE  WorkerIInv' /\ [Next]_vars
  <2>1. CASE EventApplied(r)
    BY <2>1, EventAppliedKeeps
  <2>2. CASE EventDuplicate(r)
    BY <2>2, EventDuplicateKeeps
  <2>3. CASE EventConflict(r)
    BY <2>3, EventConflictKeeps DEF EventConflict
  <2>4. CASE EventRejected(r)
    BY <2>4, RefusedKeeps DEF EventRejected
  <2>5. CASE EventCallFails(r)
    BY <2>5, RefusedKeeps DEF EventCallFails
  <2>6. CASE EventAnswerLost(r)
    BY <2>6, EventAnswerLostKeeps
  <2>. QED
    BY <1>2, <2>1, <2>2, <2>3, <2>4, <2>5, <2>6 DEF ApplyEvents
<1>3. ASSUME NEW r \in Begins, \/ BeginRecording(r) \/ CreateMultipartUpload(r)
                               \/ CreateFails(r) \/ AbortOwnUpload(r)
      PROVE  WorkerIInv' /\ [Next]_vars
  <2>1. CASE BeginRecording(r)
    BY <2>1, BeginRecordingKeeps DEF BeginRecording
  <2>2. CASE CreateMultipartUpload(r)
    BY <2>2, CreateMultipartUploadKeeps DEF CreateMultipartUpload
  <2>3. CASE CreateFails(r)
    BY <2>3, GivesUpKeeps DEF CreateFails, At, Requests
  <2>4. CASE AbortOwnUpload(r)
    BY <2>4, AbortOwnUploadKeeps DEF AbortOwnUpload
  <2>. QED
    BY <1>3, <2>1, <2>2, <2>3, <2>4
<1>4. ASSUME NEW r \in UploadBegins, BeginRecordingUpload(r)
      PROVE  WorkerIInv' /\ [Next]_vars
  BY <1>4, BeginRecordingUploadKeeps DEF BeginRecordingUpload
<1>5. ASSUME NEW r \in Completions, \/ CompleteRecordingUpload(r) \/ Assemble(r)
                                    \/ AssembleFails(r) \/ PersistJob(r)
      PROVE  WorkerIInv' /\ [Next]_vars
  <2>1. CASE CompleteRecordingUpload(r)
    BY <2>1, CompleteRecordingUploadKeeps DEF CompleteRecordingUpload
  <2>2. CASE Assemble(r)
    BY <2>2, AssembleKeeps DEF Assemble
  <2>3. CASE AssembleFails(r)
    BY <2>3, GivesUpKeeps DEF AssembleFails, At, Requests
  <2>4. CASE PersistJob(r)
    BY <2>4, PersistJobKeeps DEF PersistJob
  <2>. QED
    BY <1>5, <2>1, <2>2, <2>3, <2>4
<1>6. ASSUME NEW u \in RecordingIds, UploadRecordingPart(u) \/ AbortRecordingUpload(u)
      PROVE  WorkerIInv' /\ [Next]_vars
  BY <1>6, BrowserKeeps DEF UploadRecordingPart, AbortRecordingUpload
<1>7. CASE UNCHANGED allVars
  <2>1. UNCHANGED vars /\ UNCHANGED <<requests, uploads, objects, jobs>>
    BY <1>7 DEF allVars, worker
  <2>2. WorkerTypeOK'
    BY <2>1 DEF WorkerIInv, WorkerTypeOK
  <2>3. \A r : Move(r)
    BY <2>1, StoreUntouched DEF Move, Stored
  <2>4. \A r \in Requests : RequestSound(r)'
    BY <2>1, <2>3, MoveKeepsOthers
  <2>. QED
    BY <2>1, <2>2, <2>3, <2>4, StoreUntouched, QuietMove
<1>. QED
  BY <1>1, <1>2, <1>3, <1>4, <1>5, <1>6, <1>7 DEF WorkerNext

(* The strengthening that everything below follows from holds for ever:    *)
(* multipart-recording.ts keeps requests, uploads and conversation in step.*)
THEOREM WorkerInvariance == WorkerSpec => []WorkerIInv
BY InitEstablishesWorkerInvariant, WorkerStep, PTL DEF WorkerSpec

(* The worker's requests are callers the Durable Object's specification    *)
(* allows: all that is proved of Spec holds under them.                    *)
THEOREM RequestsUseStore == WorkerSpec => ImplementsStore
<1>1. WorkerInit => Init
  BY DEF WorkerInit
<1>2. WorkerIInv /\ [WorkerNext]_allVars => [Next]_vars
  BY WorkerStep
<1>. QED
  BY <1>1, <1>2, WorkerInvariance, PTL DEF WorkerSpec, ImplementsStore, Spec

-----------------------------------------------------------------------------
(***************************************************************************)
(* The safety properties                                                   *)
(***************************************************************************)

LEMMA ReceiptHappened ==
    ASSUME WorkerIInv, NEW type \in RecordingEventTypes, NEW u \in RecordingIds,
           HasReceipt(<<type, u>>)
    PROVE  Happened(type)
BY DEF WorkerIInv, ReceiptsTellUpload, HasReceipt, Happened

LEMMA OkMeansDoneHolds ==
    ASSUME WorkerIInv
    PROVE  OkMeansDone
<1>. SUFFICES ASSUME NEW r \in Requests, requests[r].pc = "ok"
              PROVE  /\ Records(requests[r].upload)
                     /\ r \in Begins => Happened("SessionStarted")
                     /\ r \in UploadBegins =>
                          /\ Happened("SessionClosed")
                          /\ Happened("RecordingUploadStarted")
                     /\ r \in Completions =>
                          /\ IsReady
                          /\ Stored(requests[r].upload, requests[r].key)
  BY DEF OkMeansDone
<1>. DEFINE u == requests[r].upload
<1>1. {"SessionStarted", "SessionClosed", "RecordingUploadStarted"}
        \subseteq RecordingEventTypes
  BY DEF RecordingEventTypes
<1>2. CASE r \in Begins
  <2>1. /\ Known(u)
        /\ HasReceipt(<<"SessionStarted", u>>)
    BY <1>2, RequestFacts DEF BeginProgress, Known
  <2>. QED
    BY <1>1, <1>2, <2>1, KnownUpload, ReceiptHappened, RequestEvents
<1>3. CASE r \in UploadBegins
  <2>1. /\ Known(u)
        /\ HasReceipt(<<"SessionClosed", u>>)
        /\ HasReceipt(<<"RecordingUploadStarted", u>>)
    BY <1>3, RequestFacts DEF UsesKnownUpload, UploadBeginProgress
  <2>. QED
    BY <1>1, <1>3, <2>1, KnownUpload, ReceiptHappened, RequestEvents
<1>4. CASE r \in Completions
  <2>1. Known(u) /\ uploads[u].key = requests[r].key /\ IsReady
    BY <1>4, RequestFacts DEF UsesKnownUpload, CompletionProgress
  <2>. QED
    BY <1>4, <2>1, ReadyUpload, RequestEvents
<1>. QED
  BY <1>2, <1>3, <1>4 DEF Requests

LEMMA StartedRecordingSurvivesHolds ==
    ASSUME WorkerIInv
    PROVE  StartedRecordingSurvives
<1>. SUFFICES ASSUME Initialized, Happened("SessionStarted"),
                     uploads[conversation.artifact.recordingId].status = "givenUp"
              PROVE  \E b \in Begins :
                        /\ requests[b].upload = conversation.artifact.recordingId
                        /\ requests[b].unheard
  BY DEF StartedRecordingSurvives
<1>1. PICK u \in RecordingIds : HasReceipt(<<"SessionStarted", u>>) /\ Records(u)
  <2>1. "SessionStarted" \in RecordingEventTypes /\ "SessionStarted" # "TransportConnected"
    BY DEF RecordingEventTypes
  <2>2. PICK receipt \in receipts : receipt.eventType = "SessionStarted"
    BY DEF Happened
  <2>3. PICK u \in RecordingIds : receipt.eventId = <<"SessionStarted", u>>
    BY <2>1, <2>2 DEF WorkerIInv, ReceiptsTellUpload
  <2>. QED
    BY <2>1, <2>2, <2>3 DEF WorkerIInv, ReceiptsTellUpload, HasReceipt
<1>2. u = conversation.artifact.recordingId /\ u # None
  BY <1>1, NoneAssumption DEF Records
<1>3. PICK b \in Begins : /\ requests[b].upload = u
                          /\ requests[b].pc = "ok" \/ requests[b].unheard
  BY <1>1 DEF WorkerIInv, SessionHasBegin
<1>4. PICK d \in Begins : requests[d].upload = u /\ requests[d].pc = "failed"
  BY <1>2 DEF WorkerIInv, GivenUpByOwner
<1>5. b = d
  BY <1>2, <1>3, <1>4 DEF WorkerIInv, UploadsHaveOneOwner
<1>. QED
  BY <1>2, <1>3, <1>4, <1>5

(* Types, and the bound of three attempts at an event.                     *)
THEOREM WorkerTypeCorrect == WorkerSpec => []WorkerTypeOK
<1>1. WorkerIInv => WorkerTypeOK
  BY DEF WorkerIInv
<1>. QED
  BY <1>1, WorkerInvariance, PTL

(* No conversation is completed whose recording is missing from R2 or is   *)
(* overwritten by another's.                                               *)
THEOREM CompletedIsStored == WorkerSpec => []CompletedHasObject
<1>1. WorkerIInv => CompletedHasObject
  BY DEF WorkerIInv
<1>. QED
  BY <1>1, WorkerInvariance, PTL

(* Every transcription job names the one verified recording.               *)
THEOREM JobsAreForTheRecording == WorkerSpec => []JobHasRecording
<1>1. WorkerIInv => JobHasRecording
  BY DEF WorkerIInv
<1>. QED
  BY <1>1, WorkerInvariance, PTL

(* What a browser was told with a 2xx stays true.                          *)
THEOREM AnswersAreKept == WorkerSpec => []OkMeansDone
BY OkMeansDoneHolds, WorkerInvariance, PTL

(* Losing a race never costs a live session its upload.                    *)
THEOREM LosersKeepOff == WorkerSpec => []StartedRecordingSurvives
BY StartedRecordingSurvivesHolds, WorkerInvariance, PTL

-----------------------------------------------------------------------------
(***************************************************************************)
(* The order the shipped requests keep: a session is closed before its     *)
(* upload is asked for                                                     *)
(***************************************************************************)

(* What the requests, the two direct calls and the alarm send: neither an  *)
(* interruption, nor a transport or artifact failure; and an upload is     *)
(* asked for by a request that was told that the session is closed.        *)
SentEvent(e) ==
    /\ e.type \notin {"TransportInterrupted", "FatalTransportError",
                      "ArtifactFailed"}
    /\ e.type = "RecordingUploadStarted" =>
          \E u \in RecordingIds : HasReceipt(<<"SessionClosed", u>>)
    /\ \A u \in RecordingIds :
          e.id = <<"SessionClosed", u>> => e.type = "SessionClosed"

LEMMA WorkerStepEvents ==
    ASSUME WorkerIInv, [WorkerNext]_allVars
    PROVE  \/ UNCHANGED <<conversation, receipts>>
           \/ /\ ~Initialized /\ receipts = {} /\ receipts' = {}
              /\ conversation' = CreateConversation
           \/ \E e : EventStep(e) /\ SentEvent(e)
<1>0. IInv
  BY DEF WorkerIInv
<1>1. CASE OtherCalls
  <2>1. ASSUME NEW e, EventStep(e), OtherEvent(e) PROVE SentEvent(e)
    <3>1. \A u \in RecordingIds : e.id # <<"SessionClosed", u>>
      BY <2>1 DEF OtherEvent, RecordingEventIds, RecordingEventTypes
    <3>. QED
      BY <2>1, <3>1 DEF OtherEvent, SentEvent, AlarmEventTypes
  <2>. QED
    BY <1>0, <1>1, <2>1, OtherCallsEffect
<1>2. ASSUME NEW r \in Requests, At(r, "apply"), NEW lead \in LeadsOf(EventOf(r)),
             ApplyEvent(requests[r].revision, Stamped(EventOf(r), lead))
      PROVE  \E e : EventStep(e) /\ SentEvent(e)
  <2>0. PICK e, type, u : /\ e = Stamped(EventOf(r), lead)
                          /\ type = EventsOf(r)[requests[r].event]
                          /\ u = requests[r].upload
    OBVIOUS
  <2>1. /\ type \in RecordingEventTypes /\ u \in RecordingIds
        /\ EventOf(r) \in Calls
        /\ EventOf(r).id = <<type, u>> /\ EventOf(r).type = type
    BY <1>2, <2>0, RequestHolds
  <2>2. EventStep(e) /\ e.id = <<type, u>> /\ e.type = type
    BY <1>0, <1>2, <2>0, <2>1, ApplyEventIsEventStep
  <2>3. type = "RecordingUploadStarted" => HasReceipt(<<"SessionClosed", u>>)
    <3>1. SUFFICES ASSUME type = "RecordingUploadStarted"
                   PROVE  HasReceipt(<<"SessionClosed", u>>)
      OBVIOUS
    <3>2. /\ r \in Begins => type \in {"TransportConnected", "RecordingStarted",
                                     "SessionStarted"}
          /\ r \in UploadBegins => /\ requests[r].event \in 1 .. 2
                                   /\ requests[r].event = 1 => type = "SessionClosed"
          /\ r \in Completions => type = "RecordingArtifactVerified"
      BY <2>0, EventSchedule
    <3>3. r \in UploadBegins /\ requests[r].event = 2
      BY <3>1, <3>2 DEF Requests
    <3>. QED
      BY <1>2, <2>0, <3>3, RequestFacts DEF At, UploadBeginProgress
  <2>. QED
    BY <2>1, <2>2, <2>3 DEF SentEvent, RecordingEventTypes
<1>3. ASSUME NEW r \in Requests, ApplyEvents(r)
      PROVE  \/ UNCHANGED <<conversation, receipts>>
             \/ \E e : EventStep(e) /\ SentEvent(e)
  <2>1. CASE EventApplied(r) \/ EventAnswerLost(r)
    BY <1>2, <2>1 DEF EventApplied, EventAnswerLost
  <2>2. CASE EventDuplicate(r) \/ EventConflict(r) \/ EventRejected(r) \/ EventCallFails(r)
    BY <2>2
    DEF EventDuplicate, EventConflict, EventRejected, EventCallFails, ApplyDuplicate,
        vars, stored
  <2>. QED
    BY <1>3, <2>1, <2>2 DEF ApplyEvents
<1>4. CASE UNCHANGED vars
  BY <1>4 DEF vars, stored
<1>5. ASSUME WorkerNext, ~OtherCalls, \A r \in Requests : ~ApplyEvents(r)
      PROVE  UNCHANGED vars
  BY <1>5
  DEF WorkerNext, BeginRecording, CreateMultipartUpload, CreateFails, AbortOwnUpload,
      BeginRecordingUpload, CompleteRecordingUpload, Assemble, AssembleFails,
      PersistJob, UploadRecordingPart, AbortRecordingUpload
<1>. QED
  BY <1>1, <1>3, <1>4, <1>5 DEF allVars

(* Such an event never reopens a transport that is over, and ends the      *)
(* conversation with an upload still running only if the transport was     *)
(* open until then.                                                        *)
LEMMA SentEventEffect ==
    ASSUME NEW c \in Conversations, NEW e, WellFormed(e), Consistent(c),
           Accepts(c, e), NEW d, d = Transition(c, e),
           e.type \notin {"TransportInterrupted", "FatalTransportError",
                          "ArtifactFailed"}
    PROVE  /\ IsTransportTerminal(c.transport) \/ e.type = "SessionClosed" =>
                IsTransportTerminal(d.transport)
           /\ d.artifact.status \in {"uploading", "ready"} =>
                \/ c.artifact.status \in {"uploading", "ready"}
                \/ e.type = "RecordingUploadStarted"
           /\ d.tag \in TerminalTags /\ d.artifact.status = "uploading" =>
                /\ c.artifact.status = "uploading"
                /\ ~IsTransportTerminal(c.transport)
<1>1. /\ c.tag \in {"created", "starting", "live", "ending"}
      /\ e.type \in AllowedEvents(c.tag) /\ GuardHolds(c, e)
      /\ c.tag = "starting" => StartingFields(c, e, d)
      /\ c.tag = "live" => LiveFields(c, e, d)
      /\ c.tag = "ending" => EndingFields(c, e, d)
  BY TransitionFields
<1>2. d.artifact.status \in {"uploading", "ready"} =>
        \/ c.artifact.status \in {"uploading", "ready"}
        \/ e.type = "RecordingUploadStarted"
  BY TransitionCauses
<1>3. CASE c.tag = "created"
  <2>1. c.artifact.status = "pending" /\ c.transport.status = "idle"
    BY <1>3 DEF Consistent, ConsistentTag, CreateConversation, Artifact, Transport
  <2>2. d.artifact = c.artifact /\ e.type # "SessionClosed"
    BY <1>1, <1>3, FromCreatedFields DEF Transition, AllowedEvents
  <2>. QED
    BY <2>1, <2>2 DEF IsTransportTerminal
<1>4. CASE c.tag = "starting"
  <2>1. /\ ~IsTransportTerminal(c.transport)
        /\ c.artifact.status \in {"pending", "recording"}
    BY <1>4 DEF Consistent, ConsistentTag, IsTransportTerminal
  <2>2. e.type # "RecordingUploadStarted"
    BY <1>1, <1>4 DEF AllowedEvents
  <2>. QED
    BY <1>1, <1>2, <1>4, <2>1, <2>2 DEF StartingFields, IsTransportTerminal, Transport
<1>5. CASE c.tag = "live"
  <2>1. /\ ~IsTransportTerminal(c.transport)
        /\ c.artifact.status = "recording"
    BY <1>5 DEF Consistent, ConsistentTag, IsTransportTerminal
  <2>2. e.type # "RecordingUploadStarted"
    BY <1>1, <1>5 DEF AllowedEvents
  <2>. QED
    BY <1>1, <1>2, <1>5, <2>1, <2>2 DEF LiveFields, IsTransportTerminal, Transport
<1>6. CASE c.tag = "ending"
  <2>1. e.type \in {"TransportConnected", "SessionClosed", "RecordingUploadStarted",
                   "RecordingArtifactVerified", "EndingDeadlineExceeded",
                   "ArtifactDeadlineExceeded"}
    BY <1>1, <1>6 DEF AllowedEvents
  <2>2. EndingFields(c, e, d)
    BY <1>1, <1>6
  <2>3. CASE e.type = "TransportConnected"
    <3>1. c.transport.status = "reconnecting"
      BY <1>1, <1>6, <2>3 DEF GuardHolds, TransportConnectedGuard
    <3>2. d.tag = "ending"
      BY <1>6, <2>2, <2>3 DEF EndingFields
    <3>. QED
      BY <1>2, <2>3, <3>1, <3>2 DEF IsTransportTerminal, TerminalTags
  <2>4. CASE e.type = "SessionClosed"
    <3>1. /\ d.transport = Transport("closed", e.epoch)
          /\ d.artifact = c.artifact /\ d.target = c.target
          /\ Finalized(d)
      BY <2>2, <2>4 DEF EndingFields
    <3>2. IsTransportTerminal(c.transport) => c.target = "complete"
      BY <1>6 DEF Consistent, ConsistentTag, IsTransportTerminal
    <3>3. IsTransportTerminal(d.transport)
      BY <3>1 DEF Transport, IsTransportTerminal
    <3>. QED
      BY <1>2, <2>4, <3>1, <3>2, <3>3 DEF Finalized, TerminalTags
  <2>5. CASE e.type = "RecordingUploadStarted"
    BY <1>2, <1>6, <2>2, <2>5 DEF EndingFields, TerminalTags
  <2>6. CASE e.type = "RecordingArtifactVerified"
    BY <1>2, <2>2, <2>6 DEF EndingFields, Artifact
  <2>7. CASE e.type = "EndingDeadlineExceeded"
    <3>1. d = EndingExpired(c)
      BY <1>6, <2>7 DEF Transition, FromEnding
    <3>2. CASE IsTransportTerminal(c.transport)
      <4>1. /\ d.transport = c.transport
            /\ d.artifact = IF c.artifact.status = "ready" THEN c.artifact
                            ELSE FailedArtifact(c, None)
        BY <3>1, <3>2 DEF EndingExpired, EnterFailed, Enter, Conversations
      <4>. QED
        BY <1>2, <2>7, <3>2, <4>1 DEF FailedArtifact, Artifact
    <3>3. CASE ~IsTransportTerminal(c.transport)
      <4>1. d.artifact = c.artifact
        BY <3>1, <3>3 DEF EndingExpired, EnterFailed, Enter, Conversations
      <4>. QED
        BY <2>7, <3>3, <4>1
    <3>. QED
      BY <3>2, <3>3
  <2>8. CASE e.type = "ArtifactDeadlineExceeded"
    BY <1>2, <2>2, <2>8 DEF EndingFields, FailedArtifact, Artifact
  <2>. QED
    BY <2>1, <2>3, <2>4, <2>5, <2>6, <2>7, <2>8
<1>. QED
  BY <1>1, <1>3, <1>4, <1>5, <1>6

(* An upload under way, or a receipt for the session's closing, means that *)
(* the transport is over; a conversation that is over has no upload under  *)
(* way.                                                                    *)
SessionBeforeUpload ==
    /\ Initialized /\ conversation.artifact.status \in {"uploading", "ready"} =>
          IsTransportTerminal(conversation.transport)
    /\ \A u \in RecordingIds : HasReceipt(<<"SessionClosed", u>>) =>
          IsTransportTerminal(conversation.transport)
    /\ Initialized /\ conversation.tag \in TerminalTags =>
          conversation.artifact.status # "uploading"

LEMMA SessionBeforeUploadKept ==
    ASSUME WorkerIInv, SessionBeforeUpload, [WorkerNext]_allVars
    PROVE  SessionBeforeUpload'
<1>1. CASE UNCHANGED <<conversation, receipts>>
  BY <1>1 DEF SessionBeforeUpload, Initialized, HasReceipt
<1>2. CASE /\ ~Initialized /\ receipts = {} /\ receipts' = {}
           /\ conversation' = CreateConversation
  <2>1. /\ CreateConversation.artifact.status = "pending"
        /\ CreateConversation.tag = "created"
    BY DEF CreateConversation, Artifact
  <2>. QED
    BY <1>2, <2>1 DEF SessionBeforeUpload, HasReceipt, TerminalTags
<1>3. ASSUME NEW e, EventStep(e), SentEvent(e)
      PROVE  SessionBeforeUpload'
  <2>1. /\ Initialized /\ conversation \in Conversations /\ Consistent(conversation)
        /\ WellFormed(e) /\ Accepts(conversation, e)
        /\ conversation' = Transition(conversation, e)
    BY <1>3, AlarmCoversType DEF WorkerIInv, EventStep
  <2>2. /\ e.type \notin {"TransportInterrupted", "FatalTransportError",
                         "ArtifactFailed"}
        /\ e.type = "RecordingUploadStarted" =>
              \E u \in RecordingIds : HasReceipt(<<"SessionClosed", u>>)
        /\ \A u \in RecordingIds :
              e.id = <<"SessionClosed", u>> => e.type = "SessionClosed"
    BY <1>3 DEF SentEvent
  <2>3. /\ \/ IsTransportTerminal(conversation.transport)
           \/ e.type = "SessionClosed"
           => IsTransportTerminal(conversation'.transport)
        /\ conversation'.artifact.status \in {"uploading", "ready"} =>
             \/ conversation.artifact.status \in {"uploading", "ready"}
             \/ e.type = "RecordingUploadStarted"
        /\ (/\ conversation'.tag \in TerminalTags
            /\ conversation'.artifact.status = "uploading")
           => /\ conversation.artifact.status = "uploading"
              /\ ~IsTransportTerminal(conversation.transport)
    BY <2>1, <2>2, SentEventEffect
  <2>4. \A id : HasReceipt(id)' => HasReceipt(id) \/ id = e.id
    BY <1>3, <2>2, EventStepEffect DEF WorkerIInv
  <2>. QED
    BY <2>1, <2>2, <2>3, <2>4 DEF SessionBeforeUpload
<1>. QED
  BY <1>1, <1>2, <1>3, WorkerStepEvents

LEMMA InitEstablishesOrder == WorkerInit => SessionBeforeUpload
<1>1. WorkerInit => ~Initialized /\ receipts = {}
  BY DEF WorkerInit, Init, Initialized
<1>. QED
  BY <1>1 DEF SessionBeforeUpload, HasReceipt

LEMMA WorkerOrder == WorkerSpec => [](WorkerIInv /\ SessionBeforeUpload)
<1>1. WorkerInit => SessionBeforeUpload
  BY InitEstablishesOrder
<1>2. WorkerIInv /\ SessionBeforeUpload /\ [WorkerNext]_allVars => SessionBeforeUpload'
  BY SessionBeforeUploadKept
<1>. QED
  BY <1>1, <1>2, WorkerInvariance, PTL DEF WorkerSpec

(* A verified recording is the last thing a shutdown waits for.            *)
LEMMA ReadyIsOver ==
    ASSUME WorkerIInv, SessionBeforeUpload, IsReady
    PROVE  conversation.tag \in TerminalTags
<1>1. /\ conversation \in Conversations /\ Consistent(conversation)
      /\ conversation.artifact.status = "ready"
      /\ IsTransportTerminal(conversation.transport)
  BY AlarmCoversType DEF WorkerIInv, IsReady, SessionBeforeUpload
<1>2. conversation.tag \in Tags
  BY <1>1 DEF Conversations
<1>3. conversation.tag # "created"
  BY <1>1 DEF Consistent, ConsistentTag, CreateConversation, Artifact
<1>. QED
  BY <1>1, <1>2, <1>3 DEF Consistent, ConsistentTag, IsTransportTerminal, Tags, TerminalTags

LEMMA NoDeadlineAtTheEnd ==
    ASSUME WorkerIInv, SessionBeforeUpload
    PROVE  TerminalHasNoDeadline
<1>. SUFFICES ASSUME Initialized, conversation.tag \in TerminalTags
              PROVE  Deadline = None
  BY DEF TerminalHasNoDeadline
<1>1. conversation.artifact.status # "uploading"
  BY DEF SessionBeforeUpload
<1>2. EarliestDeadline(conversation) = "none"
  BY <1>1 DEF EarliestDeadline, Earlier, DeadlineRuns, TerminalTags
<1>. QED
  BY <1>2 DEF Deadline, DeadlineForState

(* conversation-deadlines.test.ts, "has no deadline for terminal states",  *)
(* is true of every state the shipped routes can reach, although not of    *)
(* every state the Durable Object accepts.                                 *)
THEOREM EndHasNoDeadline == WorkerSpec => []TerminalHasNoDeadline
BY NoDeadlineAtTheEnd, WorkerOrder, PTL

(* conversation-alarm-runner.ts: a deadline that expired is one whose      *)
(* event the conversation accepts, at the end too: the runner's answer to  *)
(* a rejected transition, to try again later, is never needed.             *)
THEOREM ExpiredDeadlineIsAccepted ==
    WorkerSpec => [](DeadlineExpired => Accepts(conversation, AlarmEvent))
<1>1. ASSUME WorkerIInv, SessionBeforeUpload, DeadlineExpired
      PROVE  Accepts(conversation, AlarmEvent)
  <2>1. Initialized /\ conversation.tag # "created" /\ Deadline # None
    BY <1>1 DEF DeadlineExpired, AlarmMayRun
  <2>2. conversation.tag \notin TerminalTags
    BY <1>1, <2>1, NoDeadlineAtTheEnd DEF TerminalHasNoDeadline
  <2>3. conversation.tag \in Tags
    BY <1>1, <2>1, AlarmCoversType DEF WorkerIInv, Conversations
  <2>4. Active
    BY <2>1, <2>2, <2>3 DEF Active, Tags, TerminalTags, ActiveTags
  <2>5. DeadlineEventAccepted
    BY <1>1, InvariantImpliesSafety DEF WorkerIInv
  <2>. QED
    BY <2>1, <2>4, <2>5 DEF DeadlineEventAccepted
<1>. QED
  BY <1>1, WorkerOrder, PTL
=============================================================================
