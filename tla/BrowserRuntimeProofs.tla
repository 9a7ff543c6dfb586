----------------------- MODULE BrowserRuntimeProofs -----------------------
(***************************************************************************)
(* Proofs about SocketGateway and BrowserRuntime, for every set of sockets,*)
(* requests, recordings and calls, and for every queue length: the page,   *)
(* the object's sockets and the other clients use the worker as its        *)
(* specification allows, BrowserIInv is inductive, and the safety          *)
(* properties of the page follow.                                          *)
(***************************************************************************)
EXTENDS BrowserRuntime, RecordingUploadProofs

-----------------------------------------------------------------------------
(***************************************************************************)
(* The inductive invariant                                                 *)
(***************************************************************************)

(* What the page sends on its socket.                                      *)
ClientMessages ==
    [type : {"ClientHello"}, epoch : Nat \cup {None}] \cup
    [type : {"EndRequested"}, call : OwnEnds, expectedRevision : Nat]

GatewayTypeOK ==
    /\ phase \in [Sockets -> Phases]
    /\ link \in [Sockets -> Links]
    /\ outbox \in [Sockets -> Seq(ServerMessages)]
    /\ inbox \in Seq(ClientMessages)

(* A view the conversation has had: it was at that revision, or is.        *)
Past(view) ==
    /\ view \in Views
    /\ Initialized
    /\ view.revision <= conversation.revision
    /\ view.revision = conversation.revision => view = View(conversation)
    /\ MeansEnd(view) => MeansEnd(View(conversation))
    /\ view.state \in TerminalTags => view = View(conversation)

(* What the page knows is true: it finalizes an upload it has, for a       *)
(* conversation that is ending or over; what it shows has been; and the    *)
(* answer that is to be shown is the conversation's last state.            *)
PageSound ==
    /\ page \in Pages
    /\ page.waiter => page.ending
    /\ page.pc = "up" => page.upload # None
    /\ page.aborting => page.upload # None
    /\ page.pc = "connect" /\ ~page.closed => page.view \in Views
    /\ page.fin # "none" =>
          page.upload # None /\ Initialized /\ MeansEnd(View(conversation))
    /\ page.view # None => Past(page.view)
    /\ page.fin = "answer" =>
          /\ conversation.tag \in TerminalTags
          /\ page.fetched \in {None, View(conversation)}
          /\ ~page.closed => page.fetched = View(conversation)

(* How the page, its socket and what is on its way there stand together.   *)
Attached ==
    /\ page.pc \in {"load", "start", "connect"} => phase[Own] = "none"
    /\ page.pc = "start" => Initialized
    /\ page.pc = "connect" \/ phase[Own] # "none" =>
          Initialized /\ conversation.tag # "created"
    /\ phase[Own] = "none" => outbox[Own] = <<>> /\ inbox = <<>>
    /\ page.closed => link[Own] = "closed"
    /\ page.control => phase[Own] # "none"
    /\ \A i \in DOMAIN inbox : inbox[i].type = "ClientHello" => i = 1

Newest(messages) == messages[Len(messages)]

(* The conversation as it is, or but for an end that is told to nobody.    *)
Current(view) == view = View(conversation) \/ MissesEnd(view)

(* All that is on its way to the page has been; and what an active page    *)
(* shows is current, or the newest message on its way is.                  *)
Informed ==
    /\ \A i \in DOMAIN outbox[Own] : Past(outbox[Own][i].view)
    /\ IsActive(Own) =>
          IF outbox[Own] = <<>> THEN Current(page.view)
                                ELSE Current(Newest(outbox[Own]).view)

(* No socket is accepted before the conversation exists.                   *)
Hosted == \A s \in Sockets : phase[s] # "none" => Initialized

PageInv ==
    /\ GatewayTypeOK
    /\ Hosted
    /\ OneActiveSocket
    /\ PageSound
    /\ Attached
    /\ Informed
    /\ sent \subseteq Requests \cup OwnEnds

BrowserIInv ==
    /\ WorkerIInv
    /\ SessionBeforeUpload
    /\ PageInv

-----------------------------------------------------------------------------
(***************************************************************************)
(* Queues                                                                  *)
(***************************************************************************)

LEMMA Appended ==
    ASSUME NEW S, NEW s \in Seq(S), NEW m \in S
    PROVE  /\ Append(s, m) \in Seq(S)
           /\ Append(s, m) # <<>>
           /\ Newest(Append(s, m)) = m
           /\ \A i \in DOMAIN Append(s, m) :
                \/ i \in DOMAIN s /\ Append(s, m)[i] = s[i]
                \/ i = Len(s) + 1 /\ Append(s, m)[i] = m
BY DEF Newest

LEMMA Dequeued ==
    ASSUME NEW S, NEW s \in Seq(S), s # <<>>
    PROVE  /\ Tail(s) \in Seq(S)
           /\ Head(s) \in S /\ Head(s) = s[1] /\ 1 \in DOMAIN s
           /\ \A i \in DOMAIN Tail(s) :
                i + 1 \in DOMAIN s /\ i + 1 # 1 /\ Tail(s)[i] = s[i + 1]
           /\ IF Tail(s) = <<>> THEN Newest(s) = Head(s)
                                ELSE Newest(Tail(s)) = Newest(s)
BY DEF Newest

LEMMA NothingQueued ==
    ASSUME NEW S
    PROVE  /\ <<>> \in Seq(S)
           /\ \A i \in DOMAIN <<>> : FALSE
OBVIOUS

-----------------------------------------------------------------------------
(***************************************************************************)
(* Views, and how the conversation moves on under the page                 *)
(***************************************************************************)

LEMMA ViewType ==
    ASSUME NEW c \in Conversations
    PROVE  /\ View(c) \in Views
           /\ View(c).state = c.tag /\ View(c).revision = c.revision
           /\ MeansEnd(View(c)) <=> c.tag = "ending" \/ c.tag \in TerminalTags
BY DEF View, Views, MeansEnd, Conversations, Transports

LEMMA MessageTypes ==
    ASSUME NEW c \in Conversations
    PROVE  /\ Hello(c) \in ServerMessages /\ Hello(c).view = View(c)
           /\ Snapshot(c) \in ServerMessages /\ Snapshot(c).view = View(c)
           /\ \A id \in EventIds, outcome \in AckOutcomes :
                /\ Answer(c, id, outcome) \in ServerMessages
                /\ Answer(c, id, outcome).view = View(c)
<1>1. View(c) \in Views
  BY ViewType
<1>. QED
  BY <1>1 DEF Hello, Snapshot, Answer, ServerMessages, AckOutcomes

(* The conversation is never forgotten, its revision never falls, and what *)
(* has begun, is ending or is over stays so.                               *)
Grew ==
    Initialized =>
        /\ Initialized'
        /\ receipts \subseteq receipts'
        /\ conversation'.revision >= conversation.revision
        /\ conversation'.revision = conversation.revision => UNCHANGED conversation
        /\ MeansEnd(View(conversation)) => MeansEnd(View(conversation'))
        /\ conversation.tag # "created" => conversation'.tag # "created"
        /\ conversation.tag \in TerminalTags => UNCHANGED conversation

LEMMA EventGrows ==
    ASSUME NEW c \in Conversations, NEW e, WellFormed(e), Consistent(c),
           Accepts(c, e), NEW d, d = Transition(c, e)
    PROVE  /\ d \in Conversations /\ d.revision = c.revision + 1
           /\ c.tag \notin TerminalTags /\ d.tag # "created"
           /\ c.tag = "ending" => d.tag = "ending" \/ d.tag \in TerminalTags
<1>1. /\ c.tag \in {"created", "starting", "live", "ending"}
      /\ e.type \in AllowedEvents(c.tag)
      /\ c.tag = "starting" => StartingFields(c, e, d)
      /\ c.tag = "live" => LiveFields(c, e, d)
      /\ c.tag = "ending" => EndingFields(c, e, d)
  BY TransitionFields
<1>2. d \in Conversations /\ Consistent(d) /\ d.revision = c.revision + 1
  BY TransitionConsistent DEF Preserved
<1>3. d.tag # "created"
  <2>1. d.tag = "created" => d.revision = 0
    BY <1>2 DEF Consistent, ConsistentTag, CreateConversation
  <2>2. c.revision \in Nat
    BY DEF Conversations
  <2>. QED
    BY <1>2, <2>1, <2>2
<1>4. c.tag = "ending" => d.tag = "ending" \/ d.tag \in TerminalTags
  BY <1>1 DEF EndingFields, AllowedEvents, Finalized, TerminalTagOf, TerminalTags
<1>. QED
  BY <1>1, <1>2, <1>3, <1>4 DEF TerminalTags

LEMMA WorkerStepGrows ==
    ASSUME WorkerIInv, [WorkerNext]_allVars
    PROVE  WorkerIInv' /\ Grew
<1>1. WorkerIInv' /\ [Next]_vars /\ IInv
  BY WorkerStep DEF WorkerIInv
<1>2. Initialized => conversation \in Conversations /\ Consistent(conversation)
  BY <1>1, AlarmCoversType
<1>3. CASE UNCHANGED <<conversation, receipts>>
  BY <1>1, <1>2, <1>3 DEF Grew, Initialized, View, MeansEnd, Conversations
<1>4. CASE ~Initialized
  BY <1>1, <1>4 DEF Grew
<1>5. ASSUME NEW e, EventStep(e) PROVE Grew
  <2>0. /\ Initialized /\ WellFormed(e) /\ Accepts(conversation, e)
        /\ conversation' = Transition(conversation, e)
        /\ receipts \subseteq receipts'
    BY <1>5 DEF EventStep
  <2>1. /\ conversation' \in Conversations
        /\ conversation'.revision = conversation.revision + 1
        /\ conversation.tag \notin TerminalTags /\ conversation'.tag # "created"
        /\ conversation.tag = "ending" =>
              conversation'.tag = "ending" \/ conversation'.tag \in TerminalTags
    BY <1>2, <2>0, EventGrows
  <2>2. Initialized' /\ conversation.revision \in Nat
    BY <1>2, <2>0, <2>1, StoreAssumption DEF Initialized, Conversations
  <2>3. MeansEnd(View(conversation)) => MeansEnd(View(conversation'))
    BY <1>2, <2>0, <2>1, ViewType
  <2>. QED
    BY <2>0, <2>1, <2>2, <2>3 DEF Grew
<1>. QED
  BY <1>1, <1>3, <1>4, <1>5, WorkerStepEvents

(* What has been, has been.                                                *)
LEMMA PastStays ==
    ASSUME IInv, IInv', Grew, NEW view, Past(view)
    PROVE  Past(view)'
<1>1. Initialized' /\ conversation \in Conversations /\ conversation' \in Conversations
  BY DEF Past, Grew, IInv, TypeOK, Initialized
<1>. QED
  BY <1>1 DEF Past, Grew, Views, Conversations, View, MeansEnd

LEMMA PresentIsPast ==
    ASSUME IInv, Initialized
    PROVE  View(conversation) \in Views /\ Past(View(conversation))
<1>1. conversation \in Conversations
  BY DEF IInv, TypeOK, Initialized
<1>. QED
  BY <1>1, ViewType DEF Past, Conversations

-----------------------------------------------------------------------------
(***************************************************************************)
(* The page, the sockets and the other clients are callers of the worker   *)
(***************************************************************************)

LEMMA DirectIsOtherCall ==
    ASSUME WorkerIInv, UNCHANGED worker, NEW call \in DirectCalls,
           \/ \E revision : \E lead \in LeadsOf(call) :
                 ApplyEvent(revision, Stamped(call, lead))
           \/ ApplyDuplicate(call)
    PROVE  OtherCalls
<1>1. ASSUME NEW revision, NEW lead \in LeadsOf(call),
             ApplyEvent(revision, Stamped(call, lead))
      PROVE  revision \in SeenRevisions
  BY <1>1, ApplyEventIsEventStep, UploadAssumption DEF WorkerIInv
<1>. QED
  BY <1>1 DEF OtherCalls

LEMMA EndIsWorkerStep ==
    ASSUME WorkerIInv, NEW ws, NEW call \in EndCalls, NEW revision,
           HandleEndRequested(ws, call, revision)
    PROVE  [WorkerNext]_allVars
<1>1. CASE EndApplied(ws, call, revision) \/ EndDuplicate(ws, call)
  BY <1>1, DirectIsOtherCall DEF EndApplied, EndDuplicate, EndCalls, WorkerNext
<1>2. CASE EndRefused(ws, call, revision) \/ MessageBeforeHello(ws)
  BY <1>2 DEF EndRefused, MessageBeforeHello
<1>. QED
  BY <1>1, <1>2 DEF HandleEndRequested

LEMMA RequestIsWorkerStep ==
    ASSUME NEW r \in Requests, RunRequest(r)
    PROVE  WorkerNext
<1>1. CASE IntegrationEvent(r)
  BY <1>1 DEF IntegrationEvent, ApplyEvents, WorkerNext
<1>2. CASE ~IntegrationEvent(r)
  BY <1>2 DEF RunRequest, WorkerNext
<1>. QED
  BY <1>1, <1>2

LEMMA ObjectIsWorkerStep ==
    ASSUME WorkerIInv, Object
    PROVE  [WorkerNext]_allVars
<1>1. CASE (Initialize \/ Tick) /\ UNCHANGED worker
  BY <1>1 DEF OtherCalls, WorkerNext
<1>2. CASE /\ \E call \in StartCalls : \E lead \in LeadsOf(call) :
                 ApplyEvent(0, Stamped(call, lead))
           /\ UNCHANGED worker
  BY <1>2, DirectIsOtherCall DEF StartCalls, WorkerNext
<1>3. CASE AlarmPublishes \/ AlarmStaysSilent
  BY <1>3 DEF AlarmPublishes, AlarmStaysSilent, RunAlarm, OtherCalls, WorkerNext
<1>4. ASSUME NEW ws \in Others, SocketDrops(ws) PROVE UNCHANGED allVars
  BY <1>4 DEF SocketDrops
<1>. QED
  BY <1>1, <1>2, <1>3, <1>4 DEF Object

LEMMA BrowserStepIsWorkerStep ==
    ASSUME BrowserIInv, [BrowserNext]_browserVars
    PROVE  [WorkerNext]_allVars
<1>0. WorkerIInv
  BY DEF BrowserIInv
<1>1. CASE StartConversation
  <2>1. UNCHANGED worker
    BY <1>1 DEF StartConversation
  <2>2. PICK call \in StartCalls :
          \/ \E lead \in LeadsOf(call) : ApplyEvent(0, Stamped(call, lead))
          \/ ApplyDuplicate(call)
          \/ UNCHANGED vars
    BY <1>1 DEF StartConversation
  <2>3. CASE UNCHANGED vars
    BY <2>1, <2>3 DEF allVars
  <2>. QED
    BY <1>0, <2>1, <2>2, <2>3, DirectIsOtherCall DEF StartCalls, WorkerNext
<1>2. CASE \/ LoadState \/ ConnectControl \/ StartMedia \/ ConnectFails
           \/ RequestEnd \/ EndTimesOut \/ RecordingFinalized \/ FinalizationFails
           \/ HandleControlMessage \/ ControlCloses \/ ClosePage
           \/ \E b \in Begins : RecordingBegun(b)
           \/ \E c \in Completions : StateRefreshed(c)
  BY <1>2
  DEF LoadState, ConnectControl, StartMedia, ConnectFails, RequestEnd, EndTimesOut,
      RecordingFinalized, FinalizationFails, HandleControlMessage, ControlCloses, ClosePage,
      RecordingBegun, StateRefreshed
<1>3. CASE AbortUpload \/ \E u \in UploadBegins : PartsUploaded(u)
  <2>1. UploadRecordingPart(page.upload) \/ AbortRecordingUpload(page.upload)
    BY <1>3 DEF AbortUpload, PartsUploaded
  <2>2. page.upload \in RecordingIds
    BY <1>0, <2>1, KnownUpload DEF UploadRecordingPart, AbortRecordingUpload
  <2>. QED
    BY <2>1, <2>2 DEF WorkerNext
<1>4. CASE HandleInbox
  <2>1. PICK m : /\ m = Head(inbox) /\ inbox # <<>>
                 /\ \/ m.type = "ClientHello" /\ HandleHello(Own, m.epoch)
                    \/ /\ m.type = "EndRequested"
                       /\ HandleEndRequested(Own, m.call, m.expectedRevision)
    BY <1>4 DEF HandleInbox
  <2>2. inbox \in Seq(ClientMessages)
    BY DEF BrowserIInv, PageInv, GatewayTypeOK
  <2>3. m \in ClientMessages
    BY <2>1, <2>2, Dequeued
  <2>4. m.type = "EndRequested" => m.call \in EndCalls
    BY <2>3, RuntimeAssumption DEF ClientMessages
  <2>. QED
    BY <1>0, <2>1, <2>4, EndIsWorkerStep DEF HandleHello
<1>5. ASSUME NEW r \in Requests, RunRequest(r) PROVE WorkerNext
  BY <1>5, RequestIsWorkerStep
<1>6. ASSUME NEW ws \in Others, OtherClient(ws) PROVE [WorkerNext]_allVars
  <2>1. CASE \/ Accept(ws) /\ UNCHANGED allVars
             \/ \E epoch \in {None, 0, 1} : HandleHello(ws, epoch)
             \/ ProtocolViolation(ws)
    BY <2>1 DEF HandleHello, ProtocolViolation
  <2>2. ASSUME NEW call \in EndCalls \ OwnEnds, NEW revision \in SeenRevisions,
               HandleEndRequested(ws, call, revision)
        PROVE  [WorkerNext]_allVars
    BY <1>0, <2>2, EndIsWorkerStep
  <2>. QED
    BY <1>6, <2>1, <2>2 DEF OtherClient
<1>7. CASE ControlDrops
  BY <1>7 DEF ControlDrops, SocketDrops
<1>8. CASE Object
  BY <1>0, <1>8, ObjectIsWorkerStep
<1>9. CASE UNCHANGED browserVars
  BY <1>9 DEF browserVars
<1>. QED
  BY <1>1, <1>2, <1>3, <1>4, <1>5, <1>6, <1>7, <1>8, <1>9
  DEF BrowserNext, Connect, End

-----------------------------------------------------------------------------
(***************************************************************************)
(* What the object's sockets may do to the page's socket                   *)
(***************************************************************************)

(* What was current still is.                                              *)
StillCurrent == \A view : Current(view) => Current(view)'

(* The page misses nothing but such an end: it is sent the state, or its   *)
(* socket is not active, or what was current still is.                     *)
Told ==
    \/ /\ outbox'[Own] = outbox[Own]
       /\ IsActive(Own)' => IsActive(Own) /\ StillCurrent
    \/ \E m \in ServerMessages :
            m.view = View(conversation') /\ outbox'[Own] = Append(outbox[Own], m)
    \/ outbox'[Own] = <<>> /\ ~IsActive(Own)'

GatewayMoves ==
    /\ phase' \in [Sockets -> Phases]
    /\ link' \in [Sockets -> Links]
    /\ outbox' \in [Sockets -> Seq(ServerMessages)]
    /\ Hosted'
    /\ OneActiveSocket'
    /\ phase'[Own] = "none" <=> phase[Own] = "none"
    /\ link[Own] = "closed" => link'[Own] = "closed"
    /\ phase[Own] = "none" => outbox'[Own] = outbox[Own]
    /\ Told

LEMMA OwnIsSocket == Own \in Sockets /\ Own \in Readers /\ Own \notin Others
BY RuntimeAssumption, GatewayAssumption DEF Others

LEMMA NothingMissed ==
    ASSUME Grew, Initialized, UNCHANGED conversation,
           \A ws \in Others : phase[ws] = "active" => phase'[ws] = "active"
    PROVE  StillCurrent
<1>1. receipts \subseteq receipts'
  BY DEF Grew
<1>2. ASSUME NEW view, MissesEnd(view) PROVE MissesEnd(view)'
  BY <1>1, <1>2 DEF MissesEnd
<1>. QED
  BY <1>2 DEF StillCurrent, Current, View

LEMMA SentTo ==
    ASSUME GatewayTypeOK, NEW ws \in Sockets, NEW message \in ServerMessages,
           Send(ws, message)
    PROVE  /\ outbox' \in [Sockets -> Seq(ServerMessages)]
           /\ outbox'[Own] = IF ws = Own /\ link[Own] = "open"
                             THEN Append(outbox[Own], message)
                             ELSE outbox[Own]
<1>1. \A s \in Sockets : outbox[s] \in Seq(ServerMessages)
  BY DEF GatewayTypeOK
<1>2. \A s \in Sockets : Append(outbox[s], message) \in Seq(ServerMessages)
  BY <1>1, Appended
<1>. QED
  BY <1>1, <1>2, OwnIsSocket DEF Send, OpenReaders

LEMMA BroadcastTo ==
    ASSUME GatewayTypeOK, NEW c \in Conversations, Broadcast(c)
    PROVE  /\ outbox' \in [Sockets -> Seq(ServerMessages)]
           /\ outbox'[Own] = IF IsActive(Own)
                             THEN Append(outbox[Own], Snapshot(c))
                             ELSE outbox[Own]
<1>1. \A s \in Sockets : outbox[s] \in Seq(ServerMessages)
  BY DEF GatewayTypeOK
<1>2. \A s \in Sockets : Append(outbox[s], Snapshot(c)) \in Seq(ServerMessages)
  BY <1>1, Appended, MessageTypes
<1>. QED
  BY <1>1, <1>2, OwnIsSocket DEF Broadcast, OpenReaders, IsActive

(* The server closes a socket, or the network does.                        *)
LEMMA SocketCloses ==
    ASSUME PageInv, Grew, NEW ws \in Sockets, phase[ws] # "none", Close(ws),
           UNCHANGED <<phase, conversation>>,
           outbox' = outbox \/ outbox' = [outbox EXCEPT ![ws] = <<>>]
    PROVE  GatewayMoves
<1>1. /\ phase \in [Sockets -> Phases] /\ outbox \in [Sockets -> Seq(ServerMessages)]
      /\ link \in [Sockets -> Links]
      /\ link' = [link EXCEPT ![ws] = "closed"]
      /\ OneActiveSocket /\ Hosted /\ Initialized
  BY DEF PageInv, GatewayTypeOK, Close, Hosted
<1>2. link' \in [Sockets -> Links] /\ OneActiveSocket' /\ Hosted'
  BY <1>1 DEF Links, OneActiveSocket, Hosted, Initialized
<1>3. outbox' \in [Sockets -> Seq(ServerMessages)]
  <2>1. <<>> \in Seq(ServerMessages)
    BY NothingQueued
  <2>. QED
    BY <1>1, <2>1
<1>4. Told
  <2>1. StillCurrent
    BY <1>1, NothingMissed
  <2>2. IsActive(Own)' => IsActive(Own) /\ ws # Own
    BY <1>1, OwnIsSocket DEF IsActive
  <2>. QED
    BY <1>1, <2>1, <2>2, OwnIsSocket DEF Told
<1>5. /\ link[Own] = "closed" => link'[Own] = "closed"
      /\ phase[Own] = "none" => outbox'[Own] = outbox[Own]
  BY <1>1, OwnIsSocket
<1>. QED
  BY <1>1, <1>2, <1>3, <1>4, <1>5 DEF GatewayMoves

LEMMA HelloMoves ==
    ASSUME PageInv, IInv, Grew, NEW ws \in Sockets, NEW epoch, HandleHello(ws, epoch)
    PROVE  GatewayMoves /\ phase[ws] # "none"
<1>0. UNCHANGED conversation
  BY DEF HandleHello, allVars, vars, stored
<1>1. CASE HelloRefused(ws, epoch)
  <2>1. phase[ws] # "none" /\ Close(ws) /\ UNCHANGED <<phase, outbox>>
    BY <1>1 DEF HelloRefused
  <2>. QED
    BY <1>0, <2>1, SocketCloses
<1>2. CASE HelloAccepted(ws, epoch)
  <2>1. /\ phase \in [Sockets -> Phases] /\ link \in [Sockets -> Links]
        /\ OneActiveSocket /\ GatewayTypeOK
        /\ phase[ws] = "awaiting_hello"
        /\ phase' = [phase EXCEPT ![ws] = "active"]
        /\ link' = [s \in Sockets |->
                      IF s # ws /\ phase[s] = "active" THEN "closed" ELSE link[s]]
        /\ Send(ws, Hello(conversation))
    BY <1>2 DEF HelloAccepted, Activate, PageInv, GatewayTypeOK
  <2>2. /\ Hello(conversation) \in ServerMessages
        /\ Hello(conversation).view = View(conversation)
        /\ Initialized
    BY <2>1, MessageTypes DEF IInv, TypeOK, Initialized, PageInv, Hosted
  <2>3. /\ outbox' \in [Sockets -> Seq(ServerMessages)]
        /\ outbox'[Own] = IF ws = Own /\ link[Own] = "open"
                          THEN Append(outbox[Own], Hello(conversation))
                          ELSE outbox[Own]
    BY <2>1, <2>2, SentTo
  <2>4. /\ phase' \in [Sockets -> Phases] /\ link' \in [Sockets -> Links]
        /\ \A s \in Sockets :
             phase'[s] = "active" /\ link'[s] = "open" => s = ws
    BY <2>1 DEF Phases, Links
  <2>5. OneActiveSocket' /\ Hosted'
    BY <1>0, <2>2, <2>4 DEF OneActiveSocket, Hosted, Initialized
  <2>6. IsActive(Own)' => ws = Own /\ link[Own] = "open"
    BY <2>1, <2>4, OwnIsSocket DEF IsActive
  <2>7. Told
    BY <1>0, <2>2, <2>3, <2>6 DEF Told
  <2>8. /\ phase'[Own] = "none" <=> phase[Own] = "none"
        /\ link[Own] = "closed" => link'[Own] = "closed"
        /\ phase[Own] = "none" => outbox'[Own] = outbox[Own]
    BY <2>1, <2>3, OwnIsSocket
  <2>. QED
    BY <2>1, <2>3, <2>4, <2>5, <2>7, <2>8 DEF GatewayMoves
<1>. QED
  BY <1>1, <1>2 DEF HandleHello, HelloAccepted, HelloRefused

(* Another client's end: what was current is the state before it.          *)
LEMMA EndIsMissed ==
    ASSUME BrowserIInv, WorkerIInv', NEW ws \in Others, phase[ws] = "active",
           UNCHANGED phase, phase[Own] # "none",
           NEW call \in EndCalls \ OwnEnds, NEW lead \in LeadsOf(call), NEW revision,
           ApplyEvent(revision, Stamped(call, lead))
    PROVE  StillCurrent
<1>1. PICK e : e = Stamped(call, lead)
  OBVIOUS
<1>2. EventStep(e) /\ e.id = call.id /\ e.type = "EndRequested" /\ IInv /\ IInv'
  BY <1>1, ApplyEventIsEventStep, UploadAssumption
  DEF EndCalls, BrowserIInv, WorkerIInv
<1>3. /\ conversation \in Conversations /\ Consistent(conversation)
      /\ conversation.tag # "created"
      /\ WellFormed(e) /\ Accepts(conversation, e)
      /\ conversation' = Transition(conversation, e)
      /\ receipts' = receipts \cup {Receipt(e, conversation, conversation')}
  BY <1>2, AlarmCoversType
  DEF EventStep, IInv, TypeOK, Initialized, BrowserIInv, PageInv, Attached
<1>4. conversation.tag \in {"starting", "live"} /\ conversation'.tag = "ending"
  <2>1. /\ conversation.tag \in {"created", "starting", "live", "ending"}
        /\ e.type \in AllowedEvents(conversation.tag)
        /\ conversation.tag = "starting" => StartingFields(conversation, e, conversation')
        /\ conversation.tag = "live" => LiveFields(conversation, e, conversation')
    BY <1>3, TransitionFields
  <2>2. conversation.tag # "ending"
    BY <1>2, <2>1 DEF AllowedEvents
  <2>. QED
    BY <1>2, <1>3, <2>1, <2>2 DEF StartingFields, LiveFields
<1>5. ASSUME NEW view, Current(view) PROVE Current(view)'
  <2>1. view = View(conversation)
    BY <1>4, <1>5 DEF Current, MissesEnd
  <2>2. PICK r \in receipts' :
          /\ r.eventId = call.id /\ r.targetRevision = conversation'.revision
          /\ r.sourceRevision = conversation.revision /\ r.sourceState = conversation.tag
    <3>1. PICK r : r = Receipt(e, conversation, conversation')
      OBVIOUS
    <3>2. /\ r.eventId = e.id /\ r.targetRevision = conversation'.revision
          /\ r.sourceRevision = conversation.revision /\ r.sourceState = conversation.tag
      BY <3>1 DEF Receipt
    <3>. QED
      BY <1>2, <1>3, <3>1, <3>2
  <2>3. view.revision = r.sourceRevision /\ view.state = r.sourceState
    BY <2>1, <2>2 DEF View
  <2>4. phase'[ws] = "active"
    OBVIOUS
  <2>. QED
    BY <1>4, <2>2, <2>3, <2>4 DEF Current, MissesEnd
<1>. QED
  BY <1>5 DEF StillCurrent

LEMMA EndMoves ==
    ASSUME BrowserIInv, WorkerIInv', Grew,
           NEW ws \in Sockets, NEW call \in EndCalls, NEW revision,
           ws = Own \/ call \notin OwnEnds,
           HandleEndRequested(ws, call, revision)
    PROVE  GatewayMoves /\ phase[ws] # "none"
<1>0. PageInv /\ IInv /\ IInv'
  BY DEF BrowserIInv, WorkerIInv
<1>1. CASE MessageBeforeHello(ws)
  <2>1. /\ phase[ws] # "none" /\ Close(ws) /\ UNCHANGED <<phase, outbox, conversation>>
    BY <1>1 DEF MessageBeforeHello, allVars, vars, stored
  <2>. QED
    BY <1>0, <2>1, SocketCloses
<1>2. ASSUME phase[ws] = "active", UNCHANGED <<phase, link>>,
             NEW outcome \in AckOutcomes, Send(ws, Answer(conversation', call.id, outcome)),
             ws # Own /\ IsActive(Own) => StillCurrent
      PROVE  GatewayMoves
  <2>1. call.id \in EventIds
    BY StoreAssumption, UploadAssumption DEF EndCalls, Call
  <2>2. conversation' \in Conversations
    BY <1>0, <1>2 DEF IInv, TypeOK, Initialized, Grew, PageInv, Hosted
  <2>3. PICK m \in ServerMessages : /\ m = Answer(conversation', call.id, outcome)
                                    /\ m.view = View(conversation')
    BY <2>1, <2>2, MessageTypes
  <2>4. /\ outbox' \in [Sockets -> Seq(ServerMessages)]
        /\ outbox'[Own] = IF ws = Own /\ link[Own] = "open"
                          THEN Append(outbox[Own], m) ELSE outbox[Own]
    BY <1>0, <1>2, <2>3, SentTo DEF PageInv
  <2>5. IsActive(Own)' <=> IsActive(Own)
    BY <1>2 DEF IsActive
  <2>6. Told
    BY <1>2, <2>3, <2>4, <2>5 DEF Told, IsActive
  <2>7. /\ phase' \in [Sockets -> Phases] /\ link' \in [Sockets -> Links]
        /\ OneActiveSocket' /\ Hosted'
    BY <1>0, <1>2 DEF PageInv, GatewayTypeOK, OneActiveSocket, Hosted, Grew
  <2>8. /\ phase'[Own] = "none" <=> phase[Own] = "none"
        /\ link[Own] = "closed" => link'[Own] = "closed"
        /\ phase[Own] = "none" => outbox'[Own] = outbox[Own]
    BY <1>2, <2>4
  <2>. QED
    BY <2>4, <2>6, <2>7, <2>8 DEF GatewayMoves
<1>3. CASE phase[ws] = "active" /\ UNCHANGED <<phase, link>> /\ EndApplied(ws, call, revision)
  <2>1. PICK lead \in LeadsOf(call) : ApplyEvent(revision, Stamped(call, lead))
    BY <1>3 DEF EndApplied
  <2>2. ws # Own /\ IsActive(Own) => StillCurrent
    BY <1>3, <2>1, EndIsMissed DEF Others, IsActive
  <2>. QED
    BY <1>2, <1>3, <2>2 DEF EndApplied, AckOutcomes
<1>4. ASSUME phase[ws] = "active", UNCHANGED <<phase, link, conversation>>
      PROVE  StillCurrent
  <2>1. Initialized
    BY <1>0, <1>4 DEF PageInv, Hosted
  <2>. QED
    BY <1>4, <2>1, NothingMissed
<1>5. CASE phase[ws] = "active" /\ UNCHANGED <<phase, link>> /\ EndDuplicate(ws, call)
  BY <1>2, <1>4, <1>5 DEF EndDuplicate, ApplyDuplicate, AckOutcomes
<1>6. CASE phase[ws] = "active" /\ UNCHANGED <<phase, link>> /\ EndRefused(ws, call, revision)
  BY <1>2, <1>4, <1>6 DEF EndRefused, allVars, vars, stored, AckOutcomes
<1>. QED
  BY <1>1, <1>3, <1>5, <1>6 DEF HandleEndRequested, MessageBeforeHello

(* Whatever else changes the conversation is published.                    *)
LEMMA PublishedMoves ==
    ASSUME PageInv, IInv', Grew, UNCHANGED <<phase, link>>,
           \/ Initialized' /\ Broadcast(conversation')
           \/ UNCHANGED <<outbox, conversation>>
           \/ UNCHANGED outbox /\ phase[Own] # "active"
    PROVE  GatewayMoves
<1>1. GatewayTypeOK /\ Hosted' /\ OneActiveSocket' /\ (IsActive(Own)' <=> IsActive(Own))
  BY DEF PageInv, Hosted, Grew, OneActiveSocket, IsActive
<1>2. CASE Initialized' /\ Broadcast(conversation')
  <2>1. conversation' \in Conversations
    BY <1>2 DEF IInv, TypeOK, Initialized
  <2>2. PICK m \in ServerMessages : /\ m = Snapshot(conversation')
                                    /\ m.view = View(conversation')
    BY <2>1, MessageTypes
  <2>3. /\ outbox' \in [Sockets -> Seq(ServerMessages)]
        /\ outbox'[Own] = IF IsActive(Own)
                          THEN Append(outbox[Own], m) ELSE outbox[Own]
    BY <1>1, <1>2, <2>1, <2>2, BroadcastTo
  <2>4. Told
    BY <1>1, <2>2, <2>3 DEF Told
  <2>5. phase[Own] = "none" => outbox'[Own] = outbox[Own]
    BY <2>3 DEF IsActive
  <2>. QED
    BY <1>1, <2>3, <2>4, <2>5 DEF GatewayMoves, GatewayTypeOK
<1>3. CASE /\ UNCHANGED outbox
           /\ UNCHANGED conversation \/ phase[Own] # "active"
  <2>1. IsActive(Own) => StillCurrent
    <3>1. IsActive(Own) => Initialized
      BY OwnIsSocket DEF IsActive, PageInv, Hosted
    <3>2. UNCHANGED conversation \/ ~IsActive(Own)
      BY <1>3 DEF IsActive
    <3>. QED
      BY <3>1, <3>2, NothingMissed
  <2>2. Told
    BY <1>1, <1>3, <2>1 DEF Told
  <2>. QED
    BY <1>1, <1>3, <2>2 DEF GatewayMoves, GatewayTypeOK
<1>. QED
  BY <1>2, <1>3

-----------------------------------------------------------------------------
(***************************************************************************)
(* PageInv is inductive: steps of the server and of the others             *)
(***************************************************************************)

ServerSide ==
    /\ GatewayMoves
    /\ page' = page \/ page' = [page EXCEPT !.control = FALSE]
    /\ UNCHANGED sent
    /\ \/ UNCHANGED inbox
       \/ inbox' = <<>>
       \/ inbox # <<>> /\ inbox' = Tail(inbox)

LEMMA PageStands ==
    ASSUME PageSound, IInv, IInv', Grew,
           page' = page \/ page' = [page EXCEPT !.control = FALSE]
    PROVE  PageSound'
<1>1. /\ page' \in Pages /\ page'.pc = page.pc /\ page'.view = page.view
      /\ page'.upload = page.upload /\ page'.waiter = page.waiter
      /\ page'.ending = page.ending /\ page'.fin = page.fin
      /\ page'.fetched = page.fetched /\ page'.closed = page.closed
      /\ page'.aborting = page.aborting
  BY DEF PageSound, Pages
<1>2. page'.view # None => Past(page.view)'
  <2>1. \A view : Past(view) => Past(view)'
    BY PastStays
  <2>. QED
    BY <1>1, <2>1 DEF PageSound
<1>3. page'.fin # "none" => Initialized' /\ MeansEnd(View(conversation'))
  BY <1>1 DEF PageSound, Grew
<1>4. page'.fin = "answer" =>
        /\ conversation'.tag \in TerminalTags
        /\ page'.fetched \in {None, View(conversation')}
        /\ ~page'.closed => page'.fetched = View(conversation')
  BY <1>1 DEF PageSound, Grew
<1>. QED
  BY <1>1, <1>2, <1>3, <1>4 DEF PageSound

LEMMA ServerSideKeeps ==
    ASSUME BrowserIInv, IInv', Grew, ServerSide
    PROVE  PageInv'
<1>0. IInv /\ PageSound /\ Attached /\ Informed /\ GatewayTypeOK
  BY DEF BrowserIInv, PageInv, WorkerIInv
<1>1. /\ GatewayMoves /\ Told /\ UNCHANGED sent
      /\ phase' \in [Sockets -> Phases] /\ link' \in [Sockets -> Links]
      /\ outbox' \in [Sockets -> Seq(ServerMessages)]
      /\ Hosted' /\ OneActiveSocket'
      /\ phase'[Own] = "none" <=> phase[Own] = "none"
      /\ link[Own] = "closed" => link'[Own] = "closed"
      /\ phase[Own] = "none" => outbox'[Own] = outbox[Own]
      /\ page' = page \/ page' = [page EXCEPT !.control = FALSE]
  BY DEF ServerSide, GatewayMoves
<1>2. /\ page'.pc = page.pc /\ page'.view = page.view /\ page'.closed = page.closed
      /\ page'.control => page.control
  BY <1>0, <1>1 DEF PageSound, Pages
<1>3. /\ inbox' \in Seq(ClientMessages)
      /\ \A i \in DOMAIN inbox' : inbox'[i].type = "ClientHello" => i = 1
      /\ inbox = <<>> => inbox' = <<>>
  <2>1. /\ inbox \in Seq(ClientMessages)
        /\ \A i \in DOMAIN inbox : inbox[i].type = "ClientHello" => i = 1
    BY <1>0 DEF GatewayTypeOK, Attached
  <2>2. CASE UNCHANGED inbox
    BY <2>1, <2>2
  <2>3. CASE inbox' = <<>>
    BY <2>3, NothingQueued
  <2>4. CASE inbox # <<>> /\ inbox' = Tail(inbox)
    BY <2>1, <2>4, Dequeued
  <2>. QED
    BY <2>2, <2>3, <2>4 DEF ServerSide
<1>4. GatewayTypeOK'
  BY <1>1, <1>3 DEF GatewayTypeOK
<1>5. PageSound'
  BY <1>0, <1>1, PageStands
<1>6. Attached'
  <2>1. /\ page'.pc \in {"load", "start", "connect"} => phase'[Own] = "none"
        /\ page'.pc = "start" => Initialized'
    BY <1>0, <1>1, <1>2 DEF Attached, Grew
  <2>2. page'.pc = "connect" \/ phase'[Own] # "none" =>
          Initialized' /\ conversation'.tag # "created"
    BY <1>0, <1>1, <1>2 DEF Attached, Grew
  <2>3. phase'[Own] = "none" => outbox'[Own] = <<>> /\ inbox' = <<>>
    BY <1>0, <1>1, <1>3 DEF Attached
  <2>4. /\ page'.closed => link'[Own] = "closed"
        /\ page'.control => phase'[Own] # "none"
    BY <1>0, <1>1, <1>2 DEF Attached
  <2>. QED
    BY <1>3, <2>1, <2>2, <2>3, <2>4 DEF Attached
<1>7. Informed'
  <2>1. \A view : Past(view) => Past(view)'
    BY <1>0, PastStays
  <2>2. outbox[Own] \in Seq(ServerMessages)
    BY <1>0, OwnIsSocket DEF GatewayTypeOK
  <2>3. CASE /\ outbox'[Own] = outbox[Own]
             /\ IsActive(Own)' => IsActive(Own) /\ StillCurrent
    <3>1. (\A i \in DOMAIN outbox[Own] : Past(outbox[Own][i].view))'
      BY <1>0, <2>1, <2>3 DEF Informed
    <3>2. ASSUME IsActive(Own)', outbox'[Own] = <<>> PROVE Current(page.view)'
      <4>1. Current(page.view) /\ StillCurrent
        BY <1>0, <2>3, <3>2 DEF Informed
      <4>2. \A v : v = page.view /\ v = page'.view => Current(v)'
        BY <4>1 DEF StillCurrent
      <4>. QED
        BY <1>2, <4>2 DEF Current
    <3>3. ASSUME IsActive(Own)', outbox'[Own] # <<>>
          PROVE  Current(Newest(outbox[Own]).view)'
      <4>1. Current(Newest(outbox[Own]).view) /\ StillCurrent
        BY <1>0, <2>3, <3>3 DEF Informed
      <4>2. PICK m : m = Newest(outbox[Own])
        OBVIOUS
      <4>3. Current(m.view)'
        BY <4>1, <4>2 DEF StillCurrent
      <4>. QED
        BY <2>3, <4>2, <4>3 DEF Newest
    <3>. QED
      BY <2>3, <3>1, <3>2, <3>3 DEF Informed
  <2>4. ASSUME phase[Own] # "none", NEW m \in ServerMessages,
               m.view = View(conversation'), outbox'[Own] = Append(outbox[Own], m)
        PROVE  Informed'
    <3>1. Initialized'
      BY <1>0, <2>4 DEF Attached, Grew
    <3>2. conversation' \in Conversations
      BY <3>1 DEF IInv, TypeOK, Initialized
    <3>3. Past(m.view)' /\ Current(m.view)'
      BY <2>4, <3>1, <3>2, ViewType DEF Past, Conversations, Current
    <3>4. /\ outbox'[Own] # <<>> /\ Newest(outbox'[Own]) = m
          /\ \A i \in DOMAIN outbox'[Own] :
               \/ i \in DOMAIN outbox[Own] /\ outbox'[Own][i] = outbox[Own][i]
               \/ outbox'[Own][i] = m
      BY <2>2, <2>4, Appended
    <3>. QED
      BY <1>0, <2>1, <2>4, <3>3, <3>4 DEF Informed
  <2>5. CASE outbox'[Own] = <<>> /\ ~IsActive(Own)'
    BY <2>5, NothingQueued DEF Informed
  <2>6. CASE phase[Own] = "none"
    BY <1>0, <1>1, <2>1, <2>6 DEF Informed, IsActive
  <2>. QED
    BY <1>1, <2>3, <2>4, <2>5, <2>6 DEF Told
<1>8. sent' \subseteq Requests \cup OwnEnds
  BY <1>1 DEF BrowserIInv, PageInv
<1>. QED
  BY <1>1, <1>4, <1>5, <1>6, <1>7, <1>8 DEF PageInv

LEMMA RunRequestKeeps ==
    ASSUME BrowserIInv, WorkerIInv', Grew, NEW r \in Requests, RunRequest(r)
    PROVE  PageInv'
<1>0. IInv' /\ PageInv /\ UNCHANGED <<page, inbox, sent>>
  BY DEF BrowserIInv, WorkerIInv, RunRequest
<1>1. /\ UNCHANGED <<phase, link>>
      /\ \/ Initialized' /\ Broadcast(conversation')
         \/ UNCHANGED <<outbox, conversation>>
  <2>1. CASE EventApplied(r) /\ Broadcast(conversation')
           /\ UNCHANGED <<phase, link>>
    <3>1. Initialized
      BY <2>1 DEF EventApplied, ApplyEvent, IsApplied
    <3>. QED
      BY <2>1, <3>1 DEF Grew
  <2>2. CASE /\ EventDuplicate(r) \/ EventConflict(r) \/ EventRejected(r)
             /\ UNCHANGED <<outbox, phase, link>>
    BY <2>2
    DEF EventDuplicate, ApplyDuplicate, EventConflict, EventRejected, vars, stored
  <2>3. CASE /\ UNCHANGED gateway
             /\ \/ BeginRecording(r) \/ CreateMultipartUpload(r) \/ AbortOwnUpload(r)
                \/ BeginRecordingUpload(r) \/ CompleteRecordingUpload(r)
                \/ Assemble(r) \/ PersistJob(r)
    BY <2>3
    DEF BeginRecording, CreateMultipartUpload, AbortOwnUpload, BeginRecordingUpload,
        CompleteRecordingUpload, Assemble, PersistJob, gateway, vars, stored
  <2>. QED
    BY <2>1, <2>2, <2>3 DEF RunRequest, IntegrationEvent
<1>. QED
  BY <1>0, <1>1, PublishedMoves, ServerSideKeeps DEF ServerSide

LEMMA OtherClientKeeps ==
    ASSUME BrowserIInv, WorkerIInv', Grew, NEW ws \in Others, OtherClient(ws)
    PROVE  PageInv'
<1>0. /\ IInv /\ IInv' /\ PageInv /\ UNCHANGED <<page, inbox, sent>>
      /\ ws \in Sockets /\ ws # Own
  BY OwnIsSocket DEF BrowserIInv, WorkerIInv, OtherClient, Others
<1>1. ASSUME Accept(ws), UNCHANGED allVars PROVE GatewayMoves
  <2>1. /\ phase' = [phase EXCEPT ![ws] = "awaiting_hello"]
        /\ link' = [link EXCEPT ![ws] = "open"]
        /\ phase[ws] = "none"
        /\ outbox' = outbox /\ conversation' = conversation /\ Initialized
    BY <1>1 DEF Accept, allVars, vars, stored
  <2>2. /\ phase \in [Sockets -> Phases] /\ OneActiveSocket /\ Hosted
        /\ link \in [Sockets -> Links]
        /\ outbox \in [Sockets -> Seq(ServerMessages)]
    BY <1>0 DEF PageInv, GatewayTypeOK
  <2>3. /\ phase' \in [Sockets -> Phases] /\ link' \in [Sockets -> Links]
        /\ OneActiveSocket' /\ Hosted'
        /\ phase'[Own] = phase[Own] /\ link'[Own] = link[Own]
        /\ \A s \in Others : phase[s] = "active" => phase'[s] = "active"
    BY <1>0, <2>1, <2>2, OwnIsSocket
    DEF Phases, Links, OneActiveSocket, Hosted, Initialized, Others
  <2>4. Told
    BY <2>1, <2>3, NothingMissed DEF Told, IsActive
  <2>. QED
    BY <2>1, <2>2, <2>3, <2>4 DEF GatewayMoves
<1>2. ASSUME ProtocolViolation(ws) PROVE GatewayMoves
  BY <1>0, <1>2, SocketCloses DEF ProtocolViolation, allVars, vars, stored
<1>3. ASSUME NEW epoch, HandleHello(ws, epoch) PROVE GatewayMoves
  BY <1>0, <1>3, HelloMoves
<1>4. ASSUME NEW call \in EndCalls \ OwnEnds, NEW revision,
             HandleEndRequested(ws, call, revision)
      PROVE  GatewayMoves
  BY <1>0, <1>4, EndMoves
<1>5. GatewayMoves
  BY <1>1, <1>2, <1>3, <1>4 DEF OtherClient
<1>. QED
  BY <1>0, <1>5, ServerSideKeeps DEF ServerSide

LEMMA ObjectKeeps ==
    ASSUME BrowserIInv, WorkerIInv', Grew, Object
    PROVE  PageInv'
<1>0. /\ IInv /\ IInv' /\ PageInv /\ UNCHANGED <<page, inbox, sent>>
  BY DEF BrowserIInv, WorkerIInv, Object
<1>1. CASE Initialize /\ UNCHANGED gateway
  <2>1. phase[Own] # "active"
    BY <1>0, <1>1 DEF Initialize, PageInv, Attached
  <2>. QED
    BY <1>0, <1>1, <2>1, PublishedMoves, ServerSideKeeps DEF ServerSide, gateway
<1>2. CASE Tick /\ UNCHANGED gateway
  BY <1>0, <1>2, PublishedMoves, ServerSideKeeps DEF ServerSide, gateway, Tick, stored
<1>3. ASSUME NEW call \in StartCalls, NEW lead \in LeadsOf(call),
             ApplyEvent(0, Stamped(call, lead)), UNCHANGED gateway
      PROVE  PageInv'
  <2>1. conversation.tag = "created"
    <3>1. EventStep(Stamped(call, lead)) /\ Stamped(call, lead).type = "StartRequested"
      BY <1>0, <1>3, ApplyEventIsEventStep, UploadAssumption DEF StartCalls
    <3>. QED
      BY <3>1 DEF EventStep, Accepts, Outcome, AllowedEvents
  <2>2. phase[Own] # "active"
    BY <1>0, <2>1 DEF PageInv, Attached
  <2>. QED
    BY <1>0, <1>3, <2>2, PublishedMoves, ServerSideKeeps DEF ServerSide, gateway
<1>4. CASE AlarmPublishes
  <2>1. UNCHANGED <<phase, link>> /\ Initialized /\ Broadcast(conversation')
    BY <1>4
    DEF AlarmPublishes, AlarmAppliesDeadline, DeadlineExpired, AlarmFindsNoDeadline,
        AlarmRunsEarly, AlarmMayRun
  <2>. QED
    BY <1>0, <2>1, PublishedMoves, ServerSideKeeps DEF ServerSide, Grew
<1>5. CASE AlarmStaysSilent
  <2>1. UNCHANGED <<gateway, conversation>>
    BY <1>5 DEF AlarmStaysSilent, AlarmTransitionRejected, AlarmFails
  <2>. QED
    BY <1>0, <2>1, PublishedMoves, ServerSideKeeps DEF ServerSide, gateway
<1>6. ASSUME NEW ws \in Others, SocketDrops(ws) PROVE PageInv'
  <2>1. GatewayMoves
    BY <1>0, <1>6, SocketCloses DEF SocketDrops, Others, allVars, vars, stored
  <2>. QED
    BY <1>0, <2>1, ServerSideKeeps DEF ServerSide
<1>. QED
  BY <1>1, <1>2, <1>3, <1>4, <1>5, <1>6 DEF Object

LEMMA HandleInboxKeeps ==
    ASSUME BrowserIInv, WorkerIInv', Grew, HandleInbox
    PROVE  PageInv'
<1>0. /\ IInv /\ IInv' /\ PageInv /\ UNCHANGED <<page, sent>>
      /\ inbox \in Seq(ClientMessages) /\ Own \in Sockets
      /\ inbox # <<>> /\ inbox' = Tail(inbox)
  BY OwnIsSocket DEF BrowserIInv, WorkerIInv, HandleInbox, PageInv, GatewayTypeOK
<1>1. PICK m \in ClientMessages :
        \/ m.type = "ClientHello" /\ HandleHello(Own, m.epoch)
        \/ /\ m.type = "EndRequested"
           /\ HandleEndRequested(Own, m.call, m.expectedRevision)
  BY <1>0, Dequeued DEF HandleInbox
<1>2. m.type = "EndRequested" => m.call \in EndCalls
  BY <1>1, RuntimeAssumption DEF ClientMessages
<1>3. GatewayMoves
  BY <1>0, <1>1, <1>2, HelloMoves, EndMoves
<1>. QED
  BY <1>0, <1>3, ServerSideKeeps DEF ServerSide

-----------------------------------------------------------------------------
(***************************************************************************)
(* PageInv is inductive: steps of the page                                 *)
(***************************************************************************)

(* The page shows no revision earlier than the one it showed.              *)
ViewMoves ==
    None \notin {page.view, page'.view} =>
        page'.view.revision >= page.view.revision

(* The network takes the page's socket away.                               *)
LEMMA ControlDropsKeeps ==
    ASSUME BrowserIInv, WorkerIInv', Grew, ControlDrops
    PROVE  PageInv' /\ ViewMoves
<1>0. /\ IInv' /\ PageInv /\ UNCHANGED sent /\ page \in Pages
      /\ page' = [page EXCEPT !.control = FALSE]
      /\ inbox' = <<>> /\ Own \in Sockets
      /\ phase[Own] # "none" /\ Close(Own) /\ UNCHANGED <<phase, conversation>>
      /\ outbox' = [outbox EXCEPT ![Own] = <<>>]
  BY OwnIsSocket
  DEF BrowserIInv, WorkerIInv, PageInv, PageSound, ControlDrops, SocketDrops,
      allVars, vars, stored
<1>1. GatewayMoves
  BY <1>0, SocketCloses
<1>2. PageInv'
  BY <1>0, <1>1, ServerSideKeeps DEF ServerSide
<1>3. page'.view = page.view /\ (page.view # None => page.view.revision \in Nat)
  BY <1>0 DEF Pages, Views
<1>. QED
  BY <1>2, <1>3 DEF ViewMoves

(* A step of the page that leaves the sockets alone.                       *)
PageSide ==
    /\ UNCHANGED gateway
    /\ page'.closed = page.closed
    /\ page'.control => page.control
    /\ page'.pc \in {"load", "start", "connect"} =>
          page.pc \in {"load", "start", "connect"}
    /\ page'.pc = "start" => page.pc = "start" \/ Initialized'
    /\ page'.pc = "connect" =>
          page.pc = "connect" \/ (Initialized' /\ conversation'.tag # "created")
    /\ IsActive(Own) =>
          /\ UNCHANGED conversation
          /\ page'.view = page.view \/ page'.view = View(conversation)
    /\ \/ UNCHANGED inbox
       \/ /\ phase[Own] # "none"
          /\ \E m \in ClientMessages :
                m.type # "ClientHello" /\ inbox' = Append(inbox, m)
    /\ sent' \subseteq Requests \cup OwnEnds

LEMMA PageSideKeeps ==
    ASSUME BrowserIInv, IInv', Grew, PageSide, PageSound'
    PROVE  PageInv'
<1>0. /\ IInv /\ PageSound /\ Attached /\ Informed /\ Hosted
      /\ OneActiveSocket /\ inbox \in Seq(ClientMessages)
      /\ phase \in [Sockets -> Phases] /\ outbox \in [Sockets -> Seq(ServerMessages)]
      /\ link \in [Sockets -> Links]
      /\ UNCHANGED <<phase, link, outbox>>
  BY DEF BrowserIInv, PageInv, WorkerIInv, GatewayTypeOK, PageSide, gateway
<1>1. /\ inbox' \in Seq(ClientMessages)
      /\ \A i \in DOMAIN inbox' : inbox'[i].type = "ClientHello" => i = 1
      /\ phase[Own] = "none" => inbox' = inbox
  <2>1. CASE UNCHANGED inbox
    BY <1>0, <2>1 DEF Attached
  <2>2. ASSUME NEW m \in ClientMessages, m.type # "ClientHello",
               inbox' = Append(inbox, m), phase[Own] # "none"
        PROVE  /\ inbox' \in Seq(ClientMessages)
               /\ \A i \in DOMAIN inbox' : inbox'[i].type = "ClientHello" => i = 1
    <3>1. /\ inbox' \in Seq(ClientMessages)
          /\ \A i \in DOMAIN inbox' :
               \/ i \in DOMAIN inbox /\ inbox'[i] = inbox[i]
               \/ inbox'[i] = m
      BY <1>0, <2>2, Appended
    <3>. QED
      BY <1>0, <2>2, <3>1 DEF Attached
  <2>. QED
    BY <2>1, <2>2 DEF PageSide
<1>2. GatewayTypeOK' /\ Hosted' /\ OneActiveSocket'
  BY <1>0, <1>1 DEF GatewayTypeOK, Hosted, OneActiveSocket, Grew
<1>3. Attached'
  <2>1. /\ page'.pc = "connect" \/ phase[Own] # "none" =>
              Initialized' /\ conversation'.tag # "created"
        /\ page'.pc = "start" => Initialized'
    BY <1>0 DEF PageSide, Attached, Grew
  <2>2. /\ page'.pc \in {"load", "start", "connect"} => phase'[Own] = "none"
        /\ phase'[Own] = "none" => outbox'[Own] = <<>> /\ inbox' = <<>>
        /\ page'.closed => link'[Own] = "closed"
        /\ page'.control => phase'[Own] # "none"
    BY <1>0, <1>1 DEF PageSide, Attached
  <2>. QED
    BY <1>0, <1>1, <2>1, <2>2 DEF Attached
<1>4. Informed'
  <2>1. \A view : Past(view) => Past(view)'
    BY <1>0, PastStays
  <2>2. /\ (\A i \in DOMAIN outbox[Own] : Past(outbox[Own][i].view))'
        /\ IsActive(Own)' => IsActive(Own)
    BY <1>0, <2>1 DEF Informed, IsActive
  <2>3. ASSUME IsActive(Own)
        PROVE  IF outbox[Own] = <<>> THEN Current(page.view)'
                                     ELSE Current(Newest(outbox[Own]).view)'
    <3>1. StillCurrent
      BY <1>0, <2>3, OwnIsSocket, NothingMissed DEF PageSide, Hosted, IsActive
    <3>2. ASSUME outbox[Own] = <<>> PROVE Current(page.view)'
      <4>1. CASE page'.view = View(conversation)
        BY <2>3, <4>1 DEF Current, PageSide, View
      <4>2. CASE page'.view = page.view
        <5>1. Current(page.view)
          BY <1>0, <2>3, <3>2 DEF Informed
        <5>2. \A v : v = page.view /\ v = page'.view => Current(v)'
          BY <3>1, <5>1 DEF StillCurrent
        <5>. QED
          BY <4>2, <5>2
      <4>. QED
        BY <2>3, <4>1, <4>2 DEF PageSide
    <3>3. ASSUME outbox[Own] # <<>> PROVE Current(Newest(outbox[Own]).view)'
      <4>1. PICK v : v = Newest(outbox[Own]).view
        OBVIOUS
      <4>2. Current(v)'
        BY <1>0, <2>3, <3>1, <3>3, <4>1 DEF Informed, StillCurrent
      <4>. QED
        BY <1>0, <4>1, <4>2 DEF Newest
    <3>. QED
      BY <3>2, <3>3
  <2>. QED
    BY <1>0, <2>2, <2>3 DEF Informed
<1>. QED
  BY <1>1, <1>2, <1>3, <1>4 DEF PageInv, PageSide

(* What was true of the page still is.                                     *)
StillTrue ==
    /\ page \in Pages
    /\ page.view # None => page.view \in Views
    /\ \A view : Past(view) => Past(view)'
    /\ page.fin # "none" => Initialized' /\ MeansEnd(View(conversation'))
    /\ page.fin = "answer" =>
          /\ conversation'.tag \in TerminalTags
          /\ page.fetched \in {None, View(conversation')}
          /\ ~page.closed => page.fetched = View(conversation')

LEMMA PageStillTrue ==
    ASSUME BrowserIInv, WorkerIInv', Grew
    PROVE  /\ StillTrue /\ PageSound /\ Attached /\ Informed /\ IInv /\ IInv'
           /\ sent \subseteq Requests \cup OwnEnds
<1>1. /\ PageSound /\ Attached /\ Informed /\ IInv /\ IInv'
      /\ sent \subseteq Requests \cup OwnEnds
  BY DEF BrowserIInv, PageInv, WorkerIInv
<1>2. \A view : Past(view) => Past(view)'
  BY <1>1, PastStays
<1>. QED
  BY <1>1, <1>2 DEF StillTrue, PageSound, Past, Grew

LEMMA QuietPageKeeps ==
    ASSUME BrowserIInv, WorkerIInv', Grew,
           \/ StartMedia \/ ConnectFails \/ EndTimesOut \/ FinalizationFails
           \/ AbortUpload \/ ControlCloses
           \/ \E b \in Begins : RecordingBegun(b)
           \/ \E u \in UploadBegins : PartsUploaded(u)
    PROVE  PageInv' /\ ViewMoves
<1>0. /\ StillTrue /\ PageSound /\ page \in Pages /\ IInv'
      /\ sent \subseteq Requests \cup OwnEnds
  BY PageStillTrue DEF StillTrue
<1>1. /\ UNCHANGED <<gateway, inbox, conversation>> /\ page'.view = page.view
      /\ page'.closed = page.closed /\ (page'.control => page.control)
      /\ page'.pc \in {"load", "start", "connect"} => page'.pc = page.pc
      /\ sent' \subseteq Requests \cup OwnEnds
  BY <1>0
  DEF StartMedia, ConnectFails, EndTimesOut, FinalizationFails, AbortUpload,
      ControlCloses, RecordingBegun, PartsUploaded, UploadRecordingPart, AbortRecordingUpload,
      allVars, vars, stored, Pages, Requests
<1>2. PageSound'
  <2>1. CASE StartMedia
    BY <1>0, <2>1 DEF StartMedia, StillTrue, PageSound, Pages
  <2>2. CASE ConnectFails
    <3>1. PICK microphone \in BOOLEAN :
            page' = [page EXCEPT !.pc = "error", !.microphone = microphone]
      BY <1>0, <2>2 DEF ConnectFails, Pages
    <3>. QED
      BY <1>0, <3>1 DEF StillTrue, PageSound, Pages
  <2>3. CASE EndTimesOut
    BY <1>0, <2>3 DEF EndTimesOut, StillTrue, PageSound, Pages
  <2>4. CASE FinalizationFails
    BY <1>0, <2>4 DEF FinalizationFails, StillTrue, PageSound, Pages
  <2>5. CASE AbortUpload
    BY <1>0, <2>5 DEF AbortUpload, StillTrue, PageSound, Pages
  <2>6. ASSUME NEW b \in Begins, RecordingBegun(b) PROVE PageSound'
    <3>1. requests[b].upload \in RecordingIds /\ requests[b].upload # None
      BY <2>6, RequestFacts, NoneAssumption
      DEF RecordingBegun, BrowserIInv, Requests, RequestStates, BeginHoldsUpload
    <3>. QED
      BY <1>0, <2>6, <3>1 DEF RecordingBegun, StillTrue, PageSound, Pages
  <2>7. ASSUME NEW u \in UploadBegins, PartsUploaded(u) PROVE PageSound'
    BY <1>0, <2>7 DEF PartsUploaded, StillTrue, PageSound, Pages
  <2>8. CASE ControlCloses
    BY <1>0, <2>8 DEF ControlCloses, StillTrue, PageSound, Pages
  <2>. QED
    BY <2>1, <2>2, <2>3, <2>4, <2>5, <2>6, <2>7, <2>8
<1>3. ViewMoves
  <2>1. page.view # None => page.view.revision \in Nat
    BY <1>0 DEF StillTrue, Views
  <2>. QED
    BY <1>1, <2>1 DEF ViewMoves
<1>4. PageSide
  BY <1>1 DEF PageSide, gateway
<1>. QED
  BY <1>0, <1>2, <1>3, <1>4, PageSideKeeps

LEMMA LoadStateKeeps ==
    ASSUME BrowserIInv, WorkerIInv', Grew, LoadState
    PROVE  PageInv' /\ ViewMoves
<1>0. /\ StillTrue /\ PageSound /\ Attached /\ IInv /\ IInv' /\ page \in Pages
      /\ sent \subseteq Requests \cup OwnEnds
  BY PageStillTrue DEF StillTrue
<1>1. /\ page.pc = "load" /\ Initialized /\ UNCHANGED <<gateway, inbox, sent>>
      /\ UNCHANGED conversation /\ phase[Own] = "none"
  BY <1>0 DEF LoadState, allVars, vars, stored, Attached
<1>2. PICK pc \in {"start", "connect"}, view \in {None, View(conversation)} :
        /\ page' = [page EXCEPT !.pc = pc, !.view = view]
        /\ pc = "connect" => conversation.tag # "created"
        /\ ~page.closed => view = View(conversation)
  BY DEF LoadState, Seen
<1>3. View(conversation) \in Views /\ Past(View(conversation)) /\ Past(View(conversation))'
  BY <1>0, <1>1, PresentIsPast DEF StillTrue, Initialized
<1>4. PageSound'
  BY <1>0, <1>1, <1>2, <1>3 DEF StillTrue, PageSound, Pages
<1>5. PageSide
  BY <1>0, <1>1, <1>2 DEF PageSide, Pages, Initialized, IsActive
<1>6. ViewMoves
  BY <1>0, <1>1, <1>2 DEF ViewMoves, PageSound, Past, Pages, View
<1>. QED
  BY <1>0, <1>4, <1>5, <1>6, PageSideKeeps

LEMMA StartConversationKeeps ==
    ASSUME BrowserIInv, WorkerIInv', Grew, StartConversation
    PROVE  PageInv' /\ ViewMoves
<1>0. /\ StillTrue /\ PageSound /\ Attached /\ IInv /\ IInv' /\ page \in Pages
      /\ sent \subseteq Requests \cup OwnEnds
  BY PageStillTrue DEF StillTrue
<1>1. /\ page.pc = "start" /\ UNCHANGED <<gateway, inbox, sent>>
      /\ page' = [page EXCEPT !.pc = "connect", !.view = Seen(conversation')]
      /\ phase[Own] = "none"
  BY <1>0 DEF StartConversation, Attached
<1>2. Initialized /\ conversation'.tag # "created"
  <2>1. ASSUME NEW call \in StartCalls, NEW lead \in LeadsOf(call),
               ApplyEvent(0, Stamped(call, lead))
        PROVE  Initialized /\ conversation'.tag # "created"
    <3>1. EventStep(Stamped(call, lead))
      BY <1>0, <2>1, ApplyEventIsEventStep, UploadAssumption DEF StartCalls
    <3>2. conversation \in Conversations /\ Consistent(conversation)
      BY <1>0, <3>1, AlarmCoversType DEF EventStep
    <3>. QED
      BY <3>1, <3>2, EventGrows DEF EventStep
  <2>2. ASSUME NEW call, ApplyDuplicate(call)
        PROVE  Initialized /\ conversation'.tag # "created"
    <3>1. Initialized /\ HasReceipt(call.id) /\ UNCHANGED conversation
      BY <2>2 DEF ApplyDuplicate, IsDuplicate
    <3>2. PICK r \in receipts : r.sourceRevision \in Nat
      BY <1>0, <3>1 DEF HasReceipt, IInv, TypeOK, Receipts
    <3>3. r.sourceRevision < conversation.revision /\ Consistent(conversation)
      BY <1>0, <3>1, <3>2 DEF IInv, ReceiptsFitRevision
    <3>4. CreateConversation.revision = 0
      BY DEF CreateConversation
    <3>. QED
      BY <3>1, <3>2, <3>3, <3>4 DEF Consistent, ConsistentTag
  <2>3. CASE conversation.tag = "starting" /\ UNCHANGED vars
    <3>1. Initialized
      BY <1>0, <1>1 DEF Attached
    <3>. QED
      BY <2>3, <3>1 DEF vars, stored
  <2>. QED
    BY <2>1, <2>2, <2>3 DEF StartConversation
<1>3. /\ conversation \in Conversations /\ conversation' \in Conversations
      /\ Initialized' /\ View(conversation') \in Views
      /\ \A view : view = View(conversation') => Past(view)'
      /\ View(conversation').revision = conversation'.revision
  <2>1. Initialized'
    BY <1>2 DEF Grew
  <2>2. conversation \in Conversations /\ conversation' \in Conversations
    BY <1>0, <1>2, <2>1 DEF IInv, TypeOK, Initialized
  <2>3. View(conversation') \in Views /\ View(conversation').revision = conversation'.revision
    BY <2>2, ViewType
  <2>4. \A view : view = View(conversation') => Past(view)'
    BY <2>1, <2>2, <2>3 DEF Past, Conversations
  <2>. QED
    BY <2>1, <2>2, <2>3, <2>4
<1>4. PICK view \in {None, View(conversation')} :
        /\ page' = [page EXCEPT !.pc = "connect", !.view = view]
        /\ ~page.closed => view = View(conversation')
  BY <1>1 DEF Seen
<1>5. PageSound'
  <2>1. /\ page' \in Pages /\ page'.view = view
        /\ page'.pc = "connect"
        /\ page'.waiter = page.waiter /\ page'.ending = page.ending
        /\ page'.upload = page.upload /\ page'.fin = page.fin
        /\ page'.fetched = page.fetched /\ page'.closed = page.closed
        /\ page'.aborting = page.aborting
    BY <1>0, <1>3, <1>4 DEF Pages
  <2>2. view # None => Past(view)'
    BY <1>3, <1>4
  <2>3. page.fin = "answer" =>
          /\ page.fetched \in {None, View(conversation')}
          /\ ~page.closed => page.fetched = View(conversation')
    BY <1>0 DEF StillTrue
  <2>. QED
    BY <1>0, <1>3, <1>4, <2>1, <2>2, <2>3 DEF StillTrue, PageSound
<1>6. PageSide
  BY <1>0, <1>1, <1>2, <1>3, <1>4 DEF PageSide, Pages, IsActive
<1>7. ViewMoves
  <2>1. page'.view = view
    BY <1>0, <1>4 DEF Pages
  <2>2. page.view # None => /\ page.view.revision \in Nat
                            /\ page.view.revision <= conversation.revision
    BY <1>0 DEF PageSound, Past, Views
  <2>3. /\ conversation'.revision >= conversation.revision
        /\ conversation'.revision \in Nat /\ conversation.revision \in Nat
    BY <1>2, <1>3 DEF Grew, Conversations
  <2>. QED
    BY <1>3, <1>4, <2>1, <2>2, <2>3 DEF ViewMoves
<1>. QED
  BY <1>0, <1>5, <1>6, <1>7, PageSideKeeps

LEMMA RequestEndKeeps ==
    ASSUME BrowserIInv, WorkerIInv', Grew, RequestEnd
    PROVE  PageInv' /\ ViewMoves
<1>0. /\ StillTrue /\ PageSound /\ Attached /\ IInv /\ IInv' /\ page \in Pages
      /\ sent \subseteq Requests \cup OwnEnds
  BY PageStillTrue DEF StillTrue
<1>1. PICK call \in OwnEnds :
        /\ inbox' = Append(inbox, EndRequested(call, page.view.revision))
        /\ sent' = sent \cup {call}
  BY DEF RequestEnd
<1>2. /\ page' = [page EXCEPT !.waiter = TRUE, !.ending = TRUE]
      /\ UNCHANGED <<gateway, conversation>> /\ page.view # None
      /\ phase[Own] # "none"
  BY <1>0 DEF RequestEnd, ReadyToEnd, Attached, allVars, vars, stored
<1>3. page.view \in Views /\ page.view.revision \in Nat
  BY <1>0, <1>2 DEF StillTrue, Views
<1>4. PICK m \in ClientMessages : /\ m = EndRequested(call, page.view.revision)
                                  /\ m.type = "EndRequested"
  <2>1. [type |-> "EndRequested", call |-> call, expectedRevision |-> page.view.revision]
           \in [type : {"EndRequested"}, call : OwnEnds, expectedRevision : Nat]
    BY <1>3
  <2>. QED
    BY <2>1 DEF EndRequested, ClientMessages
<1>5. PageSound'
  BY <1>0, <1>2 DEF StillTrue, PageSound, Pages
<1>6. PageSide
  BY <1>0, <1>1, <1>2, <1>4 DEF PageSide, Pages
<1>7. ViewMoves
  BY <1>0, <1>2, <1>3 DEF ViewMoves, Pages
<1>. QED
  BY <1>0, <1>5, <1>6, <1>7, PageSideKeeps

LEMMA StateRefreshedKeeps ==
    ASSUME BrowserIInv, WorkerIInv', Grew, NEW c \in Completions, StateRefreshed(c)
    PROVE  PageInv' /\ ViewMoves
<1>0. /\ StillTrue /\ PageSound /\ Attached /\ IInv /\ IInv' /\ page \in Pages
      /\ sent \subseteq Requests \cup OwnEnds
  BY PageStillTrue DEF StillTrue
<1>1. /\ page' = [page EXCEPT !.fin = "answer", !.fetched = Seen(conversation)]
      /\ page.fin = "complete"
      /\ Seen(conversation) = IF page.closed THEN None ELSE View(conversation)
      /\ UNCHANGED <<gateway, inbox, sent, conversation>>
  BY DEF StateRefreshed, Seen, allVars, vars, stored
<1>2. IsReady
  BY OkMeansDoneHolds DEF StateRefreshed, BrowserIInv, OkMeansDone, Requests
<1>3. conversation.tag \in TerminalTags /\ View(conversation) \in Views
  BY <1>0, <1>2, ReadyIsOver, PresentIsPast DEF BrowserIInv, IsReady
<1>4. PageSound'
  BY <1>0, <1>1, <1>3 DEF StillTrue, PageSound, Pages
<1>5. PageSide
  BY <1>0, <1>1 DEF PageSide, Pages
<1>6. ViewMoves
  BY <1>0, <1>1 DEF ViewMoves, Pages, StillTrue, Views
<1>. QED
  BY <1>0, <1>4, <1>5, <1>6, PageSideKeeps

(* The answer that comes over HTTP is the conversation's last state.       *)
LEMMA RecordingFinalizedKeeps ==
    ASSUME BrowserIInv, WorkerIInv', Grew, RecordingFinalized
    PROVE  PageInv' /\ ViewMoves
<1>0. /\ StillTrue /\ PageSound /\ Attached /\ IInv /\ IInv' /\ page \in Pages
      /\ sent \subseteq Requests \cup OwnEnds
  BY PageStillTrue DEF StillTrue
<1>1. /\ page.fin = "answer" /\ UNCHANGED <<gateway, inbox, sent, conversation>>
      /\ page.fetched \in {None, View(conversation)} /\ Initialized
      /\ ~page.closed => page.fetched = View(conversation)
  BY <1>0 DEF RecordingFinalized, allVars, vars, stored, PageSound
<1>2. PICK view \in {None, View(conversation)} :
        /\ page' = [page EXCEPT !.fin = "ok", !.view = view, !.fetched = None]
        /\ ~page.closed => view = View(conversation)
  BY <1>1 DEF RecordingFinalized
<1>3. View(conversation) \in Views /\ Past(View(conversation)) /\ Past(View(conversation))'
  BY <1>0, <1>1, PresentIsPast DEF StillTrue
<1>4. PageSound'
  BY <1>0, <1>1, <1>2, <1>3 DEF StillTrue, PageSound, Pages
<1>5. PageSide
  BY <1>0, <1>1, <1>2 DEF PageSide, Pages, Attached, IsActive
<1>6. ViewMoves
  BY <1>0, <1>1, <1>2 DEF ViewMoves, PageSound, Past, Pages, View
<1>. QED
  BY <1>0, <1>4, <1>5, <1>6, PageSideKeeps

(* The page accepts its socket and says hello on it.                       *)
LEMMA ConnectControlKeeps ==
    ASSUME BrowserIInv, WorkerIInv', Grew, ConnectControl
    PROVE  PageInv' /\ ViewMoves
<1>0. /\ StillTrue /\ PageSound /\ Attached /\ IInv /\ IInv' /\ page \in Pages
      /\ sent \subseteq Requests \cup OwnEnds /\ Own \in Sockets
      /\ PageInv /\ GatewayTypeOK
  BY PageStillTrue, OwnIsSocket DEF StillTrue, BrowserIInv, PageInv
<1>1. /\ page.pc = "connect" /\ ~page.closed /\ phase[Own] = "none"
      /\ phase' = [phase EXCEPT ![Own] = "awaiting_hello"]
      /\ link' = [link EXCEPT ![Own] = "open"]
      /\ UNCHANGED <<outbox, conversation, sent>>
      /\ inbox' = Append(inbox, ClientHello(page.view.epoch))
      /\ page' = [page EXCEPT !.pc = "media", !.control = TRUE]
      /\ outbox[Own] = <<>> /\ inbox = <<>>
      /\ Initialized /\ conversation.tag # "created"
  BY <1>0 DEF ConnectControl, Accept, allVars, vars, stored, Attached
<1>2. page.view \in Views /\ page.view.epoch \in Nat \cup {None}
  BY <1>0, <1>1 DEF PageSound, Views
<1>3. PICK m \in ClientMessages : /\ m = ClientHello(page.view.epoch)
                                  /\ m.type = "ClientHello"
  <2>1. [type |-> "ClientHello", epoch |-> page.view.epoch]
           \in [type : {"ClientHello"}, epoch : Nat \cup {None}]
    BY <1>2
  <2>. QED
    BY <2>1 DEF ClientHello, ClientMessages
<1>4. /\ inbox' \in Seq(ClientMessages) /\ inbox' # <<>>
      /\ DOMAIN inbox' = {1} /\ inbox'[1] = m
  BY <1>1, <1>3
<1>5. /\ phase \in [Sockets -> Phases] /\ outbox \in [Sockets -> Seq(ServerMessages)]
      /\ link \in [Sockets -> Links]
      /\ phase'[Own] = "awaiting_hello"
  BY <1>0, <1>1 DEF GatewayTypeOK
<1>6. GatewayTypeOK'
  BY <1>1, <1>4, <1>5 DEF GatewayTypeOK, Phases, Links
<1>7. Hosted' /\ OneActiveSocket'
  BY <1>0, <1>1, <1>5 DEF PageInv, Hosted, OneActiveSocket, Initialized
<1>8. PageSound'
  BY <1>0, <1>1 DEF StillTrue, PageSound, Pages
<1>9. Attached'
  BY <1>0, <1>1, <1>3, <1>4, <1>5 DEF Attached, Initialized, Pages
<1>10. Informed'
  BY <1>1, <1>5, NothingQueued DEF Informed, IsActive
<1>11. ViewMoves
  BY <1>0, <1>1, <1>2 DEF ViewMoves, Pages, Views
<1>. QED
  BY <1>0, <1>1, <1>6, <1>7, <1>8, <1>9, <1>10, <1>11 DEF PageInv

(* A page that shows an ending or the end may begin to finalize.           *)
LEMMA ShownPage ==
    ASSUME page \in Pages, page.waiter => page.ending,
           NEW view \in Views, NEW p, p = Shown(view)
    PROVE  /\ p \in Pages /\ p.view = view
           /\ p.pc = page.pc /\ p.upload = page.upload
           /\ p.closed = page.closed /\ p.aborting = page.aborting
           /\ p.fetched = page.fetched /\ p.control = page.control
           /\ p.waiter => p.ending
           /\ \/ p.fin = page.fin
              \/ p.fin = "upload" /\ p.upload # None /\ MeansEnd(view)
<1>1. ASSUME NEW q \in Pages, NEW f, f = FinalizeRecording(q)
      PROVE  /\ f \in Pages /\ f.view = q.view
             /\ f.pc = q.pc /\ f.upload = q.upload
             /\ f.closed = q.closed /\ f.aborting = q.aborting
             /\ f.fetched = q.fetched /\ f.control = q.control
             /\ f.waiter = q.waiter
             /\ f.fin = q.fin \/ (f.fin = "upload" /\ f.upload # None)
  <2>1. CASE q.fin = "none" /\ q.upload # None
    <3>1. f = [q EXCEPT !.fin = "upload", !.microphone = FALSE]
      BY <1>1, <2>1 DEF FinalizeRecording
    <3>. QED
      BY <2>1, <3>1 DEF Pages
  <2>2. CASE (q.fin = "none" /\ q.upload = None) \/ q.fin = "failed"
    <3>1. f = [q EXCEPT !.ending = FALSE]
      BY <1>1, <2>2 DEF FinalizeRecording
    <3>. QED
      BY <3>1 DEF Pages
  <2>3. CASE q.fin \notin {"none", "failed"}
    BY <1>1, <2>3 DEF FinalizeRecording
  <2>. QED
    BY <2>1, <2>2, <2>3
<1>2. PICK q : q = [page EXCEPT !.view = view]
  OBVIOUS
<1>3. /\ q \in Pages /\ q.view = view
      /\ q.pc = page.pc /\ q.upload = page.upload
      /\ q.closed = page.closed /\ q.aborting = page.aborting
      /\ q.fetched = page.fetched /\ q.control = page.control
      /\ q.waiter = page.waiter
      /\ q.ending = page.ending /\ q.fin = page.fin
  BY <1>2 DEF Pages
<1>4. CASE q.waiter /\ MeansEnd(view)
  <2>1. PICK w : w = [q EXCEPT !.waiter = FALSE]
    OBVIOUS
  <2>2. /\ w \in Pages /\ w.view = view /\ w.waiter = FALSE
        /\ w.pc = page.pc /\ w.upload = page.upload
        /\ w.closed = page.closed /\ w.aborting = page.aborting
        /\ w.fetched = page.fetched /\ w.control = page.control
        /\ w.fin = page.fin
    BY <1>3, <2>1 DEF Pages
  <2>3. p = FinalizeRecording(w)
    BY <1>2, <1>4, <2>1 DEF Shown
  <2>. QED
    BY <1>1, <1>4, <2>2, <2>3
<1>5. CASE ~q.waiter /\ view.state = "ending" /\ q.upload # None
  <2>1. p = FinalizeRecording(q) /\ MeansEnd(view)
    BY <1>2, <1>5 DEF Shown, MeansEnd
  <2>. QED
    BY <1>1, <1>3, <1>5, <2>1
<1>6. CASE /\ ~(q.waiter /\ MeansEnd(view))
           /\ ~(~q.waiter /\ view.state = "ending" /\ q.upload # None)
  <2>1. p = q
    BY <1>2, <1>6 DEF Shown
  <2>. QED
    BY <1>3, <2>1
<1>. QED
  BY <1>4, <1>5, <1>6

(* The oldest message has been true; the last one is.                      *)
LEMMA HandleControlMessageKeeps ==
    ASSUME BrowserIInv, WorkerIInv', Grew, HandleControlMessage
    PROVE  PageInv' /\ ViewMoves
<1>0. /\ StillTrue /\ PageSound /\ Attached /\ Informed /\ IInv /\ IInv'
      /\ page \in Pages /\ sent \subseteq Requests \cup OwnEnds
      /\ Own \in Sockets /\ PageInv /\ GatewayTypeOK
  BY PageStillTrue, OwnIsSocket DEF StillTrue, BrowserIInv, PageInv
<1>1. /\ ~page.closed /\ outbox[Own] # <<>>
      /\ outbox' = [outbox EXCEPT ![Own] = Tail(outbox[Own])]
      /\ UNCHANGED <<conversation, receipts, phase, link, inbox>>
      /\ sent' = sent \/ sent' = sent \cup UploadBegins
  BY DEF HandleControlMessage, allVars, vars, stored
<1>2. PICK view : /\ view = Head(outbox[Own]).view
                  /\ page' = IF IsNews(view) THEN Shown(view) ELSE page
  BY DEF HandleControlMessage
<1>3. /\ outbox \in [Sockets -> Seq(ServerMessages)]
      /\ outbox[Own] \in Seq(ServerMessages)
      /\ Tail(outbox[Own]) \in Seq(ServerMessages)
      /\ outbox'[Own] = Tail(outbox[Own])
      /\ 1 \in DOMAIN outbox[Own] /\ view = outbox[Own][1].view
      /\ \A i \in DOMAIN Tail(outbox[Own]) :
           i + 1 \in DOMAIN outbox[Own] /\ Tail(outbox[Own])[i] = outbox[Own][i + 1]
      /\ IF Tail(outbox[Own]) = <<>> THEN Newest(outbox[Own]).view = view
                                     ELSE Newest(Tail(outbox[Own])) = Newest(outbox[Own])
  BY <1>0, <1>1, <1>2, Dequeued DEF GatewayTypeOK
<1>4. /\ Past(view) /\ Past(view)' /\ view \in Views /\ Initialized /\ Initialized'
      /\ view.revision \in Nat
  BY <1>0, <1>1, <1>3 DEF Informed, StillTrue, Past, Initialized, Views
<1>5. page.view # None => /\ Past(page.view) /\ page.view \in Views
                          /\ page.view.revision \in Nat
  BY <1>0 DEF PageSound, Past, Views
<1>6. /\ page' \in Pages
      /\ page'.view = view \/ (page'.view = page.view /\ page.view # None /\ ~IsNews(view))
      /\ page'.view = view => IsNews(view) \/ page.view = view
      /\ page'.pc = page.pc /\ page'.upload = page.upload
      /\ page'.closed = page.closed /\ page'.aborting = page.aborting
      /\ page'.fetched = page.fetched /\ page'.control = page.control
      /\ page'.waiter => page'.ending
      /\ \/ page'.fin = page.fin
         \/ page'.fin = "upload" /\ page'.upload # None /\ MeansEnd(view)
  <2>1. page.waiter => page.ending
    BY <1>0 DEF PageSound
  <2>2. CASE IsNews(view)
    BY <1>0, <1>2, <1>4, <2>1, <2>2, ShownPage
  <2>3. CASE ~IsNews(view)
    BY <1>0, <1>2, <2>1, <2>3 DEF IsNews
  <2>. QED
    BY <2>2, <2>3
<1>7. ViewMoves
  BY <1>4, <1>5, <1>6 DEF ViewMoves, IsNews
<1>8. PageSound'
  <2>1. page'.fin # "none" =>
          page'.upload # None /\ Initialized' /\ MeansEnd(View(conversation'))
    BY <1>0, <1>1, <1>4, <1>6 DEF PageSound, Past
  <2>2. /\ page'.pc = "up" => page'.upload # None
        /\ page'.aborting => page'.upload # None
        /\ page'.pc = "connect" /\ ~page'.closed => page'.view \in Views
        /\ page'.fin = "answer" => /\ conversation'.tag \in TerminalTags
                                   /\ page'.fetched = View(conversation')
    BY <1>0, <1>1, <1>4, <1>5, <1>6 DEF PageSound
  <2>3. page'.view # None => Past(page.view)'
    <3>1. \A v : v # None /\ v = page'.view => Past(v)'
      BY <1>0, <1>4, <1>5, <1>6 DEF StillTrue
    <3>. QED
      BY <3>1
  <2>. QED
    BY <1>6, <2>1, <2>2, <2>3 DEF PageSound
<1>9. GatewayTypeOK' /\ Hosted' /\ OneActiveSocket'
  BY <1>0, <1>1, <1>3 DEF GatewayTypeOK, PageInv, Hosted, OneActiveSocket, Initialized
<1>10. Attached'
  <2>1. phase[Own] # "none"
    BY <1>0, <1>1 DEF Attached
  <2>. QED
    BY <1>0, <1>1, <1>6, <2>1 DEF Attached, Initialized
<1>11. Informed'
  <2>1. \A i \in DOMAIN outbox'[Own] : Past(outbox'[Own][i].view)
    BY <1>0, <1>3 DEF Informed
  <2>2. /\ IsActive(Own)' <=> IsActive(Own)
        /\ \A v : Current(v) => Current(v)'
    BY <1>1 DEF IsActive, Current, MissesEnd, View
  <2>3. ASSUME IsActive(Own), Tail(outbox[Own]) = <<>>
        PROVE  Current(page'.view)
    <3>1. Current(view)
      BY <1>0, <1>3, <2>3 DEF Informed
    <3>2. CASE page'.view = view
      BY <3>1, <3>2
    <3>3. CASE page'.view = page.view /\ page.view # None /\ ~IsNews(view)
      <4>1. /\ page.view.revision > view.revision
            /\ page.view.revision <= conversation.revision
        BY <1>4, <1>5, <3>3 DEF IsNews, Past
      <4>2. view = View(conversation) => view.revision = conversation.revision
        BY DEF View
      <4>3. ASSUME MissesEnd(view) PROVE view.revision + 1 = conversation.revision
        <5>1. PICK r \in receipts : /\ r.targetRevision = conversation.revision
                                    /\ view.revision = r.sourceRevision
          BY <4>3 DEF MissesEnd
        <5>2. r.targetRevision = r.sourceRevision + 1
          BY <1>0, <1>4, <5>1 DEF IInv, ReceiptsAreHistory
        <5>. QED
          BY <5>1, <5>2
      <4>4. page.view.revision = conversation.revision
        <5>1. conversation.revision \in Nat /\ page.view.revision \in Nat
          BY <1>0, <1>4, <1>5, <3>3 DEF IInv, TypeOK, Initialized, Conversations
        <5>. QED
          BY <1>4, <3>1, <4>1, <4>2, <4>3, <5>1 DEF Current
      <4>. QED
        BY <1>5, <3>3, <4>4 DEF Past, Current
    <3>. QED
      BY <1>6, <3>2, <3>3
  <2>4. IsActive(Own) /\ Tail(outbox[Own]) # <<>> => Current(Newest(Tail(outbox[Own])).view)
    BY <1>0, <1>1, <1>3 DEF Informed
  <2>5. IsActive(Own)' =>
          IF outbox'[Own] = <<>> THEN Current(page.view)'
                                 ELSE Current(Newest(outbox[Own]).view)'
    <3>1. \A v : v = page'.view /\ Current(v) => Current(page.view)'
      BY <2>2
    <3>2. \A v : v = Newest(outbox'[Own]).view /\ Current(v) =>
                Current(Newest(outbox[Own]).view)'
      BY <2>2 DEF Newest
    <3>. QED
      BY <1>3, <2>2, <2>3, <2>4, <3>1, <3>2
  <2>. QED
    BY <1>0, <1>1, <1>3, <2>1, <2>5 DEF Informed, Past, Initialized
<1>12. sent' \subseteq Requests \cup OwnEnds
  BY <1>0, <1>1 DEF Requests
<1>. QED
  BY <1>7, <1>8, <1>9, <1>10, <1>11, <1>12 DEF PageInv

LEMMA ClosePageKeeps ==
    ASSUME BrowserIInv, WorkerIInv', Grew, ClosePage
    PROVE  PageInv' /\ ViewMoves
<1>0. /\ StillTrue /\ PageSound /\ Attached /\ IInv /\ IInv' /\ page \in Pages
      /\ sent \subseteq Requests \cup OwnEnds /\ Own \in Sockets
      /\ PageInv /\ GatewayTypeOK
  BY PageStillTrue, OwnIsSocket DEF StillTrue, BrowserIInv, PageInv
<1>1. PICK aborting \in BOOLEAN :
        /\ aborting => page.upload # None
        /\ page' = [page EXCEPT !.closed = TRUE, !.waiter = FALSE,
                                !.ending = FALSE, !.view = None,
                                !.fetched = None, !.microphone = FALSE,
                                !.control = FALSE, !.aborting = aborting]
  BY <1>0 DEF ClosePage
<1>2. /\ link' = [link EXCEPT ![Own] = "closed"]
      /\ outbox' = [outbox EXCEPT ![Own] = <<>>]
      /\ UNCHANGED <<phase, inbox, conversation, sent>>
  BY DEF ClosePage, Close, allVars, vars, stored
<1>3. /\ phase \in [Sockets -> Phases] /\ outbox \in [Sockets -> Seq(ServerMessages)]
      /\ link \in [Sockets -> Links]
      /\ link'[Own] = "closed" /\ outbox'[Own] = <<>>
  BY <1>0, <1>1, <1>2 DEF GatewayTypeOK
<1>4. GatewayTypeOK'
  BY <1>0, <1>2, <1>3, NothingQueued DEF GatewayTypeOK, Links
<1>5. Hosted' /\ OneActiveSocket'
  BY <1>0, <1>1, <1>2, <1>3 DEF PageInv, Hosted, OneActiveSocket, Initialized
<1>6. PageSound'
  BY <1>0, <1>1, <1>2 DEF StillTrue, PageSound, Pages
<1>7. Attached'
  BY <1>0, <1>1, <1>2, <1>3, NothingQueued DEF Attached, Initialized, Pages
<1>8. Informed'
  BY <1>3, NothingQueued DEF Informed, IsActive
<1>9. ViewMoves
  BY <1>0, <1>1 DEF ViewMoves, Pages
<1>. QED
  BY <1>0, <1>2, <1>4, <1>5, <1>6, <1>7, <1>8, <1>9 DEF PageInv

-----------------------------------------------------------------------------
(***************************************************************************)
(* BrowserIInv is an invariant                                             *)
(***************************************************************************)

LEMMA InitEstablishesPage == BrowserInit => PageInv
<1>. SUFFICES ASSUME BrowserInit PROVE PageInv
  OBVIOUS
<1>1. /\ \A s \in Sockets : phase[s] = "none" /\ outbox[s] = <<>>
      /\ link \in [Sockets -> Links]
      /\ phase \in [Sockets -> Phases] /\ outbox \in [Sockets -> Seq(ServerMessages)]
      /\ inbox = <<>> /\ inbox \in Seq(ClientMessages) /\ sent = {}
      /\ Own \in Sockets
  BY OwnIsSocket, NothingQueued DEF BrowserInit, Phases, Links
<1>2. /\ page \in Pages /\ page.pc = "load" /\ page.view = None
      /\ ~page.waiter /\ ~page.closed /\ ~page.aborting /\ ~page.control
      /\ page.fin = "none"
  BY DEF BrowserInit, Pages
<1>3. GatewayTypeOK /\ Hosted /\ OneActiveSocket
  BY <1>1 DEF GatewayTypeOK, Hosted, OneActiveSocket
<1>4. PageSound
  BY <1>2 DEF PageSound
<1>5. Attached
  BY <1>1, <1>2, NothingQueued DEF Attached
<1>6. Informed
  BY <1>1, NothingQueued DEF Informed, IsActive
<1>. QED
  BY <1>1, <1>3, <1>4, <1>5, <1>6 DEF PageInv

(* Every step keeps the invariant, and none shows an earlier revision.     *)
LEMMA BrowserStep ==
    ASSUME BrowserIInv, [BrowserNext]_browserVars
    PROVE  BrowserIInv' /\ [ViewMoves]_page
<1>0. WorkerIInv /\ SessionBeforeUpload /\ [WorkerNext]_allVars
  BY BrowserStepIsWorkerStep DEF BrowserIInv
<1>1. WorkerIInv' /\ Grew /\ SessionBeforeUpload'
  BY <1>0, WorkerStepGrows, SessionBeforeUploadKept
<1>2. ASSUME UNCHANGED browserVars PROVE PageInv'
  <2>1. UNCHANGED <<phase, link, outbox, page, inbox, sent, conversation>>
    BY <1>2 DEF browserVars, gateway, allVars, vars, stored
  <2>2. GatewayMoves
    BY <1>1, <2>1, PublishedMoves DEF BrowserIInv, WorkerIInv
  <2>. QED
    BY <1>1, <2>1, <2>2, ServerSideKeeps DEF ServerSide, WorkerIInv
<1>3. ASSUME Connect PROVE PageInv' /\ ViewMoves
  BY <1>1, <1>3, LoadStateKeeps, StartConversationKeeps, ConnectControlKeeps, QuietPageKeeps
  DEF Connect
<1>4. ASSUME End PROVE PageInv' /\ ViewMoves
  BY <1>1, <1>4, RequestEndKeeps, StateRefreshedKeeps, RecordingFinalizedKeeps, QuietPageKeeps
  DEF End
<1>5. ASSUME HandleControlMessage \/ ControlCloses \/ ClosePage \/ AbortUpload
             \/ ControlDrops
      PROVE  PageInv' /\ ViewMoves
  BY <1>1, <1>5, HandleControlMessageKeeps, ClosePageKeeps, QuietPageKeeps,
     ControlDropsKeeps
<1>6. ASSUME HandleInbox \/ Object
      PROVE  PageInv' /\ UNCHANGED page
  BY <1>1, <1>6, HandleInboxKeeps, ObjectKeeps
  DEF HandleInbox, Object
<1>7. ASSUME NEW r \in Requests, RunRequest(r) PROVE PageInv' /\ UNCHANGED page
  BY <1>1, <1>7, RunRequestKeeps DEF RunRequest
<1>8. ASSUME NEW ws \in Others, OtherClient(ws) PROVE PageInv' /\ UNCHANGED page
  BY <1>1, <1>8, OtherClientKeeps DEF OtherClient
<1>9. PageInv' /\ [ViewMoves]_page
  BY <1>2, <1>3, <1>4, <1>5, <1>6, <1>7, <1>8 DEF BrowserNext, browserVars
<1>. QED
  BY <1>1, <1>9 DEF BrowserIInv

LEMMA InitEstablishesBrowserInvariant == BrowserInit => BrowserIInv
<1>1. BrowserInit => WorkerInit
  BY DEF BrowserInit
<1>2. WorkerInit => WorkerIInv /\ SessionBeforeUpload
  BY InitEstablishesWorkerInvariant, InitEstablishesOrder
<1>. QED
  BY <1>1, <1>2, InitEstablishesPage DEF BrowserIInv

(* What is known of the page, its socket and the messages on their way     *)
(* (PageInv) holds always, with the invariant of the worker and the store. *)
THEOREM BrowserInvariance == BrowserSpec => []BrowserIInv
BY InitEstablishesBrowserInvariant, BrowserStep, PTL DEF BrowserSpec

(* The page, its socket and the other clients make only calls the worker's *)
(* specification has: all that is proved of the worker and of the Durable  *)
(* Object holds with pages in front of them.                               *)
THEOREM PagesUseWorker == BrowserSpec => WorkerSpec
<1>1. BrowserInit => WorkerInit
  BY DEF BrowserInit
<1>2. BrowserIInv /\ [BrowserNext]_browserVars => [WorkerNext]_allVars
  BY BrowserStepIsWorkerStep
<1>. QED
  BY <1>1, <1>2, BrowserInvariance, PTL DEF BrowserSpec, WorkerSpec

-----------------------------------------------------------------------------
(***************************************************************************)
(* What follows for the page                                               *)
(***************************************************************************)

(* runtime.ts and conversation-socket-gateway.ts: every value is of its    *)
(* kind, and the page's hello comes first on its socket.                   *)
THEOREM PageTypeCorrect == BrowserSpec => []PageTypeOK
<1>1. ASSUME BrowserIInv PROVE PageTypeOK
  <2>1. PageInv /\ GatewayTypeOK /\ PageSound /\ Attached
    BY <1>1 DEF BrowserIInv, PageInv
  <2>2. \A s \in Sockets : \A i \in DOMAIN outbox[s] : outbox[s][i] \in ServerMessages
    BY <2>1 DEF GatewayTypeOK
  <2>3. ASSUME NEW i \in DOMAIN inbox
        PROVE  \/ inbox[i].type = "ClientHello" /\ i = 1
               \/ /\ inbox[i].type = "EndRequested"
                  /\ inbox[i].call \in OwnEnds
                  /\ inbox[i].expectedRevision \in Nat
    <3>1. inbox[i] \in ClientMessages
      BY <2>1 DEF GatewayTypeOK
    <3>2. inbox[i].type = "ClientHello" => i = 1
      BY <2>1 DEF Attached
    <3>. QED
      BY <3>1, <3>2 DEF ClientMessages
  <2>. QED
    BY <2>1, <2>2, <2>3 DEF PageTypeOK, PageInv, GatewayTypeOK, PageSound
<1>. QED
  BY <1>1, BrowserInvariance, PTL

(* conversation-socket-gateway.ts: however many clients say hello, one     *)
(* connection is active.                                                   *)
THEOREM OneSocketIsActive == BrowserSpec => []OneActiveSocket
<1>1. BrowserIInv => OneActiveSocket
  BY DEF BrowserIInv, PageInv
<1>. QED
  BY <1>1, BrowserInvariance, PTL

(* runtime.ts: an active page that has read all it was sent shows the      *)
(* conversation as it is.                                                  *)
THEOREM ActivePagesAreCurrent == BrowserSpec => []ActivePageIsCurrent
<1>1. BrowserIInv => ActivePageIsCurrent
  BY DEF BrowserIInv, PageInv, Informed, Current, ActivePageIsCurrent
<1>. QED
  BY <1>1, BrowserInvariance, PTL

(* runtime.ts, finalizeRecording: the recording is not stopped and sent    *)
(* off while the conversation goes on.                                     *)
THEOREM PagesFinalizeAtTheEnd == BrowserSpec => []FinalizesOnlyAtTheEnd
<1>1. ASSUME BrowserIInv PROVE FinalizesOnlyAtTheEnd
  <2>1. PageSound /\ IInv
    BY <1>1 DEF BrowserIInv, PageInv, WorkerIInv
  <2>2. Initialized => conversation \in Conversations
    BY <2>1 DEF IInv, TypeOK, Initialized
  <2>. QED
    BY <2>1, <2>2, ViewType DEF PageSound, FinalizesOnlyAtTheEnd
<1>. QED
  BY <1>1, BrowserInvariance, PTL

(* runtime.ts, handleControlMessage and finalizeRecording: no snapshot and *)
(* no HTTP answer takes the page back to an earlier revision.              *)
THEOREM PagesNeverGoBack == BrowserSpec => PageNeverGoesBack
<1>1. BrowserIInv /\ [BrowserNext]_browserVars => [ViewMoves]_page
  BY BrowserStep
<1>2. [ViewMoves]_page =>
        [None \notin {page.view, page'.view} =>
            page'.view.revision >= page.view.revision]_page
  BY DEF ViewMoves
<1>. QED
  BY <1>1, <1>2, BrowserInvariance, PTL DEF BrowserSpec, PageNeverGoesBack

(* runtime.ts, the state every screen is drawn from: a page that shows the *)
(* conversation's revision shows its state, however it learnt it and       *)
(* whether or not its socket is still there, and the end it shows is the   *)
(* end.                                                                    *)
ShownIsTrue ==
    page.view # None =>
        /\ page.view.revision <= conversation.revision
        /\ \/ page.view.revision = conversation.revision
           \/ page.view.state \in TerminalTags
           => page.view = View(conversation)

THEOREM PagesShowTheTruth == BrowserSpec => []ShownIsTrue
<1>1. BrowserIInv => ShownIsTrue
  BY DEF BrowserIInv, PageInv, PageSound, Past, ShownIsTrue
<1>. QED
  BY <1>1, BrowserInvariance, PTL

(* From the browser down: whatever pages, sockets, requests and the alarm  *)
(* do together is the lifecycle a conversation was promised to have.       *)
THEOREM PagesLiveTheLifecycle == BrowserSpec => ImplementsLifecycle
BY PagesUseWorker, RequestsUseStore, LifecycleIsImplemented, PTL DEF ImplementsStore
=============================================================================
