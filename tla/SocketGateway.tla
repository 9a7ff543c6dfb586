--------------------------- MODULE SocketGateway ---------------------------
(***************************************************************************)
(* The control WebSockets of one conversation and the Durable Object that  *)
(* hosts them, over the recording requests and the aggregate store:        *)
(*   src/src/durable-object/conversation-socket-gateway.ts                 *)
(*   src/src/durable-object/conversation-session.ts                        *)
(*   src/src/worker/http/conversation-state-dto.ts                         *)
(*                                                                         *)
(* The object runs one message, one RPC or one alarm at a time: a handler  *)
(* with the transaction it makes and the messages it sends is one step.    *)
(* Protocol errors and pongs change nothing that a client acts upon and    *)
(* are left out; the closing of a socket that goes with an error is not.   *)
(***************************************************************************)
EXTENDS RecordingUpload

CONSTANTS
    Sockets,        \* control sockets
    Readers,        \* the sockets whose messages the model keeps
    MaxQueued       \* more messages than this are never unread at a socket

EndCalls == {call \in DirectCalls : call.type = "EndRequested"}

ASSUME GatewayAssumption ==
    /\ Readers \subseteq Sockets
    /\ MaxQueued \in Nat

VARIABLES
    phase,      \* the socket's attachment; "none" before it is accepted
    link,       \* whether the object can still send on the socket
    outbox      \* messages sent and not yet read, oldest first

gateway == <<phase, link, outbox>>

Phases == {"none", "awaiting_hello", "active"}

(***************************************************************************)
(* To a socket that the object has closed, or that its client has, nothing *)
(* more is sent.  But its attachment stays as it was, and what the client  *)
(* sent before it read the close, or closed the socket itself, is handled  *)
(* by that attachment.                                                     *)
(***************************************************************************)
Links == {"open", "closed"}

-----------------------------------------------------------------------------
(***************************************************************************)
(* What clients are shown, and sending                                     *)
(***************************************************************************)

(* toConversationStateDto, as far as a client decides by it: an idle       *)
(* transport has no epoch.                                                 *)
View(c) ==
    [state    |-> c.tag,
     revision |-> c.revision,
     epoch    |-> IF c.transport.status = "idle" THEN None ELSE c.transport.epoch]

Views == [state    : Tags,
          revision : Nat,
          epoch    : Nat \cup {None}]

AckOutcomes == {"accepted", "duplicate", "stale_revision", "rejected"}

(* A server message.  The acknowledgement that comes before the snapshot   *)
(* of an answer is the message's outcome, for names what it answers.       *)
Hello(c)               == [type |-> "hello", for |-> None, outcome |-> "accepted",
                           view |-> View(c)]
Snapshot(c)            == [type |-> "snapshot", for |-> None, outcome |-> "none",
                           view |-> View(c)]
Answer(c, id, outcome) == [type |-> "snapshot", for |-> id, outcome |-> outcome,
                           view |-> View(c)]

ServerMessages == [type    : {"hello", "snapshot"},
                   for     : EventIds \cup {None},
                   outcome : AckOutcomes \cup {"none"},
                   view    : Views]

HasRoom(ws) == Len(outbox[ws]) < MaxQueued

OpenReaders == {s \in Readers : link[s] = "open"}

(* Sending on a closed socket throws, after the state has changed.         *)
Send(ws, message) ==
    /\ ws \in OpenReaders => HasRoom(ws)
    /\ outbox' = [s \in Sockets |->
                   IF s = ws /\ s \in OpenReaders
                   THEN Append(outbox[s], message) ELSE outbox[s]]

(* Regression: what others change is not published.                        *)
BroadcastToNobody(c) == UNCHANGED outbox

(* broadcastStateSnapshot: to every active socket.                         *)
Broadcast(c) ==
    LET told == {s \in OpenReaders : phase[s] = "active"}
    IN  /\ \A s \in told : HasRoom(s)
        /\ outbox' = [s \in Sockets |->
                       IF s \in told THEN Append(outbox[s], Snapshot(c))
                                     ELSE outbox[s]]

(* ws.close(code, reason), by the object.                                  *)
Close(ws) == link' = [link EXCEPT ![ws] = "closed"]

-----------------------------------------------------------------------------
(***************************************************************************)
(* accept and handleClientHello                                            *)
(***************************************************************************)

(* connectConversation and accept: 404 before the conversation exists.     *)
Accept(ws) ==
    /\ phase[ws] = "none"
    /\ Initialized
    /\ phase' = [phase EXCEPT ![ws] = "awaiting_hello"]
    /\ link' = [link EXCEPT ![ws] = "open"]
    /\ UNCHANGED outbox

HelloMatches(requestedEpoch) ==
    requestedEpoch \in {None, conversation.transport.epoch}

(* Regression: the connections before are not closed.                      *)
ActivateBeside(ws) ==
    /\ phase' = [phase EXCEPT ![ws] = "active"]
    /\ UNCHANGED link

(* The new connection supersedes the active ones: they are closed, and     *)
(* their attachments stay active.                                          *)
Activate(ws) ==
    /\ phase' = [phase EXCEPT ![ws] = "active"]
    /\ link' = [s \in Sockets |->
                  IF s # ws /\ phase[s] = "active" THEN "closed" ELSE link[s]]

HelloAccepted(ws, requestedEpoch) ==
    /\ phase[ws] = "awaiting_hello"
    /\ HelloMatches(requestedEpoch)
    /\ Activate(ws)
    /\ Send(ws, Hello(conversation))

(* StaleTransportEpoch: the client asked for an epoch that is over.        *)
HelloRefused(ws, requestedEpoch) ==
    /\ phase[ws] = "awaiting_hello"
    /\ ~HelloMatches(requestedEpoch)
    /\ Close(ws)
    /\ UNCHANGED <<phase, outbox>>

HandleHello(ws, requestedEpoch) ==
    /\ HelloAccepted(ws, requestedEpoch) \/ HelloRefused(ws, requestedEpoch)
    /\ UNCHANGED allVars

-----------------------------------------------------------------------------
(***************************************************************************)
(* handleBrowserMessage for the other messages                             *)
(***************************************************************************)

(* "Client hello required".                                                *)
MessageBeforeHello(ws) ==
    /\ phase[ws] = "awaiting_hello"
    /\ Close(ws)
    /\ UNCHANGED <<phase, outbox, allVars>>

(* A text message, or one that is not in the protocol, in either phase;    *)
(* or a hello for another conversation.                                    *)
ProtocolViolation(ws) ==
    /\ phase[ws] # "none"
    /\ Close(ws)
    /\ UNCHANGED <<phase, outbox, allVars>>

EndApplied(ws, call, expectedRevision) ==
    /\ \E lead \in LeadsOf(call) :
          ApplyEvent(expectedRevision, Stamped(call, lead))
    /\ Send(ws, Answer(conversation', call.id, "accepted"))
    /\ UNCHANGED worker

EndDuplicate(ws, call) ==
    /\ ApplyDuplicate(call)
    /\ Send(ws, Answer(conversation, call.id, "duplicate"))
    /\ UNCHANGED worker

EndRefused(ws, call, expectedRevision) ==
    /\ ~HasReceipt(call.id)
    /\ \/ /\ expectedRevision # conversation.revision
          /\ Send(ws, Answer(conversation, call.id, "stale_revision"))
       \/ /\ expectedRevision = conversation.revision
          /\ ~Accepts(conversation, call)
          /\ Send(ws, Answer(conversation, call.id, "rejected"))
    /\ UNCHANGED allVars

(* The attachment alone decides: the end a superseded client asked for is  *)
(* applied, and the answer is for its sender only.                         *)
HandleEndRequested(ws, call, expectedRevision) ==
    \/ /\ phase[ws] = "active"
       /\ \/ EndApplied(ws, call, expectedRevision)
          \/ EndDuplicate(ws, call)
          \/ EndRefused(ws, call, expectedRevision)
       /\ UNCHANGED <<phase, link>>
    \/ MessageBeforeHello(ws)

-----------------------------------------------------------------------------
(***************************************************************************)
(* What the object sends of its own accord                                 *)
(***************************************************************************)

(* applyIntegrationEvent: the calls the recording requests make.  Only an  *)
(* applied event is published.                                             *)
IntegrationEvent(r) ==
    /\ \/ EventApplied(r) /\ Broadcast(conversation')
       \/ EventDuplicate(r) /\ UNCHANGED outbox
       \/ EventConflict(r) /\ UNCHANGED outbox
       \/ EventRejected(r) /\ UNCHANGED outbox
    /\ UNCHANGED <<phase, link>>

(* alarm: a run that succeeds publishes the state, changed or not.         *)
AlarmPublishes ==
    /\ \/ AlarmAppliesDeadline
       \/ AlarmFindsNoDeadline
       \/ AlarmRunsEarly
    /\ Broadcast(conversation')
    /\ UNCHANGED <<phase, link, worker>>

AlarmStaysSilent ==
    /\ AlarmTransitionRejected \/ AlarmFails
    /\ UNCHANGED <<gateway, worker>>

(* The network, or the client, closes the socket; what was on its way to   *)
(* the client is lost.                                                     *)
SocketDrops(ws) ==
    /\ phase[ws] # "none"
    /\ Close(ws)
    /\ outbox' = [outbox EXCEPT ![ws] = <<>>]
    /\ UNCHANGED <<phase, allVars>>

-----------------------------------------------------------------------------
(***************************************************************************)
(* Safety                                                                  *)
(***************************************************************************)

(* At most one control connection is active, however many tabs say hello,  *)
(* in whatever order their handlers run, and whether or not the sockets    *)
(* that say it were closed before: every other active one is closed.       *)
OneActiveSocket ==
    \A s, t \in Sockets :
        /\ phase[s] = "active" /\ link[s] = "open"
        /\ phase[t] = "active" /\ link[t] = "open"
        => s = t
=============================================================================
