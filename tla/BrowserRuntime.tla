-------------------------- MODULE BrowserRuntime --------------------------
(***************************************************************************)
(* One conversation page: the browser runtime that connects, records, ends *)
(* and uploads, beside other tabs and clients of the same conversation.    *)
(*   src/packages/conversation-client/src/runtime.ts                       *)
(*   src/packages/conversation-client/src/api.ts                           *)
(*   src/web/src/App.tsx  (ConversationPage)                               *)
(*                                                                         *)
(* The page awaits a chain of HTTP answers while control messages arrive   *)
(* on its socket; leaving the page stops neither.  An HTTP request may     *)
(* fail for the page while the worker goes on with it.                     *)
(***************************************************************************)
EXTENDS SocketGateway

CONSTANTS
    Own,            \* the page's control socket
    OwnEnds         \* the end requests the page may send, one per click

Others == Sockets \ {Own}

StartCalls == {call \in DirectCalls : call.type = "StartRequested"}

ASSUME RuntimeAssumption ==
    /\ Own \in Readers
    /\ OwnEnds \subseteq EndCalls

VARIABLES
    page,       \* the runtime and its page
    inbox,      \* what the page sent on its socket, not yet handled
    sent        \* the recording requests, and the end calls, the page made

browserVars == <<allVars, gateway, page, inbox, sent>>

(* pc is how far connect() is; fin how far the memoised finalization is.   *)
Pages ==
    [pc         : {"load", "start", "connect", "media", "begin", "up", "error"},
     view       : Views \cup {None},       \* this.state
     control    : BOOLEAN,                 \* the socket is open for the page
     upload     : RecordingIds \cup {None},
     microphone : BOOLEAN,
     waiter     : BOOLEAN,                 \* endingWaiter
     ending     : BOOLEAN,                 \* the End button is busy
     fin        : {"none", "upload", "complete", "answer", "ok", "failed"},
     fetched    : Views \cup {None},
     closed     : BOOLEAN,
     aborting   : BOOLEAN]

ClientHello(epoch) == [type |-> "ClientHello", epoch |-> epoch]

EndRequested(call, revision) ==
    [type |-> "EndRequested", call |-> call, expectedRevision |-> revision]

-----------------------------------------------------------------------------
(***************************************************************************)
(* connect                                                                 *)
(***************************************************************************)

(* Nobody looks any more at the state of a closed page: it is forgotten.   *)
Seen(c) == IF page.closed THEN None ELSE View(c)

LoadState ==
    /\ page.pc = "load"
    /\ Initialized
    /\ page' = [page EXCEPT !.pc = IF conversation.tag = "created"
                                   THEN "start" ELSE "connect",
                            !.view = Seen(conversation)]
    /\ UNCHANGED <<allVars, gateway, inbox, sent>>

(* startConversation: whoever starts it, the answer is its state then.     *)
StartConversation ==
    /\ page.pc = "start"
    /\ \E call \in StartCalls :
        \/ \E lead \in LeadsOf(call) : ApplyEvent(0, Stamped(call, lead))
        \/ ApplyDuplicate(call)
        \/ conversation.tag = "starting" /\ UNCHANGED vars
    /\ page' = [page EXCEPT !.pc = "connect", !.view = Seen(conversation')]
    /\ UNCHANGED <<worker, gateway, inbox, sent>>

(* A page that was left does not connect.                                  *)
ConnectControl ==
    /\ page.pc = "connect"
    /\ ~page.closed
    /\ Accept(Own)
    /\ inbox' = Append(inbox, ClientHello(page.view.epoch))
    /\ page' = [page EXCEPT !.pc = "media", !.control = TRUE]
    /\ UNCHANGED <<allVars, sent>>

(* getUserMedia, the realtime call and the recorder; nothing here looks    *)
(* whether the page is still there.                                        *)
StartMedia ==
    /\ page.pc = "media"
    /\ page' = [page EXCEPT !.pc = "begin", !.microphone = TRUE]
    /\ sent' = sent \cup Begins
    /\ UNCHANGED <<allVars, gateway, inbox>>

RecordingBegun(b) ==
    /\ page.pc = "begin"
    /\ requests[b].pc = "ok"
    /\ page' = [page EXCEPT !.pc = "up", !.upload = requests[b].upload]
    /\ UNCHANGED <<allVars, gateway, inbox, sent>>

(* Any step of connect may fail; what it acquired stays until close().     *)
ConnectFails ==
    /\ page.pc \in {"load", "start", "connect", "media", "begin"}
    /\ \E microphone \in IF page.pc = "media" THEN BOOLEAN
                                              ELSE {page.microphone} :
          page' = [page EXCEPT !.pc = "error", !.microphone = microphone]
    /\ UNCHANGED <<allVars, gateway, inbox, sent>>

-----------------------------------------------------------------------------
(***************************************************************************)
(* requestEnd and finalizeRecording                                        *)
(***************************************************************************)

ReadyToEnd ==
    /\ ~page.ending
    /\ page.control
    /\ page.view # None
    /\ page.view.epoch # None /\ page.view.epoch >= 1

RequestEnd ==
    /\ ReadyToEnd
    /\ \E call \in OwnEnds \ sent :
        /\ inbox' = Append(inbox, EndRequested(call, page.view.revision))
        /\ sent' = sent \cup {call}
    /\ page' = [page EXCEPT !.waiter = TRUE, !.ending = TRUE]
    /\ UNCHANGED <<allVars, gateway>>

(* Regression: the waiter outlives its timeout.                            *)
EndTimesOutForTheButton ==
    /\ page.waiter
    /\ page' = [page EXCEPT !.ending = FALSE]
    /\ UNCHANGED <<allVars, gateway, inbox, sent>>

(* END_WAIT_MS went by.                                                    *)
EndTimesOut ==
    /\ page.waiter
    /\ page' = [page EXCEPT !.waiter = FALSE, !.ending = FALSE]
    /\ UNCHANGED <<allVars, gateway, inbox, sent>>

(* finalizeRecording starts once and is remembered, failed or not; without *)
(* an upload it answers with an error and nothing is remembered.           *)
FinalizeRecording(p) ==
    CASE p.fin = "none" /\ p.upload # None ->
            [p EXCEPT !.fin = "upload", !.microphone = FALSE]
      [] p.fin = "none" /\ p.upload = None -> [p EXCEPT !.ending = FALSE]
      [] p.fin = "failed"                  -> [p EXCEPT !.ending = FALSE]
      [] OTHER                             -> p

(* beginRecordingUpload was answered: the parts go up.                     *)
PartsUploaded(u) ==
    /\ page.fin = "upload"
    /\ requests[u].pc = "ok"
    /\ UploadRecordingPart(page.upload)
    /\ page' = [page EXCEPT !.fin = "complete"]
    /\ sent' = sent \cup Completions
    /\ UNCHANGED <<gateway, inbox>>

(* completeRecordingUpload then reads the state; the answer travels while  *)
(* snapshots arrive, and is taken whatever its revision.  The button stays *)
(* busy: the page goes on to the summary.                                  *)
StateRefreshed(c) ==
    /\ page.fin = "complete"
    /\ requests[c].pc = "ok"
    /\ page' = [page EXCEPT !.fin = "answer", !.fetched = Seen(conversation)]
    /\ UNCHANGED <<allVars, gateway, inbox, sent>>

RecordingFinalized ==
    /\ page.fin = "answer"
    /\ page' = [page EXCEPT !.fin = "ok",
                            !.view = page.fetched, !.fetched = None]
    /\ UNCHANGED <<allVars, gateway, inbox, sent>>

(* An end request that waits for the finalization is told; one that still  *)
(* waits for the shutdown is told when that begins.                        *)
FinalizationFails ==
    /\ page.fin \in {"upload", "complete", "answer"}
    /\ page' = [page EXCEPT !.fin = "failed", !.fetched = None,
                            !.ending = page.waiter]
    /\ UNCHANGED <<allVars, gateway, inbox, sent>>

-----------------------------------------------------------------------------
(***************************************************************************)
(* handleControlMessage                                                    *)
(***************************************************************************)

(* Regression: every snapshot is taken for the newest.                     *)
AnyIsNews(view) == TRUE

IsNews(view) == page.view = None \/ view.revision >= page.view.revision

(* Regression: any snapshot answers the waiting end request.               *)
AnyMeansEnd(view) == TRUE

MeansEnd(view) == view.state = "ending" \/ view.state \in TerminalTags

(* Regression: only the page's own end request finalizes the recording.    *)
ShownToWaiter(view) ==
    LET p == [page EXCEPT !.view = view]
    IN  IF p.waiter /\ MeansEnd(view)
        THEN FinalizeRecording([p EXCEPT !.waiter = FALSE]) ELSE p

(* The waiting end request goes on to finalize; without one, an ending the *)
(* page did not ask for does, when there is an upload by then.             *)
Shown(view) ==
    LET p == [page EXCEPT !.view = view]
    IN  CASE p.waiter /\ MeansEnd(view) ->
                FinalizeRecording([p EXCEPT !.waiter = FALSE])
          [] ~p.waiter /\ view.state = "ending" /\ p.upload # None ->
                FinalizeRecording(p)
          [] OTHER -> p

HandleControlMessage ==
    /\ ~page.closed
    /\ outbox[Own] # <<>>
    /\ \E view \in {Head(outbox[Own]).view} :
          page' = IF IsNews(view) THEN Shown(view) ELSE page
    /\ sent' = IF page'.fin = "upload" THEN sent \cup UploadBegins ELSE sent
    /\ outbox' = [outbox EXCEPT ![Own] = Tail(@)]
    /\ UNCHANGED <<allVars, phase, link, inbox>>

(* The page has read everything up to the object's close.  Nothing listens *)
(* for it: the page stays as it is, with a socket it can no longer use.    *)
ControlCloses ==
    /\ page.control
    /\ link[Own] = "closed"
    /\ outbox[Own] = <<>>
    /\ page' = [page EXCEPT !.control = FALSE]
    /\ UNCHANGED <<allVars, gateway, inbox, sent>>

-----------------------------------------------------------------------------
(***************************************************************************)
(* close: at any time, when the user leaves or the page goes on to the     *)
(* summary.  What the page has sent is on its way all the same.            *)
(***************************************************************************)

ClosePage ==
    /\ ~page.closed
    /\ page' = [page EXCEPT !.closed = TRUE, !.waiter = FALSE,
                            !.ending = FALSE, !.view = None,
                            !.fetched = None, !.microphone = FALSE,
                            !.control = FALSE,
                            !.aborting = page.upload # None /\ page.fin # "ok"]
    /\ Close(Own)
    /\ outbox' = [outbox EXCEPT ![Own] = <<>>]
    /\ UNCHANGED <<allVars, phase, inbox, sent>>

AbortUpload ==
    /\ page.aborting
    /\ AbortRecordingUpload(page.upload)
    /\ page' = [page EXCEPT !.aborting = FALSE]
    /\ UNCHANGED <<gateway, inbox, sent>>

-----------------------------------------------------------------------------
(***************************************************************************)
(* The server's side of what the page sent, and everybody else             *)
(***************************************************************************)

(* What the page sent is handled in order, whoever closed the socket since.*)
HandleInbox ==
    /\ inbox # <<>>
    /\ \E m \in {Head(inbox)} :
        \/ m.type = "ClientHello" /\ HandleHello(Own, m.epoch)
        \/ m.type = "EndRequested"
           /\ HandleEndRequested(Own, m.call, m.expectedRevision)
    /\ inbox' = Tail(inbox)
    /\ UNCHANGED <<page, sent>>

(* A recording request runs once the page has made it, to its end.  The    *)
(* Durable Object and R2 answer it here: RecordingUpload has the cases in  *)
(* which they do not.                                                      *)
RunRequest(r) ==
    /\ r \in sent
    /\ \/ IntegrationEvent(r)
       \/ /\ \/ r \in Begins /\ (BeginRecording(r) \/ CreateMultipartUpload(r)
                                 \/ AbortOwnUpload(r))
             \/ r \in UploadBegins /\ BeginRecordingUpload(r)
             \/ r \in Completions /\ (CompleteRecordingUpload(r) \/ Assemble(r)
                                      \/ PersistJob(r))
          /\ UNCHANGED gateway
    /\ UNCHANGED <<page, inbox, sent>>

(* Other tabs, and clients that are not this runtime; what they send may   *)
(* be handled after their socket was closed.                               *)
OtherClient(ws) ==
    /\ \/ Accept(ws) /\ UNCHANGED allVars
       \/ \E epoch \in {None, 0, 1} : HandleHello(ws, epoch)
       \/ \E call \in EndCalls \ OwnEnds, revision \in SeenRevisions :
             HandleEndRequested(ws, call, revision)
       \/ ProtocolViolation(ws)
    /\ UNCHANGED <<page, inbox, sent>>

Object ==
    /\ \/ (Initialize \/ Tick) /\ UNCHANGED <<gateway, worker>>
       \/ /\ \E call \in StartCalls : \E lead \in LeadsOf(call) :
                ApplyEvent(0, Stamped(call, lead))
          /\ UNCHANGED <<gateway, worker>>
       \/ AlarmPublishes
       \/ AlarmStaysSilent
       \/ \E ws \in Others : SocketDrops(ws)
    /\ UNCHANGED <<page, inbox, sent>>

(* The page's socket goes down, and with it what was on its way both ways. *)
ControlDrops ==
    /\ SocketDrops(Own)
    /\ inbox' = <<>>
    /\ page' = [page EXCEPT !.control = FALSE]
    /\ UNCHANGED sent

Connect ==
    \/ LoadState
    \/ StartConversation
    \/ ConnectControl
    \/ StartMedia
    \/ \E b \in Begins : RecordingBegun(b)
    \/ ConnectFails

End ==
    \/ RequestEnd
    \/ EndTimesOut
    \/ \E u \in UploadBegins : PartsUploaded(u)
    \/ \E c \in Completions : StateRefreshed(c)
    \/ RecordingFinalized
    \/ FinalizationFails

BrowserNext ==
    \/ Connect
    \/ End
    \/ HandleControlMessage
    \/ ControlCloses
    \/ ClosePage
    \/ AbortUpload
    \/ HandleInbox
    \/ \E r \in Requests : RunRequest(r)
    \/ \E ws \in Others : OtherClient(ws)
    \/ ControlDrops
    \/ Object

BrowserInit ==
    /\ WorkerInit
    /\ phase = [s \in Sockets |-> "none"]
    /\ link = [s \in Sockets |-> "closed"]
    /\ outbox = [s \in Sockets |-> <<>>]
    /\ page = [pc |-> "load", view |-> None, control |-> FALSE, upload |-> None,
               microphone |-> FALSE, waiter |-> FALSE, ending |-> FALSE,
               fin |-> "none", fetched |-> None, closed |-> FALSE,
               aborting |-> FALSE]
    /\ inbox = <<>>
    /\ sent = {}

BrowserSpec == BrowserInit /\ [][BrowserNext]_browserVars

(* A browser runs its event handlers and the platform delivers messages: a *)
(* message is read as long as its socket is there.  Nothing else is owed:  *)
(* requests may hang, users do what they like.                             *)
FairBrowserSpec ==
    /\ BrowserSpec
    /\ WF_browserVars(HandleControlMessage)
    /\ WF_browserVars(HandleInbox)

-----------------------------------------------------------------------------
(***************************************************************************)
(* Properties                                                              *)
(***************************************************************************)

(* Every variable holds a value of its kind; an end request that waits     *)
(* keeps the button busy, a page that is up knows its upload, and its      *)
(* hello is the first message on its socket, if any.                       *)
PageTypeOK ==
    /\ phase \in [Sockets -> Phases]
    /\ link \in [Sockets -> Links]
    /\ \A s \in Sockets : \A i \in DOMAIN outbox[s] :
          outbox[s][i] \in ServerMessages
    /\ page \in Pages
    /\ page.waiter => page.ending
    /\ page.pc = "up" => page.upload # None
    /\ sent \subseteq Requests \cup OwnEnds
    /\ \A i \in DOMAIN inbox :
          \/ inbox[i].type = "ClientHello" /\ i = 1
          \/ /\ inbox[i].type = "EndRequested"
             /\ inbox[i].call \in OwnEnds
             /\ inbox[i].expectedRevision \in Nat

(* The conversation's last change is an end that another client asked for. *)
EndedByAnother ==
    \E call \in EndCalls \ OwnEnds, r \in receipts :
        r.eventId = call.id /\ r.targetRevision = conversation.revision

(* A view of the conversation as it was before the end that another client *)
(* asked for over a connection that this page's superseded.                *)
MissesEnd(view) ==
    /\ conversation.tag = "ending"
    /\ \E ws \in Others : phase[ws] = "active"
    /\ \E call \in EndCalls \ OwnEnds, r \in receipts :
          /\ r.eventId = call.id
          /\ r.targetRevision = conversation.revision
          /\ view.revision = r.sourceRevision
          /\ view.state = r.sourceState

IsActive(ws) == phase[ws] = "active" /\ link[ws] = "open"

(* An active page that has read everything shows the conversation as it    *)
(* is: whatever changes it (this page, the recording requests, the alarm)  *)
(* reaches the active socket, and no answer over HTTP hides it.  The one   *)
(* exception is the end that a superseded client had sent: the answer goes *)
(* to nobody, and the page shows the state just before that end until the  *)
(* next change or alarm is published.                                      *)
ActivePageIsCurrent ==
    IsActive(Own) /\ outbox[Own] = <<>> =>
        page.view = View(conversation) \/ MissesEnd(page.view)

(* What a page shows never goes back to an earlier revision, although      *)
(* snapshots and HTTP answers overtake each other.                         *)
PageNeverGoesBack ==
    [][None \notin {page.view, page'.view} =>
        page'.view.revision >= page.view.revision]_page

(* The recording is stopped and uploaded only when the conversation is     *)
(* ending or over, on the server and not only for the page.                *)
FinalizesOnlyAtTheEnd ==
    page.fin # "none" =>
        conversation.tag = "ending" \/ conversation.tag \in TerminalTags

(* A page that records finalizes the recording when the conversation ends  *)
(* without it, unless the page is closed, its socket is closed or goes     *)
(* down, or it finds the conversation over; and unless the end is one that *)
(* a superseded client had sent and the page has not been sent the state   *)
(* since, by a publication or as the answer to its own end request.        *)
Finalizing == page.fin # "none"

Shows(tags) == page.view # None /\ page.view.state \in tags

NobodyThere == page.closed \/ link[Own] = "closed"

EndingOnItsWay ==
    \E i \in DOMAIN outbox[Own] : outbox[Own][i].view.state = "ending"

EndingIsFinalized ==
    (/\ page.upload # None /\ ~Finalizing /\ ~NobodyThere
     /\ ~Shows({"ending"} \cup TerminalTags)
     /\ conversation.tag = "ending" /\ (EndedByAnother => EndingOnItsWay))
    ~> (Finalizing \/ NobodyThere \/ Shows(TerminalTags))

(* runtime.ts: close() "Releases control, media, and recording resources,  *)
(* aborting unfinished uploads."  A close() during connect() does not: the *)
(* microphone is opened after it.                                          *)
CloseReleasesMedia == page.closed => ~page.microphone
=============================================================================
