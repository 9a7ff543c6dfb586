-------------------------- MODULE ConversationFSM --------------------------
(***************************************************************************)
(* The pure conversation state machine and its deadline selection:         *)
(*   src/src/domain/conversation-state-machine.ts  (transitionRuntime)     *)
(*   src/src/domain/conversation-deadlines.ts      (earliestDeadline)      *)
(*                                                                         *)
(* A conversation is a record.  An event is accepted when its type is      *)
(* allowed in the current tag and its guard holds (Outcome = "applied");   *)
(* Transition then gives the next conversation.  Names, wording, error     *)
(* codes and the at/enteredAt/updatedAt timestamps, which decide nothing,  *)
(* are left out.                                                           *)
(***************************************************************************)
EXTENDS Integers

CONSTANTS
    RecordingIds,   \* recording ids: the upload ids R2 hands out
    R2Keys,         \* object keys a recording may be stored under
    None            \* "undefined" / null: no id, no key, no deadline

ASSUME NoneAssumption ==
    /\ None \notin RecordingIds
    /\ None \notin R2Keys
    /\ None \notin Int

-----------------------------------------------------------------------------
(***************************************************************************)
(* Data                                                                    *)
(***************************************************************************)

Tags == {"created", "starting", "live", "ending",
         "completed", "cancelled", "failed"}

ActiveTags   == {"starting", "live", "ending"}
TerminalTags == {"completed", "cancelled", "failed"}

MaybeTime == Nat \cup {None}

Transports ==
    [status     : {"idle", "connecting", "connected", "reconnecting",
                   "closed", "failed"},
     epoch      : Nat,
     deadlineAt : MaybeTime]

Artifacts ==
    [status        : {"pending", "recording", "uploading", "ready", "failed"},
     recordingId   : RecordingIds \cup {None},
     expectedR2Key : R2Keys \cup {None},
     deadlineAt    : MaybeTime]

(* The end target's kind, and the stage a failing target or a Failed state *)
(* names.  The deadline fields hold the last value written to them, as     *)
(* `data: { ...state.data, ...changes }` leaves earlier fields in place.   *)
Targets == {"none", "complete", "cancel", "fail"}
Stages  == {"none", "starting", "transport", "artifact", "ending"}

Conversations ==
    [tag             : Tags,
     revision        : Nat,
     transport       : Transports,
     artifact        : Artifacts,
     target          : Targets,
     stage           : Stages,
     startDeadlineAt : MaybeTime,
     maximumEndAt    : MaybeTime,
     deadlineAt      : MaybeTime]

(* Events that callers of the aggregate send, and those only the deadline  *)
(* alarm makes.                                                            *)
CallerEventTypes ==
    {"StartRequested", "TransportConnected", "RecordingStarted",
     "SessionStarted", "TransportInterrupted", "EndRequested",
     "FatalTransportError", "SessionClosed", "RecordingUploadStarted",
     "RecordingArtifactVerified", "ArtifactFailed"}

AlarmEventTypes ==
    {"StartingDeadlineExceeded", "TimeLimitReached", "RecoveryDeadlineExceeded",
     "EndingDeadlineExceeded", "ArtifactDeadlineExceeded"}

EventTypes == CallerEventTypes \cup AlarmEventTypes

(* One record shape for every event; a field its type lacks is None or 0.  *)
(* deadlineAt is the one deadline the event carries: startDeadlineAt,      *)
(* maximumEndAt, recoveryDeadlineAt, endingDeadlineAt or                   *)
(* artifactDeadlineAt.                                                     *)
NeedsDeadline ==
    {"StartRequested", "SessionStarted", "TransportInterrupted", "EndRequested",
     "FatalTransportError", "RecordingUploadStarted", "ArtifactFailed",
     "TimeLimitReached", "RecoveryDeadlineExceeded", "ArtifactDeadlineExceeded"}

NeedsRecording ==
    {"RecordingStarted", "RecordingUploadStarted", "RecordingArtifactVerified"}

(* What the event's TypeScript type says: a required field is present.     *)
WellFormed(e) ==
    /\ e.type \in EventTypes
    /\ e.epoch \in Nat
    /\ e.recordingId \in RecordingIds \cup {None}
    /\ e.expectedR2Key \in R2Keys \cup {None}
    /\ e.deadlineAt \in MaybeTime
    /\ e.type \in NeedsDeadline => e.deadlineAt # None
    /\ e.type \in NeedsRecording => e.recordingId # None

-----------------------------------------------------------------------------
(***************************************************************************)
(* Transport and artifact values                                           *)
(***************************************************************************)

Transport(status, epoch) ==
    [status |-> status, epoch |-> epoch, deadlineAt |-> None]

Reconnecting(epoch, deadline) ==
    [status |-> "reconnecting", epoch |-> epoch, deadlineAt |-> deadline]

Artifact(status, id, key) ==
    [status |-> status, recordingId |-> id, expectedR2Key |-> key,
     deadlineAt |-> None]

Uploading(id, key, deadline) ==
    [status |-> "uploading", recordingId |-> id, expectedR2Key |-> key,
     deadlineAt |-> deadline]

IsTransportTerminal(transport) == transport.status \in {"closed", "failed"}

FailedTransport(c) == Transport("failed", c.transport.epoch)

(* The id the failing event supplies, else the one already known.          *)
FailedArtifact(c, suppliedId) ==
    Artifact("failed",
             IF suppliedId # None THEN suppliedId ELSE c.artifact.recordingId,
             None)

CreateConversation ==
    [tag             |-> "created",
     revision        |-> 0,
     transport       |-> Transport("idle", 0),
     artifact        |-> Artifact("pending", None, None),
     target          |-> "none",
     stage           |-> "none",
     startDeadlineAt |-> None,
     maximumEndAt    |-> None,
     deadlineAt      |-> None]

-----------------------------------------------------------------------------
(***************************************************************************)
(* Which events a tag allows, and the guards                               *)
(***************************************************************************)

AllowedEvents(tag) ==
    CASE tag = "created"  -> {"StartRequested", "EndRequested"}
      [] tag = "starting" -> {"TransportConnected", "RecordingStarted",
                              "SessionStarted", "EndRequested",
                              "FatalTransportError", "SessionClosed",
                              "ArtifactFailed", "StartingDeadlineExceeded"}
      [] tag = "live"     -> {"TransportInterrupted", "TransportConnected",
                              "RecoveryDeadlineExceeded", "EndRequested",
                              "TimeLimitReached", "FatalTransportError",
                              "SessionClosed", "ArtifactFailed"}
      [] tag = "ending"   -> {"TransportConnected", "SessionClosed",
                              "RecordingUploadStarted",
                              "RecordingArtifactVerified", "ArtifactFailed",
                              "FatalTransportError", "EndingDeadlineExceeded",
                              "ArtifactDeadlineExceeded"}
      [] OTHER            -> {}

(* Regression: guardRecordingId only looks whether there is a recording.   *)
AnyRecording(c, e) == c.artifact.status # "pending"

SameRecording(c, e) ==
    c.artifact.status # "pending" /\ c.artifact.recordingId = e.recordingId

TransportConnectedGuard(c, e) ==
    IF c.tag = "starting"
    THEN c.transport.status = "connecting" /\ e.epoch = c.transport.epoch
    ELSE c.transport.status = "reconnecting" /\ e.epoch = c.transport.epoch + 1

GuardHolds(c, e) ==
    CASE e.type = "TransportConnected" -> TransportConnectedGuard(c, e)
      [] e.type = "RecordingStarted"   -> c.artifact.status = "pending"
      [] e.type = "SessionStarted" ->
            /\ c.transport.status = "connected"
            /\ c.transport.epoch = e.epoch
            /\ c.artifact.status = "recording"
      [] e.type = "TransportInterrupted" ->
            /\ c.transport.epoch = e.epoch
            /\ c.transport.status \in {"connected", "reconnecting"}
      [] e.type \in {"SessionClosed", "FatalTransportError"} ->
            c.transport.epoch = e.epoch
      [] e.type = "RecoveryDeadlineExceeded" ->
            c.transport.status = "reconnecting"
      [] e.type = "RecordingUploadStarted" -> SameRecording(c, e)
      [] e.type = "RecordingArtifactVerified" ->
            /\ c.artifact.status = "uploading"
            /\ SameRecording(c, e)
            /\ c.artifact.expectedR2Key = e.expectedR2Key
      [] e.type = "ArtifactFailed" ->
            \/ None \in {e.recordingId, c.artifact.recordingId}
            \/ e.recordingId = c.artifact.recordingId
      [] e.type = "ArtifactDeadlineExceeded" -> c.artifact.status = "uploading"
      [] OTHER -> TRUE

(* The verdict of transitionRuntime.                                       *)
Outcome(c, e) ==
    IF e.type \notin AllowedEvents(c.tag) THEN "illegal_transition"
    ELSE IF GuardHolds(c, e) THEN "applied" ELSE "guard_failed"

Accepts(c, e) == Outcome(c, e) = "applied"

-----------------------------------------------------------------------------
(***************************************************************************)
(* The next conversation.  Revise and Enter add one to the revision; the   *)
(* finalisation that may follow in the same event does not.                *)
(***************************************************************************)

Revise(c) == [c EXCEPT !.revision = @ + 1]

Enter(c, tag) == [c EXCEPT !.revision = @ + 1, !.tag = tag]

EnterEnding(c, target, stage, deadline) ==
    [Enter(c, "ending") EXCEPT !.target = target, !.stage = stage,
                               !.deadlineAt = deadline]

EnterFailed(c, stage, transport) ==
    [Enter(c, "failed") EXCEPT !.stage = stage, !.transport = transport]

(* Regression: finalize forgets that a shutdown may have failed.           *)
TerminalTagWithoutFail(target) ==
    IF target = "complete" THEN "completed" ELSE "cancelled"

TerminalTagOf(target) ==
    CASE target = "complete" -> "completed"
      [] target = "cancel"   -> "cancelled"
      [] OTHER               -> "failed"

(* Regressions: finalisation does not wait for the artifact; takes a       *)
(* stored recording for a completion; counts as another revision.          *)
FinalizeWithoutArtifact(c) ==
    IF IsTransportTerminal(c.transport)
    THEN [c EXCEPT !.tag = TerminalTagOf(c.target)] ELSE c

FinalizeByArtifact(c) ==
    IF IsTransportTerminal(c.transport)
    THEN [c EXCEPT !.tag = IF c.artifact.status = "ready" THEN "completed"
                           ELSE TerminalTagOf(c.target)]
    ELSE c

FinalizeCountsRevision(c) ==
    IF /\ IsTransportTerminal(c.transport)
       /\ c.target = "complete" => c.artifact.status = "ready"
    THEN Enter(c, TerminalTagOf(c.target))
    ELSE c

FinalizeIfReady(c) ==
    IF /\ IsTransportTerminal(c.transport)
       /\ c.target = "complete" => c.artifact.status = "ready"
    THEN [c EXCEPT !.tag = TerminalTagOf(c.target)]
    ELSE c

FromCreated(c, e) ==
    IF e.type = "StartRequested"
    THEN [Enter(c, "starting") EXCEPT
            !.transport = Transport("connecting", 1),
            !.startDeadlineAt = e.deadlineAt]
    ELSE Enter(c, "cancelled")

BeginFailedEnding(c, e) ==
    FinalizeIfReady(
        [EnterEnding(c, "fail", "artifact", e.deadlineAt) EXCEPT
            !.artifact = FailedArtifact(c, e.recordingId)])

FromStarting(c, e) ==
    CASE e.type = "TransportConnected" ->
            [Revise(c) EXCEPT !.transport = Transport("connected", e.epoch)]
      [] e.type = "RecordingStarted" ->
            [Revise(c) EXCEPT
                !.artifact = Artifact("recording", e.recordingId, None)]
      [] e.type = "SessionStarted" ->
            [Enter(c, "live") EXCEPT !.maximumEndAt = e.deadlineAt]
      [] e.type = "EndRequested" ->
            EnterEnding(c, "cancel", "none", e.deadlineAt)
      [] e.type = "FatalTransportError" ->
            EnterFailed(c, "transport", FailedTransport(c))
      [] e.type = "SessionClosed" ->
            EnterFailed(c, "starting", Transport("closed", e.epoch))
      [] e.type = "ArtifactFailed" -> BeginFailedEnding(c, e)
      [] e.type = "StartingDeadlineExceeded" ->
            EnterFailed(c, "starting", FailedTransport(c))

(* Regression: every interruption starts the recovery window again.        *)
InterruptedAfresh(c, e) == Reconnecting(e.epoch, e.deadlineAt)

(* A repeated interruption keeps the deadline of the first one.            *)
Interrupted(c, e) ==
    Reconnecting(e.epoch,
                 IF c.transport.status = "reconnecting"
                 THEN c.transport.deadlineAt ELSE e.deadlineAt)

FromLive(c, e) ==
    CASE e.type = "TransportInterrupted" ->
            [Revise(c) EXCEPT !.transport = Interrupted(c, e)]
      [] e.type = "TransportConnected" ->
            [Revise(c) EXCEPT !.transport = Transport("connected", e.epoch)]
      [] e.type = "RecoveryDeadlineExceeded" ->
            EnterFailed(c, "transport", FailedTransport(c))
      [] e.type \in {"EndRequested", "TimeLimitReached"} ->
            EnterEnding(c, "complete", "none", e.deadlineAt)
      [] e.type = "FatalTransportError" ->
            EnterFailed(c, "transport", FailedTransport(c))
      [] e.type = "SessionClosed" ->
            EnterFailed(c, "transport", Transport("closed", e.epoch))
      [] e.type = "ArtifactFailed" -> BeginFailedEnding(c, e)

(* The three events that turn a running shutdown into a failing one.       *)
FailEnding(c, e, stage) ==
    [Revise(c) EXCEPT !.target = "fail", !.stage = stage,
                      !.deadlineAt = e.deadlineAt]

(* Regression: the expired shutdown leaves the transport as it was.        *)
EndingExpiredKeepsTransport(c) == EnterFailed(c, "ending", c.transport)

(* With the transport over, what is missing is the artifact: it is failed  *)
(* unless ready.  Otherwise the transport is failed and the artifact left. *)
EndingExpired(c) ==
    IF IsTransportTerminal(c.transport)
    THEN [EnterFailed(c, "artifact", c.transport) EXCEPT
            !.artifact = IF c.artifact.status = "ready" THEN c.artifact
                         ELSE FailedArtifact(c, None)]
    ELSE EnterFailed(c, "ending", FailedTransport(c))

FromEnding(c, e) ==
    CASE e.type = "TransportConnected" ->
            [Revise(c) EXCEPT !.transport = Transport("connected", e.epoch)]
      [] e.type = "SessionClosed" ->
            FinalizeIfReady(
                [Revise(c) EXCEPT !.transport = Transport("closed", e.epoch)])
      [] e.type = "RecordingUploadStarted" ->
            [Revise(c) EXCEPT
                !.artifact = Uploading(e.recordingId, e.expectedR2Key,
                                       e.deadlineAt)]
      [] e.type = "RecordingArtifactVerified" ->
            FinalizeIfReady(
                [Revise(c) EXCEPT
                    !.artifact = Artifact("ready", e.recordingId,
                                          e.expectedR2Key)])
      [] e.type = "ArtifactFailed" ->
            FinalizeIfReady(
                [FailEnding(c, e, "artifact") EXCEPT
                    !.artifact = FailedArtifact(c, e.recordingId)])
      [] e.type = "FatalTransportError" ->
            FinalizeIfReady(
                [FailEnding(c, e, "transport") EXCEPT
                    !.transport = FailedTransport(c)])
      [] e.type = "EndingDeadlineExceeded" -> EndingExpired(c)
      [] e.type = "ArtifactDeadlineExceeded" ->
            FinalizeIfReady(
                [FailEnding(c, e, "artifact") EXCEPT
                    !.artifact = FailedArtifact(c, None)])

Transition(c, e) ==
    CASE c.tag = "created"  -> FromCreated(c, e)
      [] c.tag = "starting" -> FromStarting(c, e)
      [] c.tag = "live"     -> FromLive(c, e)
      [] c.tag = "ending"   -> FromEnding(c, e)

-----------------------------------------------------------------------------
(***************************************************************************)
(* Deadlines                                                               *)
(***************************************************************************)

(* Regression: an artifact still being recorded is not waited for.         *)
WaitingForNothing(c) == c.artifact.status = "pending"

WaitingForUpload(c) == c.artifact.status \in {"pending", "recording"}

DeadlineKinds == {"starting", "reconnect", "live", "ending", "artifact"}

(* Which deadlines run in a conversation, and when each expires.  A        *)
(* recovery deadline, an ending deadline, comes before its rival in the    *)
(* candidate list and wins a tie.                                          *)
DeadlineRuns(c, kind) ==
    CASE kind = "starting"  -> c.tag = "starting"
      [] kind = "reconnect" -> c.tag = "live" /\ c.transport.status = "reconnecting"
      [] kind = "live"      -> c.tag = "live"
      [] kind = "ending"    -> /\ c.tag = "ending"
                               /\ \/ ~IsTransportTerminal(c.transport)
                                  \/ WaitingForUpload(c)
      [] kind = "artifact"  -> c.artifact.status = "uploading"

DeadlineAt(c, kind) ==
    CASE kind = "starting"  -> c.startDeadlineAt
      [] kind = "reconnect" -> c.transport.deadlineAt
      [] kind = "live"      -> c.maximumEndAt
      [] kind = "ending"    -> c.deadlineAt
      [] kind = "artifact"  -> c.artifact.deadlineAt

(* first is the earlier of two deadlines in the candidate list.            *)
Earlier(c, first, second) ==
    IF ~DeadlineRuns(c, first) THEN second
    ELSE IF DeadlineRuns(c, second) /\ DeadlineAt(c, second) < DeadlineAt(c, first)
         THEN second
         ELSE first

(* The kind of the earliest running deadline, "none" when none runs.       *)
EarliestDeadline(c) ==
    LET kind == CASE c.tag = "starting" -> Earlier(c, "starting", "artifact")
                  [] c.tag = "live" ->
                        Earlier(c, Earlier(c, "reconnect", "live"), "artifact")
                  [] OTHER -> Earlier(c, "ending", "artifact")
    IN  IF DeadlineRuns(c, kind) THEN kind ELSE "none"

DeadlineForState(c) ==
    LET kind == EarliestDeadline(c)
    IN  IF kind = "none" THEN None ELSE DeadlineAt(c, kind)

(* Regression: the time limit of a live conversation is reported as the    *)
(* end of its recovery window.                                             *)
AlarmEventTypeOfLive(kind) ==
    CASE kind = "starting"             -> "StartingDeadlineExceeded"
      [] kind \in {"live", "reconnect"} -> "RecoveryDeadlineExceeded"
      [] kind = "ending"               -> "EndingDeadlineExceeded"
      [] kind = "artifact"             -> "ArtifactDeadlineExceeded"

AlarmEventType(kind) ==
    CASE kind = "starting"  -> "StartingDeadlineExceeded"
      [] kind = "live"      -> "TimeLimitReached"
      [] kind = "reconnect" -> "RecoveryDeadlineExceeded"
      [] kind = "ending"    -> "EndingDeadlineExceeded"
      [] kind = "artifact"  -> "ArtifactDeadlineExceeded"

(* Regression: the alarm's event id lacks the tag.                         *)
AlarmEventIdWithoutTag(c) == <<c.revision, DeadlineForState(c)>>

(* An alarm's event id names tag, revision and deadline (and the session,  *)
(* of which there is one here).                                            *)
AlarmEventId(c) == <<c.tag, c.revision, DeadlineForState(c)>>

(* deadlineEventForState: graceEnd is now + ALARM_SHUTDOWN_GRACE_MS.       *)
DeadlineEvent(c, graceEnd) ==
    [type          |-> AlarmEventType(EarliestDeadline(c)),
     id            |-> AlarmEventId(c),
     epoch         |-> 0,
     recordingId   |-> None,
     expectedR2Key |-> None,
     deadlineAt    |-> graceEnd]

-----------------------------------------------------------------------------
(***************************************************************************)
(* What holds of every reachable conversation (ConversationStore's IInv).  *)
(***************************************************************************)

(* What each tag says about the transport, the artifact and the deadlines. *)
ConsistentTag(c) ==
    /\ c.tag = "created" => c = CreateConversation
    /\ c.tag = "starting" =>
        /\ c.transport.status \in {"connecting", "connected"}
        /\ c.artifact.status \in {"pending", "recording"}
        /\ c.target = "none"
        /\ c.startDeadlineAt # None
    /\ c.tag = "live" =>
        /\ c.transport.status \in {"connected", "reconnecting"}
        /\ c.artifact.status = "recording"
        /\ c.target = "none"
        /\ c.maximumEndAt # None
    /\ c.tag = "ending" =>
        /\ c.transport.status \in {"connecting", "connected", "reconnecting", "closed"}
        /\ c.target # "none"
        /\ c.target = "complete" =>
              c.artifact.status \in {"recording", "uploading", "ready"}
        /\ c.transport.status = "closed" =>
              c.target = "complete" /\ c.artifact.status # "ready"
        /\ c.deadlineAt # None
    /\ c.tag = "completed" =>
        /\ c.target = "complete"
        /\ c.transport.status = "closed"
        /\ c.artifact.status = "ready"
    /\ c.tag = "cancelled" => c.transport.status \in {"idle", "closed"}
    /\ c.tag = "failed" => IsTransportTerminal(c.transport)

ConsistentParts(c) ==
    /\ c.transport.status = "reconnecting" => c.transport.deadlineAt # None
    /\ c.artifact.status \in {"recording", "uploading", "ready"} =>
          c.artifact.recordingId # None
    /\ c.artifact.status = "uploading" => c.artifact.deadlineAt # None
    /\ c.artifact.status = "pending" => c.artifact.recordingId = None

Consistent(c) == ConsistentTag(c) /\ ConsistentParts(c)
=============================================================================
