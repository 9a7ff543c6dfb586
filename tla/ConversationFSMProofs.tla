----------------------- MODULE ConversationFSMProofs -----------------------
(***************************************************************************)
(* Lemmas about the pure state machine: every accepted event takes a       *)
(* consistent conversation to a consistent one, one revision later, and    *)
(* the deadline of an unfinished conversation exists and its event is      *)
(* accepted.                                                               *)
(***************************************************************************)
EXTENDS ConversationFSM, TLAPS

-----------------------------------------------------------------------------
(***************************************************************************)
(* Values                                                                  *)
(***************************************************************************)

(* The constructors build transports and artifacts.                        *)
LEMMA TransportType ==
    ASSUME NEW status \in {"idle", "connecting", "connected", "closed", "failed"},
           NEW epoch \in Nat
    PROVE  /\ Transport(status, epoch) \in Transports
           /\ Transport(status, epoch).status = status
           /\ Transport(status, epoch).epoch = epoch
BY DEF Transport, Transports, MaybeTime

LEMMA InterruptedType ==
    ASSUME NEW c \in Conversations, NEW e, WellFormed(e), e.deadlineAt # None,
           c.transport.status = "reconnecting" => c.transport.deadlineAt # None
    PROVE  /\ Interrupted(c, e) \in Transports
           /\ Interrupted(c, e).status = "reconnecting"
           /\ Interrupted(c, e).deadlineAt # None
           /\ Interrupted(c, e).epoch = e.epoch
BY DEF Interrupted, Reconnecting, Transports, MaybeTime, WellFormed, Conversations

LEMMA ArtifactType ==
    ASSUME NEW status \in {"pending", "recording", "ready", "failed"},
           NEW id \in RecordingIds \cup {None}, NEW key \in R2Keys \cup {None}
    PROVE  /\ Artifact(status, id, key) \in Artifacts
           /\ Artifact(status, id, key).status = status
           /\ Artifact(status, id, key).recordingId = id
BY DEF Artifact, Artifacts, MaybeTime

LEMMA FailedTransportType ==
    ASSUME NEW c \in Conversations
    PROVE  /\ FailedTransport(c) \in Transports
           /\ FailedTransport(c).status = "failed"
           /\ FailedTransport(c).epoch = c.transport.epoch
<1>1. c.transport.epoch \in Nat
  BY DEF Conversations, Transports
<1>. QED
  BY <1>1, TransportType DEF FailedTransport

LEMMA FailedArtifactType ==
    ASSUME NEW c \in Conversations, NEW id \in RecordingIds \cup {None}
    PROVE  /\ FailedArtifact(c, id) \in Artifacts
           /\ FailedArtifact(c, id).status = "failed"
<1>. DEFINE known == IF id # None THEN id ELSE c.artifact.recordingId
<1>1. known \in RecordingIds \cup {None}
  BY DEF Conversations, Artifacts
<1>2. /\ Artifact("failed", known, None) \in Artifacts
      /\ Artifact("failed", known, None).status = "failed"
  BY <1>1, ArtifactType
<1>. QED
  BY <1>2 DEF FailedArtifact

-----------------------------------------------------------------------------
(***************************************************************************)
(* Updates of one field, and the updates every transition is made of       *)
(***************************************************************************)

(* Each update keeps the type; the fields it leaves alone keep their value.*)
LEMMA WithTransport ==
    ASSUME NEW c \in Conversations, NEW t \in Transports
    PROVE  /\ [c EXCEPT !.transport = t] \in Conversations
           /\ [c EXCEPT !.transport = t].transport = t
           /\ [c EXCEPT !.transport = t].tag = c.tag
           /\ [c EXCEPT !.transport = t].revision = c.revision
           /\ [c EXCEPT !.transport = t].artifact = c.artifact
           /\ [c EXCEPT !.transport = t].target = c.target
           /\ [c EXCEPT !.transport = t].stage = c.stage
           /\ [c EXCEPT !.transport = t].startDeadlineAt = c.startDeadlineAt
           /\ [c EXCEPT !.transport = t].maximumEndAt = c.maximumEndAt
           /\ [c EXCEPT !.transport = t].deadlineAt = c.deadlineAt
BY DEF Conversations

LEMMA WithArtifact ==
    ASSUME NEW c \in Conversations, NEW a \in Artifacts
    PROVE  /\ [c EXCEPT !.artifact = a] \in Conversations
           /\ [c EXCEPT !.artifact = a].artifact = a
           /\ [c EXCEPT !.artifact = a].tag = c.tag
           /\ [c EXCEPT !.artifact = a].revision = c.revision
           /\ [c EXCEPT !.artifact = a].transport = c.transport
           /\ [c EXCEPT !.artifact = a].target = c.target
           /\ [c EXCEPT !.artifact = a].stage = c.stage
           /\ [c EXCEPT !.artifact = a].startDeadlineAt = c.startDeadlineAt
           /\ [c EXCEPT !.artifact = a].maximumEndAt = c.maximumEndAt
           /\ [c EXCEPT !.artifact = a].deadlineAt = c.deadlineAt
BY DEF Conversations

LEMMA ReviseType ==
    ASSUME NEW c \in Conversations
    PROVE  /\ Revise(c) \in Conversations
           /\ Revise(c).revision = c.revision + 1
           /\ Revise(c).tag = c.tag
           /\ Revise(c).transport = c.transport
           /\ Revise(c).artifact = c.artifact
           /\ Revise(c).target = c.target
           /\ Revise(c).stage = c.stage
           /\ Revise(c).startDeadlineAt = c.startDeadlineAt
           /\ Revise(c).maximumEndAt = c.maximumEndAt
           /\ Revise(c).deadlineAt = c.deadlineAt
BY DEF Conversations, Revise

LEMMA EnterType ==
    ASSUME NEW c \in Conversations, NEW tag \in Tags
    PROVE  /\ Enter(c, tag) \in Conversations
           /\ Enter(c, tag).revision = c.revision + 1
           /\ Enter(c, tag).tag = tag
           /\ Enter(c, tag).transport = c.transport
           /\ Enter(c, tag).artifact = c.artifact
           /\ Enter(c, tag).target = c.target
           /\ Enter(c, tag).stage = c.stage
           /\ Enter(c, tag).startDeadlineAt = c.startDeadlineAt
           /\ Enter(c, tag).maximumEndAt = c.maximumEndAt
           /\ Enter(c, tag).deadlineAt = c.deadlineAt
<1>. DEFINE d == [c EXCEPT !.revision = @ + 1]
<1>1. d \in Conversations
  BY DEF Conversations
<1>2. [d EXCEPT !.tag = tag] \in Conversations
  BY <1>1 DEF Conversations
<1>. QED
  BY <1>2 DEF Enter, Conversations

LEMMA EnterEndingType ==
    ASSUME NEW c \in Conversations, NEW target \in Targets, NEW stage \in Stages,
           NEW deadline \in MaybeTime
    PROVE  /\ EnterEnding(c, target, stage, deadline) \in Conversations
           /\ EnterEnding(c, target, stage, deadline).revision = c.revision + 1
           /\ EnterEnding(c, target, stage, deadline).tag = "ending"
           /\ EnterEnding(c, target, stage, deadline).transport = c.transport
           /\ EnterEnding(c, target, stage, deadline).artifact = c.artifact
           /\ EnterEnding(c, target, stage, deadline).target = target
           /\ EnterEnding(c, target, stage, deadline).deadlineAt = deadline
<1>. DEFINE d == Enter(c, "ending")
            f == [d EXCEPT !.target = target]
            g == [f EXCEPT !.stage = stage]
<1>1. d \in Conversations
  BY EnterType DEF Tags
<1>. HIDE DEF d
<1>2. f \in Conversations
  BY <1>1 DEF Conversations
<1>. HIDE DEF f
<1>3. g \in Conversations
  BY <1>2 DEF Conversations
<1>. HIDE DEF g
<1>4. [g EXCEPT !.deadlineAt = deadline] \in Conversations
  BY <1>3 DEF Conversations
<1>5. EnterEnding(c, target, stage, deadline) \in Conversations
  BY <1>4 DEF EnterEnding, d, f, g
<1>. QED
  BY <1>5 DEF EnterEnding, Enter, Conversations

LEMMA EnterFailedType ==
    ASSUME NEW c \in Conversations, NEW stage \in Stages, NEW t \in Transports
    PROVE  /\ EnterFailed(c, stage, t) \in Conversations
           /\ EnterFailed(c, stage, t).revision = c.revision + 1
           /\ EnterFailed(c, stage, t).tag = "failed"
           /\ EnterFailed(c, stage, t).transport = t
           /\ EnterFailed(c, stage, t).artifact = c.artifact
           /\ EnterFailed(c, stage, t).target = c.target
<1>. DEFINE d == Enter(c, "failed")
            f == [d EXCEPT !.stage = stage]
<1>1. d \in Conversations
  BY EnterType DEF Tags
<1>. HIDE DEF d
<1>2. f \in Conversations
  BY <1>1 DEF Conversations
<1>. HIDE DEF f
<1>3. [f EXCEPT !.transport = t] \in Conversations
  BY <1>2 DEF Conversations
<1>4. EnterFailed(c, stage, t) \in Conversations
  BY <1>3 DEF EnterFailed, d, f
<1>. QED
  BY <1>4 DEF EnterFailed, Enter, Conversations

LEMMA FailEndingType ==
    ASSUME NEW c \in Conversations, NEW e, e.deadlineAt \in MaybeTime,
           NEW stage \in Stages
    PROVE  /\ FailEnding(c, e, stage) \in Conversations
           /\ FailEnding(c, e, stage).revision = c.revision + 1
           /\ FailEnding(c, e, stage).tag = c.tag
           /\ FailEnding(c, e, stage).transport = c.transport
           /\ FailEnding(c, e, stage).artifact = c.artifact
           /\ FailEnding(c, e, stage).target = "fail"
           /\ FailEnding(c, e, stage).deadlineAt = e.deadlineAt
<1>. DEFINE d == Revise(c)
            f == [d EXCEPT !.target = "fail"]
            g == [f EXCEPT !.stage = stage]
<1>1. d \in Conversations
  BY ReviseType
<1>. HIDE DEF d
<1>2. f \in Conversations
  BY <1>1 DEF Conversations, Targets
<1>. HIDE DEF f
<1>3. g \in Conversations
  BY <1>2 DEF Conversations
<1>. HIDE DEF g
<1>4. [g EXCEPT !.deadlineAt = e.deadlineAt] \in Conversations
  BY <1>3 DEF Conversations
<1>5. FailEnding(c, e, stage) \in Conversations
  BY <1>4 DEF FailEnding, d, f, g
<1>. QED
  BY <1>5 DEF FailEnding, Revise, Conversations

LEMMA FinalizeType ==
    ASSUME NEW c \in Conversations
    PROVE  /\ FinalizeIfReady(c) \in Conversations
           /\ FinalizeIfReady(c).revision = c.revision
           /\ FinalizeIfReady(c).transport = c.transport
           /\ FinalizeIfReady(c).artifact = c.artifact
           /\ FinalizeIfReady(c).target = c.target
           /\ FinalizeIfReady(c).deadlineAt = c.deadlineAt
           /\ FinalizeIfReady(c).tag =
                IF /\ IsTransportTerminal(c.transport)
                   /\ c.target = "complete" => c.artifact.status = "ready"
                THEN TerminalTagOf(c.target) ELSE c.tag
<1>1. TerminalTagOf(c.target) \in Tags
  BY DEF TerminalTagOf, Tags
<1>2. [c EXCEPT !.tag = TerminalTagOf(c.target)] \in Conversations
  BY <1>1 DEF Conversations
<1>. QED
  BY <1>2 DEF FinalizeIfReady, Conversations

-----------------------------------------------------------------------------
(***************************************************************************)
(* One lemma per handler                                                   *)
(***************************************************************************)

(* What each handler must show.                                            *)
Preserved(c, d) ==
    d \in Conversations /\ Consistent(d) /\ d.revision = c.revision + 1

LEMMA FromCreatedConsistent ==
    ASSUME NEW c \in Conversations, NEW e, WellFormed(e), Consistent(c),
           c.tag = "created", Accepts(c, e)
    PROVE  Preserved(c, FromCreated(c, e))
<1>0. /\ e.type \in {"StartRequested", "EndRequested"}
      /\ e.deadlineAt \in MaybeTime /\ e.deadlineAt # None
  BY DEF Accepts, Outcome, AllowedEvents, WellFormed, NeedsDeadline
<1>1. /\ c.transport.status = "idle"
      /\ c.artifact.status = "pending"
      /\ c.artifact.recordingId = None
  BY DEF Consistent, ConsistentTag, CreateConversation, Transport, Artifact
<1>2. CASE e.type = "StartRequested"
  <2>. DEFINE d == Enter(c, "starting")
              t == Transport("connecting", 1)
              f == [d EXCEPT !.transport = t]
              g == [f EXCEPT !.startDeadlineAt = e.deadlineAt]
  <2>1. /\ d \in Conversations
        /\ d.revision = c.revision + 1 /\ d.tag = "starting"
        /\ d.artifact = c.artifact /\ d.target = c.target
    BY EnterType DEF Tags
  <2>2. t \in Transports /\ t.status = "connecting"
    BY TransportType
  <2>. HIDE DEF d, t
  <2>3. /\ f \in Conversations
        /\ f.revision = c.revision + 1 /\ f.tag = "starting"
        /\ f.artifact = c.artifact /\ f.target = c.target
        /\ f.transport = t
    BY <2>1, <2>2, WithTransport
  <2>. HIDE DEF f
  <2>4. /\ g \in Conversations
        /\ g.revision = c.revision + 1 /\ g.tag = "starting"
        /\ g.artifact = c.artifact /\ g.target = c.target
        /\ g.transport = t /\ g.startDeadlineAt # None
    BY <2>3, <1>0 DEF Conversations
  <2>5. c.target = "none"
    BY DEF Consistent, ConsistentTag, CreateConversation
  <2>6. Preserved(c, g)
    BY <2>2, <2>4, <2>5, <1>1
    DEF Preserved, Consistent, ConsistentTag, ConsistentParts
  <2>. QED
    BY <2>6, <1>2 DEF FromCreated, d, t, f, g
<1>3. CASE e.type = "EndRequested"
  <2>1. /\ Enter(c, "cancelled") \in Conversations
        /\ Enter(c, "cancelled").revision = c.revision + 1
        /\ Enter(c, "cancelled").tag = "cancelled"
        /\ Enter(c, "cancelled").transport = c.transport
        /\ Enter(c, "cancelled").artifact = c.artifact
    BY EnterType DEF Tags
  <2>. QED
    BY <2>1, <1>1, <1>3
    DEF FromCreated, Preserved, Consistent, ConsistentTag, ConsistentParts
<1>. QED
  BY <1>0, <1>2, <1>3

(* A conversation that leaves starting or live because of its artifact     *)
(* waits for its transport, which is never over there.                     *)
LEMMA BeginFailedEndingConsistent ==
    ASSUME NEW c \in Conversations, NEW e, WellFormed(e), Consistent(c),
           c.tag \in {"starting", "live"}, e.type = "ArtifactFailed"
    PROVE  Preserved(c, BeginFailedEnding(c, e))
<1>. DEFINE d == EnterEnding(c, "fail", "artifact", e.deadlineAt)
            a == FailedArtifact(c, e.recordingId)
            f == [d EXCEPT !.artifact = a]
<1>0. e.deadlineAt \in MaybeTime /\ e.deadlineAt # None
  BY DEF WellFormed, NeedsDeadline
<1>1. /\ d \in Conversations
      /\ d.revision = c.revision + 1 /\ d.tag = "ending"
      /\ d.transport = c.transport /\ d.target = "fail"
      /\ d.deadlineAt = e.deadlineAt
  <2>1. "fail" \in Targets /\ "artifact" \in Stages
    BY DEF Targets, Stages
  <2>. QED
    BY <1>0, <2>1, EnterEndingType
<1>2. a \in Artifacts /\ a.status = "failed"
  BY FailedArtifactType DEF WellFormed
<1>. HIDE DEF d, a
<1>3. /\ f \in Conversations
      /\ f.revision = c.revision + 1 /\ f.tag = "ending"
      /\ f.transport = c.transport /\ f.target = "fail"
      /\ f.deadlineAt = e.deadlineAt /\ f.artifact = a
  BY <1>1, <1>2, WithArtifact
<1>. HIDE DEF f
<1>4. c.transport.status \in {"connecting", "connected", "reconnecting"}
  BY DEF Consistent, ConsistentTag
<1>5. FinalizeIfReady(f) = f
  BY <1>3, <1>4 DEF FinalizeIfReady, IsTransportTerminal
<1>6. Preserved(c, f)
  BY <1>0, <1>2, <1>3, <1>4
  DEF Preserved, Consistent, ConsistentTag, ConsistentParts
<1>. QED
  BY <1>5, <1>6 DEF BeginFailedEnding, d, a, f

(* Every direct failure leaves a finished transport behind.                *)
LEMMA EnterFailedConsistent ==
    ASSUME NEW c \in Conversations, Consistent(c), NEW stage \in Stages,
           NEW t \in Transports, IsTransportTerminal(t)
    PROVE  Preserved(c, EnterFailed(c, stage, t))
<1>1. /\ EnterFailed(c, stage, t) \in Conversations
      /\ EnterFailed(c, stage, t).revision = c.revision + 1
      /\ EnterFailed(c, stage, t).tag = "failed"
      /\ EnterFailed(c, stage, t).transport = t
      /\ EnterFailed(c, stage, t).artifact = c.artifact
  BY EnterFailedType
<1>. QED
  BY <1>1 DEF Preserved, Consistent, ConsistentTag, ConsistentParts, IsTransportTerminal

(* A revision with one new part.                                           *)
LEMMA RevisedTransport ==
    ASSUME NEW c \in Conversations, NEW t \in Transports
    PROVE  /\ [Revise(c) EXCEPT !.transport = t] \in Conversations
           /\ [Revise(c) EXCEPT !.transport = t].revision = c.revision + 1
           /\ [Revise(c) EXCEPT !.transport = t].tag = c.tag
           /\ [Revise(c) EXCEPT !.transport = t].transport = t
           /\ [Revise(c) EXCEPT !.transport = t].artifact = c.artifact
           /\ [Revise(c) EXCEPT !.transport = t].target = c.target
           /\ [Revise(c) EXCEPT !.transport = t].startDeadlineAt = c.startDeadlineAt
           /\ [Revise(c) EXCEPT !.transport = t].maximumEndAt = c.maximumEndAt
           /\ [Revise(c) EXCEPT !.transport = t].deadlineAt = c.deadlineAt
<1>. DEFINE f == Revise(c)
<1>1. /\ f \in Conversations
      /\ f.revision = c.revision + 1 /\ f.tag = c.tag
      /\ f.artifact = c.artifact /\ f.target = c.target
      /\ f.startDeadlineAt = c.startDeadlineAt
      /\ f.maximumEndAt = c.maximumEndAt
      /\ f.deadlineAt = c.deadlineAt
  BY ReviseType
<1>. HIDE DEF f
<1>. DEFINE d == [f EXCEPT !.transport = t]
<1>2. /\ d \in Conversations
      /\ d.revision = f.revision /\ d.tag = f.tag
      /\ d.transport = t /\ d.artifact = f.artifact
      /\ d.target = f.target
      /\ d.startDeadlineAt = f.startDeadlineAt
      /\ d.maximumEndAt = f.maximumEndAt
      /\ d.deadlineAt = f.deadlineAt
  BY <1>1, WithTransport
<1>. QED
  BY <1>1, <1>2 DEF f

LEMMA RevisedArtifact ==
    ASSUME NEW c \in Conversations, NEW a \in Artifacts
    PROVE  /\ [Revise(c) EXCEPT !.artifact = a] \in Conversations
           /\ [Revise(c) EXCEPT !.artifact = a].revision = c.revision + 1
           /\ [Revise(c) EXCEPT !.artifact = a].tag = c.tag
           /\ [Revise(c) EXCEPT !.artifact = a].artifact = a
           /\ [Revise(c) EXCEPT !.artifact = a].transport = c.transport
           /\ [Revise(c) EXCEPT !.artifact = a].target = c.target
           /\ [Revise(c) EXCEPT !.artifact = a].startDeadlineAt = c.startDeadlineAt
           /\ [Revise(c) EXCEPT !.artifact = a].maximumEndAt = c.maximumEndAt
           /\ [Revise(c) EXCEPT !.artifact = a].deadlineAt = c.deadlineAt
<1>. DEFINE f == Revise(c)
<1>1. /\ f \in Conversations
      /\ f.revision = c.revision + 1 /\ f.tag = c.tag
      /\ f.transport = c.transport /\ f.target = c.target
      /\ f.startDeadlineAt = c.startDeadlineAt
      /\ f.maximumEndAt = c.maximumEndAt
      /\ f.deadlineAt = c.deadlineAt
  BY ReviseType
<1>. HIDE DEF f
<1>. DEFINE d == [f EXCEPT !.artifact = a]
<1>2. /\ d \in Conversations
      /\ d.revision = f.revision /\ d.tag = f.tag
      /\ d.artifact = a /\ d.transport = f.transport
      /\ d.target = f.target
      /\ d.startDeadlineAt = f.startDeadlineAt
      /\ d.maximumEndAt = f.maximumEndAt
      /\ d.deadlineAt = f.deadlineAt
  BY <1>1, WithArtifact
<1>. QED
  BY <1>1, <1>2 DEF f

(* Starting: the session connects and the capture begins in either order,  *)
(* and only both together open the way to live.                            *)
LEMMA FromStartingConsistent ==
    ASSUME NEW c \in Conversations, NEW e, WellFormed(e), Consistent(c),
           c.tag = "starting", Accepts(c, e)
    PROVE  Preserved(c, FromStarting(c, e))
<1>0. /\ e.type \in AllowedEvents("starting")
      /\ GuardHolds(c, e)
      /\ e.deadlineAt \in MaybeTime /\ e.epoch \in Nat
      /\ e.recordingId \in RecordingIds \cup {None}
  BY DEF Accepts, Outcome, WellFormed
<1>1. /\ c.transport.status \in {"connecting", "connected"}
      /\ c.artifact.status \in {"pending", "recording"}
      /\ c.target = "none" /\ c.startDeadlineAt # None
      /\ ConsistentParts(c)
  BY DEF Consistent, ConsistentTag
<1>2. CASE e.type = "TransportConnected"
  <2>. DEFINE t == Transport("connected", e.epoch)
              d == [Revise(c) EXCEPT !.transport = t]
  <2>1. t \in Transports /\ t.status = "connected"
    BY <1>0, TransportType
  <2>. HIDE DEF t
  <2>2. /\ d \in Conversations
        /\ d.revision = c.revision + 1 /\ d.tag = c.tag
        /\ d.transport = t /\ d.artifact = c.artifact
        /\ d.target = c.target /\ d.startDeadlineAt = c.startDeadlineAt
    BY <2>1, RevisedTransport
  <2>. HIDE DEF d
  <2>3. Preserved(c, d)
    BY <1>1, <2>1, <2>2
    DEF Preserved, Consistent, ConsistentTag, ConsistentParts
  <2>. QED
    BY <1>2, <2>3 DEF FromStarting, d, t
<1>3. CASE e.type = "RecordingStarted"
  <2>. DEFINE a == Artifact("recording", e.recordingId, None)
              d == [Revise(c) EXCEPT !.artifact = a]
  <2>0. e.recordingId # None
    BY <1>3 DEF WellFormed, NeedsRecording
  <2>1. /\ a \in Artifacts /\ a.status = "recording"
        /\ a.recordingId = e.recordingId
    BY <1>0, ArtifactType
  <2>. HIDE DEF a
  <2>2. /\ d \in Conversations
        /\ d.revision = c.revision + 1 /\ d.tag = c.tag
        /\ d.transport = c.transport /\ d.artifact = a
        /\ d.target = c.target /\ d.startDeadlineAt = c.startDeadlineAt
    BY <2>1, RevisedArtifact
  <2>. HIDE DEF d
  <2>3. Preserved(c, d)
    BY <1>1, <2>0, <2>1, <2>2
    DEF Preserved, Consistent, ConsistentTag, ConsistentParts
  <2>. QED
    BY <1>3, <2>3 DEF FromStarting, d, a
<1>4. CASE e.type = "SessionStarted"
  <2>. DEFINE f == Enter(c, "live")
              d == [f EXCEPT !.maximumEndAt = e.deadlineAt]
  <2>0. /\ c.transport.status = "connected"
        /\ c.artifact.status = "recording"
        /\ e.deadlineAt # None
    BY <1>0, <1>4 DEF GuardHolds, WellFormed, NeedsDeadline
  <2>1. /\ f \in Conversations
        /\ f.revision = c.revision + 1 /\ f.tag = "live"
        /\ f.transport = c.transport /\ f.artifact = c.artifact
        /\ f.target = c.target
    BY EnterType DEF Tags
  <2>. HIDE DEF f
  <2>2. /\ d \in Conversations
        /\ d.revision = c.revision + 1 /\ d.tag = "live"
        /\ d.transport = c.transport /\ d.artifact = c.artifact
        /\ d.target = c.target /\ d.maximumEndAt = e.deadlineAt
    BY <1>0, <2>1 DEF Conversations
  <2>. HIDE DEF d
  <2>3. Preserved(c, d)
    BY <1>1, <2>0, <2>2
    DEF Preserved, Consistent, ConsistentTag, ConsistentParts
  <2>. QED
    BY <1>4, <2>3 DEF FromStarting, d, f
<1>5. CASE e.type = "EndRequested"
  <2>. DEFINE d == EnterEnding(c, "cancel", "none", e.deadlineAt)
  <2>0. /\ e.deadlineAt # None
        /\ "cancel" \in Targets /\ "none" \in Stages
    BY <1>5 DEF WellFormed, NeedsDeadline, Targets, Stages
  <2>1. /\ d \in Conversations
        /\ d.revision = c.revision + 1 /\ d.tag = "ending"
        /\ d.transport = c.transport /\ d.artifact = c.artifact
        /\ d.target = "cancel" /\ d.deadlineAt = e.deadlineAt
    BY <1>0, <2>0, EnterEndingType
  <2>. HIDE DEF d
  <2>2. Preserved(c, d)
    BY <1>1, <2>0, <2>1
    DEF Preserved, Consistent, ConsistentTag, ConsistentParts
  <2>. QED
    BY <1>5, <2>2 DEF FromStarting, d
<1>6. CASE e.type \in {"FatalTransportError", "StartingDeadlineExceeded"}
  <2>1. /\ FailedTransport(c) \in Transports
        /\ IsTransportTerminal(FailedTransport(c))
    BY FailedTransportType DEF IsTransportTerminal
  <2>2. "transport" \in Stages /\ "starting" \in Stages
    BY DEF Stages
  <2>3. /\ Preserved(c, EnterFailed(c, "transport", FailedTransport(c)))
        /\ Preserved(c, EnterFailed(c, "starting", FailedTransport(c)))
    BY <2>1, <2>2, EnterFailedConsistent
  <2>. QED
    BY <1>6, <2>3 DEF FromStarting
<1>7. CASE e.type = "SessionClosed"
  <2>. DEFINE t == Transport("closed", e.epoch)
  <2>1. t \in Transports /\ t.status = "closed" /\ "starting" \in Stages
    BY <1>0, TransportType DEF Stages
  <2>. HIDE DEF t
  <2>2. Preserved(c, EnterFailed(c, "starting", t))
    BY <2>1, EnterFailedConsistent DEF IsTransportTerminal
  <2>. QED
    BY <1>7, <2>2 DEF FromStarting, t
<1>8. CASE e.type = "ArtifactFailed"
  BY <1>8, BeginFailedEndingConsistent DEF FromStarting
<1>. QED
  BY <1>0, <1>2, <1>3, <1>4, <1>5, <1>6, <1>7, <1>8 DEF AllowedEvents

(* Live: the transport may break and come back, one epoch on; the          *)
(* recording goes on.                                                      *)
LEMMA FromLiveConsistent ==
    ASSUME NEW c \in Conversations, NEW e, WellFormed(e), Consistent(c),
           c.tag = "live", Accepts(c, e)
    PROVE  Preserved(c, FromLive(c, e))
<1>0. /\ e.type \in AllowedEvents("live")
      /\ e.deadlineAt \in MaybeTime /\ e.epoch \in Nat
  BY DEF Accepts, Outcome, WellFormed
<1>1. /\ c.transport.status \in {"connected", "reconnecting"}
      /\ c.artifact.status = "recording"
      /\ c.target = "none" /\ c.maximumEndAt # None
      /\ ConsistentParts(c)
  BY DEF Consistent, ConsistentTag
<1>2. CASE e.type \in {"TransportInterrupted", "TransportConnected"}
  <2>. DEFINE t == IF e.type = "TransportInterrupted" THEN Interrupted(c, e)
                   ELSE Transport("connected", e.epoch)
              d == [Revise(c) EXCEPT !.transport = t]
  <2>1. /\ t \in Transports
        /\ t.status \in {"connected", "reconnecting"}
        /\ t.status = "reconnecting" => t.deadlineAt # None
    <3>1. CASE e.type = "TransportInterrupted"
      <4>1. /\ e.deadlineAt # None
            /\ c.transport.status = "reconnecting" => c.transport.deadlineAt # None
        BY <1>1, <3>1 DEF WellFormed, NeedsDeadline, ConsistentParts
      <4>2. /\ Interrupted(c, e) \in Transports
            /\ Interrupted(c, e).status = "reconnecting"
            /\ Interrupted(c, e).deadlineAt # None
        BY <4>1, InterruptedType
      <4>. QED
        BY <3>1, <4>2
    <3>2. CASE e.type = "TransportConnected"
      <4>1. /\ Transport("connected", e.epoch) \in Transports
            /\ Transport("connected", e.epoch).status = "connected"
        BY <1>0, TransportType
      <4>. QED
        BY <3>2, <4>1
    <3>. QED
      BY <1>2, <3>1, <3>2
  <2>. HIDE DEF t
  <2>2. /\ d \in Conversations
        /\ d.revision = c.revision + 1 /\ d.tag = c.tag
        /\ d.transport = t /\ d.artifact = c.artifact
        /\ d.target = c.target /\ d.maximumEndAt = c.maximumEndAt
    BY <2>1, RevisedTransport
  <2>. HIDE DEF d
  <2>3. Preserved(c, d)
    BY <1>1, <2>1, <2>2
    DEF Preserved, Consistent, ConsistentTag, ConsistentParts
  <2>. QED
    BY <1>2, <2>3 DEF FromLive, d, t
<1>3. CASE e.type \in {"EndRequested", "TimeLimitReached"}
  <2>. DEFINE d == EnterEnding(c, "complete", "none", e.deadlineAt)
  <2>0. /\ e.deadlineAt # None
        /\ "complete" \in Targets /\ "none" \in Stages
    BY <1>3 DEF WellFormed, NeedsDeadline, Targets, Stages
  <2>1. /\ d \in Conversations
        /\ d.revision = c.revision + 1 /\ d.tag = "ending"
        /\ d.transport = c.transport /\ d.artifact = c.artifact
        /\ d.target = "complete" /\ d.deadlineAt = e.deadlineAt
    BY <1>0, <2>0, EnterEndingType
  <2>. HIDE DEF d
  <2>2. Preserved(c, d)
    BY <1>1, <2>0, <2>1
    DEF Preserved, Consistent, ConsistentTag, ConsistentParts
  <2>. QED
    BY <1>3, <2>2 DEF FromLive, d
<1>4. CASE e.type \in {"FatalTransportError", "RecoveryDeadlineExceeded"}
  <2>1. /\ FailedTransport(c) \in Transports
        /\ IsTransportTerminal(FailedTransport(c))
        /\ "transport" \in Stages
    BY FailedTransportType DEF IsTransportTerminal, Stages
  <2>2. Preserved(c, EnterFailed(c, "transport", FailedTransport(c)))
    BY <2>1, EnterFailedConsistent
  <2>. QED
    BY <1>4, <2>2 DEF FromLive
<1>5. CASE e.type = "SessionClosed"
  <2>. DEFINE t == Transport("closed", e.epoch)
  <2>1. t \in Transports /\ t.status = "closed" /\ "transport" \in Stages
    BY <1>0, TransportType DEF Stages
  <2>. HIDE DEF t
  <2>2. Preserved(c, EnterFailed(c, "transport", t))
    BY <2>1, EnterFailedConsistent DEF IsTransportTerminal
  <2>. QED
    BY <1>5, <2>2 DEF FromLive, t
<1>6. CASE e.type = "ArtifactFailed"
  BY <1>6, BeginFailedEndingConsistent DEF FromLive
<1>. QED
  BY <1>0, <1>2, <1>3, <1>4, <1>5, <1>6 DEF AllowedEvents

(* A conversation in its shutdown, before the check that may finish it: a  *)
(* failed transport means a failing shutdown.                              *)
LEMMA FinalizeConsistent ==
    ASSUME NEW f \in Conversations, f.tag = "ending", f.target # "none",
           f.target = "complete" =>
              f.artifact.status \in {"recording", "uploading", "ready"},
           f.transport.status # "idle",
           f.transport.status = "failed" => f.target = "fail",
           f.deadlineAt # None, ConsistentParts(f)
    PROVE  /\ FinalizeIfReady(f) \in Conversations
           /\ FinalizeIfReady(f).revision = f.revision
           /\ Consistent(FinalizeIfReady(f))
<1>. DEFINE d == FinalizeIfReady(f)
<1>1. /\ d \in Conversations
      /\ d.revision = f.revision
      /\ d.transport = f.transport /\ d.artifact = f.artifact
      /\ d.target = f.target /\ d.deadlineAt = f.deadlineAt
      /\ d.tag = IF /\ IsTransportTerminal(f.transport)
                    /\ f.target = "complete" => f.artifact.status = "ready"
                 THEN TerminalTagOf(f.target) ELSE f.tag
  BY FinalizeType
<1>2. /\ f.transport.status \in {"connecting", "connected", "reconnecting",
                                 "closed", "failed"}
      /\ f.target \in {"complete", "cancel", "fail"}
  BY DEF Conversations, Transports, Targets
<1>. HIDE DEF d
<1>3. ConsistentParts(d)
  BY <1>1 DEF ConsistentParts
<1>4. ConsistentTag(d)
  <2>1. CASE /\ IsTransportTerminal(f.transport)
             /\ f.target = "complete" => f.artifact.status = "ready"
    BY <1>1, <1>2, <2>1 DEF ConsistentTag, TerminalTagOf, IsTransportTerminal
  <2>2. CASE ~(/\ IsTransportTerminal(f.transport)
               /\ f.target = "complete" => f.artifact.status = "ready")
    BY <1>1, <1>2, <2>2 DEF ConsistentTag, IsTransportTerminal
  <2>. QED
    BY <2>1, <2>2
<1>. QED
  BY <1>1, <1>3, <1>4 DEF Consistent, d

(* A shutdown that turns to failing, with a failed part.                   *)
LEMMA FailEndingConsistent ==
    ASSUME NEW c \in Conversations, Consistent(c), c.tag = "ending",
           NEW e, e.deadlineAt \in MaybeTime, e.deadlineAt # None,
           NEW stage \in Stages,
           NEW a \in Artifacts, a.status = "failed",
           NEW t \in Transports, t.status = "failed"
    PROVE  /\ Preserved(c, FinalizeIfReady([FailEnding(c, e, stage) EXCEPT !.artifact = a]))
           /\ Preserved(c, FinalizeIfReady([FailEnding(c, e, stage) EXCEPT !.transport = t]))
<1>. DEFINE d == FailEnding(c, e, stage)
<1>1. /\ d \in Conversations
      /\ d.revision = c.revision + 1 /\ d.tag = "ending"
      /\ d.transport = c.transport /\ d.artifact = c.artifact
      /\ d.target = "fail" /\ d.deadlineAt = e.deadlineAt
  BY FailEndingType
<1>2. /\ c.transport.status \in {"connecting", "connected", "reconnecting", "closed"}
      /\ ConsistentParts(c)
  BY DEF Consistent, ConsistentTag
<1>. HIDE DEF d
<1>. DEFINE f == [d EXCEPT !.artifact = a]
            g == [d EXCEPT !.transport = t]
<1>3. /\ f \in Conversations
      /\ f.revision = c.revision + 1 /\ f.tag = "ending"
      /\ f.transport = c.transport /\ f.artifact = a
      /\ f.target = "fail" /\ f.deadlineAt = e.deadlineAt
  BY <1>1, WithArtifact
<1>4. /\ g \in Conversations
      /\ g.revision = c.revision + 1 /\ g.tag = "ending"
      /\ g.transport = t /\ g.artifact = c.artifact
      /\ g.target = "fail" /\ g.deadlineAt = e.deadlineAt
  BY <1>1, WithTransport
<1>. HIDE DEF f, g
<1>5. Preserved(c, FinalizeIfReady(f))
  <2>1. ConsistentParts(f)
    BY <1>2, <1>3 DEF ConsistentParts
  <2>. QED
    BY <1>2, <1>3, <2>1, FinalizeConsistent DEF Preserved
<1>6. Preserved(c, FinalizeIfReady(g))
  <2>1. ConsistentParts(g)
    BY <1>2, <1>4 DEF ConsistentParts
  <2>. QED
    BY <1>2, <1>4, <2>1, FinalizeConsistent DEF Preserved
<1>. QED
  BY <1>5, <1>6 DEF d, f, g

(* The ending deadline, with the transport over and with it still open.    *)
LEMMA EndingExpiredConsistent ==
    ASSUME NEW c \in Conversations, Consistent(c), c.tag = "ending"
    PROVE  Preserved(c, EndingExpired(c))
<1>1. CASE IsTransportTerminal(c.transport)
  <2>. DEFINE d == EnterFailed(c, "artifact", c.transport)
              a == IF c.artifact.status = "ready" THEN c.artifact
                   ELSE FailedArtifact(c, None)
              f == [d EXCEPT !.artifact = a]
  <2>1. c.transport \in Transports /\ c.artifact \in Artifacts /\ "artifact" \in Stages
    BY DEF Conversations, Stages
  <2>2. /\ d \in Conversations
        /\ d.revision = c.revision + 1 /\ d.tag = "failed"
        /\ d.transport = c.transport
    BY <2>1, EnterFailedType
  <2>3. /\ FailedArtifact(c, None) \in Artifacts
        /\ FailedArtifact(c, None).status = "failed"
    BY FailedArtifactType
  <2>4. /\ a \in Artifacts
        /\ a = c.artifact \/ a.status = "failed"
    BY <2>1, <2>3
  <2>. HIDE DEF d, a
  <2>5. /\ f \in Conversations
        /\ f.revision = c.revision + 1 /\ f.tag = "failed"
        /\ f.transport = c.transport /\ f.artifact = a
    BY <2>2, <2>4, WithArtifact
  <2>. HIDE DEF f
  <2>6. Preserved(c, f)
    BY <1>1, <2>4, <2>5 DEF Preserved, Consistent, ConsistentTag, ConsistentParts
  <2>. QED
    BY <1>1, <2>6 DEF EndingExpired, d, a, f
<1>2. CASE ~IsTransportTerminal(c.transport)
  <2>1. /\ FailedTransport(c) \in Transports
        /\ IsTransportTerminal(FailedTransport(c))
        /\ "ending" \in Stages
    BY FailedTransportType DEF IsTransportTerminal, Stages
  <2>. QED
    BY <1>2, <2>1, EnterFailedConsistent DEF EndingExpired
<1>. QED
  BY <1>1, <1>2

(* Ending: the session closes and the upload is verified in either order.  *)
LEMMA FromEndingConsistent ==
    ASSUME NEW c \in Conversations, NEW e, WellFormed(e), Consistent(c),
           c.tag = "ending", Accepts(c, e)
    PROVE  Preserved(c, FromEnding(c, e))
<1>0. /\ e.type \in AllowedEvents("ending")
      /\ GuardHolds(c, e)
      /\ e.deadlineAt \in MaybeTime /\ e.epoch \in Nat
      /\ e.recordingId \in RecordingIds \cup {None}
      /\ e.expectedR2Key \in R2Keys \cup {None}
  BY DEF Accepts, Outcome, WellFormed
<1>1. /\ c.transport.status \in {"connecting", "connected", "reconnecting", "closed"}
      /\ c.target # "none"
      /\ c.target = "complete" =>
            c.artifact.status \in {"recording", "uploading", "ready"}
      /\ c.transport.status = "closed" =>
            c.target = "complete" /\ c.artifact.status # "ready"
      /\ c.deadlineAt # None
      /\ ConsistentParts(c)
  BY DEF Consistent, ConsistentTag
<1>a. /\ FailedTransport(c) \in Transports
      /\ FailedTransport(c).status = "failed"
  BY FailedTransportType
<1>b. /\ FailedArtifact(c, e.recordingId) \in Artifacts
      /\ FailedArtifact(c, e.recordingId).status = "failed"
      /\ FailedArtifact(c, None) \in Artifacts
      /\ FailedArtifact(c, None).status = "failed"
  BY <1>0, FailedArtifactType
<1>c. "transport" \in Stages /\ "artifact" \in Stages
  BY DEF Stages
<1>2. CASE e.type = "TransportConnected"
  <2>. DEFINE t == Transport("connected", e.epoch)
              d == [Revise(c) EXCEPT !.transport = t]
  <2>1. t \in Transports /\ t.status = "connected"
    BY <1>0, TransportType
  <2>. HIDE DEF t
  <2>2. /\ d \in Conversations
        /\ d.revision = c.revision + 1 /\ d.tag = c.tag
        /\ d.transport = t /\ d.artifact = c.artifact
        /\ d.target = c.target /\ d.deadlineAt = c.deadlineAt
    BY <2>1, RevisedTransport
  <2>. HIDE DEF d
  <2>3. Preserved(c, d)
    BY <1>1, <2>1, <2>2
    DEF Preserved, Consistent, ConsistentTag, ConsistentParts
  <2>. QED
    BY <1>2, <2>3 DEF FromEnding, d, t
<1>3. CASE e.type = "SessionClosed"
  <2>. DEFINE t == Transport("closed", e.epoch)
              d == [Revise(c) EXCEPT !.transport = t]
  <2>1. t \in Transports /\ t.status = "closed"
    BY <1>0, TransportType
  <2>. HIDE DEF t
  <2>2. /\ d \in Conversations
        /\ d.revision = c.revision + 1 /\ d.tag = c.tag
        /\ d.transport = t /\ d.artifact = c.artifact
        /\ d.target = c.target /\ d.deadlineAt = c.deadlineAt
    BY <2>1, RevisedTransport
  <2>. HIDE DEF d
  <2>3. ConsistentParts(d)
    BY <1>1, <2>1, <2>2 DEF ConsistentParts
  <2>4. Preserved(c, FinalizeIfReady(d))
    BY <1>1, <2>1, <2>2, <2>3, FinalizeConsistent DEF Preserved
  <2>. QED
    BY <1>3, <2>4 DEF FromEnding, d, t
<1>4. CASE e.type = "RecordingUploadStarted"
  <2>. DEFINE a == Uploading(e.recordingId, e.expectedR2Key, e.deadlineAt)
              d == [Revise(c) EXCEPT !.artifact = a]
  <2>0. e.recordingId # None /\ e.deadlineAt # None
    BY <1>4 DEF WellFormed, NeedsRecording, NeedsDeadline
  <2>1. /\ a \in Artifacts /\ a.status = "uploading"
        /\ a.recordingId = e.recordingId /\ a.deadlineAt = e.deadlineAt
    BY <1>0 DEF Uploading, Artifacts
  <2>. HIDE DEF a
  <2>2. /\ d \in Conversations
        /\ d.revision = c.revision + 1 /\ d.tag = c.tag
        /\ d.transport = c.transport /\ d.artifact = a
        /\ d.target = c.target /\ d.deadlineAt = c.deadlineAt
    BY <2>1, RevisedArtifact
  <2>. HIDE DEF d
  <2>3. Preserved(c, d)
    BY <1>1, <2>0, <2>1, <2>2
    DEF Preserved, Consistent, ConsistentTag, ConsistentParts
  <2>. QED
    BY <1>4, <2>3 DEF FromEnding, d, a
<1>5. CASE e.type = "RecordingArtifactVerified"
  <2>. DEFINE a == Artifact("ready", e.recordingId, e.expectedR2Key)
              d == [Revise(c) EXCEPT !.artifact = a]
  <2>0. e.recordingId # None
    BY <1>5 DEF WellFormed, NeedsRecording
  <2>1. /\ a \in Artifacts /\ a.status = "ready"
        /\ a.recordingId = e.recordingId
    BY <1>0, ArtifactType
  <2>. HIDE DEF a
  <2>2. /\ d \in Conversations
        /\ d.revision = c.revision + 1 /\ d.tag = c.tag
        /\ d.transport = c.transport /\ d.artifact = a
        /\ d.target = c.target /\ d.deadlineAt = c.deadlineAt
    BY <2>1, RevisedArtifact
  <2>. HIDE DEF d
  <2>3. ConsistentParts(d)
    BY <1>1, <2>0, <2>1, <2>2 DEF ConsistentParts
  <2>4. Preserved(c, FinalizeIfReady(d))
    BY <1>1, <2>1, <2>2, <2>3, FinalizeConsistent DEF Preserved
  <2>. QED
    BY <1>5, <2>4 DEF FromEnding, d, a
<1>6. CASE e.type = "ArtifactFailed"
  <2>1. e.deadlineAt # None
    BY <1>6 DEF WellFormed, NeedsDeadline
  <2>. QED
    BY <1>0, <1>6, <1>a, <1>b, <1>c, <2>1, FailEndingConsistent DEF FromEnding
<1>7. CASE e.type = "FatalTransportError"
  <2>1. e.deadlineAt # None
    BY <1>7 DEF WellFormed, NeedsDeadline
  <2>. QED
    BY <1>0, <1>7, <1>a, <1>b, <1>c, <2>1, FailEndingConsistent DEF FromEnding
<1>8. CASE e.type = "ArtifactDeadlineExceeded"
  <2>1. e.deadlineAt # None
    BY <1>8 DEF WellFormed, NeedsDeadline
  <2>. QED
    BY <1>0, <1>8, <1>a, <1>b, <1>c, <2>1, FailEndingConsistent DEF FromEnding
<1>9. CASE e.type = "EndingDeadlineExceeded"
  BY <1>9, EndingExpiredConsistent DEF FromEnding
<1>. QED
  BY <1>0, <1>2, <1>3, <1>4, <1>5, <1>6, <1>7, <1>8, <1>9 DEF AllowedEvents

(* Every accepted event takes a consistent conversation to a consistent    *)
(* one that is exactly one revision later.                                 *)
THEOREM TransitionConsistent ==
    ASSUME NEW c \in Conversations, NEW e, WellFormed(e), Consistent(c),
           Accepts(c, e)
    PROVE  Preserved(c, Transition(c, e))
<1>1. c.tag \in {"created", "starting", "live", "ending"}
  BY DEF Accepts, Outcome, AllowedEvents, Conversations, Tags
<1>. QED
  BY <1>1, FromCreatedConsistent, FromStartingConsistent, FromLiveConsistent,
     FromEndingConsistent
  DEF Transition

-----------------------------------------------------------------------------
(***************************************************************************)
(* Deadlines                                                               *)
(***************************************************************************)

(* Which deadline an unfinished conversation waits for.                    *)
LEMMA EarliestDeadlineOfActive ==
    ASSUME NEW c \in Conversations, Consistent(c), c.tag \in ActiveTags
    PROVE  LET kind == EarliestDeadline(c)
           IN  /\ kind \in DeadlineKinds
               /\ DeadlineRuns(c, kind)
               /\ c.tag = "starting" => kind = "starting"
               /\ c.tag = "live" => kind \in {"live", "reconnect"}
               /\ c.tag = "ending" => kind \in {"ending", "artifact"}
<1>1. CASE c.tag = "starting"
  <2>1. ~DeadlineRuns(c, "artifact") /\ DeadlineRuns(c, "starting")
    BY <1>1 DEF DeadlineRuns, Consistent, ConsistentTag
  <2>2. Earlier(c, "starting", "artifact") = "starting"
    BY <2>1 DEF Earlier
  <2>. QED
    BY <1>1, <2>1, <2>2 DEF EarliestDeadline, DeadlineKinds
<1>2. CASE c.tag = "live"
  <2>. DEFINE first == Earlier(c, "reconnect", "live")
  <2>1. ~DeadlineRuns(c, "artifact") /\ DeadlineRuns(c, "live")
    BY <1>2 DEF DeadlineRuns, Consistent, ConsistentTag
  <2>2. first \in {"live", "reconnect"} /\ DeadlineRuns(c, first)
    BY <2>1 DEF Earlier
  <2>. HIDE DEF first
  <2>3. Earlier(c, first, "artifact") = first
    BY <2>1, <2>2 DEF Earlier
  <2>4. EarliestDeadline(c) = first
    BY <1>2, <2>2, <2>3 DEF EarliestDeadline, first
  <2>. QED
    BY <1>2, <2>2, <2>4 DEF DeadlineKinds
<1>3. CASE c.tag = "ending"
  <2>. DEFINE kind == Earlier(c, "ending", "artifact")
  <2>1. DeadlineRuns(c, "ending") \/ DeadlineRuns(c, "artifact")
    BY <1>3
    DEF DeadlineRuns, Consistent, ConsistentTag, IsTransportTerminal, WaitingForUpload
  <2>2. kind \in {"ending", "artifact"} /\ DeadlineRuns(c, kind)
    BY <2>1 DEF Earlier
  <2>. HIDE DEF kind
  <2>3. EarliestDeadline(c) = kind
    BY <1>3, <2>2 DEF EarliestDeadline, kind
  <2>. QED
    BY <1>3, <2>2, <2>3 DEF DeadlineKinds
<1>. QED
  BY <1>1, <1>2, <1>3 DEF ActiveTags

(* A running deadline is a time.                                           *)
LEMMA RunningDeadlineIsTime ==
    ASSUME NEW c \in Conversations, Consistent(c),
           NEW kind \in DeadlineKinds, DeadlineRuns(c, kind)
    PROVE  DeadlineAt(c, kind) \in Nat
<1>1. /\ c.startDeadlineAt \in MaybeTime /\ c.transport.deadlineAt \in MaybeTime
      /\ c.maximumEndAt \in MaybeTime /\ c.deadlineAt \in MaybeTime
      /\ c.artifact.deadlineAt \in MaybeTime
  BY DEF Conversations, Transports, Artifacts
<1>. QED
  BY <1>1
  DEF DeadlineKinds, DeadlineRuns, DeadlineAt, Consistent, ConsistentTag,
      ConsistentParts, MaybeTime

(* An unfinished conversation always has a deadline; another one may.      *)
THEOREM ActiveHasDeadline ==
    ASSUME NEW c \in Conversations, Consistent(c), c.tag \in ActiveTags
    PROVE  DeadlineForState(c) \in Nat
<1>. DEFINE kind == EarliestDeadline(c)
<1>1. kind \in DeadlineKinds /\ DeadlineRuns(c, kind)
  BY EarliestDeadlineOfActive
<1>2. DeadlineAt(c, kind) \in Nat
  BY <1>1, RunningDeadlineIsTime
<1>3. kind # "none"
  BY <1>1 DEF DeadlineKinds
<1>. QED
  BY <1>2, <1>3 DEF DeadlineForState

LEMMA DeadlineType ==
    ASSUME NEW c \in Conversations, Consistent(c)
    PROVE  DeadlineForState(c) \in MaybeTime
<1>1. CASE c.tag \in ActiveTags
  BY <1>1, ActiveHasDeadline DEF MaybeTime
<1>2. CASE c.tag \notin ActiveTags
  <2>. DEFINE kind == Earlier(c, "ending", "artifact")
  <2>1. kind \in DeadlineKinds
    BY DEF Earlier, DeadlineKinds
  <2>. HIDE DEF kind
  <2>2. EarliestDeadline(c) = IF DeadlineRuns(c, kind) THEN kind ELSE "none"
    BY <1>2 DEF EarliestDeadline, ActiveTags, kind
  <2>3. CASE DeadlineRuns(c, kind)
    BY <2>1, <2>2, <2>3, RunningDeadlineIsTime
    DEF DeadlineForState, MaybeTime, DeadlineKinds
  <2>4. CASE ~DeadlineRuns(c, kind)
    BY <2>2, <2>4 DEF DeadlineForState, MaybeTime
  <2>. QED
    BY <2>3, <2>4
<1>. QED
  BY <1>1, <1>2

(* The event made from the deadline of an unfinished conversation is one   *)
(* that conversation accepts: the two functions agree on every state.      *)
THEOREM DeadlineEventIsAccepted ==
    ASSUME NEW c \in Conversations, Consistent(c), c.tag \in ActiveTags,
           NEW graceEnd \in Nat
    PROVE  /\ Accepts(c, DeadlineEvent(c, graceEnd))
           /\ WellFormed(DeadlineEvent(c, graceEnd))
<1>. DEFINE kind == EarliestDeadline(c)
            e == DeadlineEvent(c, graceEnd)
<1>1. /\ kind \in DeadlineKinds
      /\ DeadlineRuns(c, kind)
      /\ c.tag = "starting" => kind = "starting"
      /\ c.tag = "live" => kind \in {"live", "reconnect"}
      /\ c.tag = "ending" => kind \in {"ending", "artifact"}
  BY EarliestDeadlineOfActive
<1>. HIDE DEF kind
<1>2. /\ e.type = AlarmEventType(kind)
      /\ e.epoch = 0 /\ e.recordingId = None /\ e.expectedR2Key = None
      /\ e.deadlineAt = graceEnd
  BY DEF DeadlineEvent, kind
<1>. HIDE DEF e
<1>3. e.type \in AlarmEventTypes
  BY <1>1, <1>2 DEF AlarmEventType, DeadlineKinds, AlarmEventTypes
<1>4. WellFormed(e)
  BY <1>2, <1>3, NoneAssumption
  DEF WellFormed, MaybeTime, NeedsRecording, EventTypes, AlarmEventTypes
<1>5. e.type \in AllowedEvents(c.tag)
  BY <1>1, <1>2 DEF AllowedEvents, AlarmEventType, ActiveTags
<1>6. GuardHolds(c, e)
  BY <1>1, <1>2 DEF GuardHolds, AlarmEventType, DeadlineRuns, DeadlineKinds
<1>. QED
  BY <1>4, <1>5, <1>6 DEF Accepts, Outcome, e

-----------------------------------------------------------------------------
(***************************************************************************)
(* What each handler does to the tag, the transport, the artifact and the  *)
(* target, field by field                                                  *)
(***************************************************************************)

LEMMA FromCreatedFields ==
    ASSUME NEW c \in Conversations, NEW e
    PROVE  LET d == FromCreated(c, e)
           IN  /\ d.artifact = c.artifact /\ d.target = c.target
               /\ IF e.type = "StartRequested"
                  THEN d.tag = "starting" /\ d.transport = Transport("connecting", 1)
                  ELSE d.tag = "cancelled" /\ d.transport = c.transport
BY DEF FromCreated, Enter, Conversations

LEMMA BeginFailedEndingFields ==
    ASSUME NEW c \in Conversations, NEW e,
           ~IsTransportTerminal(c.transport)
    PROVE  LET d == BeginFailedEnding(c, e)
           IN  /\ d.tag = "ending" /\ d.target = "fail"
               /\ d.transport = c.transport
               /\ d.artifact = FailedArtifact(c, e.recordingId)
BY DEF BeginFailedEnding, FinalizeIfReady, EnterEnding, Enter, Conversations

StartingFields(c, e, d) ==
    /\ e.type = "TransportConnected" =>
         /\ d.transport = Transport("connected", e.epoch)
         /\ d.tag = c.tag /\ d.artifact = c.artifact /\ d.target = c.target
    /\ e.type = "RecordingStarted" =>
         /\ d.artifact = Artifact("recording", e.recordingId, None)
         /\ d.tag = c.tag /\ d.transport = c.transport /\ d.target = c.target
    /\ e.type = "SessionStarted" =>
         /\ d.tag = "live" /\ d.transport = c.transport
         /\ d.artifact = c.artifact /\ d.target = c.target
    /\ e.type = "EndRequested" =>
         /\ d.tag = "ending" /\ d.target = "cancel"
         /\ d.transport = c.transport /\ d.artifact = c.artifact
    /\ e.type \in {"FatalTransportError", "StartingDeadlineExceeded"} =>
         /\ d.tag = "failed" /\ d.transport = FailedTransport(c)
         /\ d.artifact = c.artifact /\ d.target = c.target
    /\ e.type = "SessionClosed" =>
         /\ d.tag = "failed" /\ d.transport = Transport("closed", e.epoch)
         /\ d.artifact = c.artifact /\ d.target = c.target
    /\ e.type = "ArtifactFailed" =>
         /\ d.tag = "ending" /\ d.target = "fail"
         /\ d.transport = c.transport
         /\ d.artifact = FailedArtifact(c, e.recordingId)

LEMMA FromStartingFields ==
    ASSUME NEW c \in Conversations, NEW e,
           c.tag = "starting", ~IsTransportTerminal(c.transport)
    PROVE  StartingFields(c, e, FromStarting(c, e))
<1>1. CASE e.type = "ArtifactFailed"
  BY <1>1, BeginFailedEndingFields DEF StartingFields, FromStarting
<1>2. CASE e.type # "ArtifactFailed"
  BY <1>2 DEF StartingFields, FromStarting, Revise, Enter, EnterEnding, EnterFailed, Conversations
<1>. QED
  BY <1>1, <1>2

LiveFields(c, e, d) ==
    /\ e.type = "TransportInterrupted" =>
         /\ d.transport = Interrupted(c, e)
         /\ d.tag = c.tag /\ d.artifact = c.artifact /\ d.target = c.target
    /\ e.type = "TransportConnected" =>
         /\ d.transport = Transport("connected", e.epoch)
         /\ d.tag = c.tag /\ d.artifact = c.artifact /\ d.target = c.target
    /\ e.type \in {"EndRequested", "TimeLimitReached"} =>
         /\ d.tag = "ending" /\ d.target = "complete"
         /\ d.transport = c.transport /\ d.artifact = c.artifact
    /\ e.type \in {"FatalTransportError", "RecoveryDeadlineExceeded"} =>
         /\ d.tag = "failed" /\ d.transport = FailedTransport(c)
         /\ d.artifact = c.artifact /\ d.target = c.target
    /\ e.type = "SessionClosed" =>
         /\ d.tag = "failed" /\ d.transport = Transport("closed", e.epoch)
         /\ d.artifact = c.artifact /\ d.target = c.target
    /\ e.type = "ArtifactFailed" =>
         /\ d.tag = "ending" /\ d.target = "fail"
         /\ d.transport = c.transport
         /\ d.artifact = FailedArtifact(c, e.recordingId)

LEMMA FromLiveFields ==
    ASSUME NEW c \in Conversations, NEW e,
           c.tag = "live", ~IsTransportTerminal(c.transport)
    PROVE  LiveFields(c, e, FromLive(c, e))
<1>1. CASE e.type = "ArtifactFailed"
  BY <1>1, BeginFailedEndingFields DEF LiveFields, FromLive
<1>2. CASE e.type # "ArtifactFailed"
  BY <1>2 DEF LiveFields, FromLive, Revise, Enter, EnterEnding, EnterFailed, Conversations
<1>. QED
  BY <1>1, <1>2

(* The tag and target a shutdown step leaves behind.                       *)
Finalized(d) ==
    d.tag = IF /\ IsTransportTerminal(d.transport)
               /\ d.target = "complete" => d.artifact.status = "ready"
            THEN TerminalTagOf(d.target) ELSE "ending"

EndingFields(c, e, d) ==
    /\ e.type = "TransportConnected" =>
         /\ d.transport = Transport("connected", e.epoch)
         /\ d.tag = c.tag /\ d.artifact = c.artifact /\ d.target = c.target
    /\ e.type = "SessionClosed" =>
         /\ d.transport = Transport("closed", e.epoch)
         /\ d.artifact = c.artifact /\ d.target = c.target
         /\ Finalized(d)
    /\ e.type = "RecordingUploadStarted" =>
         /\ d.artifact = Uploading(e.recordingId, e.expectedR2Key, e.deadlineAt)
         /\ d.tag = c.tag /\ d.transport = c.transport /\ d.target = c.target
    /\ e.type = "RecordingArtifactVerified" =>
         /\ d.artifact = Artifact("ready", e.recordingId, e.expectedR2Key)
         /\ d.transport = c.transport /\ d.target = c.target
         /\ Finalized(d)
    /\ e.type = "ArtifactFailed" =>
         /\ d.artifact = FailedArtifact(c, e.recordingId)
         /\ d.transport = c.transport /\ d.target = "fail"
         /\ Finalized(d)
    /\ e.type = "FatalTransportError" =>
         /\ d.transport = FailedTransport(c)
         /\ d.artifact = c.artifact /\ d.target = "fail"
         /\ Finalized(d)
    /\ e.type = "ArtifactDeadlineExceeded" =>
         /\ d.artifact = FailedArtifact(c, None)
         /\ d.transport = c.transport /\ d.target = "fail"
         /\ Finalized(d)
    /\ e.type = "EndingDeadlineExceeded" =>
         /\ d.tag = "failed" /\ d.target = c.target
         /\ IsTransportTerminal(d.transport)
         /\ d.transport = c.transport \/ d.transport = FailedTransport(c)
         /\ \/ d.artifact = c.artifact
            \/ c.artifact.status # "ready" /\ d.artifact = FailedArtifact(c, None)

LEMMA FromEndingFields ==
    ASSUME NEW c \in Conversations, NEW e, WellFormed(e),
           c.tag = "ending"
    PROVE  EndingFields(c, e, FromEnding(c, e))
<1>1. CASE e.type \in {"TransportConnected", "RecordingUploadStarted"}
  BY <1>1 DEF EndingFields, FromEnding, Revise, Conversations
<1>2. CASE e.type = "SessionClosed"
  BY <1>2 DEF EndingFields, FromEnding, Revise, FinalizeIfReady, Finalized, Conversations
<1>3. CASE e.type = "RecordingArtifactVerified"
  BY <1>3 DEF EndingFields, FromEnding, Revise, FinalizeIfReady, Finalized, Conversations
<1>4. CASE e.type = "ArtifactFailed"
  BY <1>4 DEF EndingFields, FromEnding, FailEnding, Revise, FinalizeIfReady, Finalized, Conversations
<1>5. CASE e.type = "FatalTransportError"
  BY <1>5 DEF EndingFields, FromEnding, FailEnding, Revise, FinalizeIfReady, Finalized, Conversations
<1>6. CASE e.type = "ArtifactDeadlineExceeded"
  BY <1>6 DEF EndingFields, FromEnding, FailEnding, Revise, FinalizeIfReady, Finalized, Conversations
<1>7. CASE e.type = "EndingDeadlineExceeded"
  BY <1>7, FailedTransportType
  DEF EndingFields, FromEnding, EndingExpired, EnterFailed, Enter, Conversations, IsTransportTerminal
<1>. QED
  BY <1>1, <1>2, <1>3, <1>4, <1>5, <1>6, <1>7 DEF EndingFields

(* Which events bring a conversation to live, its artifact to uploading or *)
(* ready, its transport to closed.                                         *)
LEMMA TransitionCauses ==
    ASSUME NEW c \in Conversations, NEW e, WellFormed(e), Consistent(c),
           Accepts(c, e), NEW d, d = Transition(c, e)
    PROVE  /\ d.tag = "live" => c.tag = "live" \/ e.type = "SessionStarted"
           /\ d.target = "complete" => c.target = "complete" \/ c.tag = "live"
           /\ d.artifact.status \in {"uploading", "ready"} =>
                \/ c.artifact.status \in {"uploading", "ready"}
                \/ e.type = "RecordingUploadStarted"
           /\ d.artifact.status = "ready" =>
                \/ c.artifact.status = "ready"
                \/ e.type = "RecordingArtifactVerified"
           /\ d.transport.status = "closed" =>
                c.transport.status = "closed" \/ e.type = "SessionClosed"
<1>1. c.tag \in {"created", "starting", "live", "ending"}
  BY DEF Accepts, Outcome, AllowedEvents, Conversations, Tags
<1>2. e.type \in AllowedEvents(c.tag) /\ GuardHolds(c, e)
  BY DEF Accepts, Outcome
<1>3. CASE c.tag = "created"
  <2>1. c.target = "none" /\ c.artifact.status = "pending" /\ c.transport.status = "idle"
    BY <1>3 DEF Consistent, ConsistentTag, CreateConversation, Artifact, Transport
  <2>. QED
    BY <1>3, <2>1, FromCreatedFields DEF Transition, Transport
<1>4. CASE c.tag = "starting"
  <2>1. ~IsTransportTerminal(c.transport) /\ c.target = "none"
    BY <1>4 DEF Consistent, ConsistentTag, IsTransportTerminal
  <2>2. StartingFields(c, e, d)
    BY <1>4, <2>1, FromStartingFields DEF Transition
  <2>3. e.type \in {"TransportConnected", "RecordingStarted", "SessionStarted",
                   "EndRequested", "FatalTransportError", "SessionClosed",
                   "ArtifactFailed", "StartingDeadlineExceeded"}
    BY <1>2, <1>4 DEF AllowedEvents
  <2>4. CASE e.type \in {"TransportConnected", "RecordingStarted", "SessionStarted"}
    BY <1>4, <2>1, <2>2, <2>4 DEF StartingFields, Transport, Artifact
  <2>5. CASE e.type \in {"EndRequested", "FatalTransportError", "SessionClosed",
                        "StartingDeadlineExceeded"}
    BY <1>4, <2>1, <2>2, <2>5 DEF StartingFields, Transport, FailedTransport
  <2>6. CASE e.type = "ArtifactFailed"
    BY <1>4, <2>1, <2>2, <2>6 DEF StartingFields, Artifact, FailedArtifact
  <2>. QED
    BY <2>3, <2>4, <2>5, <2>6
<1>5. CASE c.tag = "live"
  <2>1. ~IsTransportTerminal(c.transport) /\ c.target = "none"
    BY <1>5 DEF Consistent, ConsistentTag, IsTransportTerminal
  <2>2. LiveFields(c, e, d)
    BY <1>5, <2>1, FromLiveFields DEF Transition
  <2>3. e.type \in {"TransportInterrupted", "TransportConnected",
                   "RecoveryDeadlineExceeded", "EndRequested", "TimeLimitReached",
                   "FatalTransportError", "SessionClosed", "ArtifactFailed"}
    BY <1>2, <1>5 DEF AllowedEvents
  <2>4. CASE e.type \in {"TransportInterrupted", "TransportConnected"}
    BY <1>5, <2>1, <2>2, <2>4 DEF LiveFields, Transport, Interrupted, Reconnecting
  <2>5. CASE e.type \in {"EndRequested", "FatalTransportError", "SessionClosed",
                        "TimeLimitReached", "RecoveryDeadlineExceeded"}
    BY <1>5, <2>1, <2>2, <2>5 DEF LiveFields, Transport, FailedTransport
  <2>6. CASE e.type = "ArtifactFailed"
    BY <1>5, <2>1, <2>2, <2>6 DEF LiveFields, Artifact, FailedArtifact
  <2>. QED
    BY <2>3, <2>4, <2>5, <2>6
<1>6. CASE c.tag = "ending"
  <2>1. e.type = "RecordingArtifactVerified" => c.artifact.status = "uploading"
    BY <1>2 DEF GuardHolds
  <2>2. EndingFields(c, e, d)
    BY <1>6, FromEndingFields DEF Transition
  <2>3. e.type \in {"TransportConnected", "SessionClosed", "RecordingUploadStarted",
                   "RecordingArtifactVerified", "ArtifactFailed",
                   "FatalTransportError", "EndingDeadlineExceeded",
                   "ArtifactDeadlineExceeded"}
    BY <1>2, <1>6 DEF AllowedEvents
  <2>4. d.tag = "ending" \/ d.tag \in TerminalTags
    BY <1>6, <2>2, <2>3 DEF EndingFields, Finalized, TerminalTagOf, TerminalTags
  <2>5. CASE e.type \in {"TransportConnected", "SessionClosed"}
    BY <1>6, <2>2, <2>4, <2>5 DEF EndingFields, Transport, TerminalTags
  <2>6. CASE e.type \in {"RecordingUploadStarted", "RecordingArtifactVerified"}
    BY <1>6, <2>1, <2>2, <2>4, <2>6
    DEF EndingFields, Uploading, Artifact, TerminalTags
  <2>7. CASE e.type \in {"ArtifactFailed", "ArtifactDeadlineExceeded",
                        "FatalTransportError", "EndingDeadlineExceeded"}
    BY <1>6, <2>2, <2>4, <2>7
    DEF EndingFields, FailedArtifact, Artifact, FailedTransport, Transport, TerminalTags
  <2>. QED
    BY <2>3, <2>5, <2>6, <2>7
<1>. QED
  BY <1>1, <1>3, <1>4, <1>5, <1>6

(* The same, for Transition, with what acceptance says about the event.    *)
LEMMA TransitionFields ==
    ASSUME NEW c \in Conversations, NEW e, WellFormed(e), Consistent(c),
           Accepts(c, e)
    PROVE  /\ c.tag \in {"created", "starting", "live", "ending"}
           /\ e.type \in AllowedEvents(c.tag) /\ GuardHolds(c, e)
           /\ c.tag = "starting" => StartingFields(c, e, Transition(c, e))
           /\ c.tag = "live" => LiveFields(c, e, Transition(c, e))
           /\ c.tag = "ending" => EndingFields(c, e, Transition(c, e))
<1>1. c.tag \in {"created", "starting", "live", "ending"}
  BY DEF Accepts, Outcome, AllowedEvents, Conversations, Tags
<1>2. e.type \in AllowedEvents(c.tag) /\ GuardHolds(c, e)
  BY DEF Accepts, Outcome
<1>3. c.tag \in {"starting", "live"} => ~IsTransportTerminal(c.transport)
  BY DEF Consistent, ConsistentTag, IsTransportTerminal
<1>4. c.tag = "starting" => StartingFields(c, e, Transition(c, e))
  BY <1>3, FromStartingFields DEF Transition
<1>5. c.tag = "live" => LiveFields(c, e, Transition(c, e))
  BY <1>3, FromLiveFields DEF Transition
<1>6. c.tag = "ending" => EndingFields(c, e, Transition(c, e))
  BY FromEndingFields DEF Transition
<1>. QED
  BY <1>1, <1>2, <1>4, <1>5, <1>6

(* No event moves a named recording to another one.                        *)
LEMMA RecordingKept ==
    ASSUME NEW c \in Conversations, NEW e, WellFormed(e), Consistent(c),
           Accepts(c, e), c.artifact.recordingId # None
    PROVE  Transition(c, e).artifact.recordingId = c.artifact.recordingId
<1>. DEFINE d == Transition(c, e)
<1>1. /\ c.tag \in {"created", "starting", "live", "ending"}
      /\ e.type \in AllowedEvents(c.tag) /\ GuardHolds(c, e)
      /\ c.tag = "starting" => StartingFields(c, e, d)
      /\ c.tag = "live" => LiveFields(c, e, d)
      /\ c.tag = "ending" => EndingFields(c, e, d)
  BY TransitionFields
<1>2. c.artifact.status # "pending"
  BY DEF Consistent, ConsistentParts
<1>3. FailedArtifact(c, None).recordingId = c.artifact.recordingId
  BY DEF FailedArtifact, Artifact
<1>4. e.type = "ArtifactFailed" =>
        FailedArtifact(c, e.recordingId).recordingId = c.artifact.recordingId
  BY <1>1 DEF FailedArtifact, Artifact, GuardHolds
<1>5. e.type # "RecordingStarted"
  BY <1>1, <1>2 DEF GuardHolds
<1>6. e.type \in {"RecordingUploadStarted", "RecordingArtifactVerified"} =>
        e.recordingId = c.artifact.recordingId
  BY <1>1 DEF GuardHolds, SameRecording
<1>. HIDE DEF d
<1>7. CASE c.tag = "created"
  BY <1>7, <1>2 DEF Consistent, ConsistentTag, CreateConversation, Artifact
<1>8. CASE c.tag = "starting"
  <2>1. e.type \in AllowedEvents("starting")
    BY <1>1, <1>8
  <2>2. e.type = "ArtifactFailed" \/ e.type = "RecordingStarted" \/ d.artifact = c.artifact
    BY <1>1, <1>8, <2>1 DEF StartingFields, AllowedEvents
  <2>3. e.type = "ArtifactFailed" => d.artifact = FailedArtifact(c, e.recordingId)
    BY <1>1, <1>8 DEF StartingFields
  <2>. QED
    BY <1>4, <1>5, <2>2, <2>3 DEF d
<1>9. CASE c.tag = "live"
  <2>1. e.type \in AllowedEvents("live")
    BY <1>1, <1>9
  <2>2. e.type = "ArtifactFailed" \/ d.artifact = c.artifact
    BY <1>1, <1>9, <2>1 DEF LiveFields, AllowedEvents
  <2>3. e.type = "ArtifactFailed" => d.artifact = FailedArtifact(c, e.recordingId)
    BY <1>1, <1>9 DEF LiveFields
  <2>. QED
    BY <1>4, <2>2, <2>3 DEF d
<1>10. CASE c.tag = "ending"
  <2>1. e.type \in {"TransportConnected", "SessionClosed", "FatalTransportError"}
          => d.artifact = c.artifact
    BY <1>1, <1>10 DEF EndingFields
  <2>2. e.type = "RecordingUploadStarted" => d.artifact.recordingId = e.recordingId
    BY <1>1, <1>10 DEF EndingFields, Uploading
  <2>3. e.type = "RecordingArtifactVerified" => d.artifact.recordingId = e.recordingId
    BY <1>1, <1>10 DEF EndingFields, Artifact
  <2>4. e.type = "ArtifactFailed" => d.artifact = FailedArtifact(c, e.recordingId)
    BY <1>1, <1>10 DEF EndingFields
  <2>5. e.type \in {"ArtifactDeadlineExceeded", "EndingDeadlineExceeded"} =>
          d.artifact \in {c.artifact, FailedArtifact(c, None)}
    BY <1>1, <1>10 DEF EndingFields
  <2>6. e.type \in {"TransportConnected", "SessionClosed", "RecordingUploadStarted",
                   "RecordingArtifactVerified", "ArtifactFailed",
                   "FatalTransportError", "EndingDeadlineExceeded",
                   "ArtifactDeadlineExceeded"}
    BY <1>1, <1>10 DEF AllowedEvents
  <2>. QED
    BY <1>3, <1>4, <1>6, <2>1, <2>2, <2>3, <2>4, <2>5, <2>6 DEF d
<1>. QED
  BY <1>1, <1>7, <1>8, <1>9, <1>10 DEF d

(* No event moves the deadline of a reconnection that goes on.             *)
LEMMA RecoveryWindowKept ==
    ASSUME NEW c \in Conversations, NEW e, WellFormed(e), Consistent(c),
           Accepts(c, e), c.transport.status = "reconnecting",
           Transition(c, e).transport.status = "reconnecting"
    PROVE  Transition(c, e).transport = c.transport
<1>. DEFINE d == Transition(c, e)
<1>1. /\ c.tag \in {"created", "starting", "live", "ending"}
      /\ e.type \in AllowedEvents(c.tag) /\ GuardHolds(c, e)
      /\ c.tag = "starting" => StartingFields(c, e, d)
      /\ c.tag = "live" => LiveFields(c, e, d)
      /\ c.tag = "ending" => EndingFields(c, e, d)
  BY TransitionFields
<1>2. c.tag \in {"live", "ending"}
  BY <1>1 DEF Consistent, ConsistentTag, CreateConversation, Transport
<1>3. d.transport.status = "reconnecting"
  OBVIOUS
<1>4. ASSUME NEW status, NEW epoch, status # "reconnecting"
      PROVE  d.transport # Transport(status, epoch)
  BY <1>3, <1>4 DEF Transport
<1>5. d.transport # FailedTransport(c)
  BY <1>4 DEF FailedTransport
<1>. HIDE DEF d
<1>6. CASE c.tag = "live"
  <2>1. \/ d.transport = c.transport
        \/ e.type = "TransportInterrupted" /\ d.transport = Interrupted(c, e)
    BY <1>1, <1>4, <1>5, <1>6 DEF LiveFields, AllowedEvents
  <2>2. e.type = "TransportInterrupted" => Interrupted(c, e) = c.transport
    BY <1>1 DEF Interrupted, Reconnecting, GuardHolds, Conversations, Transports
  <2>. QED
    BY <2>1, <2>2 DEF d
<1>7. CASE c.tag = "ending"
  BY <1>1, <1>4, <1>5, <1>7 DEF EndingFields, AllowedEvents, d
<1>. QED
  BY <1>2, <1>6, <1>7

(* A cancelling or failing shutdown does not come to complete.             *)
LEMMA IntentKept ==
    ASSUME NEW c \in Conversations, NEW e, WellFormed(e), Consistent(c),
           Accepts(c, e), c.tag = "ending", c.target \in {"cancel", "fail"}
    PROVE  /\ Transition(c, e).target \in {c.target, "fail"}
           /\ Transition(c, e).tag # "completed"
<1>. DEFINE d == Transition(c, e)
<1>1. /\ e.type \in AllowedEvents(c.tag)
      /\ EndingFields(c, e, d)
  BY TransitionFields
<1>. HIDE DEF d
<1>2. Finalized(d) /\ d.target \in {"cancel", "fail"} => d.tag # "completed"
  BY DEF Finalized, TerminalTagOf
<1>. QED
  BY <1>1, <1>2 DEF EndingFields, AllowedEvents, d
=============================================================================
