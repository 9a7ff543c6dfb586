------------------------ MODULE MCConversationStore ------------------------
(***************************************************************************)
(* Instances of ConversationStore for TLC.  Every call is one event id, so *)
(* it is applied at most once and the receipts bound the behaviour; what a *)
(* caller repeats is a duplicate.                                          *)
(***************************************************************************)
EXTENDS ConversationStore

CONSTANTS
    start, connect1, capture, live, interrupt1, interrupt1b, connect2,
    end, fatal1, close1, close2, upload, upload2, verify,
    artifactLost, artifactUnknown,
    captureOther, uploadOther, verifyOther, lostOther,
    r1, r2, k1, k2

MCEventIds ==
    {start, connect1, capture, live, interrupt1, interrupt1b, connect2,
     end, fatal1, close1, close2, upload, upload2, verify,
     artifactLost, artifactUnknown,
     captureOther, uploadOther, verifyOther, lostOther}

C(id, type, epoch, recordingId, key) ==
    [id |-> id, type |-> type, epoch |-> epoch, recordingId |-> recordingId,
     expectedR2Key |-> key]

(* What the shipped worker sends: one epoch, one recording.                *)
StartCalls ==
    {C(start,    "StartRequested",     0, None, None),
     C(connect1, "TransportConnected", 1, None, None),
     C(capture,  "RecordingStarted",   0, r1,   None),
     C(live,     "SessionStarted",     1, None, None)}

EndCalls ==
    {C(end,    "EndRequested",              0, None, None),
     C(close1, "SessionClosed",             1, None, None),
     C(upload, "RecordingUploadStarted",    0, r1,   k1),
     C(verify, "RecordingArtifactVerified", 0, r1,   k1)}

(* Interruptions and the second epoch.                                     *)
ReconnectCalls ==
    {C(interrupt1,  "TransportInterrupted", 1, None, None),
     C(interrupt1b, "TransportInterrupted", 1, None, None),
     C(connect2,    "TransportConnected",   2, None, None),
     C(close2,      "SessionClosed",        2, None, None)}

(* Failures, and an upload begun again under another key.                  *)
FailureCalls ==
    {C(fatal1,          "FatalTransportError",    1, None, None),
     C(upload2,         "RecordingUploadStarted", 0, r1,   k2),
     C(artifactLost,    "ArtifactFailed",         0, r1,   None),
     C(artifactUnknown, "ArtifactFailed",         0, None, None)}

(* A second recording, of a caller that lost the race to name it.          *)
OtherRecordingCalls ==
    {C(captureOther,    "RecordingStarted",          0, r2,   None),
     C(uploadOther,     "RecordingUploadStarted",    0, r2,   k2),
     C(verifyOther,     "RecordingArtifactVerified", 0, r2,   k1),
     C(lostOther,       "ArtifactFailed",            0, r2,   None),
     C(artifactUnknown, "ArtifactFailed",            0, None, None)}

(* A recording request of a tab that never began is always refused: it is  *)
(* part of the failure run, where it adds no state.                        *)
FailureRun ==
    UNION {StartCalls, EndCalls, FailureCalls,
           {c \in OtherRecordingCalls : c.id # lostOther /\ c.id # captureOther}}

(* Interruptions and one restarted upload, for the temporal properties.    *)
LivenessRun ==
    UNION {StartCalls, EndCalls, ReconnectCalls,
           {C(upload2, "RecordingUploadStarted", 0, r1, k2)}}
=============================================================================
