------------------------- MODULE MCRecordingUpload -------------------------
(***************************************************************************)
(* Instances of RecordingUpload for TLC: one conversation, two tabs that   *)
(* both begin a recording, repeated upload begins and completions.         *)
(***************************************************************************)
EXTENDS RecordingUpload, TLC

CONSTANTS start, end, r1, r2, b1, b2, u1, u2, c1, c2

MCDirectCalls ==
    {[id |-> start, type |-> "StartRequested", epoch |-> 0,
      recordingId |-> None, expectedR2Key |-> None],
     [id |-> end, type |-> "EndRequested", epoch |-> 0,
      recordingId |-> None, expectedR2Key |-> None]}

MCEventIds == {start, end} \cup RecordingEventTypes \X RecordingIds

(* The requests of one kind, and the uploads, are interchangeable.         *)
MCSymmetry ==
    Permutations(Begins) \cup Permutations(UploadBegins)
    \cup Permutations(Completions) \cup Permutations(RecordingIds)

MCCalls == MCDirectCalls \cup RecordingEvents
=============================================================================
