------------------------- MODULE MCBrowserRuntime -------------------------
(***************************************************************************)
(* Instance of BrowserRuntime for TLC: one page and one other client, one  *)
(* request of each kind, one click on End.                                 *)
(***************************************************************************)
EXTENDS BrowserRuntime

CONSTANTS start, end, endOther, r1

MCEvent(id, type) ==
    [id |-> id, type |-> type, epoch |-> 0, recordingId |-> None,
     expectedR2Key |-> None]

MCOwnEnds == {MCEvent(end, "EndRequested")}

MCDirectCalls ==
    MCOwnEnds \cup {MCEvent(start, "StartRequested"),
                    MCEvent(endOther, "EndRequested")}

MCEventIds == {start, end, endOther} \cup RecordingEventTypes \X RecordingIds

MCCalls == MCDirectCalls \cup RecordingEvents
=============================================================================
