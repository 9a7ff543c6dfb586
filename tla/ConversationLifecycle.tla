----------------------- MODULE ConversationLifecycle -----------------------
(***************************************************************************)
(* What a conversation promises its users, without revisions, epochs,      *)
(* deadlines, receipts or alarms: a session that opens at most once, a     *)
(* recording that starts before the conversation is live and never during  *)
(* its shutdown, and an outcome that says truly what became of both.       *)
(* ConversationStore implements it (ImplementsLifecycle).                  *)
(***************************************************************************)

VARIABLES
    phase,      \* "absent", then the tag of the conversation
    session,    \* "none", "open" or "over"
    recording,  \* "none", "held" by the browser, "stored" in R2, or "lost"
    intent      \* what the shutdown aims at: "none" before it begins

vars == <<phase, session, recording, intent>>

Init ==
    /\ phase = "absent"
    /\ session = "none"
    /\ recording = "none"
    /\ intent = "none"

Create ==
    /\ phase = "absent"
    /\ phase' = "created"
    /\ UNCHANGED <<session, recording, intent>>

Abandon ==
    /\ phase = "created"
    /\ phase' = "cancelled"
    /\ UNCHANGED <<session, recording, intent>>

Start ==
    /\ phase = "created"
    /\ phase' = "starting"
    /\ session' = "open"
    /\ UNCHANGED <<recording, intent>>

StartRecording ==
    /\ phase = "starting"
    /\ recording = "none"
    /\ recording' = "held"
    /\ UNCHANGED <<phase, session, intent>>

GoLive ==
    /\ phase = "starting"
    /\ session = "open"
    /\ recording = "held"
    /\ phase' = "live"
    /\ UNCHANGED <<session, recording, intent>>

(* Only a live conversation can be meant to complete, only one that never  *)
(* went live is cancelled, and a lost recording means failure.             *)
BeginEnding ==
    /\ phase \in {"starting", "live"}
    /\ phase' = "ending"
    /\ \/ intent' = "complete" /\ phase = "live" /\ UNCHANGED recording
       \/ intent' = "cancel" /\ phase = "starting" /\ UNCHANGED recording
       \/ intent' = "fail" /\ recording' = "lost"
    /\ UNCHANGED session

(* The session breaks; the recording is left where it is.                  *)
Break ==
    /\ phase \in {"starting", "live"}
    /\ phase' = "failed"
    /\ session' = "over"
    /\ UNCHANGED <<recording, intent>>

(* An upload may store a held recording, lose it, or begin again.          *)
RecordingMoves(from) ==
    IF from = "none" THEN {"none", "lost"} ELSE {"held", "stored", "lost"}

OutcomeOf(aim) ==
    CASE aim = "complete" -> "completed"
      [] aim = "cancel"   -> "cancelled"
      [] OTHER            -> "failed"

(* The shutdown ends with the step that leaves the session over and, if it *)
(* is to complete, the recording stored: neither sooner nor later.         *)
ShutDown ==
    /\ phase = "ending"
    /\ session' \in {session, "over"}
    /\ recording' \in RecordingMoves(recording)
    /\ intent' \in {intent, "fail"}
    /\ phase' = IF session' = "over" /\ (intent' = "complete" => recording' = "stored")
                THEN OutcomeOf(intent')
                ELSE "ending"

(* Patience runs out.                                                      *)
Expire ==
    /\ phase = "ending"
    /\ phase' = "failed"
    /\ session' = "over"
    /\ recording' \in {recording, "lost"}
    /\ UNCHANGED intent

Next ==
    \/ Create \/ Abandon \/ Start \/ StartRecording \/ GoLive
    \/ BeginEnding \/ Break \/ ShutDown \/ Expire

Spec == Init /\ [][Next]_vars
=============================================================================
