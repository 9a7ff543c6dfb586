--------------------------- MODULE MCTranscription ---------------------------
(***************************************************************************)
(* An instance of Transcription for TLC: one job, an upload completion     *)
(* that may be replayed, and the cron handler that dispatches it as well.  *)
(***************************************************************************)
EXTENDS Transcription, RecordingRange

CONSTANTS cron, e1

(* Every range of the first bytes, of recordings of up to four.            *)
ASSUME SmallRangesAreServed ==
    \A size \in 0 .. 4, first, last \in 0 .. 5 \cup {Missing} :
        ServesWhatIsNamed(first, last, size)
=============================================================================
