----------------------- MODULE MCExaminationSessions -----------------------
(***************************************************************************)
(* An instance of ExaminationSessions for TLC: two users with one          *)
(* Idempotency-Key, two requests in flight, an examination of three        *)
(* questions.  The conversation's other caller only ends it.               *)
(***************************************************************************)
EXTENDS ExaminationSessions, TLC

CONSTANTS start, end, u1, u2, q1, q2

MCCalls ==
    {[id |-> end, type |-> "EndRequested", epoch |-> 0,
      recordingId |-> None, expectedR2Key |-> None]}

(* Users are interchangeable, and so are the slots.                        *)
MCSymmetry == Permutations(Users) \cup Permutations(Requests)
=============================================================================
