--------------------------- MODULE QuestionLedger ---------------------------
(***************************************************************************)
(* What an examination session promises about its questions: each is       *)
(* completed once, in the examination's order, and the session is over     *)
(* exactly when all of them are.                                           *)
(***************************************************************************)
EXTENDS Integers

CONSTANT QuestionCount

VARIABLES
    done,       \* the ordinals of the completed questions
    over        \* the session says that all questions are completed

Init ==
    /\ done = {}
    /\ over = FALSE

CompleteQuestion(n) ==
    /\ done = 1 .. n - 1
    /\ done' = 1 .. n
    /\ over' = (n = QuestionCount)

Next == \E n \in 1 .. QuestionCount : CompleteQuestion(n)

Spec == Init /\ [][Next]_<<done, over>>
=============================================================================
