--------------------------- MODULE RecordingRange ---------------------------
(***************************************************************************)
(* The Range header of a recording request.                                *)
(*   src/src/worker/examinations/examination-api.ts: parseRange            *)
(*                                                                         *)
(* "bytes=first-last" with either number missing; a header of any other    *)
(* form is refused like one that cannot be satisfied, and a request        *)
(* without the header gets the whole object.  Numbers stay below 2^53.     *)
(***************************************************************************)
EXTENDS Integers

CONSTANT Missing        \* the number that is not there

ASSUME MissingAssumption == Missing \notin Nat

Refused == [offset |-> 0, length |-> 0]

AtMost(a, b) == IF a < b THEN a ELSE b

(* "bytes=-n": the last n bytes, all of them when there are fewer.         *)
SuffixRange(count, size) ==
    IF count <= 0 \/ size = 0 THEN Refused
    ELSE [offset |-> size - AtMost(count, size), length |-> AtMost(count, size)]

RangeFrom(first, last, size) ==
    LET end == IF last = Missing THEN size - 1 ELSE last
    IN  IF first >= size \/ end < first THEN Refused
        ELSE [offset |-> first, length |-> AtMost(end, size - 1) - first + 1]

ParseRange(first, last, size) ==
    CASE first = Missing /\ last = Missing -> Refused
      [] first = Missing /\ last # Missing -> SuffixRange(last, size)
      [] first # Missing                   -> RangeFrom(first, last, size)

-----------------------------------------------------------------------------
(***************************************************************************)
(* The reference: which bytes a range names, by the meaning of its form    *)
(***************************************************************************)

Named(first, last, size) ==
    CASE first = Missing /\ last = Missing -> {}
      [] first = Missing /\ last # Missing ->
            {b \in 0 .. size - 1 : b >= size - last}
      [] first # Missing ->
            {b \in 0 .. size - 1 : b >= first /\ (last # Missing => b <= last)}

Served(range) == range.offset .. range.offset + range.length - 1

(* The bytes that are served are exactly those of the object the header    *)
(* names, and 416 is answered exactly when it names none.                  *)
ServesWhatIsNamed(first, last, size) ==
    LET range == ParseRange(first, last, size)
    IN  /\ Served(range) = Named(first, last, size)
        /\ range = Refused <=> Named(first, last, size) = {}

=============================================================================
