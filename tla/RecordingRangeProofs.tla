------------------------- MODULE RecordingRangeProofs -------------------------
(***************************************************************************)
(* parseRange serves, of a recording of any size, exactly the bytes that   *)
(* the Range header names, and refuses exactly the headers that name none. *)
(***************************************************************************)
EXTENDS RecordingRange, TLAPS

(* "bytes=-n".                                                             *)
LEMMA SuffixIsServed ==
    ASSUME NEW count \in Nat, NEW size \in Nat
    PROVE  LET range == SuffixRange(count, size)
               named == {b \in 0 .. size - 1 : b >= size - count}
           IN  /\ Served(range) = named
               /\ range = Refused <=> named = {}
<1> DEFINE range == SuffixRange(count, size)
           named == {b \in 0 .. size - 1 : b >= size - count}
<1>1. CASE count <= 0 \/ size = 0
  <2>1. range = Refused
    BY <1>1 DEF SuffixRange
  <2>2. Served(range) = {}
    BY <2>1 DEF Served, Refused
  <2>3. named = {}
    BY <1>1
  <2> QED  BY <2>1, <2>2, <2>3
<1>2. CASE ~(count <= 0 \/ size = 0)
  <2>1. AtMost(count, size) \in 1 .. size /\ AtMost(count, size) <= count
        /\ (AtMost(count, size) = size \/ AtMost(count, size) = count)
    BY <1>2 DEF AtMost
  <2>2. range = [offset |-> size - AtMost(count, size), length |-> AtMost(count, size)]
    BY <1>2 DEF SuffixRange
  <2>3. range # Refused
    BY <2>1, <2>2 DEF Refused
  <2>4. Served(range) = named
    BY <2>1, <2>2 DEF Served
  <2>5. size - 1 \in named
    BY <1>2
  <2> QED  BY <2>3, <2>4, <2>5
<1> QED  BY <1>1, <1>2

(* "bytes=first-" and "bytes=first-last".                                  *)
LEMMA FromIsServed ==
    ASSUME NEW first \in Nat, NEW last \in Nat \cup {Missing}, NEW size \in Nat
    PROVE  LET range == RangeFrom(first, last, size)
               named == {b \in 0 .. size - 1 :
                            b >= first /\ (last # Missing => b <= last)}
           IN  /\ Served(range) = named
               /\ range = Refused <=> named = {}
<1> DEFINE range == RangeFrom(first, last, size)
           named == {b \in 0 .. size - 1 : b >= first /\ (last # Missing => b <= last)}
           end   == IF last = Missing THEN size - 1 ELSE last
<1>1. end \in Int
  BY MissingAssumption
<1>2. named = {b \in 0 .. size - 1 : b >= first /\ b <= end}
  BY MissingAssumption
<1> HIDE DEF end
<1>3. CASE first >= size \/ end < first
  <2>1. range = Refused
    BY <1>3 DEF RangeFrom, end
  <2>2. Served(range) = {}
    BY <2>1 DEF Served, Refused
  <2>3. named = {}
    BY <1>1, <1>2, <1>3
  <2> QED  BY <2>1, <2>2, <2>3
<1>4. CASE ~(first >= size \/ end < first)
  <2>1. AtMost(end, size - 1) \in first .. size - 1 /\ AtMost(end, size - 1) <= end
        /\ (AtMost(end, size - 1) = end \/ AtMost(end, size - 1) = size - 1)
    BY <1>1, <1>4 DEF AtMost
  <2>2. range = [offset |-> first, length |-> AtMost(end, size - 1) - first + 1]
    BY <1>4 DEF RangeFrom, end
  <2>3. range # Refused
    BY <2>1, <2>2 DEF Refused
  <2>4. Served(range) = first .. AtMost(end, size - 1)
    BY <2>1, <2>2 DEF Served
  <2>5. named = first .. AtMost(end, size - 1)
    BY <1>1, <1>2, <2>1
  <2>6. first \in named
    BY <2>1, <2>5
  <2> QED  BY <2>3, <2>4, <2>5, <2>6
<1> QED  BY <1>3, <1>4

(* A reader who asks for a part of a recording gets that part, and 416     *)
(* only when there is no such part, whatever the recording's size.         *)
THEOREM EveryRangeIsServed ==
    ASSUME NEW size \in Nat,
           NEW first \in Nat \cup {Missing}, NEW last \in Nat \cup {Missing}
    PROVE  ServesWhatIsNamed(first, last, size)
<1>1. CASE first = Missing /\ last = Missing
  <2>1. ParseRange(first, last, size) = Refused
    BY <1>1 DEF ParseRange
  <2>2. Named(first, last, size) = {} /\ Served(Refused) = {}
    BY <1>1 DEF Named, Served, Refused
  <2> QED  BY <2>1, <2>2 DEF ServesWhatIsNamed
<1>2. CASE first = Missing /\ last # Missing
  <2>1. ParseRange(first, last, size) = SuffixRange(last, size)
    BY <1>2 DEF ParseRange
  <2>2. Named(first, last, size) = {b \in 0 .. size - 1 : b >= size - last}
    BY <1>2 DEF Named
  <2> QED  BY <1>2, <2>1, <2>2, SuffixIsServed DEF ServesWhatIsNamed
<1>3. CASE first # Missing
  <2>1. ParseRange(first, last, size) = RangeFrom(first, last, size)
    BY <1>3 DEF ParseRange
  <2>2. Named(first, last, size) =
            {b \in 0 .. size - 1 : b >= first /\ (last # Missing => b <= last)}
    BY <1>3 DEF Named
  <2> QED  BY <1>3, <2>1, <2>2, FromIsServed DEF ServesWhatIsNamed
<1> QED  BY <1>1, <1>2, <1>3
=============================================================================
