-------------------------- MODULE TimeOrderedBuffer --------------------------
(***************************************************************************)
(* TimeOrderedBuffer: a bounded sequence of measurements kept in the order *)
(* of their time stamps.  A measurement is represented by its time stamp.  *)
(***************************************************************************)
EXTENDS Timestamps, SequencesExt

\* max_size_ is positive in every buffer of the program.
EnforceMaxSize(buffer, maxSize) ==
    IF Len(buffer) <= maxSize THEN [result |-> "Inserted", buffer |-> buffer]
    ELSE [result |-> "InsertedAndDroppedOldest", buffer |-> Tail(buffer)]

Refuse(result, buffer) == [result |-> result, buffer |-> buffer]

\* Where the scan from the front ends: at the first element that is not before ts.
ScanEnds(buffer, ts) ==
    {i \in 1..Len(buffer) : CompareTimestamps(ts, buffer[i]) # "After"}

\* Insert() with allow_out_of_order_insert_.  The scan always ends at an element:
\* ts is before the last one when it begins.
Insert(buffer, ts, maxSize) ==
    LET latest == CompareTimestamps(Last(buffer), ts)
        place == Min(ScanEnds(buffer, ts))
    IN  IF buffer = <<>> THEN [result |-> "Inserted", buffer |-> <<ts>>]
        ELSE IF latest \in {"Before", "Equal"} THEN EnforceMaxSize(Append(buffer, ts), maxSize)
        ELSE IF latest = "NotComparable" THEN Refuse("RejectedNotComparable", buffer)
        ELSE IF CompareTimestamps(ts, buffer[place]) = "NotComparable"
             THEN Refuse("RejectedNotComparable", buffer)
        ELSE EnforceMaxSize(InsertAt(buffer, place, ts), maxSize)

\* The number of measurements PopUntil() removes: it stops at the first one
\* that is after ts or cannot be compared with it.
NotDue(buffer, ts) ==
    {i \in 1..Len(buffer) : CompareTimestamps(buffer[i], ts) \notin {"Before", "Equal"}}
DueCount(buffer, ts) ==
    IF NotDue(buffer, ts) = {} THEN Len(buffer) ELSE Min(NotDue(buffer, ts)) - 1

Due(buffer, ts) == SubSeq(buffer, 1, DueCount(buffer, ts))
NotYetDue(buffer, ts) == SubSeq(buffer, DueCount(buffer, ts) + 1, Len(buffer))
=============================================================================
