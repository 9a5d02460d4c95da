------------------------------ MODULE CsvReader ------------------------------
(***************************************************************************)
(* CsvDatasetReader over CsvMeasurementReader: the std::ifstream with its  *)
(* position and fail bit, the bounds of the time stamps and the count.  A  *)
(* file is a sequence of lines; a line is its kind and, if it is a record, *)
(* its time stamp.                                                         *)
(***************************************************************************)
EXTENDS Integers, Sequences, FiniteSets, SequencesExt

Skipped == {"blank", "comment", "unknown", "short", "malformed"}
Line == [kind : {"record"} \cup Skipped, stamp : Nat]
NoTime == -1

Closed == [open |-> FALSE, pos |-> 0, failed |-> FALSE]
NewReader == [stream |-> Closed, count |-> 0, start |-> NoTime, end |-> NoTime]

\* Blank lines and comments are skipped before they are parsed, other lines
\* that are no record because of what ParseLine() returns for them.
ParseLine(line) ==
    CASE line.kind = "record"    -> "Ok"
      [] line.kind = "malformed" -> "Error"
      [] OTHER                   -> "EndOfData"
Rejected(line) == line.kind \in {"blank", "comment"} \/ ParseLine(line) # "Ok"

\* ifstream::open() on an open stream only sets the fail bit.
Open(r) ==
    [r EXCEPT !.stream = IF r.stream.open THEN [r.stream EXCEPT !.failed = TRUE]
                         ELSE [open |-> TRUE, pos |-> 0, failed |-> FALSE]]
\* A mutant: the stream stays open.
CloseNothing(r) == r
Close(r) == [r EXCEPT !.stream = Closed]

\* The lines that are records, the place of each among them, and their sequence.
Records(lines) == {i \in DOMAIN lines : ~Rejected(lines[i])}
Rank(lines, i) == Cardinality({j \in Records(lines) : j <= i})
WellFormed(lines) ==
    [n \in 1 .. Cardinality(Records(lines)) |->
        lines[CHOOSE i \in Records(lines) : Rank(lines, i) = n]]

\* The lines Next() passes over, and whether a record comes after them.
Ahead(r, file) == {i \in r.stream.pos + 1 .. Len(file) : ~Rejected(file[i])}
First(S) == CHOOSE i \in S : \A j \in S : i <= j

NextResult(r, file) ==
    CASE ~r.stream.open -> "Error"
      [] r.stream.open /\ ~r.stream.failed /\ Ahead(r, file) # {} -> "Ok"
      [] OTHER -> "EndOfData"

NextRecord(r, file) == file[First(Ahead(r, file))]

\* A mutant: start_time_ is set with every record.
AfterNextRestarts(r, file) ==
    IF NextResult(r, file) = "Ok"
    THEN LET t == NextRecord(r, file).stamp
         IN  [stream |-> [r.stream EXCEPT !.pos = First(Ahead(r, file))],
              count |-> r.count + 1, start |-> t, end |-> t]
    ELSE [r EXCEPT !.stream.failed = TRUE]

\* The reader after Next().
AfterNext(r, file) ==
    CASE NextResult(r, file) = "Ok" ->
            LET t == NextRecord(r, file).stamp
            IN  [stream |-> [r.stream EXCEPT !.pos = First(Ahead(r, file))],
                 count |-> r.count + 1,
                 start |-> IF r.start = NoTime THEN t ELSE r.start,
                 end |-> t]
      [] NextResult(r, file) = "EndOfData" -> [r EXCEPT !.stream.failed = TRUE]
      [] OTHER -> r
=============================================================================
