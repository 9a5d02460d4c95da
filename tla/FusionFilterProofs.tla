-------------------------- MODULE FusionFilterProofs --------------------------
(***************************************************************************)
(* Theorems about FusionFilter, for every set of time stamps, every buffer *)
(* size and every setting.  Those of the second half hold where inertial   *)
(* samples carry a monotonic time and nothing else (SteadyClock), as those *)
(* of the CSV data set do, whatever the other measurements carry; with     *)
(* samples of mixed time bases they are false.                             *)
(***************************************************************************)
EXTENDS FusionFilter, SequenceTheorems, WellFoundedInduction, TLAPS

-----------------------------------------------------------------------------
(* Facts about time stamps and sequences.                                  *)

(* A set of natural numbers that has a member has a least one. *)
LEMMA LeastElement ==
    ASSUME NEW S \in SUBSET Nat, S # {}
    PROVE  /\ Min(S) \in S
           /\ \A x \in S : Min(S) <= x
<1> DEFINE R == OpToRel(<, Nat)
<1>1. \E m \in S : \A y \in S : ~(<<y, m>> \in R)
  <2>1. IsWellFoundedOn(R, Nat)
    BY NatLessThanWellFounded
  <2> HIDE DEF R
  <2> QED BY <2>1, WFMin
<1>2. PICK m \in S : \A y \in S : ~(<<y, m>> \in R)
  BY <1>1
<1>3. \A y \in S : m =< y
  <2>1. ASSUME NEW y \in S PROVE ~(y < m)
    BY <1>2 DEF OpToRel
  <2> QED BY <2>1
<1> QED BY <1>3 DEF Min

(* Every inertial sample carries a monotonic time and no GPS time.         *)
SteadyClock == \A t \in Stamps : t.steady # Absent /\ t.gps = Absent

(* With monotonic times the comparison is that of these times. *)
LEMMA SteadyComparison ==
    ASSUME SteadyClock, NEW a \in Stamps, NEW b \in Stamps
    PROVE  /\ a.steady \in Nat /\ b.steady \in Nat
           /\ CompareTimestamps(a, b) =
                IF a.steady < b.steady THEN "Before"
                ELSE IF a.steady > b.steady THEN "After" ELSE "Equal"
           /\ TimeDifference(a, b) = {a.steady - b.steady}
BY FilterAssumption
   DEF SteadyClock, Timestamp, CompareTimestamps, TimeDifference, HaveSteady, Ordering, Absent

(* A sample is compared with any time stamp by its monotonic time or not at all. *)
LEMMA SampleComparison ==
    ASSUME SteadyClock, NEW a \in Stamps, NEW b \in Timestamp
    PROVE  /\ CompareTimestamps(a, b) =
                IF b.steady = Absent THEN "NotComparable"
                ELSE IF a.steady < b.steady THEN "Before"
                ELSE IF a.steady > b.steady THEN "After" ELSE "Equal"
           /\ TimeDifference(a, b) = IF b.steady = Absent THEN {} ELSE {a.steady - b.steady}
BY FilterAssumption
   DEF SteadyClock, Timestamp, CompareTimestamps, TimeDifference, HaveSteady, HaveGps, Ordering,
       Absent

(* What the tail of a sequence holds. *)
LEMMA TailElements ==
    ASSUME NEW S, NEW s \in Seq(S), s # <<>>
    PROVE  /\ Head(s) \in S /\ Head(s) = s[1] /\ Len(s) >= 1
           /\ Tail(s) \in Seq(S) /\ Len(Tail(s)) = Len(s) - 1
           /\ \A i \in 1..Len(Tail(s)) : Tail(s)[i] = s[i + 1]
BY HeadTailProperties, LenProperties

(* The elements of a part of a sequence. *)
LEMMA PartElements ==
    ASSUME NEW S, NEW s \in Seq(S), NEW m \in Int, NEW n \in Int, m >= 1, n <= Len(s)
    PROVE  /\ SubSeq(s, m, n) \in Seq(S)
           /\ Len(SubSeq(s, m, n)) = IF m <= n THEN n - m + 1 ELSE 0
           /\ \A i \in 1..Len(SubSeq(s, m, n)) : SubSeq(s, m, n)[i] = s[m + i - 1]
<1>1. \A i \in m..n : s[i] \in S
  BY ElementOfSeq, LenProperties
<1> QED BY <1>1, SubSeqProperties

(* Where PopUntil() stops: behind samples that are due, before one that    *)
(* is not.                                                                 *)
LEMMA WherePopStops ==
    ASSUME NEW s \in Seq(Stamps), NEW ts
    PROVE  /\ DueCount(s, ts) \in 0..Len(s)
           /\ \A i \in 1..DueCount(s, ts) : CompareTimestamps(s[i], ts) \in {"Before", "Equal"}
           /\ DueCount(s, ts) < Len(s) =>
                CompareTimestamps(s[DueCount(s, ts) + 1], ts) \notin {"Before", "Equal"}
<1> DEFINE N == NotDue(s, ts)
<1>0. Len(s) \in Nat
  BY LenProperties
<1>1. N \in SUBSET (1..Len(s))
  BY DEF NotDue
<1>2. CASE N = {}
  <2>1. \A i \in 1..Len(s) : CompareTimestamps(s[i], ts) \in {"Before", "Equal"}
    BY <1>2 DEF NotDue
  <2> QED BY <2>1, <1>0, <1>2 DEF DueCount
<1>3. CASE N # {}
  <2>1. /\ Min(N) \in N
        /\ \A x \in N : Min(N) <= x
    BY <1>0, <1>1, <1>3, LeastElement
  <2>2. DueCount(s, ts) = Min(N) - 1
    BY <1>3 DEF DueCount
  <2>3. Min(N) \in 1..Len(s) /\ CompareTimestamps(s[Min(N)], ts) \notin {"Before", "Equal"}
    BY <2>1 DEF NotDue
  <2>4. ASSUME NEW i \in 1..(Min(N) - 1)
        PROVE  CompareTimestamps(s[i], ts) \in {"Before", "Equal"}
    <3>1. i \in 1..Len(s) /\ i \notin N
      BY <2>1, <2>3, <1>0
    <3> QED BY <3>1 DEF NotDue
  <2> QED BY <2>2, <2>3, <2>4, <1>0
<1> QED BY <1>2, <1>3

(* What a call takes out of the buffer is due, and both parts are parts. *)
LEMMA DueAndRest ==
    ASSUME NEW s \in Seq(Stamps), NEW ts
    PROVE  /\ Due(s, ts) \in Seq(Stamps) /\ NotYetDue(s, ts) \in Seq(Stamps)
           /\ Len(NotYetDue(s, ts)) = Len(s) - DueCount(s, ts)
           /\ Len(NotYetDue(s, ts)) <= Len(s)
           /\ Len(Due(s, ts)) = DueCount(s, ts)
           /\ \A i \in 1..Len(Due(s, ts)) :
                /\ Due(s, ts)[i] = s[i]
                /\ CompareTimestamps(Due(s, ts)[i], ts) \in {"Before", "Equal"}
           /\ \A i \in 1..Len(NotYetDue(s, ts)) :
                NotYetDue(s, ts)[i] = s[DueCount(s, ts) + i]
<1> DEFINE n == DueCount(s, ts)
<1>1. /\ Len(s) \in Nat /\ n \in 0..Len(s)
      /\ \A i \in 1..n : CompareTimestamps(s[i], ts) \in {"Before", "Equal"}
  BY WherePopStops, LenProperties
<1> HIDE DEF n
<1>2. /\ SubSeq(s, 1, n) \in Seq(Stamps)
      /\ Len(SubSeq(s, 1, n)) = n
      /\ \A i \in 1..Len(SubSeq(s, 1, n)) : SubSeq(s, 1, n)[i] = s[i]
  <2>1. /\ SubSeq(s, 1, n) \in Seq(Stamps)
        /\ Len(SubSeq(s, 1, n)) = IF 1 <= n THEN n - 1 + 1 ELSE 0
        /\ \A i \in 1..Len(SubSeq(s, 1, n)) : SubSeq(s, 1, n)[i] = s[1 + i - 1]
    BY <1>1, PartElements
  <2> QED BY <2>1, <1>1
<1>3. /\ SubSeq(s, n + 1, Len(s)) \in Seq(Stamps)
      /\ Len(SubSeq(s, n + 1, Len(s))) = Len(s) - n
      /\ \A i \in 1..Len(SubSeq(s, n + 1, Len(s))) : SubSeq(s, n + 1, Len(s))[i] = s[n + i]
  <2>1. /\ SubSeq(s, n + 1, Len(s)) \in Seq(Stamps)
        /\ Len(SubSeq(s, n + 1, Len(s))) = IF n + 1 <= Len(s) THEN Len(s) - (n + 1) + 1 ELSE 0
        /\ \A i \in 1..Len(SubSeq(s, n + 1, Len(s))) :
              SubSeq(s, n + 1, Len(s))[i] = s[n + 1 + i - 1]
    BY <1>1, PartElements
  <2> QED BY <2>1, <1>1
<1> QED BY <1>1, <1>2, <1>3 DEF Due, NotYetDue, n

-----------------------------------------------------------------------------
(* Insertion into a TimeOrderedBuffer.                                     *)

(* Eviction of the oldest sample brings an overfull buffer back to size. *)
LEMMA Eviction ==
    ASSUME NEW s \in Seq(Stamps), NEW maxSize \in Nat, Len(s) <= maxSize + 1
    PROVE  LET r == EnforceMaxSize(s, maxSize) IN
           /\ r.buffer \in Seq(Stamps) /\ Len(r.buffer) <= maxSize
           /\ Sorted(s) => Sorted(r.buffer)
<1> DEFINE r == EnforceMaxSize(s, maxSize)
<1>0. Len(s) \in Nat
  BY LenProperties
<1>1. CASE Len(s) <= maxSize
  <2>1. r.buffer = s
    BY <1>1 DEF EnforceMaxSize
  <2> QED BY <2>1, <1>1
<1>2. CASE ~(Len(s) <= maxSize)
  <2>1. r.buffer = Tail(s)
    BY <1>2 DEF EnforceMaxSize
  <2>2. s # <<>>
    BY <1>2, <1>0, EmptySeq
  <2>3. /\ Tail(s) \in Seq(Stamps) /\ Len(Tail(s)) = Len(s) - 1
        /\ \A i \in 1..Len(Tail(s)) : Tail(s)[i] = s[i + 1]
    BY <2>2, TailElements
  <2>4. ASSUME Sorted(s), NEW i \in 1..Len(Tail(s)), NEW j \in 1..Len(Tail(s)), i < j
        PROVE  CompareTimestamps(Tail(s)[i], Tail(s)[j]) # "After"
    <3>1. i + 1 \in 1..Len(s) /\ j + 1 \in 1..Len(s) /\ i + 1 < j + 1
      BY <2>3, <2>4, <1>0
    <3> QED BY <3>1, <2>3, <2>4 DEF Sorted
  <2> QED BY <2>1, <2>3, <2>4, <1>0 DEF Sorted
<1> QED BY <1>1, <1>2

(* The elements of a sequence another one is inserted into. *)
LEMMA InsertionElements ==
    ASSUME NEW s \in Seq(Stamps), NEW e \in Stamps, NEW p \in 1..Len(s)
    PROVE  /\ InsertAt(s, p, e) \in Seq(Stamps)
           /\ Len(InsertAt(s, p, e)) = Len(s) + 1
           /\ \A i \in 1..Len(s) + 1 :
                InsertAt(s, p, e)[i] = IF i < p THEN s[i] ELSE IF i = p THEN e ELSE s[i - 1]
<1> DEFINE front == SubSeq(s, 1, p - 1)
           back == SubSeq(s, p, Len(s))
<1>0. Len(s) \in Nat /\ p \in Nat
  BY LenProperties
<1>1. /\ front \in Seq(Stamps) /\ Len(front) = p - 1
      /\ \A i \in 1..(p - 1) : front[i] = s[i]
  <2>1. /\ front \in Seq(Stamps) /\ Len(front) = IF 1 <= p - 1 THEN p - 1 - 1 + 1 ELSE 0
        /\ \A i \in 1..Len(front) : front[i] = s[1 + i - 1]
    BY <1>0, PartElements
  <2> HIDE DEF front
  <2>2. Len(front) = p - 1
    BY <2>1, <1>0
  <2> QED BY <2>1, <2>2
<1>2. /\ back \in Seq(Stamps) /\ Len(back) = Len(s) - p + 1
      /\ \A i \in 1..Len(back) : back[i] = s[p + i - 1]
  BY <1>0, PartElements
<1> HIDE DEF front, back
<1>3. /\ <<e>> \in Seq(Stamps) /\ Len(<<e>>) = 1 /\ <<e>>[1] = e
  OBVIOUS
<1>4. /\ front \o <<e>> \in Seq(Stamps)
      /\ Len(front \o <<e>>) = p
      /\ \A i \in 1..p : (front \o <<e>>)[i] = IF i <= p - 1 THEN front[i] ELSE <<e>>[i - (p - 1)]
  <2> DEFINE one == <<e>>
  <2>1. one \in Seq(Stamps) /\ Len(one) = 1
    BY <1>3
  <2> HIDE DEF one
  <2>2. /\ front \o one \in Seq(Stamps)
        /\ Len(front \o one) = Len(front) + Len(one)
        /\ \A i \in 1..Len(front) + Len(one) :
              (front \o one)[i] = IF i <= Len(front) THEN front[i] ELSE one[i - Len(front)]
    BY <1>1, <2>1, ConcatProperties
  <2>3. Len(front) + Len(one) = p
    BY <1>0, <1>1, <2>1
  <2> QED BY <2>2, <2>3, <1>1 DEF one
<1>5. \A i \in 1..p : (front \o <<e>>)[i] = IF i < p THEN s[i] ELSE e
  <2> SUFFICES ASSUME NEW i \in 1..p
               PROVE  (front \o <<e>>)[i] = IF i < p THEN s[i] ELSE e
    OBVIOUS
  <2>1. CASE i < p
    <3>1. i \in 1..(p - 1) /\ i <= p - 1
      BY <2>1, <1>0
    <3> QED BY <3>1, <1>1, <1>4, <2>1
  <2>2. CASE i = p
    <3>1. ~(i <= p - 1) /\ i - (p - 1) = 1
      BY <2>2, <1>0
    <3> QED BY <3>1, <1>3, <1>4, <2>2
  <2>3. i < p \/ i = p
    BY <1>0
  <2> QED BY <2>1, <2>2, <2>3
<1> DEFINE most == front \o <<e>>
<1>6. most \in Seq(Stamps) /\ Len(most) = p /\ \A i \in 1..p : most[i] = IF i < p THEN s[i] ELSE e
  BY <1>4, <1>5
<1>7. InsertAt(s, p, e) = most \o back
  BY DEF InsertAt, front, back
<1> HIDE DEF most
<1>8. /\ most \o back \in Seq(Stamps)
      /\ Len(most \o back) = Len(most) + Len(back)
      /\ \A i \in 1..Len(most) + Len(back) :
            (most \o back)[i] = IF i <= Len(most) THEN most[i] ELSE back[i - Len(most)]
  BY <1>2, <1>6, ConcatProperties
<1>9. Len(most) + Len(back) = Len(s) + 1
  BY <1>0, <1>2, <1>6
<1>10. ASSUME NEW i \in 1..Len(s) + 1
       PROVE  (most \o back)[i] = IF i < p THEN s[i] ELSE IF i = p THEN e ELSE s[i - 1]
  <2>1. CASE i <= p
    <3>1. i \in 1..p
      BY <2>1
    <3> QED BY <3>1, <2>1, <1>6, <1>8, <1>9, <1>0
  <2>2. CASE ~(i <= p)
    <3>1. i - p \in 1..Len(back) /\ p + (i - p) - 1 = i - 1 /\ ~(i < p) /\ i # p
      BY <2>2, <1>0, <1>2
    <3>2. (most \o back)[i] = back[i - p]
      BY <2>2, <1>6, <1>8, <1>9
    <3> QED BY <3>1, <3>2, <1>2
  <2> QED BY <2>1, <2>2
<1> QED BY <1>7, <1>8, <1>9, <1>10

(* Insert() ends its scan at the first element that is not before ts.      *)
LEMMA WhereScanEnds ==
    ASSUME NEW s \in Seq(Stamps), NEW ts \in Stamps, s # <<>>,
           CompareTimestamps(Last(s), ts) = "After"
    PROVE  LET p == Min(ScanEnds(s, ts)) IN
           /\ p \in 1..Len(s)
           /\ CompareTimestamps(ts, s[p]) # "After"
           /\ \A i \in 1..(p - 1) : CompareTimestamps(ts, s[i]) = "After"
<1> DEFINE E == ScanEnds(s, ts)
           p == Min(E)
<1>0. Len(s) \in Nat /\ Len(s) \in 1..Len(s) /\ s[Len(s)] \in Stamps
  BY EmptySeq, LenProperties, ElementOfSeq
<1>1. E \subseteq 1..Len(s)
  BY DEF ScanEnds
<1>2. Len(s) \in E
  <2>1. CompareTimestamps(s[Len(s)], ts) = "After"
    BY DEF Last
  <2>2. CompareTimestamps(ts, s[Len(s)]) # "After"
    BY <2>1, <1>0, FilterAssumption
       DEF CompareTimestamps, HaveSteady, HaveGps, Ordering, Timestamp, Absent
  <2> QED BY <2>2, <1>0 DEF ScanEnds
<1>3. p \in E /\ \A x \in E : p <= x
  BY <1>0, <1>1, <1>2, LeastElement
<1>4. p \in 1..Len(s) /\ CompareTimestamps(ts, s[p]) # "After"
  BY <1>3 DEF ScanEnds
<1>5. ASSUME NEW i \in 1..(p - 1) PROVE CompareTimestamps(ts, s[i]) = "After"
  <2>1. i \in 1..Len(s) /\ i \notin E
    BY <1>0, <1>3, <1>4
  <2> QED BY <2>1 DEF ScanEnds
<1> QED BY <1>4, <1>5

(* Whatever its time stamp, an inserted sample leaves a buffer of samples  *)
(* within its bound.                                                       *)
LEMMA InsertionBounded ==
    ASSUME NEW s \in Seq(Stamps), NEW ts \in Stamps, NEW maxSize \in Nat \ {0},
           Len(s) <= maxSize
    PROVE  LET r == Insert(s, ts, maxSize) IN
           r.buffer \in Seq(Stamps) /\ Len(r.buffer) <= maxSize
<1> DEFINE p == Min(ScanEnds(s, ts))
           order == CompareTimestamps(Last(s), ts)
           r == Insert(s, ts, maxSize)
<1>0. Len(s) \in Nat
  BY LenProperties
<1>1. CASE s = <<>>
  <2>1. r.buffer = <<ts>>
    BY <1>1 DEF Insert
  <2>2. <<ts>> \in Seq(Stamps) /\ Len(<<ts>>) = 1
    OBVIOUS
  <2> QED BY <2>1, <2>2
<1>2. CASE s # <<>> /\ order \in {"Before", "Equal"}
  <2>1. r = EnforceMaxSize(Append(s, ts), maxSize)
    BY <1>2 DEF Insert
  <2>2. Append(s, ts) \in Seq(Stamps) /\ Len(Append(s, ts)) = Len(s) + 1
    BY AppendProperties
  <2>3. Len(Append(s, ts)) <= maxSize + 1
    BY <2>2, <1>0
  <2> QED BY <2>1, <2>2, <2>3, Eviction
<1>3. CASE s # <<>> /\ order = "After"
  <2>1. p \in 1..Len(s)
    BY <1>3, WhereScanEnds
  <2>2. \/ r.buffer = s
        \/ r = EnforceMaxSize(InsertAt(s, p, ts), maxSize)
    BY <1>3 DEF Insert, Refuse
  <2> HIDE DEF p
  <2>3. InsertAt(s, p, ts) \in Seq(Stamps) /\ Len(InsertAt(s, p, ts)) = Len(s) + 1
    BY <2>1, InsertionElements
  <2>4. Len(InsertAt(s, p, ts)) <= maxSize + 1
    BY <2>3, <1>0
  <2> QED BY <2>2, <2>3, <2>4, Eviction
<1>4. CASE s # <<>> /\ order = "NotComparable"
  <2>1. r.buffer = s
    BY <1>4 DEF Insert, Refuse
  <2> QED BY <2>1
<1>5. order \in {"Before", "Equal", "After", "NotComparable"}
  BY DEF CompareTimestamps, Ordering
<1> QED BY <1>1, <1>2, <1>3, <1>4, <1>5

(* With monotonic times a sequence is sorted iff these times do not fall. *)
LEMMA SortedSteady ==
    ASSUME SteadyClock, NEW s \in Seq(Stamps)
    PROVE  Sorted(s) <=> \A i, j \in 1..Len(s) : i < j => s[i].steady <= s[j].steady
<1>1. ASSUME NEW i \in 1..Len(s), NEW j \in 1..Len(s)
      PROVE  CompareTimestamps(s[i], s[j]) # "After" <=> s[i].steady <= s[j].steady
  <2>1. s[i] \in Stamps /\ s[j] \in Stamps
    BY ElementOfSeq
  <2> QED BY <2>1, SteadyComparison
<1> QED BY <1>1 DEF Sorted

(* With monotonic times insertion keeps a buffer sorted, however late the  *)
(* sample is.                                                              *)
LEMMA InsertionSorted ==
    ASSUME SteadyClock, NEW s \in Seq(Stamps), NEW ts \in Stamps,
           NEW maxSize \in Nat \ {0}, Len(s) <= maxSize, Sorted(s)
    PROVE  Sorted(Insert(s, ts, maxSize).buffer)
<1> DEFINE p == Min(ScanEnds(s, ts))
           order == CompareTimestamps(Last(s), ts)
           r == Insert(s, ts, maxSize)
<1>0. Len(s) \in Nat /\ \A i \in 1..Len(s) : s[i] \in Stamps /\ s[i].steady \in Nat
  BY LenProperties, ElementOfSeq, SteadyComparison
<1>1. \A i, j \in 1..Len(s) : i < j => s[i].steady <= s[j].steady
  BY SortedSteady
<1>2. ts.steady \in Nat
  BY SteadyComparison
<1>3. CASE s = <<>>
  <2>1. r.buffer = <<ts>>
    BY <1>3 DEF Insert
  <2>2. Sorted(<<ts>>)
    BY DEF Sorted
  <2> QED BY <2>1, <2>2
<1>4. CASE s # <<>> /\ order \in {"Before", "Equal"}
  <2> DEFINE t == Append(s, ts)
  <2>1. r = EnforceMaxSize(t, maxSize)
    BY <1>4 DEF Insert
  <2>2. /\ t \in Seq(Stamps) /\ Len(t) = Len(s) + 1
        /\ \A i \in 1..Len(s) : t[i] = s[i]
        /\ t[Len(s) + 1] = ts
    BY AppendProperties
  <2> HIDE DEF t
  <2>3. Len(s) \in 1..Len(s) /\ s[Len(s)].steady <= ts.steady
    <3>1. Len(s) \in 1..Len(s)
      BY <1>4, <1>0, EmptySeq
    <3>2. CompareTimestamps(s[Len(s)], ts) \in {"Before", "Equal"}
      BY <1>4 DEF Last
    <3> QED BY <3>1, <3>2, <1>0, SteadyComparison
  <2>4. \A i, j \in 1..Len(t) : i < j => t[i].steady <= t[j].steady
    <3> SUFFICES ASSUME NEW i \in 1..Len(t), NEW j \in 1..Len(t), i < j
                 PROVE  t[i].steady <= t[j].steady
      OBVIOUS
    <3>1. i \in 1..Len(s) /\ t[i] = s[i]
      BY <2>2, <1>0
    <3>2. CASE j \in 1..Len(s)
      BY <3>1, <3>2, <2>2, <1>1
    <3>3. CASE j = Len(s) + 1
      <4>1. s[i].steady <= s[Len(s)].steady
        BY <3>1, <2>3, <1>0, <1>1
      <4> QED BY <4>1, <3>1, <3>3, <2>2, <2>3, <1>0, <1>2
    <3>4. j \in 1..Len(s) \/ j = Len(s) + 1
      <4>1. j \in 1..(Len(s) + 1)
        BY <2>2
      <4> QED BY <4>1, <1>0
    <3> QED BY <3>2, <3>3, <3>4
  <2>5. Sorted(t)
    BY <2>2, <2>4, SortedSteady
  <2>6. Len(t) <= maxSize + 1
    BY <2>2, <1>0
  <2> QED BY <2>1, <2>2, <2>5, <2>6, Eviction
<1>5. CASE s # <<>> /\ order = "After"
  <2>1. /\ p \in 1..Len(s)
        /\ CompareTimestamps(ts, s[p]) # "After"
        /\ \A i \in 1..(p - 1) : CompareTimestamps(ts, s[i]) = "After"
    BY <1>5, WhereScanEnds
  <2>2. \/ r.buffer = s
        \/ r = EnforceMaxSize(InsertAt(s, p, ts), maxSize)
    BY <1>5 DEF Insert, Refuse
  <2> HIDE DEF p
  <2> DEFINE t == InsertAt(s, p, ts)
  <2>3. /\ t \in Seq(Stamps) /\ Len(t) = Len(s) + 1
        /\ \A i \in 1..Len(s) + 1 :
             t[i] = IF i < p THEN s[i] ELSE IF i = p THEN ts ELSE s[i - 1]
    BY <2>1, InsertionElements
  <2> HIDE DEF t
  <2>4. ts.steady <= s[p].steady /\ \A i \in 1..(p - 1) : s[i].steady <= ts.steady
    <3>1. ts.steady <= s[p].steady
      BY <2>1, <1>0, SteadyComparison
    <3>2. ASSUME NEW i \in 1..(p - 1) PROVE s[i].steady <= ts.steady
      <4>1. i \in 1..Len(s)
        BY <2>1, <1>0
      <4> QED BY <4>1, <2>1, <1>0, SteadyComparison
    <3> QED BY <3>1, <3>2
  <2>5. \A i \in 1..(p - 1), j \in p..Len(s) : s[i].steady <= s[j].steady
    BY <2>1, <1>0, <1>1
  <2>6. \A j \in p..Len(s) : ts.steady <= s[j].steady
    <3> SUFFICES ASSUME NEW j \in p..Len(s) PROVE ts.steady <= s[j].steady
      OBVIOUS
    <3>1. s[p].steady <= s[j].steady
      BY <2>1, <1>0, <1>1
    <3>2. j \in 1..Len(s)
      BY <2>1, <1>0
    <3> QED BY <3>1, <3>2, <2>1, <2>4, <1>0, <1>2
  <2>7. \A i, j \in 1..Len(t) : i < j => t[i].steady <= t[j].steady
    <3> SUFFICES ASSUME NEW i \in 1..Len(t), NEW j \in 1..Len(t), i < j
                 PROVE  t[i].steady <= t[j].steady
      OBVIOUS
    <3>0. /\ i \in 1..Len(s) + 1 /\ j \in 1..Len(s) + 1 /\ p \in Nat
      BY <2>1, <2>3, <1>0
    <3>1. CASE j < p
      <4>1. i \in 1..Len(s) /\ j \in 1..Len(s) /\ t[i] = s[i] /\ t[j] = s[j]
        BY <3>0, <3>1, <2>1, <2>3, <1>0
      <4> QED BY <4>1, <1>1
    <3>2. CASE j = p
      <4>1. i \in 1..(p - 1) /\ t[i] = s[i] /\ t[j] = ts
        BY <3>0, <3>2, <2>3
      <4> QED BY <4>1, <2>4
    <3>3. CASE j > p
      <4>1. t[j] = s[j - 1] /\ j - 1 \in p..Len(s)
        BY <3>0, <3>3, <2>3, <1>0
      <4>2. CASE i < p
        <5>1. i \in 1..(p - 1) /\ t[i] = s[i]
          BY <4>2, <3>0, <2>3
        <5> QED BY <5>1, <4>1, <2>5
      <4>3. CASE i = p
        <5>1. t[i] = ts
          BY <4>3, <3>0, <2>3
        <5> QED BY <5>1, <4>1, <2>6
      <4>4. CASE i > p
        <5>1. t[i] = s[i - 1] /\ i - 1 \in 1..Len(s) /\ j - 1 \in 1..Len(s) /\ i - 1 < j - 1
          BY <4>4, <4>1, <3>0, <2>1, <2>3, <1>0
        <5> QED BY <5>1, <4>1, <1>1
      <4> QED BY <4>2, <4>3, <4>4, <3>0
    <3> QED BY <3>0, <3>1, <3>2, <3>3
  <2>8. Sorted(t)
    BY <2>3, <2>7, SortedSteady
  <2>9. Len(t) <= maxSize + 1
    BY <2>3, <1>0
  <2> QED BY <2>2, <2>3, <2>8, <2>9, Eviction DEF t
<1>6. CASE s # <<>> /\ order = "NotComparable"
  <2>1. r.buffer = s
    BY <1>6 DEF Insert, Refuse
  <2> QED BY <2>1
<1>7. order \in {"Before", "Equal", "After", "NotComparable"}
  BY DEF CompareTimestamps, Ordering
<1> QED BY <1>3, <1>4, <1>5, <1>6, <1>7

-----------------------------------------------------------------------------
(* Whatever time bases are mixed.                                          *)

(* last_aiding_timestamp_ is never later than the latest accepted          *)
(* measurement.                                                            *)
AidingKnown == lastAiding.steady <= aided

MixedInv == TypeOK /\ OnlyDueIsTaken /\ AidingKnown

(* The first state is well-typed, and there is nothing in it. *)
LEMMA InitMixedInv == Init => MixedInv
<1> SUFFICES ASSUME Init PROVE MixedInv
  OBVIOUS
<1> USE FilterAssumption DEF Init
<1>1. TypeOK
  <2>1. <<>> \in Seq(Stamps) /\ Len(<<>>) = 0
    BY EmptySeq
  <2>2. NoStamp \in Timestamp
    BY DEF NoStamp, Timestamp, Absent
  <2>3. call \in [kind : {"none", "aiding", "process"}, target : Timestamp]
    BY <2>2 DEF Idle
  <2>4. report \in [result : {"none", "Accepted", "Rejected", "Buffered", "OutOfOrder",
                             "NotInitialized"}, stamp : Timestamp]
    BY <2>2 DEF Nothing
  <2>5. /\ imuBuffer \in Seq(Stamps) /\ Len(imuBuffer) <= BufferSize
        /\ batch \in Seq(Stamps)
    BY <2>1
  <2> QED BY <2>2, <2>3, <2>4, <2>5 DEF TypeOK
<1>2. OnlyDueIsTaken
  <2>1. Len(batch) = 0
    BY EmptySeq
  <2> QED BY <2>1 DEF OnlyDueIsTaken
<1>3. AidingKnown
  BY DEF AidingKnown, NoStamp, Absent
<1> QED BY <1>1, <1>2, <1>3 DEF MixedInv

(* The later of two times that may be absent. *)
LEMMA LaterType ==
    ASSUME NEW x \in Nat \cup {Absent}, NEW y \in Nat \cup {Absent}
    PROVE  /\ Later(x, y) \in Nat \cup {Absent}
           /\ x <= Later(x, y) /\ y <= Later(x, y)
BY DEF Later, Absent

(* A span is used up by steps and remainders. *)
LEMMA StepAndRemainder ==
    ASSUME NEW span \in Nat
    PROVE  /\ Step(span) \in Nat /\ Remainder(span) \in Nat
           /\ Step(span) + Remainder(span) = span
BY FilterAssumption DEF Step, Remainder

(* The differences of time stamps are integers. *)
LEMMA DifferenceType ==
    ASSUME NEW a \in Timestamp, NEW b \in Timestamp
    PROVE  TimeDifference(a, b) \subseteq Int
BY DEF TimeDifference, Timestamp, Absent

(* Every step keeps the variables in their ranges. *)
LEMMA TypeStep == TypeOK /\ [Next]_vars => TypeOK'
<1> SUFFICES ASSUME TypeOK, [Next]_vars PROVE TypeOK'
  OBVIOUS
<1> USE FilterAssumption DEF TypeOK
<1>0. NoStamp \in Timestamp /\ Absent \in Int
  BY DEF NoStamp, Timestamp, Absent
<1>1. ASSUME NEW ts \in Stamps, AddImu(ts) PROVE TypeOK'
  <2>1. imuBuffer' \in Seq(Stamps) /\ Len(imuBuffer') <= BufferSize
    BY <1>1, InsertionBounded DEF AddImu, Inserted
  <2>2. report' \in [result : {"OutOfOrder", "Buffered"}, stamp : Timestamp]
    BY <1>1 DEF AddImu, Report
  <2>3. UNCHANGED <<initialised, propagation, aiding, call, horizon>>
    BY <1>1 DEF AddImu
  <2> QED BY <2>1, <2>2, <2>3 DEF propagation, aiding
<1>2. ASSUME NEW ts \in AidingStamps, Initialise(ts) PROVE TypeOK'
  <2>1. ts \in Timestamp /\ ts.steady \in Nat \cup {Absent}
    BY DEF Timestamp
  <2>2. horizon' \in Nat \cup {Absent}
    BY <1>2, <2>1, LaterType DEF Initialise
  <2>3. report' \in [result : {"Accepted"}, stamp : Timestamp]
    BY <1>2, <2>1 DEF Initialise, Report
  <2> QED BY <1>2, <2>1, <2>2, <2>3 DEF Initialise, aiding
<1>3. ASSUME NEW ts \in AidingStamps, RefuseUninitialised(ts) PROVE TypeOK'
  <2>1. report' \in [result : {"Rejected", "NotInitialized"}, stamp : Timestamp]
    BY <1>3 DEF RefuseUninitialised, Report
  <2>2. UNCHANGED <<initialised, propagation, aiding, imuBuffer, call, horizon>>
    BY <1>3 DEF RefuseUninitialised
  <2> QED BY <2>1, <2>2 DEF propagation, aiding
<1>4. ASSUME NEW ts \in AidingStamps, NEW kind \in {"aiding", "process"}, BeginCall(kind, ts)
      PROVE  TypeOK'
  <2>1. ts \in Timestamp /\ ts.steady \in Nat \cup {Absent}
    BY DEF Timestamp
  <2>2. horizon' \in Nat \cup {Absent}
    BY <1>4, <2>1, LaterType DEF BeginCall
  <2>3. batch' \in Seq(Stamps) /\ imuBuffer' \in Seq(Stamps) /\ Len(imuBuffer') <= Len(imuBuffer)
    BY <1>4, DueAndRest DEF BeginCall, Taken, Left
  <2>4. Len(imuBuffer') <= BufferSize
    BY <2>3, LenProperties
  <2>5. call' \in [kind : {"none", "aiding", "process"}, target : Timestamp]
    BY <1>4, <2>1 DEF BeginCall
  <2> QED BY <1>4, <2>2, <2>3, <2>4, <2>5 DEF BeginCall, aiding
<1>5. ASSUME AdoptTime PROVE TypeOK'
  <2>1. Head(batch) \in Stamps /\ Tail(batch) \in Seq(Stamps)
    BY <1>5, TailElements DEF AdoptTime
  <2> QED BY <1>5, <2>1 DEF AdoptTime, aiding
<1>6. ASSUME Skip PROVE TypeOK'
  <2>1. Tail(batch) \in Seq(Stamps)
    BY <1>6, TailElements DEF Skip
  <2> QED BY <1>6, <2>1 DEF Skip, NextRound, aiding
<1>7. ASSUME Propagate PROVE TypeOK'
  <2>1. Head(batch) \in Stamps /\ Head(batch) \in Timestamp /\ Tail(batch) \in Seq(Stamps)
    BY <1>7, TailElements DEF Propagate
  <2>2. PICK dt \in TimeDifference(Head(batch), nominal) :
           FarEnough(dt) /\ integrated' = integrated + Step(dt) /\ remaining' = Remainder(dt)
    BY <1>7 DEF Propagate
  <2>3. dt \in Nat
    BY <2>1, <2>2, DifferenceType DEF FarEnough
  <2>4. Step(dt) \in Nat /\ Remainder(dt) \in Nat
    BY <2>3, StepAndRemainder
  <2> QED BY <1>7, <2>1, <2>2, <2>4 DEF Propagate, aiding
<1>8. ASSUME PropagateRest PROVE TypeOK'
  <2>1. Step(remaining) \in Nat /\ Remainder(remaining) \in Nat
    BY StepAndRemainder
  <2> QED BY <1>8, <2>1 DEF PropagateRest, aiding
<1>9. ASSUME Finish PROVE TypeOK'
  <2>1. call.target \in Timestamp /\ call.target.steady \in Nat \cup {Absent}
    BY DEF Timestamp
  <2>2. lastAiding' \in Timestamp
    BY <1>9, <2>1 DEF Finish, aiding
  <2>3. aided' \in Nat \cup {Absent}
    BY <1>9, <2>1, LaterType DEF Finish, aiding
  <2>4. report' \in [result : {"Accepted", "Rejected"}, stamp : Timestamp]
    BY <1>9, <2>1 DEF Finish, Report
  <2>5. call' \in [kind : {"none"}, target : Timestamp]
    BY <1>9, <1>0 DEF Finish, Idle
  <2>6. UNCHANGED <<initialised, propagation, imuBuffer, horizon>>
    BY <1>9 DEF Finish
  <2> QED BY <2>2, <2>3, <2>4, <2>5, <2>6 DEF propagation
<1>10. ASSUME Reset PROVE TypeOK'
  <2>1. imuBuffer' \in Seq(Stamps) /\ Len(imuBuffer') = 0
    BY <1>10, EmptySeq DEF Reset
  <2>2. report' \in [result : {"none"}, stamp : Timestamp]
    BY <1>10, <1>0 DEF Reset, Nothing
  <2>3. Len(imuBuffer') <= BufferSize
    BY <2>1
  <2> QED BY <1>10, <1>0, <2>1, <2>2, <2>3 DEF Reset
<1>11. CASE UNCHANGED vars
  BY <1>11 DEF vars, propagation, aiding
<1> QED BY <1>1, <1>2, <1>3, <1>4, <1>5, <1>6, <1>7, <1>8, <1>9, <1>10, <1>11 DEF Next, Loops

(* Nothing beyond the target of the call is ever taken from the buffer. *)
LEMMA DueStep == TypeOK /\ OnlyDueIsTaken /\ [Next]_vars => OnlyDueIsTaken'
<1> SUFFICES ASSUME TypeOK, OnlyDueIsTaken, [Next]_vars PROVE OnlyDueIsTaken'
  OBVIOUS
<1> USE DEF OnlyDueIsTaken
<1>0. batch \in Seq(Stamps) /\ imuBuffer \in Seq(Stamps) /\ Len(batch) \in Nat
  BY LenProperties DEF TypeOK
<1>1. ASSUME NEW ts \in AidingStamps, NEW kind \in {"aiding", "process"}, BeginCall(kind, ts)
      PROVE  OnlyDueIsTaken'
  <2>1. batch' = Due(imuBuffer, ts) /\ call'.target = ts
    BY <1>1 DEF BeginCall, Taken
  <2> QED BY <2>1, <1>0, DueAndRest
<1>2. ASSUME batch # <<>>, batch' = Tail(batch), call' = call PROVE OnlyDueIsTaken'
  <2>1. /\ Len(batch') = Len(batch) - 1
        /\ \A i \in 1..Len(batch') : batch'[i] = batch[i + 1]
    BY <1>0, <1>2, TailElements
  <2>2. ASSUME NEW i \in 1..Len(batch')
        PROVE  CompareTimestamps(batch'[i], call'.target) \in {"Before", "Equal"}
    <3>1. i + 1 \in 1..Len(batch)
      BY <1>0, <2>1
    <3> QED BY <3>1, <2>1, <1>2
  <2> QED BY <2>2
<1>3. ASSUME Finish PROVE OnlyDueIsTaken'
  <2>1. Len(batch') = 0
    BY <1>3, EmptySeq DEF Finish, propagation
  <2> QED BY <2>1
<1>4. ASSUME batch' = batch, call' = call PROVE OnlyDueIsTaken'
  BY <1>4
<1>5. CASE Loops
  BY <1>2, <1>3, <1>4, <1>5 DEF Loops, AdoptTime, Skip, NextRound, Propagate, PropagateRest
<1>6. CASE Reset \/ UNCHANGED vars
  BY <1>4, <1>6 DEF Reset, vars, propagation
<1>7. ASSUME NEW ts \in Stamps \cup AidingStamps,
             AddImu(ts) \/ Initialise(ts) \/ RefuseUninitialised(ts)
      PROVE  OnlyDueIsTaken'
  BY <1>4, <1>7 DEF AddImu, Initialise, RefuseUninitialised, propagation
<1> QED BY <1>1, <1>5, <1>6, <1>7 DEF Next

(* The filter's own record of the last aiding is a lower bound.            *)
LEMMA AidingStep == TypeOK /\ AidingKnown /\ [Next]_vars => AidingKnown'
<1> SUFFICES ASSUME TypeOK, AidingKnown, [Next]_vars PROVE AidingKnown'
  OBVIOUS
<1> USE DEF AidingKnown
<1>0. /\ call.target.steady \in Nat \cup {Absent} /\ lastAiding.steady \in Int
      /\ aided \in Nat \cup {Absent}
  BY DEF TypeOK, Timestamp, Absent
<1>1. CASE Finish
  <2>1. CASE UNCHANGED aiding
    BY <2>1 DEF aiding
  <2>2. CASE ~ UNCHANGED aiding
    <3>1. PICK result \in {"Accepted", "Rejected"} :
            /\ lastAiding' = IF Aided(result) THEN call.target ELSE lastAiding
            /\ aided' = IF result = "Accepted" THEN Later(aided, call.target.steady) ELSE aided
      BY <1>1, <2>2 DEF Finish
    <3>2. CASE result = "Accepted"
      BY <3>1, <3>2, <1>0, LaterType DEF Aided
    <3>3. CASE result # "Accepted"
      BY <3>1, <3>3 DEF Aided
    <3> QED BY <3>2, <3>3
  <2> QED BY <2>1, <2>2
<1>2. CASE Reset
  BY <1>2 DEF Reset, NoStamp, Absent
<1>3. CASE UNCHANGED aiding
  BY <1>3 DEF aiding
<1>4. ASSUME NEW ts \in Stamps \cup AidingStamps,
             AddImu(ts) \/ Initialise(ts) \/ RefuseUninitialised(ts)
      PROVE  UNCHANGED aiding
  BY <1>4 DEF AddImu, Initialise, RefuseUninitialised
<1>5. ASSUME NEW ts \in AidingStamps, NEW kind \in {"aiding", "process"}, BeginCall(kind, ts)
      PROVE  UNCHANGED aiding
  BY <1>5 DEF BeginCall
<1>6. ASSUME AdoptTime \/ Skip \/ Propagate \/ PropagateRest PROVE UNCHANGED aiding
  BY <1>6 DEF AdoptTime, Skip, Propagate, PropagateRest
<1>7. CASE UNCHANGED vars
  BY <1>3, <1>7 DEF vars
<1> QED BY <1>1, <1>2, <1>3, <1>4, <1>5, <1>6, <1>7 DEF Next, Loops

(* The invariant that needs no assumption about the time bases.            *)
THEOREM MixedInvariance == Spec => []MixedInv
<1>1. MixedInv /\ [Next]_vars => MixedInv'
  BY TypeStep, DueStep, AidingStep DEF MixedInv
<1> QED BY InitMixedInv, <1>1, PTL DEF Spec

(* Type correctness of the filter; its buffer is within its capacity.      *)
THEOREM FilterTypeCorrect == Spec => []TypeOK
<1>1. MixedInv => TypeOK
  BY DEF MixedInv
<1> QED BY MixedInvariance, <1>1, PTL

(* No inertial sample beyond the requested time is integrated, whatever    *)
(* time bases are mixed.                                                   *)
THEOREM NothingOfTheFuture == Spec => []OnlyDueIsTaken
<1>1. MixedInv => OnlyDueIsTaken
  BY DEF MixedInv
<1> QED BY MixedInvariance, <1>1, PTL

(* Nominal is only reported within the threshold of an accepted            *)
(* measurement.                                                            *)
THEOREM NominalIsAided == Spec => []NominalMeansAided
<1>1. MixedInv => NominalMeansAided
  <2> SUFFICES ASSUME MixedInv, Status = "Nominal"
               PROVE  aided # Absent /\ nominal.steady - aided <= Threshold
    BY DEF NominalMeansAided
  <2>1. /\ nominal.steady \in Int /\ lastAiding.steady \in Nat \cup {Absent}
        /\ aided \in Nat \cup {Absent} /\ lastAiding.steady <= aided
    BY DEF MixedInv, TypeOK, Timestamp, AidingKnown, Absent
  <2>2. lastAiding.steady # Absent /\ nominal.steady - lastAiding.steady <= Threshold
    BY DEF Status
  <2> QED BY <2>1, <2>2, FilterAssumption DEF Absent
<1> QED BY MixedInvariance, <1>1, PTL

-----------------------------------------------------------------------------
(* With monotonic times.                                                   *)

(* What a filter and a call in progress look like: nothing is known before *)
(* the first fix, a call asks for no more than the horizon, a span is only *)
(* split while the state has a monotonic time, and nothing is left of a    *)
(* call that has returned.                                                 *)
Phase ==
    /\ ~initialised => nominal = NoStamp /\ call = Idle
    /\ remaining # 0 => nominal.steady # Absent
    /\ call = Idle => batch = <<>> /\ remaining = 0
    /\ call # Idle => call.target.steady <= horizon

SteadyInv ==
    MixedInv /\ Phase /\ BufferSorted /\ AllDueIsTaken /\ ElapsedIsIntegrated /\ NotAhead

(* The first state has nothing to sort, take or integrate. *)
LEMMA InitSteadyInv == Init => SteadyInv
<1> SUFFICES ASSUME Init PROVE SteadyInv
  OBVIOUS
<1>1. MixedInv
  BY InitMixedInv
<1>2. Len(imuBuffer) = 0 /\ Len(batch) = 0
  BY EmptySeq DEF Init
<1>3. BufferSorted
  BY <1>2 DEF BufferSorted, Sorted
<1>4. Phase /\ AllDueIsTaken /\ ElapsedIsIntegrated /\ NotAhead
  BY DEF Init, Phase, AllDueIsTaken, ElapsedIsIntegrated, NotAhead, NoStamp, Absent
<1> QED BY <1>1, <1>3, <1>4 DEF SteadyInv

(* The loops of a call change only what belongs to the call and the state. *)
LEMMA LoopFrame ==
    ASSUME Loops
    PROVE  /\ UNCHANGED <<initialised, imuBuffer, horizon>>
           /\ call' \in {call, Idle}
BY DEF Loops, AdoptTime, Skip, Propagate, PropagateRest, Finish

(* Phases are kept by every step. *)
LEMMA PhaseStep ==
    ASSUME SteadyClock, SteadyInv, [Next]_vars
    PROVE  Phase'
<1> USE DEF SteadyInv, MixedInv, Phase
<1>0. batch \in Seq(Stamps) /\ remaining \in Nat /\ horizon \in Nat \cup {Absent}
  BY DEF TypeOK
<1>1. ASSUME NEW ts \in Stamps \cup AidingStamps, AddImu(ts) \/ RefuseUninitialised(ts) PROVE Phase'
  BY <1>1 DEF AddImu, RefuseUninitialised, propagation
<1>2. ASSUME NEW ts \in AidingStamps, Initialise(ts) PROVE Phase'
  BY <1>2 DEF Initialise
<1>3. ASSUME NEW ts \in AidingStamps, NEW kind \in {"aiding", "process"}, BeginCall(kind, ts)
      PROVE  Phase'
  <2>1. call'.target = ts /\ call' # Idle
    BY <1>3 DEF BeginCall, Idle
  <2>2. ts.steady \in Nat \cup {Absent}
    BY FilterAssumption DEF Timestamp
  <2>3. ts.steady <= horizon'
    BY <1>3, <1>0, <2>2, LaterType DEF BeginCall
  <2> QED BY <1>3, <2>1, <2>3 DEF BeginCall
<1>4. ASSUME Loops PROVE Phase'
  <2>1. CASE AdoptTime
    <3>1. Head(batch) \in Stamps
      BY <2>1, <1>0, TailElements DEF AdoptTime
    <3>2. initialised
      BY <2>1 DEF AdoptTime
    <3> QED BY <2>1, <3>1, <3>2 DEF AdoptTime, SteadyClock
  <2>2. CASE Skip
    BY <2>2 DEF Skip, NextRound
  <2>3. CASE Propagate
    <3>1. Head(batch) \in Stamps
      BY <2>3, <1>0, TailElements DEF Propagate
    <3> QED BY <2>3, <3>1 DEF Propagate, SteadyClock
  <2>4. CASE PropagateRest
    <3>1. call # Idle
      BY <2>4, <1>0 DEF PropagateRest
    <3> QED BY <2>4, <3>1 DEF PropagateRest
  <2>5. CASE Finish
    <3>1. batch' = <<>> /\ remaining' = 0 /\ call' = Idle /\ call # Idle
      BY <2>5, <1>0 DEF Finish, propagation
    <3> QED BY <2>5, <3>1 DEF Finish, propagation
  <2> QED BY <1>4, <2>1, <2>2, <2>3, <2>4, <2>5 DEF Loops
<1>5. ASSUME Reset PROVE Phase'
  BY <1>5 DEF Reset
<1>6. CASE UNCHANGED vars
  BY <1>6 DEF vars, propagation
<1> QED BY <1>1, <1>2, <1>3, <1>4, <1>5, <1>6 DEF Next

(* A tail of a sorted sequence is sorted. *)
LEMMA SortedTail ==
    ASSUME NEW s \in Seq(Stamps), s # <<>>, Sorted(s)
    PROVE  Sorted(Tail(s))
<1>1. /\ Len(Tail(s)) = Len(s) - 1 /\ Len(s) \in Nat
      /\ \A i \in 1..Len(Tail(s)) : Tail(s)[i] = s[i + 1]
  BY TailElements, LenProperties
<1>2. ASSUME NEW i \in 1..Len(Tail(s)), NEW j \in 1..Len(Tail(s)), i < j
      PROVE  CompareTimestamps(Tail(s)[i], Tail(s)[j]) # "After"
  <2>1. i + 1 \in 1..Len(s) /\ j + 1 \in 1..Len(s) /\ i + 1 < j + 1
    BY <1>1, <1>2
  <2> QED BY <2>1, <1>1 DEF Sorted
<1> QED BY <1>2 DEF Sorted

(* Both parts of a sorted buffer are sorted. *)
LEMMA SortedParts ==
    ASSUME NEW s \in Seq(Stamps), NEW ts, Sorted(s)
    PROVE  Sorted(Due(s, ts)) /\ Sorted(NotYetDue(s, ts))
<1> DEFINE n == DueCount(s, ts)
<1>1. /\ Len(s) \in Nat /\ n \in 0..Len(s)
      /\ Len(Due(s, ts)) = n /\ Len(NotYetDue(s, ts)) = Len(s) - n
      /\ \A i \in 1..Len(Due(s, ts)) : Due(s, ts)[i] = s[i]
      /\ \A i \in 1..Len(NotYetDue(s, ts)) : NotYetDue(s, ts)[i] = s[n + i]
  BY DueAndRest, WherePopStops, LenProperties
<1> HIDE DEF n
<1>2. Sorted(Due(s, ts))
  <2>1. ASSUME NEW i \in 1..Len(Due(s, ts)), NEW j \in 1..Len(Due(s, ts)), i < j
        PROVE  CompareTimestamps(Due(s, ts)[i], Due(s, ts)[j]) # "After"
    <3>1. i \in 1..Len(s) /\ j \in 1..Len(s)
      BY <1>1
    <3> QED BY <3>1, <2>1, <1>1 DEF Sorted
  <2> QED BY <2>1 DEF Sorted
<1>3. Sorted(NotYetDue(s, ts))
  <2>1. ASSUME NEW i \in 1..Len(NotYetDue(s, ts)), NEW j \in 1..Len(NotYetDue(s, ts)), i < j
        PROVE  CompareTimestamps(NotYetDue(s, ts)[i], NotYetDue(s, ts)[j]) # "After"
    <3>1. n + i \in 1..Len(s) /\ n + j \in 1..Len(s) /\ n + i < n + j
      BY <1>1, <2>1
    <3> QED BY <3>1, <1>1 DEF Sorted
  <2> QED BY <2>1 DEF Sorted
<1> QED BY <1>2, <1>3

(* The buffer and what a call took from it stay sorted. *)
LEMMA SortedStep ==
    ASSUME SteadyClock, SteadyInv, [Next]_vars
    PROVE  BufferSorted'
<1> USE DEF BufferSorted
<1>0. /\ imuBuffer \in Seq(Stamps) /\ batch \in Seq(Stamps) /\ Len(imuBuffer) <= BufferSize
      /\ Sorted(imuBuffer) /\ Sorted(batch)
  BY DEF SteadyInv, MixedInv, TypeOK
<1>1. ASSUME NEW ts \in Stamps, AddImu(ts) PROVE BufferSorted'
  <2>1. Sorted(imuBuffer') /\ batch' = batch
    BY <1>0, <1>1, InsertionSorted, FilterAssumption DEF AddImu, Inserted, propagation
  <2> QED BY <2>1, <1>0
<1>2. ASSUME NEW ts \in AidingStamps, NEW kind \in {"aiding", "process"}, BeginCall(kind, ts)
      PROVE  BufferSorted'
  BY <1>0, <1>2, SortedParts DEF BeginCall, Taken, Left
<1>3. CASE UNCHANGED <<imuBuffer, batch>>
  BY <1>0, <1>3
<1>4. CASE batch # <<>> /\ batch' = Tail(batch) /\ UNCHANGED imuBuffer
  BY <1>0, <1>4, SortedTail
<1>5. CASE Reset
  <2>1. imuBuffer' = <<>> /\ batch' = batch /\ Len(<<>>) = 0
    BY <1>5, EmptySeq DEF Reset
  <2> QED BY <2>1, <1>0 DEF Sorted
<1>6. CASE Loops
  BY <1>3, <1>4, <1>6
     DEF Loops, AdoptTime, Skip, NextRound, Propagate, PropagateRest, Finish, propagation
<1>7. ASSUME NEW ts \in AidingStamps, Initialise(ts) \/ RefuseUninitialised(ts) PROVE BufferSorted'
  BY <1>3, <1>7 DEF Initialise, RefuseUninitialised, propagation
<1>8. CASE UNCHANGED vars
  BY <1>3, <1>8 DEF vars, propagation
<1> QED BY <1>1, <1>2, <1>5, <1>6, <1>7, <1>8 DEF Next

(* What a call leaves in a sorted buffer is later than its target. *)
LEMMA RestIsLater ==
    ASSUME SteadyClock, NEW s \in Seq(Stamps), NEW ts \in Timestamp, Sorted(s)
    PROVE  \A i \in 1..Len(NotYetDue(s, ts)) :
              CompareTimestamps(NotYetDue(s, ts)[i], ts) \notin {"Before", "Equal"}
<1> DEFINE n == DueCount(s, ts)
<1>1. /\ Len(s) \in Nat /\ n \in 0..Len(s) /\ Len(NotYetDue(s, ts)) = Len(s) - n
      /\ \A i \in 1..Len(NotYetDue(s, ts)) : NotYetDue(s, ts)[i] = s[n + i]
      /\ n < Len(s) => CompareTimestamps(s[n + 1], ts) \notin {"Before", "Equal"}
  BY DueAndRest, WherePopStops, LenProperties
<1> HIDE DEF n
<1> SUFFICES ASSUME NEW i \in 1..Len(NotYetDue(s, ts))
             PROVE  CompareTimestamps(NotYetDue(s, ts)[i], ts) \notin {"Before", "Equal"}
  OBVIOUS
<1>2. n < Len(s) /\ n + 1 \in 1..Len(s) /\ n + i \in 1..Len(s) /\ n + 1 <= n + i
  BY <1>1
<1>3. s[n + 1] \in Stamps /\ s[n + i] \in Stamps
  BY <1>2, ElementOfSeq
<1>4. ts.steady = Absent \/ ts.steady < s[n + 1].steady
  BY <1>1, <1>2, <1>3, SampleComparison, SteadyComparison DEF Timestamp
<1>5. s[n + 1].steady <= s[n + i].steady
  <2>1. CASE i = 1
    BY <2>1, <1>3, SteadyComparison
  <2>2. CASE i # 1
    <3>1. n + 1 < n + i
      BY <2>2, <1>1
    <3> QED BY <3>1, <1>2, SortedSteady
  <2> QED BY <2>1, <2>2
<1>6. ts.steady = Absent \/ ts.steady < s[n + i].steady
  BY <1>3, <1>4, <1>5, SteadyComparison DEF Timestamp
<1> QED BY <1>1, <1>3, <1>6, SampleComparison, SteadyComparison DEF Timestamp

(* A call takes all that is due at its target. *)
LEMMA AllDueStep ==
    ASSUME SteadyClock, SteadyInv, [Next]_vars
    PROVE  AllDueIsTaken'
<1> USE DEF AllDueIsTaken
<1>0. imuBuffer \in Seq(Stamps) /\ Sorted(imuBuffer) /\ AllDueIsTaken
  BY DEF SteadyInv, MixedInv, TypeOK, BufferSorted
<1>1. ASSUME NEW ts \in AidingStamps, NEW kind \in {"aiding", "process"}, BeginCall(kind, ts)
      PROVE  AllDueIsTaken'
  <2>1. call'.target = ts /\ imuBuffer' = NotYetDue(imuBuffer, ts)
    BY <1>1 DEF BeginCall, Left
  <2> QED BY <2>1, <1>0, RestIsLater, FilterAssumption
<1>2. CASE call' = Idle
  BY <1>2
<1>3. CASE UNCHANGED <<imuBuffer, call>>
  BY <1>0, <1>3
<1>4. CASE Loops
  BY <1>2, <1>3, <1>4, LoopFrame
<1>5. ASSUME NEW ts \in Stamps \cup AidingStamps,
             AddImu(ts) \/ Initialise(ts) \/ RefuseUninitialised(ts)
      PROVE  AllDueIsTaken'
  BY <1>2, <1>5 DEF AddImu, Initialise, RefuseUninitialised
<1>6. CASE Reset
  BY <1>2, <1>6 DEF Reset
<1>7. CASE UNCHANGED vars
  BY <1>3, <1>7 DEF vars
<1> QED BY <1>1, <1>4, <1>5, <1>6, <1>7 DEF Next

(* What one round of the loop adds, over the state's old and new time. *)
LEMMA RoundOfPropagate ==
    ASSUME SteadyClock, SteadyInv, Propagate
    PROVE  /\ initialised /\ remaining = 0 /\ call # Idle
           /\ nominal'.steady \in Nat /\ nominal.steady \in Nat
           /\ nominal.steady <= nominal'.steady
           /\ nominal'.steady <= call.target.steady
           /\ integrated' + remaining' = integrated + (nominal'.steady - nominal.steady)
<1> USE DEF SteadyInv, MixedInv, Phase
<1>1. /\ call # Idle /\ batch # <<>> /\ remaining <= 0 /\ nominal' = Head(batch)
  BY DEF Propagate
<1>2. /\ batch \in Seq(Stamps) /\ remaining \in Nat /\ integrated \in Nat
      /\ initialised \in BOOLEAN
  BY DEF TypeOK
<1>3. initialised /\ nominal \in Timestamp /\ call.target \in Timestamp /\ remaining = 0
  BY <1>1, <1>2 DEF TypeOK
<1>4. Head(batch) \in Stamps /\ Head(batch) = batch[1] /\ 1 \in 1..Len(batch)
  BY <1>1, <1>2, TailElements, LenProperties
<1>5. Head(batch).steady \in Nat
  BY <1>4, SteadyComparison
<1>6. CompareTimestamps(Head(batch), call.target) \in {"Before", "Equal"}
  BY <1>4 DEF OnlyDueIsTaken
<1>7. Head(batch).steady <= call.target.steady
  BY <1>3, <1>4, <1>5, <1>6, SampleComparison DEF Timestamp, Absent
<1>8. PICK dt \in TimeDifference(Head(batch), nominal) :
         FarEnough(dt) /\ integrated' = integrated + Step(dt) /\ remaining' = Remainder(dt)
  BY DEF Propagate
<1>9. nominal.steady \in Nat /\ dt = Head(batch).steady - nominal.steady /\ dt \in Nat
  BY <1>3, <1>4, <1>5, <1>8, SampleComparison, FilterAssumption DEF FarEnough, Timestamp
<1>10. Step(dt) \in Nat /\ Remainder(dt) \in Nat /\ Step(dt) + Remainder(dt) = dt
  BY <1>9, StepAndRemainder
<1>11. integrated' + remaining' = integrated + dt
  BY <1>2, <1>8, <1>10
<1> QED BY <1>1, <1>3, <1>4, <1>5, <1>7, <1>9, <1>11

(* A filter without a time takes that of a sample the call asked for. *)
LEMMA RoundOfAdoptTime ==
    ASSUME SteadyClock, SteadyInv, AdoptTime
    PROVE  /\ call # Idle /\ remaining' = 0 /\ integrated' = 0 /\ origin' = nominal'
           /\ nominal = NoStamp /\ nominal'.steady \in Nat
           /\ nominal'.steady <= call.target.steady
<1> USE DEF SteadyInv, MixedInv, Phase
<1>1. /\ call # Idle /\ batch # <<>> /\ nominal = NoStamp /\ remaining' = remaining
      /\ nominal' = Head(batch) /\ origin' = Head(batch) /\ integrated' = 0
  BY DEF AdoptTime
<1>2. batch \in Seq(Stamps) /\ call.target \in Timestamp
  BY DEF TypeOK
<1>3. Head(batch) \in Stamps /\ Head(batch) = batch[1] /\ 1 \in 1..Len(batch)
  BY <1>1, <1>2, TailElements, LenProperties
<1>4. Head(batch).steady \in Nat
  BY <1>3, SteadyComparison
<1>5. CompareTimestamps(Head(batch), call.target) \in {"Before", "Equal"}
  BY <1>3 DEF OnlyDueIsTaken
<1>6. Head(batch).steady <= call.target.steady
  BY <1>2, <1>3, <1>4, <1>5, SampleComparison DEF Timestamp, Absent
<1>7. remaining = 0
  BY <1>1 DEF NoStamp
<1> QED BY <1>1, <1>4, <1>6, <1>7

(* A step that keeps the state's time and what is integrated. *)
StateKept == UNCHANGED <<initialised, nominal, origin, integrated, remaining>>

(* Every action but Initialise, the rounds of the loops and Reset does. *)
LEMMA KeepingSteps ==
    ASSUME SteadyClock, SteadyInv, [Next]_vars
    PROVE  \/ StateKept /\ horizon' = horizon
           \/ \E ts \in AidingStamps : \/ Initialise(ts)
                                       \/ StateKept /\ horizon' = Later(horizon, ts.steady)
           \/ AdoptTime \/ Propagate \/ PropagateRest \/ Reset
<1> USE DEF StateKept
<1>1. ASSUME NEW ts \in Stamps \cup AidingStamps, AddImu(ts) \/ RefuseUninitialised(ts)
      PROVE  StateKept /\ horizon' = horizon
  BY <1>1 DEF AddImu, RefuseUninitialised, propagation
<1>2. ASSUME NEW ts \in AidingStamps, NEW kind \in {"aiding", "process"}, BeginCall(kind, ts)
      PROVE  StateKept /\ horizon' = Later(horizon, ts.steady)
  BY <1>2 DEF BeginCall
<1>3. ASSUME Skip \/ Finish PROVE StateKept /\ horizon' = horizon
  BY <1>3 DEF Skip, Finish, propagation
<1>4. CASE UNCHANGED vars
  BY <1>4 DEF vars, propagation
<1> QED BY <1>1, <1>2, <1>3, <1>4 DEF Next, Loops

(* Every elapsed tick is integrated once. *)
LEMMA ElapsedStep ==
    ASSUME SteadyClock, SteadyInv, [Next]_vars
    PROVE  ElapsedIsIntegrated'
<1> USE DEF ElapsedIsIntegrated
<1>0. /\ remaining \in Nat /\ integrated \in Nat
      /\ nominal.steady \in Int /\ origin.steady \in Int
  BY DEF SteadyInv, MixedInv, TypeOK, Timestamp, Absent
<1>1. CASE StateKept
  BY <1>1 DEF StateKept, SteadyInv
<1>2. ASSUME NEW ts \in AidingStamps, Initialise(ts) PROVE ElapsedIsIntegrated'
  <2>1. remaining = 0 /\ ts.steady \in Int
    BY <1>2, FilterAssumption DEF Initialise, SteadyInv, Phase, Timestamp, Absent
  <2>2. /\ nominal' = ts /\ origin' = ts /\ integrated' = 0 /\ remaining' = remaining
    BY <1>2 DEF Initialise
  <2> QED BY <2>1, <2>2
<1>3. CASE Propagate
  <2>1. /\ nominal'.steady \in Nat /\ nominal.steady \in Nat /\ remaining = 0 /\ initialised
        /\ integrated' + remaining' = integrated + (nominal'.steady - nominal.steady)
    BY <1>3, RoundOfPropagate
  <2>2. origin' = origin /\ initialised' = initialised
    BY <1>3 DEF Propagate
  <2>3. origin.steady # Absent => nominal.steady - origin.steady = integrated
    BY <2>1, <1>0 DEF SteadyInv
  <2>4. origin.steady # Absent => nominal'.steady - origin.steady = integrated' + remaining'
    BY <2>1, <2>3, <1>0
  <2> QED BY <2>2, <2>4
<1>4. CASE PropagateRest
  <2>1. /\ Step(remaining) \in Nat /\ Remainder(remaining) \in Nat
        /\ Step(remaining) + Remainder(remaining) = remaining
    BY <1>0, StepAndRemainder
  <2>2. integrated' + remaining' = integrated + remaining
    BY <1>4, <2>1, <1>0 DEF PropagateRest
  <2>3. UNCHANGED <<nominal, origin, initialised>>
    BY <1>4 DEF PropagateRest
  <2> QED BY <2>2, <2>3 DEF SteadyInv
<1>5. CASE Reset
  BY <1>5 DEF Reset
<1>6. CASE AdoptTime
  <2>1. remaining' = 0 /\ integrated' = 0 /\ origin' = nominal' /\ nominal'.steady \in Nat
    BY <1>6, RoundOfAdoptTime
  <2> QED BY <2>1
<1> QED BY <1>1, <1>2, <1>3, <1>4, <1>5, <1>6, KeepingSteps

(* The state's time stays within what was asked for. *)
LEMMA NotAheadStep ==
    ASSUME SteadyClock, SteadyInv, [Next]_vars
    PROVE  NotAhead'
<1> USE DEF NotAhead
<1>0. horizon \in Nat \cup {Absent} /\ nominal.steady \in Int /\ nominal.steady <= horizon
  BY DEF SteadyInv, MixedInv, TypeOK, Timestamp, Absent
<1>1. CASE StateKept /\ horizon' = horizon
  BY <1>0, <1>1 DEF StateKept
<1>2. ASSUME NEW ts \in AidingStamps, StateKept /\ horizon' = Later(horizon, ts.steady)
      PROVE  NotAhead'
  <2>1. ts.steady \in Nat \cup {Absent}
    BY FilterAssumption DEF Timestamp
  <2>2. horizon <= horizon' /\ horizon' \in Nat \cup {Absent}
    BY <1>0, <1>2, <2>1, LaterType
  <2> QED BY <1>0, <1>2, <2>2 DEF StateKept, Absent
<1>3. ASSUME NEW ts \in AidingStamps, Initialise(ts) PROVE NotAhead'
  <2>1. ts.steady \in Nat \cup {Absent}
    BY FilterAssumption DEF Timestamp
  <2> QED BY <1>0, <1>3, <2>1, LaterType DEF Initialise
<1>4. CASE Propagate
  <2>1. /\ nominal'.steady <= call.target.steady /\ nominal'.steady \in Nat /\ call # Idle
    BY <1>4, RoundOfPropagate
  <2>2. call.target.steady \in Int /\ call.target.steady <= horizon /\ horizon' = horizon
    BY <1>4, <2>1 DEF SteadyInv, MixedInv, TypeOK, Timestamp, Phase, Propagate, Absent
  <2> QED BY <2>1, <2>2, <1>0 DEF Absent
<1>5. CASE PropagateRest
  BY <1>0, <1>5 DEF PropagateRest
<1>6. CASE Reset
  BY <1>6 DEF Reset, NoStamp, Absent
<1>7. CASE AdoptTime
  <2>1. /\ nominal'.steady <= call.target.steady /\ nominal'.steady \in Nat /\ call # Idle
    BY <1>7, RoundOfAdoptTime
  <2>2. call.target.steady \in Int /\ call.target.steady <= horizon /\ horizon' = horizon
    BY <1>7, <2>1 DEF SteadyInv, MixedInv, TypeOK, Timestamp, Phase, AdoptTime, Absent
  <2> QED BY <2>1, <2>2, <1>0 DEF Absent
<1> QED BY <1>1, <1>2, <1>3, <1>4, <1>5, <1>6, <1>7, KeepingSteps

(* The invariant with monotonic times. *)
THEOREM SteadyInvariance == ASSUME SteadyClock PROVE Spec => []SteadyInv
<1>1. SteadyInv /\ [Next]_vars => SteadyInv'
  <2> SUFFICES ASSUME SteadyInv, [Next]_vars PROVE SteadyInv'
    OBVIOUS
  <2>1. MixedInv'
    BY TypeStep, DueStep, AidingStep DEF MixedInv, SteadyInv
  <2> QED BY <2>1, PhaseStep, SortedStep, AllDueStep, ElapsedStep, NotAheadStep DEF SteadyInv
<1> QED BY InitSteadyInv, <1>1, PTL DEF Spec

(* However late and out of order samples come in, they are integrated in   *)
(* the order of their times.                                               *)
THEOREM BuffersSorted == ASSUME SteadyClock PROVE Spec => []BufferSorted
<1>1. SteadyInv => BufferSorted
  BY DEF SteadyInv
<1> QED BY SteadyInvariance, <1>1, PTL

(* A call takes what is due at its target from the buffer, and nothing else. *)
THEOREM DueTaken == ASSUME SteadyClock PROVE Spec => []DueIsTaken
<1>1. SteadyInv => DueIsTaken
  BY DEF SteadyInv, MixedInv, DueIsTaken
<1> QED BY SteadyInvariance, <1>1, PTL

(* The motion that was integrated spans the time since the first fix.      *)
THEOREM ElapsedIntegrated == ASSUME SteadyClock PROVE Spec => []ElapsedIsIntegrated
<1>1. SteadyInv => ElapsedIsIntegrated
  BY DEF SteadyInv
<1> QED BY SteadyInvariance, <1>1, PTL

(* The state is never ahead of what was asked for. *)
THEOREM NeverAhead == ASSUME SteadyClock PROVE Spec => []NotAhead
<1>1. SteadyInv => NotAhead
  BY DEF SteadyInv
<1> QED BY SteadyInvariance, <1>1, PTL

(* Only Reset() takes the state back in time. *)
THEOREM TimeNeverGoesBack == ASSUME SteadyClock PROVE Spec => TimeGoesForward
<1>1. SteadyInv /\ [Next]_vars => [initialised' => nominal.steady <= nominal'.steady]_vars
  <2> SUFFICES ASSUME SteadyInv, [Next]_vars, initialised'
               PROVE  nominal.steady <= nominal'.steady
    OBVIOUS
  <2>0. nominal.steady \in Int
    BY DEF SteadyInv, MixedInv, TypeOK, Timestamp, Absent
  <2>1. CASE StateKept
    BY <2>0, <2>1 DEF StateKept
  <2>2. ASSUME NEW ts \in AidingStamps, Initialise(ts) PROVE nominal.steady <= nominal'.steady
    <3>1. nominal = NoStamp /\ nominal' = ts /\ ts.steady \in Nat \cup {Absent}
      BY <2>2, FilterAssumption DEF Initialise, SteadyInv, Phase, Timestamp
    <3> QED BY <3>1 DEF NoStamp, Absent
  <2>3. CASE Propagate
    BY <2>3, RoundOfPropagate
  <2>4. CASE PropagateRest
    BY <2>0, <2>4 DEF PropagateRest
  <2>5. CASE Reset
    BY <2>5 DEF Reset
  <2>6. CASE AdoptTime
    BY <2>6, RoundOfAdoptTime DEF NoStamp, Absent
  <2> QED BY <2>1, <2>2, <2>3, <2>4, <2>5, <2>6, KeepingSteps
<1> QED BY SteadyInvariance, <1>1, PTL DEF Spec, TimeGoesForward
=============================================================================
