----------------------------- MODULE ServerProofs -----------------------------
(***************************************************************************)
(* Theorems about the two servers, for any number of clients and messages. *)
(*                                                                         *)
(* WsServer: what a client sends arrives cut into pieces, several requests *)
(* or frames to a read; texts are handled whole, once and in order, and    *)
(* answered to who sent them.  The argument is about the boundary between  *)
(* what was handled and what is still in the buffer or on the wire.        *)
(*                                                                         *)
(* IpcServer, as Ipc: what is in the list of clients is open, nobody is in *)
(* it twice, and it has its bound.  Descriptors are closed in five places  *)
(* and their numbers used again, so the argument is about every descriptor *)
(* of the process, listed or not: a connection has one number, and none    *)
(* before it is accepted.                                                  *)
(***************************************************************************)
EXTENDS WsServer, IpcTable, FiniteSetTheorems, SequenceTheorems, WellFoundedInduction, TLAPS

\* The variables that both servers have are variables of either: no theorem
\* speaks of both.
Ipc == INSTANCE IpcServer

-----------------------------------------------------------------------------
(* WsServer: what one client and the server have said to each other.       *)

\* Requests and frames are numbered from 0, a request being the first.  The
\* head of number t is piece 2t + 1, its tail piece 2t + 2.
Shape(s) ==
    \A i \in 1..Len(s) :
        /\ s[i].number = (i - 1) \div 2
        /\ s[i].last <=> i % 2 = 0
        /\ s[i].kind \in IF i <= 2 THEN Requests ELSE Frames

\* The texts among the first q of s.
IsText(s, t) == s[2 * t + 2].kind = "text"
TextsOf(s, q) == {t \in 0..(q - 1) : IsText(s, t)}

\* Of s everything but the first q requests and frames is in b, then in w.
Rest(b, w, s, q) ==
    /\ Len(s) = 2 * q + Len(b) + Len(w)
    /\ \A i \in 1..Len(b) : b[i] = s[2 * q + i]
    /\ \A i \in 1..Len(w) : w[i] = s[2 * q + Len(b) + i]

\* h are the texts among them.
Heard(h, s, q) ==
    /\ \A i \in 1..Len(h) : h[i] \in TextsOf(s, q)
    /\ \A t \in TextsOf(s, q) : \E i \in 1..Len(h) : h[i] = t
    /\ \A i, j \in 1..Len(h) : i < j => h[i] < h[j]

Answered(o, h) ==
    /\ \A i \in 1..Len(o) : o[i][1] \in {"101", "page"} <=> i = 1
    /\ \A i \in 1..Len(o) : o[i][1] = "answer" =>
          /\ \E n \in 1..Len(h) : h[n] = o[i][2]
          /\ \A j \in 1..(i - 1) : o[j][1] = "answer" => o[j][2] < o[i][2]

\* The next piece is a tail after a head, and the next head after a tail.
LEMMA ShapeGrows ==
    ASSUME NEW s \in Seq(Piece), NEW p \in Piece, Shape(s),
           p.number = Len(s) \div 2, p.last <=> Len(s) % 2 = 1,
           p.kind \in IF Len(s) <= 1 THEN Requests ELSE Frames
    PROVE  Shape(Append(s, p)) /\ Append(s, p) \in Seq(Piece)
<1> DEFINE t == Append(s, p)
<1>1. /\ t \in Seq(Piece) /\ Len(t) = Len(s) + 1 /\ Len(s) \in Nat
      /\ \A i \in 1..(Len(s) + 1) : t[i] = IF i <= Len(s) THEN s[i] ELSE p
  OBVIOUS
<1> HIDE DEF t
<1>2. ASSUME NEW i \in 1..Len(t)
      PROVE  /\ t[i].number = (i - 1) \div 2
             /\ t[i].last <=> i % 2 = 0
             /\ t[i].kind \in IF i <= 2 THEN Requests ELSE Frames
  <2>1. CASE i <= Len(s)
    BY <1>1, <2>1 DEF Shape
  <2>2. CASE i = Len(s) + 1
    BY <1>1, <2>2
  <2> QED
    BY <1>1, <2>1, <2>2
<1>3. Shape(t)
  BY <1>2 DEF Shape
<1> QED
  BY <1>1, <1>3 DEF t

\* What is sent joins the wire.
LEMMA RestGrows ==
    ASSUME NEW s \in Seq(Piece), NEW p \in Piece, NEW b \in Seq(Piece), NEW w \in Seq(Piece),
           NEW q \in Nat, Rest(b, w, s, q)
    PROVE  Rest(b, Append(w, p), Append(s, p), q)
<1> DEFINE t == Append(s, p)
<1> DEFINE v == Append(w, p)
<1>1. /\ Len(t) = Len(s) + 1 /\ Len(s) \in Nat
      /\ \A i \in 1..(Len(s) + 1) : t[i] = IF i <= Len(s) THEN s[i] ELSE p
  OBVIOUS
<1>2. /\ Len(v) = Len(w) + 1 /\ Len(w) \in Nat /\ Len(b) \in Nat
      /\ \A i \in 1..(Len(w) + 1) : v[i] = IF i <= Len(w) THEN w[i] ELSE p
  OBVIOUS
<1> HIDE DEF t, v
<1>3. Rest(b, v, t, q)
  BY <1>1, <1>2 DEF Rest
<1> QED
  BY <1>3 DEF t, v

\* A piece more is no text more, until it is read.
LEMMA HeardGrows ==
    ASSUME NEW s \in Seq(Piece), NEW p \in Piece, NEW h \in Seq(Nat), NEW q \in Nat,
           2 * q <= Len(s), Heard(h, s, q)
    PROVE  Heard(h, Append(s, p), q)
<1>1. \A i \in 1..Len(s) : Append(s, p)[i] = s[i]
  OBVIOUS
<1>2. TextsOf(Append(s, p), q) = TextsOf(s, q)
  <2> DEFINE r == Append(s, p)
  <2> HIDE DEF r
  <2>1. \A t \in 0..(q - 1) : r[2 * t + 2] = s[2 * t + 2]
    BY <1>1 DEF r
  <2> QED
    BY <2>1 DEF TextsOf, IsText, r
<1> QED
  BY <1>2 DEF Heard

\* A set of positions that is not empty has a first.
LEMMA LeastPosition ==
    ASSUME NEW S \in SUBSET Nat, S # {}
    PROVE  \E i \in S : \A j \in S : i <= j
<1> DEFINE R == OpToRel(<, Nat)
<1>1. PICK m \in S : \A j \in S : ~(<<j, m>> \in R)
  <2>1. IsWellFoundedOn(R, Nat)
    BY NatLessThanWellFounded
  <2> HIDE DEF R
  <2> QED
    BY <2>1, WFMin
<1>2. \A j \in S : m <= j
  <2>1. ASSUME NEW j \in S PROVE ~(j < m)
    BY <1>1 DEF OpToRel
  <2> QED
    BY <2>1
<1> QED
  BY <1>2

\* RecvFrame() gets to the first frame that is no text.
LEMMA WhereTextsEnd ==
    ASSUME NEW f \in Seq(Piece)
    PROVE  /\ TextsAhead(f) \in 0..Len(f)
           /\ \A i \in 1..TextsAhead(f) : f[i].kind = "text"
           /\ TextsAhead(f) < Len(f) => f[TextsAhead(f) + 1].kind # "text"
<1> DEFINE Stops == {i \in 1..(Len(f) + 1) : i = Len(f) + 1 \/ f[i].kind # "text"}
<1> DEFINE K == {k \in 0..Len(f) : \A i \in 1..k : f[i].kind = "text"}
<1>1. PICK m \in Stops : \A j \in Stops : m <= j
  <2>1. Stops \in SUBSET Nat /\ Stops # {}
    OBVIOUS
  <2> HIDE DEF Stops
  <2> QED
    BY <2>1, LeastPosition
<1>2. m - 1 \in K /\ \A k \in K : m - 1 >= k
  BY <1>1
<1>3. TextsAhead(f) = Max(K)
  BY DEF TextsAhead
<1>4. Max(K) \in K /\ \A k \in K : Max(K) >= k
  <2> HIDE DEF K
  <2> QED
    BY <1>2 DEF Max
<1>5. TextsAhead(f) = m - 1
  BY <1>1, <1>2, <1>3, <1>4
<1> QED
  BY <1>1, <1>2, <1>5

\* What one read brings: the rest of b and w after k more pieces, the frames
\* complete in it, the numbers of the first n, and the answers to those.
ReadOf(b, w, k) == b \o SubSeq(w, 1, k)
LeftOf(w, k) == SubSeq(w, k + 1, Len(w))
FramesIn(r) == [i \in 1..Len(r) \div 2 |-> r[2 * i]]
NumbersOf(f, n) == [i \in 1..n |-> f[i].number]
AnswersTo(new, n) == [i \in 1..n |-> <<"answer", new[i]>>]

\* What a read leaves and what it takes are together what there was.
LEMMA Received ==
    ASSUME NEW s \in Seq(Piece), NEW b \in Seq(Piece), NEW w \in Seq(Piece), NEW q \in Nat,
           Rest(b, w, s, q), NEW k \in 1..Len(w)
    PROVE  /\ ReadOf(b, w, k) \in Seq(Piece) /\ Len(ReadOf(b, w, k)) = Len(b) + k
           /\ \A i \in 1..Len(ReadOf(b, w, k)) : ReadOf(b, w, k)[i] = s[2 * q + i]
           /\ LeftOf(w, k) \in Seq(Piece) /\ Len(LeftOf(w, k)) = Len(w) - k
           /\ \A i \in 1..(Len(w) - k) :
                 LeftOf(w, k)[i] = s[2 * q + Len(ReadOf(b, w, k)) + i]
<1> DEFINE v == SubSeq(w, 1, k)
<1> DEFINE u == LeftOf(w, k)
<1> DEFINE r == ReadOf(b, w, k)
<1>1. /\ v \in Seq(Piece) /\ Len(v) = k /\ \A i \in 1..k : v[i] = w[i]
      /\ u \in Seq(Piece) /\ Len(u) = Len(w) - k /\ \A i \in 1..(Len(w) - k) : u[i] = w[k + i]
  BY DEF LeftOf
<1>0. r = b \o v
  BY DEF ReadOf
<1> HIDE DEF v, u
<1>2. /\ r \in Seq(Piece) /\ Len(r) = Len(b) + k
      /\ \A i \in 1..(Len(b) + k) : r[i] = IF i <= Len(b) THEN b[i] ELSE v[i - Len(b)]
  <2>1. /\ b \o v \in Seq(Piece) /\ Len(b \o v) = Len(b) + k
        /\ \A i \in 1..(Len(b) + k) : (b \o v)[i] = IF i <= Len(b) THEN b[i] ELSE v[i - Len(b)]
    BY <1>1, ConcatProperties
  <2> QED
    BY <1>0, <2>1, Zenon
<1>3. Len(b) \in Nat /\ Len(w) \in Nat /\ Len(s) \in Nat
  OBVIOUS
<1> HIDE DEF r
<1>4. ASSUME NEW i \in 1..Len(r) PROVE r[i] = s[2 * q + i]
  <2>1. CASE i <= Len(b)
    BY <1>2, <1>3, <2>1 DEF Rest
  <2>2. CASE i > Len(b)
    <3>1. i - Len(b) \in 1..k /\ r[i] = v[i - Len(b)]
      BY <1>2, <1>3, <2>2
    <3>2. v[i - Len(b)] = w[i - Len(b)] /\ i - Len(b) \in 1..Len(w)
      BY <1>1, <1>3, <3>1
    <3>3. w[i - Len(b)] = s[2 * q + Len(b) + (i - Len(b))]
      BY <3>2 DEF Rest
    <3> QED
      BY <1>3, <3>1, <3>2, <3>3
  <2> QED
    BY <1>2, <1>3, <2>1, <2>2
<1>5. ASSUME NEW i \in 1..(Len(w) - k) PROVE u[i] = s[2 * q + Len(r) + i]
  <2>1. u[i] = w[k + i] /\ k + i \in 1..Len(w)
    BY <1>1, <1>3
  <2>2. w[k + i] = s[2 * q + Len(b) + (k + i)]
    BY <2>1 DEF Rest
  <2>3. 2 * q + Len(b) + (k + i) = 2 * q + Len(r) + i
    BY <1>2, <1>3
  <2> QED
    BY <2>1, <2>2, <2>3
<1> QED
  BY <1>1, <1>2, <1>4, <1>5 DEF r, u

\* Of the k frames after the first q, the first n and no others are texts.
Ahead(s, q, k, n) == \A t \in q..(q + k - 1) : IsText(s, t) <=> t <= q + n - 1

\* k frames more, of which the first n are the texts.
LEMMA TextsAdded ==
    ASSUME NEW s, NEW q \in Nat, NEW k \in Nat, NEW n \in 0..k,
           Ahead(s, q, k, n)
    PROVE  \A t : t \in TextsOf(s, q + k) <=> t \in TextsOf(s, q) \/ t \in q..(q + n - 1)
BY DEF TextsOf, Ahead, IsText

\* Their numbers follow those of the texts before.
LEMMA HeardMore ==
    ASSUME NEW s, NEW q \in Nat, NEW k \in Nat, NEW n \in 0..k,
           Ahead(s, q, k, n),
           NEW h \in Seq(Nat), Heard(h, s, q),
           NEW new \in Seq(Nat), Len(new) = n, \A i \in 1..n : new[i] = q + i - 1
    PROVE  Heard(h \o new, s, q + k) /\ h \o new \in Seq(Nat)
<1> DEFINE g == h \o new
<1>a. /\ g \in Seq(Nat) /\ Len(g) = Len(h) + Len(new)
      /\ \A i \in 1..(Len(h) + Len(new)) : g[i] = IF i <= Len(h) THEN h[i] ELSE new[i - Len(h)]
  BY ConcatProperties, Zenon
<1>b. Len(h) \in Nat /\ n \in Nat
  OBVIOUS
<1>1. /\ g \in Seq(Nat) /\ Len(g) = Len(h) + n /\ Len(h) \in Nat
      /\ \A i \in 1..(Len(h) + n) : g[i] = IF i <= Len(h) THEN h[i] ELSE new[i - Len(h)]
  BY <1>a, <1>b, Zenon
<1> HIDE DEF g
<1>d. Len(g) = Len(h) + n /\ Len(h) \in Nat /\ n \in Nat
  BY <1>b, <1>1
<1>c. \A t : t \in TextsOf(s, q + k) <=> t \in TextsOf(s, q) \/ t \in q..(q + n - 1)
  BY TextsAdded
<1>2. \A i \in 1..Len(h) : h[i] \in TextsOf(s, q) /\ h[i] \in 0..(q - 1)
  BY DEF Heard, TextsOf
<1>3. \A i \in 1..Len(h) : g[i] = h[i]
  BY <1>1
<1>4. \A i \in (Len(h) + 1)..Len(g) : g[i] = q + (i - Len(h)) - 1
  BY <1>1
<1>5. ASSUME NEW i \in 1..Len(g) PROVE g[i] \in TextsOf(s, q + k)
  <2>1. CASE i <= Len(h)
    <3>1. i \in 1..Len(h)
      BY <1>1, <2>1
    <3>2. g[i] = h[i]
      BY <1>3, <3>1
    <3>3. h[i] \in TextsOf(s, q)
      BY <1>2, <3>1
    <3> QED
      BY <3>2, <3>3, <1>c
  <2>2. CASE i > Len(h)
    <3>1. g[i] \in q..(q + n - 1)
      BY <1>d, <1>4, <2>2
    <3> QED
      BY <3>1, <1>c
  <2> QED
    BY <1>1, <2>1, <2>2
<1>6. ASSUME NEW t \in TextsOf(s, q + k) PROVE \E i \in 1..Len(g) : g[i] = t
  <2>1. CASE t \in TextsOf(s, q)
    <3>1. PICK i \in 1..Len(h) : h[i] = t
      BY <2>1 DEF Heard
    <3> QED
      BY <1>1, <1>3, <3>1
  <2>2. CASE t \in q..(q + n - 1)
    <3>1. Len(h) + (t - q + 1) \in (Len(h) + 1)..Len(g)
      BY <1>d, <2>2
    <3>2. g[Len(h) + (t - q + 1)] = q + ((Len(h) + (t - q + 1)) - Len(h)) - 1
      BY <1>4, <3>1
    <3>3. g[Len(h) + (t - q + 1)] = t
      BY <1>d, <2>2, <3>2
    <3> QED
      BY <1>d, <3>1, <3>3
  <2> QED
    BY <2>1, <2>2, <1>c
<1>7. ASSUME NEW i \in 1..Len(g), NEW j \in 1..Len(g), i < j PROVE g[i] < g[j]
  <2>1. CASE j <= Len(h)
    <3>1. i \in 1..Len(h) /\ j \in 1..Len(h)
      BY <1>1, <1>7, <2>1
    <3>2. h[i] < h[j]
      BY <1>7, <3>1 DEF Heard
    <3> QED
      BY <1>3, <3>1, <3>2
  <2>2. CASE j > Len(h) /\ i <= Len(h)
    <3>1. g[i] \in 0..(q - 1)
      BY <1>d, <1>2, <1>3, <2>2
    <3>2. g[j] >= q /\ g[j] \in Int
      BY <1>d, <1>4, <2>2
    <3> QED
      BY <3>1, <3>2
  <2>3. CASE j > Len(h) /\ i > Len(h)
    <3>1. i \in (Len(h) + 1)..Len(g) /\ j \in (Len(h) + 1)..Len(g)
      BY <1>d, <2>3
    <3>2. g[i] = q + (i - Len(h)) - 1 /\ g[j] = q + (j - Len(h)) - 1
      BY <1>4, <3>1
    <3> QED
      BY <1>d, <1>7, <3>2
  <2> QED
    BY <1>1, <2>1, <2>2, <2>3
<1>8. Heard(g, s, q + k)
  BY <1>5, <1>6, <1>7 DEF Heard
<1> QED
  BY <1>1, <1>8 DEF g

\* Drain() takes the frames up to the first that is no text, and it too.
LEMMA Drained ==
    ASSUME NEW s \in Seq(Piece), NEW q \in Nat, Shape(s), NEW h \in Seq(Nat), Heard(h, s, q),
           NEW r \in Seq(Piece), 2 * q + Len(r) <= Len(s),
           \A i \in 1..Len(r) : r[i] = s[2 * q + i]
    PROVE  LET f == FramesIn(r)
               k == Taken(f)
               n == TextsAhead(f)
               new == NumbersOf(f, n)
           IN  /\ f \in Seq(Piece) /\ 2 * k <= Len(r) /\ k \in Nat /\ n \in 0..k /\ n <= Len(f)
               /\ new \in Seq(Nat) /\ Len(new) = n /\ \A i \in 1..n : new[i] = q + i - 1
               /\ h \o new \in Seq(Nat) /\ Heard(h \o new, s, q + k)
<1> DEFINE L == Len(r) \div 2
<1> DEFINE f == [i \in 1..L |-> r[2 * i]]
<1> DEFINE k == Taken(f)
<1> DEFINE n == TextsAhead(f)
<1> DEFINE new == [i \in 1..n |-> f[i].number]
<1>1. Len(s) \in Nat /\ Len(r) \in Nat /\ L \in Nat /\ 2 * L <= Len(r)
  OBVIOUS
<1>2. \A i \in 1..L : f[i] = s[2 * q + 2 * i] /\ 2 * q + 2 * i \in 1..Len(s)
  <2>1. \A i \in 1..L : 2 * i \in 1..Len(r)
    BY <1>1
  <2> QED
    BY <1>1, <2>1
<1>3. f \in Seq(Piece) /\ Len(f) = L
  <2>1. \A i \in 1..L : s[2 * q + 2 * i] \in Piece
    BY <1>2
  <2>2. f \in [1..L -> Piece]
    BY <1>2, <2>1
  <2> HIDE DEF f, L
  <2> QED
    BY <1>1, <2>2, IsASeq, LenProperties
<1> HIDE DEF f, L
<1>4. /\ n \in 0..L /\ \A i \in 1..n : f[i].kind = "text"
      /\ n < L => f[n + 1].kind # "text"
  BY <1>3, WhereTextsEnd
<1>5. k \in 0..L /\ n \in 0..k /\ k \in {n, n + 1} /\ (k = n => n = L)
  BY <1>1, <1>3, <1>4 DEF Taken
<1> HIDE DEF k, n
<1>6. \A i \in 1..L : f[i].number = q + i - 1 /\ q + i - 1 \in Nat
  <2> TAKE i \in 1..L
  <2>1. f[i].number = (2 * q + 2 * i - 1) \div 2
    BY <1>2 DEF Shape
  <2>2. (2 * q + 2 * i - 1) \div 2 = q + i - 1
    BY <1>1
  <2> QED
    BY <1>1, <2>1, <2>2
<1>7. /\ new \in Seq(Nat) /\ Len(new) = n /\ \A i \in 1..n : new[i] = q + i - 1
  <2>1. \A i \in 1..n : new[i] = q + i - 1 /\ q + i - 1 \in Nat
    BY <1>1, <1>4, <1>6
  <2>2. new \in [1..n -> Nat] /\ n \in Nat
    BY <1>1, <1>4, <2>1
  <2> HIDE DEF new
  <2> QED
    BY <2>1, <2>2, IsASeq, LenProperties
<1> HIDE DEF new
<1>8. Ahead(s, q, k, n)
  <2> SUFFICES \A t \in q..(q + k - 1) : IsText(s, t) <=> t <= q + n - 1
    BY DEF Ahead
  <2> TAKE t \in q..(q + k - 1)
  <2> DEFINE i == t - q + 1
  <2>1. i \in 1..k /\ i \in 1..L /\ 2 * q + 2 * i = 2 * t + 2
    BY <1>1, <1>5
  <2>2. s[2 * t + 2] = f[i]
    BY <1>2, <2>1
  <2>3. f[i].kind = "text" <=> i <= n
    <3> HIDE DEF i
    <3>1. i <= n \/ i = n + 1
      BY <1>1, <1>4, <1>5, <2>1
    <3> QED
      BY <1>1, <1>4, <1>5, <2>1, <3>1
  <2>4. i <= n <=> t <= q + n - 1
    BY <1>4, <1>1
  <2> QED
    BY <2>2, <2>3, <2>4 DEF IsText
<1>9. h \o new \in Seq(Nat) /\ Heard(h \o new, s, q + k)
  <2>1. k \in Nat /\ n \in 0..k
    BY <1>1, <1>5
  <2> QED
    BY <1>7, <1>8, <2>1, HeardMore
<1>10. 2 * k <= Len(r) /\ k \in Nat /\ n <= Len(f)
  BY <1>1, <1>3, <1>4, <1>5
<1> QED
  BY <1>3, <1>5, <1>7, <1>9, <1>10 DEF f, k, n, new, L, FramesIn, NumbersOf


\* After the 101: what was read are whole frames, and their texts were handled.
Spoken(s, b, w, h, o) ==
    o # <<>> /\ \E q \in 0..Len(s) : Rest(b, w, s, q) /\ Heard(h, s, q)

\* Before: one request at most, and no answer but the page.
Asked(s, h, o) == Len(s) <= 2 /\ h = <<>> /\ \A i \in 1..Len(o) : o[i][1] = "page"

\* No answer yet, and all of the request still in b and w.
Fresh(s, b, w, o) == o = <<>> /\ Rest(b, w, s, 0)

\* A piece that is sent changes neither what was handled nor what was answered.
LEMMA PieceSent ==
    ASSUME NEW s \in Seq(Piece), NEW p \in Piece, NEW b \in Seq(Piece), NEW w \in Seq(Piece),
           NEW h \in Seq(Nat), NEW o \in Seq(Line)
    PROVE  /\ Spoken(s, b, w, h, o) => Spoken(Append(s, p), b, Append(w, p), h, o)
           /\ Fresh(s, b, w, o) => Fresh(Append(s, p), b, Append(w, p), o)
<1>1. ASSUME Spoken(s, b, w, h, o) PROVE Spoken(Append(s, p), b, Append(w, p), h, o)
  <2>1. PICK q \in 0..Len(s) : Rest(b, w, s, q) /\ Heard(h, s, q)
    BY <1>1 DEF Spoken
  <2>2. q \in Nat /\ Len(s) \in Nat /\ Len(b) \in Nat /\ Len(w) \in Nat /\ 2 * q <= Len(s)
    BY <2>1 DEF Rest
  <2>3. Rest(b, Append(w, p), Append(s, p), q) /\ Heard(h, Append(s, p), q)
    BY <2>1, <2>2, RestGrows, HeardGrows
  <2>4. q \in 0..Len(Append(s, p))
    BY <2>2
  <2> QED
    BY <1>1, <2>3, <2>4 DEF Spoken
<1>2. ASSUME Fresh(s, b, w, o) PROVE Fresh(Append(s, p), b, Append(w, p), o)
  BY <1>2, RestGrows DEF Fresh
<1> QED
  BY <1>1, <1>2

\* t is a followed by b.
IsJoined(t, a, b) ==
    /\ Len(t) = Len(a) + Len(b) /\ Len(a) \in Nat /\ Len(b) \in Nat
    /\ \A i \in 1..Len(a) : i \in 1..Len(t) /\ t[i] = a[i]
    /\ \A j \in 1..Len(b) : Len(a) + j \in 1..Len(t) /\ t[Len(a) + j] = b[j]
    /\ \A i \in 1..Len(t) : i \in 1..Len(a) \/ \E j \in 1..Len(b) : i = Len(a) + j

\* So is a \o b.
LEMMA Joined ==
    ASSUME NEW S, NEW a \in Seq(S), NEW b \in Seq(S)
    PROVE  a \o b \in Seq(S) /\ IsJoined(a \o b, a, b)
<1> DEFINE t == a \o b
<1>1. /\ t \in Seq(S) /\ Len(t) = Len(a) + Len(b) /\ Len(a) \in Nat /\ Len(b) \in Nat
      /\ \A i \in 1..(Len(a) + Len(b)) : t[i] = IF i <= Len(a) THEN a[i] ELSE b[i - Len(a)]
  BY ConcatProperties
<1> HIDE DEF t
<1>2. \A i \in 1..Len(a) : i \in 1..Len(t) /\ t[i] = a[i]
  BY <1>1
<1>3. ASSUME NEW j \in 1..Len(b) PROVE Len(a) + j \in 1..Len(t) /\ t[Len(a) + j] = b[j]
  <2>1. Len(a) + j \in 1..(Len(a) + Len(b)) /\ ~(Len(a) + j <= Len(a)) /\ (Len(a) + j) - Len(a) = j
    BY <1>1
  <2>2. t[Len(a) + j] = b[(Len(a) + j) - Len(a)]
    BY <1>1, <2>1, Zenon
  <2> QED
    BY <1>1, <2>1, <2>2
<1>4. ASSUME NEW i \in 1..Len(t) PROVE i \in 1..Len(a) \/ \E j \in 1..Len(b) : i = Len(a) + j
  <2>1. CASE i > Len(a)
    <3>1. i - Len(a) \in 1..Len(b) /\ i = Len(a) + (i - Len(a))
      BY <1>1, <2>1
    <3> QED
      BY <3>1
  <2> QED
    BY <1>1, <2>1
<1> QED
  BY <1>1, <1>2, <1>3, <1>4 DEF t, IsJoined

\* Some answers, for texts behind those handled before, and maybe a goodbye.
LEMMA AnswersAdded ==
    ASSUME NEW o \in Seq(Line), o # <<>>, NEW h \in Seq(Nat), Answered(o, h), NEW q \in Nat,
           \A i \in 1..Len(h) : h[i] < q,
           NEW new \in Seq(Nat), \A i \in 1..Len(new) : new[i] = q + i - 1,
           NEW n \in {0, Len(new)}, NEW last \in {<<>>, <<Said("close")>>}
    PROVE  LET more == AnswersTo(new, n) \o last IN
           /\ o \o more \in Seq(Line) /\ o \o more # <<>>
           /\ Answered(o \o more, h \o new)
           /\ last # <<>> => Said("close") \in ToSet(o \o more)
           /\ ToSet(o) \subseteq ToSet(o \o more)
<1> DEFINE a == [i \in 1..n |-> <<"answer", new[i]>>]
<1> DEFINE more == a \o last
<1> DEFINE g == h \o new
<1> DEFINE e == o \o more
<1>1. n \in Nat /\ Len(o) \in Nat /\ Len(h) \in Nat /\ Len(new) \in Nat /\ Len(o) >= 1
  OBVIOUS
<1>2. a \in Seq(Line) /\ Len(a) = n /\ \A i \in 1..n : a[i] = <<"answer", new[i]>>
  <2>1. \A i \in 1..n : new[i] \in Nat /\ <<"answer", new[i]>> \in Line
    BY DEF Line
  <2>2. a \in [1..n -> Line]
    BY <2>1
  <2>3. \A i \in 1..n : a[i] = <<"answer", new[i]>>
    OBVIOUS
  <2> HIDE DEF a
  <2> QED
    BY <1>1, <2>2, <2>3
<1> HIDE DEF a
<1>3. /\ last \in Seq(Line) /\ (last # <<>> => Len(last) = 1)
      /\ \A i \in 1..Len(last) : last[i] = Said("close")
  <2>1. Said("close") \in Line
    BY DEF Said, Line
  <2>2. CASE last = <<>>
    BY <2>2
  <2>3. CASE last = <<Said("close")>>
    BY <2>1, <2>3
  <2> QED
    BY <2>2, <2>3
<1>4. /\ more \in Seq(Line) /\ Len(more) = n + Len(last) /\ Len(last) \in Nat
      /\ \A i \in 1..n : i \in 1..Len(more) /\ more[i] = a[i]
      /\ \A i \in 1..Len(last) : n + i \in 1..Len(more) /\ more[n + i] = last[i]
      /\ \A i \in 1..Len(more) : i \in 1..n \/ \E j \in 1..Len(last) : i = n + j
  <2>1. a \in Seq(Line) /\ last \in Seq(Line) /\ Len(a) = n
    BY <1>2, <1>3
  <2>2. more \in Seq(Line) /\ IsJoined(more, a, last)
    BY <2>1, Joined
  <2> HIDE DEF more
  <2> QED
    BY <2>1, <2>2 DEF IsJoined
<1> HIDE DEF more
<1>5. \A i \in 1..Len(more) :
         (i \in 1..n /\ more[i] = <<"answer", new[i]>>) \/ more[i] = Said("close")
  BY <1>2, <1>3, <1>4
<1>6. /\ e \in Seq(Line) /\ Len(e) = Len(o) + Len(more) /\ Len(more) \in Nat
      /\ \A i \in 1..Len(o) : i \in 1..Len(e) /\ e[i] = o[i]
      /\ \A i \in 1..Len(more) : Len(o) + i \in 1..Len(e) /\ e[Len(o) + i] = more[i]
      /\ \A i \in 1..Len(e) : i \in 1..Len(o) \/ \E j \in 1..Len(more) : i = Len(o) + j
  <2>1. e \in Seq(Line) /\ IsJoined(e, o, more)
    BY <1>4, Joined
  <2> HIDE DEF e
  <2> QED
    BY <2>1 DEF IsJoined
<1>7. /\ \A i \in 1..Len(h) : i \in 1..Len(g) /\ g[i] = h[i]
      /\ \A i \in 1..Len(new) : Len(h) + i \in 1..Len(g) /\ g[Len(h) + i] = new[i]
  <2>1. IsJoined(g, h, new)
    BY Joined
  <2> HIDE DEF g
  <2> QED
    BY <2>1 DEF IsJoined
<1> HIDE DEF e, g
<1>8. ASSUME NEW i \in 1..Len(e), i \notin 1..Len(o)
      PROVE  /\ i > Len(o)
             /\ \/ \E j \in 1..n : i = Len(o) + j /\ e[i] = <<"answer", q + j - 1>>
                \/ e[i] = Said("close")
  <2>1. PICK j \in 1..Len(more) : i = Len(o) + j
    BY <1>6, <1>8
  <2>2. e[i] = more[j] /\ i > Len(o)
    BY <1>1, <1>6, <2>1
  <2>3. CASE j \in 1..n /\ more[j] = <<"answer", new[j]>>
    <3>1. new[j] = q + j - 1
      BY <1>1, <2>3
    <3> QED
      BY <2>1, <2>2, <2>3, <3>1
  <2> QED
    BY <1>5, <2>2, <2>3
<1>9. ASSUME NEW i \in 1..Len(e) PROVE e[i][1] \in {"101", "page"} <=> i = 1
  <2>1. CASE i \in 1..Len(o)
    <3>1. e[i] = o[i]
      BY <1>6, <2>1
    <3> QED
      BY <2>1, <3>1 DEF Answered
  <2>2. CASE i \notin 1..Len(o)
    <3>1. e[i][1] \in {"answer", "close"}
      BY <1>8, <2>2 DEF Said
    <3>2. i # 1
      BY <1>1, <1>8, <2>2
    <3> QED
      BY <3>1, <3>2
  <2> QED
    BY <2>1, <2>2
<1>10. ASSUME NEW i \in 1..Len(e), e[i][1] = "answer"
       PROVE  \/ i \in 1..Len(o) /\ e[i] = o[i]
              \/ \E j \in 1..n : i = Len(o) + j /\ e[i] = <<"answer", q + j - 1>>
  <2>1. Said("close")[1] # "answer"
    BY DEF Said
  <2> QED
    BY <1>6, <1>8, <1>10, <2>1
<1>11. ASSUME NEW i \in 1..Len(o), o[i][1] = "answer"
       PROVE  /\ \E m \in 1..Len(h) : h[m] = o[i][2]
              /\ o[i][2] \in Nat /\ o[i][2] < q
              /\ \A j \in 1..(i - 1) : o[j][1] = "answer" => o[j][2] < o[i][2]
  <2>1. /\ \E m \in 1..Len(h) : h[m] = o[i][2]
        /\ \A j \in 1..(i - 1) : o[j][1] = "answer" => o[j][2] < o[i][2]
    BY <1>11 DEF Answered
  <2> QED
    BY <2>1
<1>12. ASSUME NEW i \in 1..Len(e), e[i][1] = "answer" PROVE \E m \in 1..Len(g) : g[m] = e[i][2]
  <2>1. CASE i \in 1..Len(o) /\ e[i] = o[i]
    <3>1. PICK m \in 1..Len(h) : h[m] = o[i][2]
      BY <1>11, <1>12, <2>1
    <3> QED
      BY <1>7, <2>1, <3>1
  <2>2. ASSUME NEW j \in 1..n, e[i] = <<"answer", q + j - 1>> PROVE \E m \in 1..Len(g) : g[m] = e[i][2]
    <3>1. j \in 1..Len(new) /\ new[j] = q + j - 1 /\ e[i][2] = q + j - 1
      BY <1>1, <2>2
    <3> QED
      BY <1>7, <3>1
  <2> QED
    BY <1>10, <1>12, <2>1, <2>2
<1>13. ASSUME NEW i \in 1..Len(e), e[i][1] = "answer", NEW j \in 1..(i - 1), e[j][1] = "answer"
       PROVE  e[j][2] < e[i][2]
  <2>1. j \in 1..Len(e) /\ j < i
    BY <1>1, <1>6
  <2>2. CASE i \in 1..Len(o) /\ e[i] = o[i]
    <3>1. j \in 1..Len(o) /\ e[j] = o[j]
      BY <1>1, <1>6, <2>1, <2>2
    <3> QED
      BY <1>11, <1>13, <2>2, <3>1
  <2>3. ASSUME NEW k \in 1..n, i = Len(o) + k, e[i] = <<"answer", q + k - 1>>
        PROVE  e[j][2] < e[i][2]
    <3>1. e[i][2] = q + k - 1 /\ k \in Nat /\ k >= 1
      BY <1>1, <2>3
    <3>2. CASE j \in 1..Len(o) /\ e[j] = o[j]
      <4>1. e[j][2] \in Nat /\ e[j][2] < q
        BY <1>11, <1>13, <3>2
      <4> QED
        BY <3>1, <4>1
    <3>3. ASSUME NEW m \in 1..n, j = Len(o) + m, e[j] = <<"answer", q + m - 1>>
          PROVE  e[j][2] < e[i][2]
      <4>1. e[j][2] = q + m - 1
        BY <3>3
      <4>2. m < k
        BY <1>1, <2>1, <2>3, <3>3
      <4> QED
        BY <1>1, <3>1, <4>1, <4>2
    <3> QED
      BY <1>10, <1>13, <2>1, <3>2, <3>3
  <2> QED
    BY <1>10, <1>13, <2>2, <2>3
<1>14. Answered(e, g)
  BY <1>9, <1>12, <1>13 DEF Answered
<1>15. ASSUME last # <<>> PROVE Said("close") \in ToSet(e)
  <2>1. n + 1 \in 1..Len(more) /\ more[n + 1] = Said("close")
    BY <1>1, <1>3, <1>4, <1>15
  <2>2. Len(o) + (n + 1) \in 1..Len(e) /\ e[Len(o) + (n + 1)] = Said("close")
    BY <1>6, <2>1
  <2>3. DOMAIN e = 1..Len(e)
    BY <1>6
  <2> QED
    BY <2>2, <2>3 DEF ToSet
<1>16. ToSet(o) \subseteq ToSet(e)
  <2>1. DOMAIN e = 1..Len(e) /\ DOMAIN o = 1..Len(o)
    BY <1>6
  <2> QED
    BY <1>6, <2>1 DEF ToSet
<1>17. e # <<>>
  BY <1>1, <1>6
<1> QED
  BY <1>6, <1>14, <1>15, <1>16, <1>17 DEF a, more, e, g, AnswersTo

\* What Drain() makes of the texts of a read: their numbers, and maybe answers.
LEMMA TextNumbers ==
    ASSUME NEW f \in Seq(Piece), NEW n \in 0..Len(f)
    PROVE  LET texts == SubSeq(f, 1, n)
               new == NumbersOf(f, n)
           IN  /\ [i \in DOMAIN texts |-> texts[i].number] = new
               /\ \A answered \in {texts, <<>>} : \E m \in {0, n} :
                     [i \in DOMAIN answered |-> <<"answer", answered[i].number>>] = AnswersTo(new, m)
<1> DEFINE texts == SubSeq(f, 1, n)
<1> DEFINE new == [i \in 1..n |-> f[i].number]
<1>1. DOMAIN texts = 1..n /\ \A i \in 1..n : texts[i] = f[i]
  OBVIOUS
<1> HIDE DEF texts
<1>2. [i \in DOMAIN texts |-> texts[i].number] = new
  BY <1>1
<1>3. [i \in DOMAIN texts |-> <<"answer", texts[i].number>>] = [i \in 1..n |-> <<"answer", new[i]>>]
  BY <1>1
<1>4. ASSUME NEW e, e = <<>>
      PROVE  [i \in DOMAIN e |-> <<"answer", e[i].number>>] = [i \in 1..0 |-> <<"answer", new[i]>>]
  BY <1>4
<1> QED
  BY <1>2, <1>3, <1>4 DEF texts, NumbersOf, AnswersTo

\* A read after the 101.
LEMMA FramesRead ==
    ASSUME NEW s \in Seq(Piece), NEW b \in Seq(Piece), NEW w \in Seq(Piece), NEW h \in Seq(Nat),
           NEW o \in Seq(Line), Shape(s), Spoken(s, b, w, h, o), Answered(o, h), NEW k \in 1..Len(w)
    PROVE  LET r == ReadOf(b, w, k)
               f == FramesIn(r)
               texts == SubSeq(f, 1, TextsAhead(f))
               left == SubSeq(r, 2 * Taken(f) + 1, Len(r))
               wire2 == LeftOf(w, k)
               heard == h \o [i \in DOMAIN texts |-> texts[i].number]
           IN  /\ left \in Seq(Piece) /\ wire2 \in Seq(Piece) /\ heard \in Seq(Nat)
               /\ \A answered \in {texts, <<>>} : \A last \in {<<>>, <<Said("close")>>} :
                     LET out2 == o \o ([i \in DOMAIN answered |-> <<"answer", answered[i].number>>] \o last)
                     IN  /\ out2 \in Seq(Line)
                         /\ Spoken(s, left, wire2, heard, out2) /\ Answered(out2, heard)
                         /\ last # <<>> => Said("close") \in ToSet(out2)
                         /\ ToSet(o) \subseteq ToSet(out2)
<1> DEFINE r == ReadOf(b, w, k)
<1> DEFINE f == FramesIn(r)
<1> DEFINE n == TextsAhead(f)
<1> DEFINE t == Taken(f)
<1> DEFINE texts == SubSeq(f, 1, n)
<1> DEFINE new == NumbersOf(f, n)
<1> DEFINE left == SubSeq(r, 2 * t + 1, Len(r))
<1> DEFINE wire2 == LeftOf(w, k)
<1> DEFINE heard == h \o new
<1>1. PICK q \in 0..Len(s) : Rest(b, w, s, q) /\ Heard(h, s, q)
  BY DEF Spoken
<1>2. q \in Nat /\ Len(s) \in Nat /\ Len(b) \in Nat /\ Len(w) \in Nat
      /\ Len(s) = 2 * q + Len(b) + Len(w)
  BY <1>1 DEF Rest
<1>3. /\ r \in Seq(Piece) /\ Len(r) = Len(b) + k
      /\ \A i \in 1..Len(r) : r[i] = s[2 * q + i]
      /\ wire2 \in Seq(Piece) /\ Len(wire2) = Len(w) - k
      /\ \A i \in 1..(Len(w) - k) : wire2[i] = s[2 * q + Len(r) + i]
  <2>1. q \in Nat /\ Rest(b, w, s, q)
    BY <1>1, <1>2
  <2> QED
    BY <2>1, Received, SMTT(30)
<1> HIDE DEF r, wire2
<1>4. 2 * q + Len(r) <= Len(s) /\ Len(r) \in Nat
  BY <1>2, <1>3
<1>5. /\ f \in Seq(Piece) /\ 2 * t <= Len(r) /\ t \in Nat /\ n \in 0..t /\ n <= Len(f)
      /\ new \in Seq(Nat) /\ Len(new) = n /\ \A i \in 1..n : new[i] = q + i - 1
      /\ heard \in Seq(Nat) /\ Heard(heard, s, q + t)
  <2>1. q \in Nat /\ Heard(h, s, q) /\ r \in Seq(Piece)
        /\ \A i \in 1..Len(r) : r[i] = s[2 * q + i]
    BY <1>1, <1>2, <1>3
  <2> QED
    BY <1>4, <2>1, Drained
<1>6. n \in 0..Len(f)
  BY <1>5
<1> HIDE DEF f
<1>7. /\ [i \in DOMAIN texts |-> texts[i].number] = new
      /\ \A answered \in {texts, <<>>} : \E m \in {0, n} :
            [i \in DOMAIN answered |-> <<"answer", answered[i].number>>]
            = AnswersTo(new, m)
  BY <1>5, <1>6, TextNumbers
<1> HIDE DEF n, t, new, heard, texts
<1>8. /\ left \in Seq(Piece) /\ Len(left) = Len(r) - 2 * t
      /\ \A i \in 1..Len(left) : left[i] = r[2 * t + i]
  <2>1. r \in Seq(Piece) /\ Len(r) \in Nat /\ 2 * t + 1 \in 1..(Len(r) + 1)
    BY <1>3, <1>4, <1>5
  <2> DEFINE a == 2 * t + 1
  <2>2. a \in 1..(Len(r) + 1) /\ left = SubSeq(r, a, Len(r))
    BY <2>1
  <2> HIDE DEF a, left
  <2>3. /\ left \in Seq(Piece) /\ Len(left) = Len(r) - a + 1
        /\ \A i \in 1..(Len(r) - a + 1) : left[i] = r[a + i - 1]
    BY <2>1, <2>2
  <2>4. Len(r) - a + 1 = Len(r) - 2 * t /\ \A i \in 1..Len(left) : a + i - 1 = 2 * t + i
    BY <1>5, <2>1, <2>3 DEF a
  <2> QED
    BY <2>3, <2>4
<1> HIDE DEF left
<1>9. Rest(left, wire2, s, q + t)
  <2>1. Len(s) = 2 * (q + t) + Len(left) + Len(wire2)
    BY <1>2, <1>3, <1>4, <1>5, <1>8
  <2>2. \A i \in 1..Len(left) : left[i] = s[2 * (q + t) + i]
    <3> TAKE i \in 1..Len(left)
    <3>1. 2 * t + i \in 1..Len(r)
      BY <1>4, <1>5, <1>8
    <3>3. 2 * q + (2 * t + i) = 2 * (q + t) + i
      BY <1>2, <1>5
    <3>2. left[i] = s[2 * q + (2 * t + i)]
      BY <1>3, <1>8, <3>1
    <3> QED
      BY <3>2, <3>3
  <2>3. \A i \in 1..Len(wire2) : wire2[i] = s[2 * (q + t) + Len(left) + i]
    <3> TAKE i \in 1..Len(wire2)
    <3>1. 2 * (q + t) + Len(left) + i = 2 * q + Len(r) + i
      BY <1>2, <1>4, <1>5, <1>8
    <3>2. wire2[i] = s[2 * q + Len(r) + i]
      BY <1>3
    <3> QED
      BY <3>1, <3>2
  <2> QED
    BY <2>1, <2>2, <2>3 DEF Rest
<1>10. q + t \in 0..Len(s)
  BY <1>2, <1>4, <1>5
<1>11. \A i \in 1..Len(h) : h[i] < q
  BY <1>1 DEF Heard, TextsOf
<1>12. ASSUME NEW answered \in {texts, <<>>}, NEW last \in {<<>>, <<Said("close")>>}
       PROVE  LET out2 == o \o ([i \in DOMAIN answered |-> <<"answer", answered[i].number>>] \o last)
              IN  /\ out2 \in Seq(Line)
                  /\ Spoken(s, left, wire2, heard, out2) /\ Answered(out2, heard)
                  /\ last # <<>> => Said("close") \in ToSet(out2)
                  /\ ToSet(o) \subseteq ToSet(out2)
  <2>1. PICK m \in {0, n} : [i \in DOMAIN answered |-> <<"answer", answered[i].number>>]
                            = AnswersTo(new, m)
    BY <1>7
  <2> DEFINE out2 == o \o (AnswersTo(new, m) \o last)
  <2>2. /\ o # <<>> /\ m \in {0, Len(new)} /\ \A i \in 1..Len(new) : new[i] = q + i - 1
        /\ new \in Seq(Nat) /\ q \in Nat
    BY <1>2, <1>5 DEF Spoken
  <2>3. /\ out2 \in Seq(Line) /\ out2 # <<>> /\ Answered(out2, heard)
        /\ last # <<>> => Said("close") \in ToSet(out2)
        /\ ToSet(o) \subseteq ToSet(out2)
    <3>1. heard = h \o new
      BY DEF heard
    <3> QED
      BY <1>11, <2>2, <3>1, AnswersAdded
  <2>4. Spoken(s, left, wire2, heard, out2)
    BY <1>5, <1>9, <1>10, <2>3 DEF Spoken
  <2> QED
    BY <2>1, <2>3, <2>4
<1> QED
  BY <1>3, <1>5, <1>7, <1>8, <1>12 DEF r, f, n, t, texts, left, wire2, heard

\* A read before the 101: the request is not complete yet, or it is.
LEMMA RequestRead ==
    ASSUME NEW s \in Seq(Piece), NEW b \in Seq(Piece), NEW w \in Seq(Piece), NEW o \in Seq(Line),
           Shape(s), Len(s) <= 2, Fresh(s, b, w, o), NEW k \in 1..Len(w)
    PROVE  LET r == ReadOf(b, w, k)
               wire2 == LeftOf(w, k)
           IN  /\ r \in Seq(Piece) /\ wire2 \in Seq(Piece)
               /\ Fresh(s, r, wire2, o)
               /\ (\E i \in DOMAIN r : r[i].last) =>
                     Spoken(s, <<>>, wire2, <<>>, <<Said("101")>>)
<1> DEFINE r == ReadOf(b, w, k)
<1> DEFINE wire2 == LeftOf(w, k)
<1>1. /\ Rest(b, w, s, 0) /\ o = <<>> /\ Len(s) = Len(b) + Len(w)
      /\ Len(s) \in Nat /\ Len(b) \in Nat /\ Len(w) \in Nat
  BY DEF Fresh, Rest
<1>2. /\ r \in Seq(Piece) /\ Len(r) = Len(b) + k
      /\ \A i \in 1..Len(r) : r[i] = s[2 * 0 + i]
      /\ wire2 \in Seq(Piece) /\ Len(wire2) = Len(w) - k
      /\ \A i \in 1..(Len(w) - k) : wire2[i] = s[2 * 0 + Len(r) + i]
  BY <1>1, Received
<1>3. DOMAIN r = 1..Len(r)
  BY <1>2
<1> HIDE DEF r, wire2
<1>4. Fresh(s, r, wire2, o)
  BY <1>1, <1>2 DEF Fresh, Rest
<1>5. ASSUME NEW i \in DOMAIN r, r[i].last
      PROVE  Spoken(s, <<>>, wire2, <<>>, <<Said("101")>>)
  <2>1. i \in 1..Len(s) /\ s[i].last
    BY <1>1, <1>2, <1>3, <1>5
  <2>2. i % 2 = 0 /\ i <= 2 /\ i \in Nat
    BY <2>1, <1>1 DEF Shape
  <2>8. i = 2
    BY <1>1, <2>1, <2>2
  <2>3. i = 2 /\ Len(s) = 2 /\ Len(r) = 2 /\ Len(wire2) = 0
    BY <1>1, <1>2, <1>3, <1>5, <2>8
  <2>4. s[2].kind \in Requests
    BY <2>3 DEF Shape
  <2>5. TextsOf(s, 1) = {}
    <3>1. \A t \in 0..(1 - 1) : 2 * t + 2 = 2
      OBVIOUS
    <3>2. s[2].kind # "text"
      BY <2>4, WsAssumption
    <3> QED
      BY <3>1, <3>2 DEF TextsOf, IsText
  <2>6. Rest(<<>>, wire2, s, 1)
    BY <2>3 DEF Rest
  <2>7. Heard(<<>>, s, 1)
    BY <2>5 DEF Heard
  <2> QED
    BY <2>3, <2>6, <2>7 DEF Spoken
<1> QED
  BY <1>2, <1>4, <1>5 DEF r, wire2

\* An event, after the 101.
LEMMA EventAdded ==
    ASSUME NEW o \in Seq(Line), o # <<>>, NEW h \in Seq(Nat), Answered(o, h)
    PROVE  LET e == Append(o, Said("event")) IN
           e \in Seq(Line) /\ e # <<>> /\ Answered(e, h) /\ ToSet(o) \subseteq ToSet(e)
<1> DEFINE e == Append(o, Said("event"))
<1>1. Said("event") \in Line
  BY DEF Said, Line
<1>2. /\ e \in Seq(Line) /\ Len(e) = Len(o) + 1 /\ Len(o) \in Nat /\ Len(o) >= 1
      /\ \A i \in 1..Len(o) : i \in 1..Len(e) /\ e[i] = o[i]
      /\ e[Len(e)] = Said("event") /\ DOMAIN e = 1..Len(e) /\ DOMAIN o = 1..Len(o)
  BY <1>1
<1> HIDE DEF e
<1>3. \A i \in 1..Len(e) : (i \in 1..Len(o) /\ e[i] = o[i]) \/ (i > 1 /\ e[i] = <<"event", 0>>)
  <2> TAKE i \in 1..Len(e)
  <2>1. CASE i = Len(e)
    BY <1>2, <2>1 DEF Said
  <2>2. CASE i # Len(e)
    <3>1. i \in 1..Len(o)
      BY <1>2, <2>2
    <3>2. e[i] = o[i]
      BY <1>2, <3>1
    <3> QED
      BY <3>1, <3>2
  <2> QED
    BY <2>1, <2>2
<1>4. Answered(e, h)
  <2>1. ASSUME NEW i \in 1..Len(e) PROVE e[i][1] \in {"101", "page"} <=> i = 1
    <3>1. CASE i \in 1..Len(o) /\ e[i] = o[i]
      BY <3>1 DEF Answered
    <3>2. CASE i > 1 /\ e[i] = <<"event", 0>>
      BY <3>2
    <3> QED
      BY <1>3, <3>1, <3>2
  <2>2. ASSUME NEW i \in 1..Len(e), e[i][1] = "answer"
        PROVE  /\ \E n \in 1..Len(h) : h[n] = e[i][2]
               /\ \A j \in 1..(i - 1) : e[j][1] = "answer" => e[j][2] < e[i][2]
    <3>1. i \in 1..Len(o) /\ e[i] = o[i] /\ o[i][1] = "answer"
      <4>1. CASE e[i] = <<"event", 0>>
        BY <2>2, <4>1
      <4> QED
        BY <1>3, <2>2, <4>1
    <3>2. \A j \in 1..(i - 1) : j \in 1..Len(o) /\ e[j] = o[j]
      BY <1>2, <3>1
    <3> QED
      BY <3>1, <3>2 DEF Answered
  <2> QED
    BY <2>1, <2>2 DEF Answered
<1>5. ToSet(o) \subseteq ToSet(e) /\ e # <<>>
  BY <1>2 DEF ToSet
<1> QED
  BY <1>2, <1>4, <1>5 DEF e

-----------------------------------------------------------------------------
(* WsServer: the inductive invariant.                                      *)

\* Where the loop is, and what it has at hand there.
Turn ==
    /\ owner = "down" => loop = "off" /\ clients = {}
    /\ loop \in {"off", "check", "watch"} => watched = {}
    /\ dead # {} => loop = "reading"
    /\ watched \subseteq clients \ dead
    /\ IF loop = "admit" THEN \E c \in Clients : accepted = {c} ELSE accepted = {}

\* A client moves on from the backlog to accepted and to clients_, once.
Places ==
    /\ backlog \cap (accepted \cup clients) = {} /\ accepted \cap clients = {}
    /\ \A c \in backlog \cup accepted \cup clients : conn[c] # "away"
    /\ accepted \subseteq open

\* Clients of the list that the round has not found dead.
Served == clients \ dead

\* They are open, and what else is open was said goodbye to.
Kept ==
    /\ Served \subseteq open
    /\ \A c \in open \ (Served \cup accepted) : Said("close") \in ToSet(out[c])

Few == IsFiniteSet(clients) /\ Cardinality(clients) <= MaxClients

\* Whom the server reads or may come to read.
Reached == {c \in Clients : conn[c] = "away"} \cup backlog \cup accepted \cup Served

\* The conversation with a client, before and after its upgrade.
TalkOf(c) ==
    /\ Shape(sent[c]) /\ Answered(out[c], handled[c])
    /\ IF c \in upgraded
       THEN Spoken(sent[c], buf[c], wire[c], handled[c], out[c])
       ELSE /\ Asked(sent[c], handled[c], out[c])
            /\ c \in Reached => Fresh(sent[c], buf[c], wire[c], out[c])

Talk == \A c \in Clients : TalkOf(c)

WsInv == TypeOK /\ Turn /\ Places /\ Kept /\ Few /\ Talk

\* It holds of a server that has not started.
LEMMA InitInv == Init => WsInv
<1> SUFFICES ASSUME Init PROVE WsInv
  OBVIOUS
<1>1. TypeOK
  <2>1. /\ buf \in [Clients -> Seq(Piece)] /\ wire \in [Clients -> Seq(Piece)]
        /\ sent \in [Clients -> Seq(Piece)] /\ out \in [Clients -> Seq(Line)]
        /\ handled \in [Clients -> Seq(Nat)] /\ conn \in [Clients -> {"away", "open", "left", "cut"}]
    BY DEF Init
  <2> QED
    BY <2>1 DEF Init, TypeOK
<1>2. Turn /\ Places /\ Kept
  BY DEF Init, Turn, Places, Kept, Served
<1>3. Few
  BY FS_EmptySet, WsAssumption DEF Init, Few
<1>4. Talk
  BY DEF Init, Talk, TalkOf, Shape, Answered, Asked, Fresh, Rest
<1> QED
  BY <1>1, <1>2, <1>3, <1>4 DEF WsInv

\* What was said stays as it was, and nobody new is reached.
LEMMA NothingSaid ==
    ASSUME Talk, UNCHANGED <<sent, buf, wire, handled, out, upgraded>>, Reached' \subseteq Reached
    PROVE  Talk'
BY DEF Talk, TalkOf

\* A step in the conversation with one client.
LEMMA OthersUnchanged ==
    ASSUME Talk, Reached' \subseteq Reached, NEW c \in Clients, TalkOf(c)',
           \A d \in Clients \ {c} :
              /\ sent'[d] = sent[d] /\ buf'[d] = buf[d] /\ wire'[d] = wire[d]
              /\ handled'[d] = handled[d] /\ out'[d] = out[d]
              /\ d \in upgraded' <=> d \in upgraded
    PROVE  Talk'
BY DEF Talk, TalkOf

\* Fewer clients than before are within the bound.
LEMMA FewerClients ==
    ASSUME Few, clients' \subseteq clients
    PROVE  Few'
<1>1. /\ IsFiniteSet(clients') /\ Cardinality(clients') <= Cardinality(clients)
      /\ Cardinality(clients') \in Nat /\ Cardinality(clients) \in Nat
  BY FS_Subset, FS_CardinalityType DEF Few
<1> QED
  BY <1>1, WsAssumption DEF Few

\* There is room for one more if there are fewer than max_clients.
LEMMA OneMoreClient ==
    ASSUME Few, HasRoom, NEW c, clients' = clients \cup {c}
    PROVE  Few'
<1>1. /\ IsFiniteSet(clients') /\ Cardinality(clients) \in Nat
      /\ Cardinality(clients') \in {Cardinality(clients), Cardinality(clients) + 1}
  BY FS_AddElement, FS_CardinalityType DEF Few
<1> QED
  BY <1>1, WsAssumption DEF Few, HasRoom

\* The owner's thread.
LEMMA OwnerSteps ==
    ASSUME WsInv, Start \/ StopBegin \/ StopListening \/ StopClear
    PROVE  WsInv'
<1> USE DEF WsInv, serverVars, loopVars, clientVars, peerVars
<1>1. UNCHANGED <<sent, buf, wire, handled, out, upgraded>>
  BY DEF Start, StopBegin, StopListening, StopClear
<1>2. TypeOK'
  <2>1. conn' \in [Clients -> {"away", "open", "left", "cut"}]
    BY DEF TypeOK, Start, StopBegin, StopListening, StopClear
  <2>2. dead' \subseteq clients'
    BY DEF TypeOK, Turn, Start, StopBegin, StopListening, StopClear
  <2>3. CASE Start
    BY <1>1, <2>1, <2>2, <2>3 DEF TypeOK, Start
  <2>4. CASE StopBegin
    BY <1>1, <2>1, <2>2, <2>4 DEF TypeOK, StopBegin
  <2>5. CASE StopListening
    BY <1>1, <2>1, <2>2, <2>5 DEF TypeOK, StopListening
  <2>6. CASE StopClear
    BY <1>1, <2>1, <2>2, <2>6 DEF TypeOK, StopClear
  <2> QED
    BY <2>3, <2>4, <2>5, <2>6
<1>3. \A c \in Clients : conn'[c] = "away" <=> conn[c] = "away"
  BY DEF TypeOK, Start, StopBegin, StopListening, StopClear
<1>4. Turn'
  BY DEF Turn, Start, StopBegin, StopListening, StopClear
<1>5. Places'
  BY <1>3 DEF TypeOK, Places, Start, StopBegin, StopListening, StopClear
<1>6. Kept'
  BY DEF Kept, Served, Turn, Places, Start, StopBegin, StopListening, StopClear
<1>7. clients' \subseteq clients
  BY DEF Start, StopBegin, StopListening, StopClear
<1>8. Reached' \subseteq Reached
  BY <1>3 DEF Reached, Served, Start, StopBegin, StopListening, StopClear
<1> QED
  BY <1>1, <1>2, <1>4, <1>5, <1>6, <1>7, <1>8, NothingSaid, FewerClients

\* The loop, but for what it reads.
LEMMA LoopSteps ==
    ASSUME WsInv, Check \/ Watch \/ Accept \/ Admit \/ NextRound
    PROVE  WsInv'
<1> USE DEF WsInv, serverVars, loopVars, clientVars, peerVars
<1>1. UNCHANGED <<sent, buf, wire, handled, out, upgraded>>
  BY DEF Check, Watch, Accept, Admit, NextRound
<1>2. TypeOK'
  BY DEF TypeOK, Check, Watch, Accept, Admit, NextRound
<1>3. \A c \in Clients : conn'[c] = "away" <=> conn[c] = "away"
  BY DEF TypeOK, Check, Watch, Accept, Admit, NextRound
<1>4. Turn'
  BY DEF TypeOK, Turn, Check, Watch, Accept, Admit, NextRound
<1>5. Places'
  BY <1>3 DEF TypeOK, Turn, Places, Check, Watch, Accept, Admit, NextRound
<1>6. Kept'
  BY DEF Kept, Served, Turn, Places, Check, Watch, Accept, Admit, NextRound
<1>7. Few'
  <2>1. CASE Admit
    BY <2>1, FewerClients, OneMoreClient DEF Turn, Admit
  <2>2. CASE Check \/ Watch \/ Accept \/ NextRound
    BY <2>2, FewerClients DEF Check, Watch, Accept, NextRound
  <2> QED
    BY <2>1, <2>2
<1>8. Reached' \subseteq Reached
  BY <1>3 DEF TypeOK, Turn, Reached, Served, Check, Watch, Accept, Admit, NextRound
<1> QED
  BY <1>1, <1>2, <1>4, <1>5, <1>6, <1>7, <1>8, NothingSaid

-----------------------------------------------------------------------------
\* What reading a client may do to the table: nothing, close its connection, or
\* leave it to die after a goodbye.
Treated(c) ==
    \/ Close(c)
    \/ UNCHANGED <<open, conn, dead>>
    \/ UNCHANGED <<open, conn>> /\ dead' = dead \cup {c} /\ Said("close") \in ToSet(out'[c])

\* HandleRead() has got to c.
Reading(c) ==
    /\ loop \in {"read", "reading"} /\ c \in watched
    /\ watched' = watched \ {c} /\ loop' = "reading"
    /\ UNCHANGED <<serverVars, toAccept, accepted, clients, backlog, sent, broadcasts>>

\* Then the lists are in order again, whichever of these happened.
LEMMA ClientRead ==
    ASSUME WsInv, NEW c \in Clients, Reading(c), Treated(c),
           \A d \in Clients : ToSet(out[d]) \subseteq ToSet(out'[d])
    PROVE  /\ Turn' /\ Places' /\ Kept' /\ Few' /\ Reached' \subseteq Reached
           /\ c \in Reached /\ (Close(c) => c \notin Reached')
           /\ conn' \in [Clients -> {"away", "open", "left", "cut"}] /\ open' \subseteq Clients
           /\ dead' \subseteq clients' /\ watched' \subseteq Clients
<1> USE DEF WsInv, Reading, serverVars
<1>1. c \in Served /\ c \in clients /\ c \notin accepted /\ c \notin backlog
  BY DEF Turn, Served, Places
<1>2. /\ conn' \in [Clients -> {"away", "open", "left", "cut"}] /\ open' \subseteq Clients
      /\ dead' \subseteq clients' /\ watched' \subseteq Clients
  BY <1>1 DEF TypeOK, Treated, Close
<1>3. dead' \in {dead, dead \cup {c}} /\ open' \in {open, open \ {c}}
  BY DEF Treated, Close
<1>4. Turn'
  BY <1>3 DEF Turn
<1>5. \A d \in Clients : conn'[d] = "away" <=> conn[d] = "away"
  BY DEF TypeOK, Treated, Close
<1>6. Places'
  BY <1>1, <1>3, <1>5 DEF TypeOK, Places
<1>7. Kept'
  <2>1. CASE Close(c)
    BY <1>1, <2>1 DEF Kept, Served, Close, TypeOK
  <2>2. CASE UNCHANGED <<open, conn, dead>>
    BY <1>1, <2>2 DEF Kept, Served, TypeOK
  <2>3. CASE UNCHANGED <<open, conn>> /\ dead' = dead \cup {c} /\ Said("close") \in ToSet(out'[c])
    BY <1>1, <2>3 DEF Kept, Served, TypeOK
  <2> QED
    BY <2>1, <2>2, <2>3 DEF Treated
<1>8. Few'
  BY FewerClients
<1>9. Reached' \subseteq Reached
  BY <1>3, <1>5 DEF Reached, Served
<1>10. c \in Reached
  BY <1>1 DEF Reached
<1>11. Close(c) => c \notin Reached'
  BY <1>1, <1>5 DEF Reached, Served, Close, Places
<1> QED
  BY <1>2, <1>4, <1>6, <1>7, <1>8, <1>9, <1>10, <1>11

\* read() returns nothing.
LEMMA HangingUp ==
    ASSUME WsInv, NEW c \in Clients, Reading(c), HangUp(c)
    PROVE  WsInv'
<1>1. Treated(c) /\ UNCHANGED <<sent, upgraded, buf, wire, out, handled, killed>>
  BY DEF HangUp, Treated, Reading
<1>2. /\ Turn' /\ Places' /\ Kept' /\ Few' /\ Reached' \subseteq Reached
      /\ conn' \in [Clients -> {"away", "open", "left", "cut"}] /\ open' \subseteq Clients
      /\ dead' \subseteq clients' /\ watched' \subseteq Clients
  BY <1>1, ClientRead
<1>3. TypeOK'
  BY <1>1, <1>2 DEF WsInv, TypeOK, Reading, serverVars
<1>4. Talk'
  BY <1>1, <1>2, NothingSaid DEF WsInv
<1> QED
  BY <1>2, <1>3, <1>4 DEF WsInv

\* Its sequences have their types.
LEMMA SequencesOf ==
    ASSUME TypeOK, NEW c \in Clients
    PROVE  /\ sent[c] \in Seq(Piece) /\ buf[c] \in Seq(Piece) /\ wire[c] \in Seq(Piece)
           /\ handled[c] \in Seq(Nat) /\ out[c] \in Seq(Line)
BY DEF TypeOK

\* read() returns pieces of frames.
LEMMA Draining ==
    ASSUME WsInv, NEW c \in Clients, Reading(c), c \in upgraded, NEW k \in 1..Len(wire[c]),
           wire' = [wire EXCEPT ![c] = LeftOf(wire[c], k)],
           Drain(c, ReadOf(buf[c], wire[c], k))
    PROVE  WsInv'
<1> DEFINE r == ReadOf(buf[c], wire[c], k)
<1> DEFINE f == FramesIn(r)
<1> DEFINE texts == SubSeq(f, 1, TextsAhead(f))
<1> DEFINE heard == handled[c] \o [i \in DOMAIN texts |-> texts[i].number]
<1> DEFINE left == SubSeq(r, 2 * Taken(f) + 1, Len(r))
<1> DEFINE closes == \E i \in 1..Taken(f) : f[i].kind = "close"
<1> DEFINE last == IF closes THEN <<Said("close")>> ELSE <<>>
<1> DEFINE told(answered) == out[c] \o ([i \in DOMAIN answered |-> <<"answer", answered[i].number>>] \o last)
<1>1. /\ handled' = [handled EXCEPT ![c] = heard] /\ buf' = [buf EXCEPT ![c] = left]
      /\ \E answered \in {texts, <<>>} :
            /\ out' = [out EXCEPT ![c] = told(answered)]
            /\ killed' \in BOOLEAN
      /\ dead' = IF closes THEN dead \cup {c} ELSE dead
      /\ UNCHANGED <<upgraded, open, conn>>
  BY DEF Drain, Write, FramesIn
<1>2. PICK answered \in {texts, <<>>} : out' = [out EXCEPT ![c] = told(answered)] /\ killed' \in BOOLEAN
  BY <1>1
<1>3. /\ Spoken(sent[c], buf[c], wire[c], handled[c], out[c]) /\ Shape(sent[c])
      /\ Answered(out[c], handled[c])
  BY DEF WsInv, Talk, TalkOf
<1>4. last \in {<<>>, <<Said("close")>>} /\ (closes => last # <<>>)
  OBVIOUS
<1>5. /\ left \in Seq(Piece) /\ LeftOf(wire[c], k) \in Seq(Piece) /\ heard \in Seq(Nat)
      /\ told(answered) \in Seq(Line)
      /\ Spoken(sent[c], left, LeftOf(wire[c], k), heard, told(answered))
      /\ Answered(told(answered), heard)
      /\ last # <<>> => Said("close") \in ToSet(told(answered))
      /\ ToSet(out[c]) \subseteq ToSet(told(answered))
  <2>1. /\ sent[c] \in Seq(Piece) /\ buf[c] \in Seq(Piece) /\ wire[c] \in Seq(Piece)
        /\ handled[c] \in Seq(Nat) /\ out[c] \in Seq(Line)
    BY SequencesOf DEF WsInv
  <2>2. /\ left \in Seq(Piece) /\ LeftOf(wire[c], k) \in Seq(Piece) /\ heard \in Seq(Nat)
        /\ \A a \in {texts, <<>>} : \A l \in {<<>>, <<Said("close")>>} :
              LET out2 == out[c] \o ([i \in DOMAIN a |-> <<"answer", a[i].number>>] \o l)
              IN  /\ out2 \in Seq(Line)
                  /\ Spoken(sent[c], left, LeftOf(wire[c], k), heard, out2) /\ Answered(out2, heard)
                  /\ l # <<>> => Said("close") \in ToSet(out2)
                  /\ ToSet(out[c]) \subseteq ToSet(out2)
    BY <1>3, <2>1, FramesRead, Zenon
  <2> HIDE DEF left, heard, texts, last
  <2> QED
    BY <1>4, <2>2
<1> HIDE DEF left, heard, told, closes, last, texts
<1>6. /\ buf \in [Clients -> Seq(Piece)] /\ wire \in [Clients -> Seq(Piece)]
      /\ handled \in [Clients -> Seq(Nat)] /\ out \in [Clients -> Seq(Line)]
  BY DEF WsInv, TypeOK
<1>7. /\ buf' \in [Clients -> Seq(Piece)] /\ wire' \in [Clients -> Seq(Piece)]
      /\ handled' \in [Clients -> Seq(Nat)] /\ out' \in [Clients -> Seq(Line)]
      /\ buf'[c] = left /\ wire'[c] = LeftOf(wire[c], k) /\ handled'[c] = heard
      /\ out'[c] = told(answered)
      /\ \A d \in Clients \ {c} : /\ buf'[d] = buf[d] /\ wire'[d] = wire[d]
                                  /\ handled'[d] = handled[d] /\ out'[d] = out[d]
  BY <1>1, <1>2, <1>5, <1>6
<1>8. \A d \in Clients : ToSet(out[d]) \subseteq ToSet(out'[d])
  BY <1>5, <1>7
<1>9. Treated(c)
  BY <1>1, <1>4, <1>5, <1>7 DEF Treated
<1>10. /\ Turn' /\ Places' /\ Kept' /\ Few' /\ Reached' \subseteq Reached
       /\ conn' \in [Clients -> {"away", "open", "left", "cut"}] /\ open' \subseteq Clients
       /\ dead' \subseteq clients' /\ watched' \subseteq Clients
  BY <1>8, <1>9, ClientRead
<1>11. TypeOK'
  BY <1>1, <1>2, <1>7, <1>10 DEF WsInv, TypeOK, Reading, serverVars
<1>12. TalkOf(c)'
  BY <1>1, <1>3, <1>5, <1>7 DEF TalkOf, Reading
<1>13. Talk'
  BY <1>1, <1>7, <1>10, <1>12, OthersUnchanged DEF WsInv, Reading
<1> QED
  BY <1>10, <1>11, <1>13 DEF WsInv

\* read() returns pieces of the request.
LEMMA Requesting ==
    ASSUME WsInv, NEW c \in Clients, Reading(c), c \notin upgraded, NEW k \in 1..Len(wire[c]),
           wire' = [wire EXCEPT ![c] = LeftOf(wire[c], k)],
           Request(c, ReadOf(buf[c], wire[c], k))
    PROVE  WsInv'
<1> DEFINE r == ReadOf(buf[c], wire[c], k)
<1> DEFINE whole == \E i \in DOMAIN r : r[i].last
<1>1. c \in Served /\ c \in Reached
  BY DEF WsInv, Turn, Served, Reached, Reading
<1>2. /\ Fresh(sent[c], buf[c], wire[c], out[c]) /\ Shape(sent[c]) /\ Len(sent[c]) <= 2
      /\ handled[c] = <<>> /\ out[c] = <<>> /\ Asked(sent[c], handled[c], out[c])
  BY <1>1 DEF WsInv, Talk, TalkOf, Asked, Fresh
<1>3. /\ r \in Seq(Piece) /\ LeftOf(wire[c], k) \in Seq(Piece)
      /\ Fresh(sent[c], r, LeftOf(wire[c], k), out[c])
      /\ whole => Spoken(sent[c], <<>>, LeftOf(wire[c], k), <<>>, <<Said("101")>>)
  BY <1>2, SequencesOf, RequestRead DEF WsInv
<1>4. /\ buf \in [Clients -> Seq(Piece)] /\ wire \in [Clients -> Seq(Piece)]
      /\ handled \in [Clients -> Seq(Nat)] /\ out \in [Clients -> Seq(Line)]
  BY DEF WsInv, TypeOK
<1>5. handled' = handled /\ wire' \in [Clients -> Seq(Piece)] /\ wire'[c] = LeftOf(wire[c], k)
      /\ \A d \in Clients \ {c} : wire'[d] = wire[d]
  BY <1>3, <1>4 DEF Request
<1>6. \A what \in {"101", "page"} :
         /\ <<>> \o <<Said(what)>> = <<Said(what)>> /\ <<Said(what)>> \in Seq(Line)
         /\ Answered(<<Said(what)>>, <<>>)
  BY DEF Said, Line, Answered
<1> HIDE DEF r, whole
<1>7. CASE whole /\ DoUpgrade(c)
  <2>1. /\ out' = [out EXCEPT ![c] = <<Said("101")>>] /\ killed' \in BOOLEAN
        /\ upgraded' = upgraded \cup {c} /\ buf' = [buf EXCEPT ![c] = <<>>]
        /\ UNCHANGED <<dead, open, conn>>
    BY <1>2, <1>6, <1>7 DEF DoUpgrade, Write
  <2>2. /\ out' \in [Clients -> Seq(Line)] /\ buf' \in [Clients -> Seq(Piece)]
        /\ out'[c] = <<Said("101")>> /\ buf'[c] = <<>>
        /\ \A d \in Clients \ {c} : out'[d] = out[d] /\ buf'[d] = buf[d]
    BY <1>4, <1>6, <2>1
  <2>3. ASSUME NEW d \in Clients PROVE ToSet(out[d]) \subseteq ToSet(out'[d])
    <3>1. CASE d = c
      <4>1. ToSet(out[d]) = {}
        BY <1>2, <3>1 DEF ToSet
      <4> QED
        BY <4>1
    <3>2. CASE d # c
      BY <2>2, <3>2
    <3> QED
      BY <3>1, <3>2
  <2>4. /\ Turn' /\ Places' /\ Kept' /\ Few' /\ Reached' \subseteq Reached
        /\ dead' \subseteq clients' /\ watched' \subseteq Clients
    BY <2>1, <2>3, ClientRead DEF Treated
  <2>5. TypeOK'
    BY <1>5, <2>1, <2>2, <2>4 DEF WsInv, TypeOK, Reading, serverVars
  <2>6. TalkOf(c)'
    BY <1>2, <1>3, <1>5, <1>6, <1>7, <2>1, <2>2 DEF TalkOf, Reading
  <2>7. Talk'
    BY <1>5, <2>1, <2>2, <2>4, <2>6, OthersUnchanged DEF WsInv, Reading
  <2> QED
    BY <2>4, <2>5, <2>7 DEF WsInv
<1>8. CASE Refuse(c) \/ ServeHttp(c)
  <2>1. /\ out'[c] \in {<<>>, <<Said("page")>>} /\ out' \in [Clients -> Seq(Line)]
        /\ \A d \in Clients \ {c} : out'[d] = out[d]
        /\ killed' \in BOOLEAN /\ Close(c) /\ UNCHANGED <<upgraded, buf>>
    <3>1. CASE Refuse(c)
      BY <1>2, <1>4, <3>1 DEF Refuse, WsInv, TypeOK
    <3>2. CASE ServeHttp(c)
      BY <1>2, <1>4, <1>6, <3>2 DEF ServeHttp, Write
    <3> QED
      BY <1>8, <3>1, <3>2
  <2>2. \A d \in Clients : ToSet(out[d]) \subseteq ToSet(out'[d])
    BY <1>2, <2>1 DEF ToSet
  <2>3. /\ Turn' /\ Places' /\ Kept' /\ Few' /\ Reached' \subseteq Reached /\ c \notin Reached'
        /\ conn' \in [Clients -> {"away", "open", "left", "cut"}] /\ open' \subseteq Clients
        /\ dead' \subseteq clients' /\ watched' \subseteq Clients
    BY <2>1, <2>2, ClientRead DEF Treated
  <2>4. TypeOK'
    BY <1>5, <2>1, <2>3 DEF WsInv, TypeOK, Reading, serverVars
  <2>5. Answered(out'[c], <<>>) /\ Asked(sent[c], <<>>, out'[c])
    BY <1>2, <1>6, <2>1 DEF Answered, Asked, Said
  <2>6. TalkOf(c)'
    BY <1>2, <1>5, <2>1, <2>3, <2>5 DEF TalkOf, Reading
  <2>7. Talk'
    BY <1>5, <2>1, <2>3, <2>6, OthersUnchanged DEF WsInv, Reading
  <2> QED
    BY <2>3, <2>4, <2>7 DEF WsInv
<1>9. CASE ~whole
  <2>1. buf' = [buf EXCEPT ![c] = r] /\ UNCHANGED <<upgraded, dead, open, conn, out, killed>>
    BY <1>9 DEF Request, r, whole
  <2>2. /\ buf' \in [Clients -> Seq(Piece)] /\ buf'[c] = r
        /\ \A d \in Clients \ {c} : buf'[d] = buf[d]
    BY <1>3, <1>4, <2>1
  <2>3. /\ Turn' /\ Places' /\ Kept' /\ Few' /\ Reached' \subseteq Reached
        /\ dead' \subseteq clients' /\ watched' \subseteq Clients
    BY <2>1, ClientRead DEF Treated
  <2>4. TypeOK'
    BY <1>5, <2>1, <2>2, <2>3 DEF WsInv, TypeOK, Reading, serverVars
  <2>5. TalkOf(c)'
    BY <1>2, <1>3, <1>5, <2>1, <2>2 DEF WsInv, Talk, TalkOf, Reading
  <2>6. Talk'
    BY <1>5, <2>1, <2>2, <2>3, <2>5, OthersUnchanged DEF WsInv, Reading
  <2> QED
    BY <2>3, <2>4, <2>6 DEF WsInv
<1> QED
  BY <1>7, <1>8, <1>9 DEF Request, r, whole

\* Every HandleRead() of a round.
LEMMA ReadSteps == ASSUME WsInv, HandleRead PROVE WsInv'
<1>1. PICK c \in watched : Reading(c) /\ (HangUp(c) \/ Receive(c))
  BY DEF HandleRead, Reading
<1>2. c \in Clients
  BY <1>1 DEF WsInv, TypeOK
<1>3. CASE HangUp(c)
  BY <1>1, <1>2, <1>3, HangingUp
<1>4. CASE Receive(c)
  <2>1. PICK k \in 1..Len(wire[c]) :
           /\ wire' = [wire EXCEPT ![c] = LeftOf(wire[c], k)]
           /\ IF c \in upgraded THEN Drain(c, ReadOf(buf[c], wire[c], k))
              ELSE Request(c, ReadOf(buf[c], wire[c], k))
    BY <1>4 DEF Receive, ReadOf, LeftOf
  <2> QED
    BY <1>1, <1>2, <2>1, Draining, Requesting
<1> QED
  BY <1>1, <1>3, <1>4

\* An event goes to those who have had the 101.
LEMMA BroadcastStep == ASSUME WsInv, Broadcast PROVE WsInv'
<1> USE DEF serverVars, loopVars, clientVars, peerVars
<1>1. /\ UNCHANGED <<serverVars, loopVars, clientVars, peerVars, handled>>
      /\ \A c \in Clients : out'[c] \in {out[c], Append(out[c], Said("event"))}
      /\ \A c \in Clients : c \notin upgraded => out'[c] = out[c]
  BY DEF Broadcast, Listeners
<1>2. \A c \in Clients :
         /\ out'[c] \in Seq(Line) /\ ToSet(out[c]) \subseteq ToSet(out'[c])
         /\ c \in upgraded => out'[c] # <<>>
         /\ Answered(out'[c], handled[c])
  <2> TAKE c \in Clients
  <2>1. out[c] \in Seq(Line) /\ handled[c] \in Seq(Nat) /\ Answered(out[c], handled[c])
        /\ (c \in upgraded => out[c] # <<>>)
    BY SequencesOf DEF WsInv, Talk, TalkOf, Spoken
  <2>2. CASE out'[c] = out[c]
    BY <2>1, <2>2
  <2>3. CASE out'[c] # out[c]
    <3>1. out'[c] = Append(out[c], Said("event")) /\ out[c] # <<>>
      BY <1>1, <2>1, <2>3
    <3> QED
      BY <2>1, <3>1, EventAdded
  <2> QED
    BY <2>2, <2>3
<1>3. TypeOK'
  <2>1. out' \in [Clients -> Seq(Line)]
    <3>1. out' = [c \in Clients |-> out'[c]]
      BY DEF Broadcast
    <3> QED
      BY <1>2, <3>1
  <2>2. killed' \in BOOLEAN /\ broadcasts' \in Nat
    <3>1. killed' \in BOOLEAN
      BY Zenon DEF Broadcast
    <3> QED
      BY <3>1 DEF Broadcast, WsInv, TypeOK
  <2> QED
    BY <1>1, <2>1, <2>2 DEF WsInv, TypeOK
<1>4. Turn' /\ Places' /\ Few' /\ Reached' = Reached /\ Served' = Served
  BY <1>1 DEF WsInv, Turn, Places, Few, Reached, Served
<1>5. Kept'
  BY <1>1, <1>2, <1>4 DEF WsInv, TypeOK, Kept
<1>6. Talk'
  <2> SUFFICES ASSUME NEW c \in Clients PROVE TalkOf(c)'
    BY DEF Talk
  <2>1. TalkOf(c)
    BY DEF WsInv, Talk
  <2>2. CASE c \in upgraded
    BY <1>1, <1>2, <2>1, <2>2 DEF TalkOf, Spoken
  <2>3. CASE c \notin upgraded
    BY <1>1, <1>2, <1>4, <2>1, <2>3 DEF TalkOf
  <2> QED
    BY <2>2, <2>3
<1> QED
  BY <1>3, <1>4, <1>5, <1>6 DEF WsInv

\* A client sends the next piece: a head when its last request or frame is
\* complete, a frame only if it has read the 101.
LEMMA PieceStep ==
    ASSUME WsInv, NEW c \in Clients, NEW p \in Piece, conn[c] = "open",
           p.number = Len(sent[c]) \div 2, p.last <=> Len(sent[c]) % 2 = 1,
           p.kind \in IF Len(sent[c]) <= 1 THEN Requests ELSE Frames,
           c \in upgraded \/ Len(sent[c]) <= 1,
           wire' = [wire EXCEPT ![c] = Append(wire[c], p)],
           sent' = [sent EXCEPT ![c] = Append(sent[c], p)],
           UNCHANGED <<conn, backlog, serverVars, loopVars, clientVars, out, handled, broadcasts, killed>>
    PROVE  WsInv'
<1> USE DEF serverVars, loopVars, clientVars
<1>1. /\ sent[c] \in Seq(Piece) /\ wire[c] \in Seq(Piece) /\ buf[c] \in Seq(Piece)
      /\ handled[c] \in Seq(Nat) /\ out[c] \in Seq(Line) /\ TalkOf(c)
  BY SequencesOf DEF WsInv, Talk
<1>2. /\ Append(wire[c], p) \in Seq(Piece) /\ Append(sent[c], p) \in Seq(Piece)
      /\ Len(Append(sent[c], p)) = Len(sent[c]) + 1 /\ Len(sent[c]) \in Nat
  BY <1>1
<1>3. /\ sent' \in [Clients -> Seq(Piece)] /\ wire' \in [Clients -> Seq(Piece)]
      /\ sent'[c] = Append(sent[c], p) /\ wire'[c] = Append(wire[c], p)
      /\ \A d \in Clients \ {c} : sent'[d] = sent[d] /\ wire'[d] = wire[d]
  BY <1>2 DEF WsInv, TypeOK
<1>4. Shape(Append(sent[c], p))
  BY <1>1, ShapeGrows DEF TalkOf
<1>5. TypeOK'
  BY <1>3 DEF WsInv, TypeOK
<1>6. Turn' /\ Places' /\ Kept' /\ Few' /\ Reached' = Reached
  BY DEF WsInv, Turn, Places, Kept, Few, Reached, Served
<1>7. TalkOf(c)'
  <2>1. CASE c \in upgraded
    <3>1. Spoken(sent'[c], buf[c], wire'[c], handled[c], out[c])
      BY <1>1, <1>3, <2>1, PieceSent DEF TalkOf
    <3> QED
      BY <1>1, <1>3, <1>4, <2>1, <3>1 DEF TalkOf
  <2>2. CASE c \notin upgraded
    <3>1. Asked(sent'[c], handled[c], out[c])
      BY <1>1, <1>2, <1>3, <2>2 DEF TalkOf, Asked
    <3>2. c \in Reached => Fresh(sent'[c], buf[c], wire'[c], out[c])
      BY <1>1, <1>3, <2>2, PieceSent DEF TalkOf
    <3> QED
      BY <1>1, <1>3, <1>4, <1>6, <2>2, <3>1, <3>2 DEF TalkOf
  <2> QED
    BY <2>1, <2>2
<1>8. Talk'
  BY <1>3, <1>6, <1>7, OthersUnchanged DEF WsInv
<1> QED
  BY <1>5, <1>6, <1>8 DEF WsInv

\* A client is told the 101 when it is upgraded.
LEMMA UpgradedFirst ==
    ASSUME WsInv, NEW c \in Clients, Said("101") \in ToSet(out[c])
    PROVE  c \in upgraded
<1>1. out[c] \in Seq(Line) /\ TalkOf(c)
  BY SequencesOf DEF WsInv, Talk
<1>2. PICK i \in 1..Len(out[c]) : out[c][i] = Said("101")
  BY <1>1 DEF ToSet
<1> QED
  BY <1>1, <1>2 DEF TalkOf, Asked, Said

\* Whether a piece is a tail is told by its place.
LEMMA LastPiece ==
    ASSUME NEW s \in Seq(Piece), Shape(s), s # <<>>
    PROVE  /\ Last(s) \in Piece
           /\ Last(s).last <=> (Len(s) % 2 = 0)
           /\ Last(s).number = (Len(s) - 1) \div 2
           /\ Last(s).kind \in (IF Len(s) <= 2 THEN Requests ELSE Frames)
<1>1. Len(s) \in 1..Len(s) /\ Last(s) = s[Len(s)] /\ Last(s) \in Piece
  BY DEF Last
<1> QED
  BY <1>1 DEF Shape

\* Clients connect, send heads and tails, and leave.
LEMMA ClientSteps == ASSUME WsInv, ClientStep PROVE WsInv'
<1> USE DEF serverVars, loopVars, clientVars
<1>1. PICK c \in Clients : Connect(c) \/ Begin(c) \/ Complete(c) \/ Leave(c)
  BY DEF ClientStep
<1>2. UNCHANGED <<serverVars, loopVars, clientVars, out, handled, broadcasts, killed>>
  BY DEF ClientStep
<1>3. sent[c] \in Seq(Piece) /\ TalkOf(c) /\ Shape(sent[c]) /\ Len(sent[c]) \in Nat
      /\ (sent[c] = <<>> <=> Len(sent[c]) = 0)
  BY SequencesOf DEF WsInv, Talk, TalkOf
<1>4. CASE Connect(c) \/ Leave(c)
  <2>1. /\ conn' \in [Clients -> {"away", "open", "left", "cut"}] /\ backlog' \subseteq Clients
        /\ \A d \in Clients : conn'[d] = "away" => conn[d] = "away"
        /\ UNCHANGED <<wire, sent>>
    BY <1>4 DEF Connect, Leave, WsInv, TypeOK
  <2>2. TypeOK'
    BY <1>2, <2>1 DEF WsInv, TypeOK
  <2>3. Turn' /\ Kept' /\ Few'
    BY <1>2 DEF WsInv, Turn, Kept, Few, Served
  <2>4. Places'
    BY <1>2, <1>4 DEF WsInv, TypeOK, Places, Connect, Leave
  <2>5. Reached' \subseteq Reached
    BY <1>2, <1>4, <2>1 DEF Reached, Served, Connect, Leave
  <2>6. Talk'
    BY <1>2, <2>1, <2>5, NothingSaid DEF WsInv
  <2> QED
    BY <2>2, <2>3, <2>4, <2>6 DEF WsInv
<1>5. CASE Begin(c)
  <2>1. PICK kind :
           /\ sent[c] = <<>> => kind \in Requests
           /\ sent[c] # <<>> => Said("101") \in ToSet(out[c]) /\ kind \in Frames
           /\ LET p == [kind |-> kind, number |-> Len(sent[c]) \div 2, last |-> FALSE]
              IN  /\ wire' = [wire EXCEPT ![c] = Append(wire[c], p)]
                  /\ sent' = [sent EXCEPT ![c] = Append(sent[c], p)]
    BY <1>5 DEF Begin
  <2> DEFINE p == [kind |-> kind, number |-> Len(sent[c]) \div 2, last |-> FALSE]
  <2>2. conn[c] = "open" /\ (sent[c] # <<>> => Last(sent[c]).last) /\ UNCHANGED <<conn, backlog>>
    BY <1>5 DEF Begin
  <2> DEFINE n == Len(sent[c])
  <2>9. n \in Nat /\ (sent[c] = <<>> <=> n = 0)
    BY <1>3
  <2>10. /\ sent[c] = <<>> => kind \in Requests
         /\ sent[c] # <<>> => Said("101") \in ToSet(out[c]) /\ kind \in Frames
    BY <2>1, Zenon
  <2>11. /\ n = 0 => kind \in Requests
         /\ n # 0 => c \in upgraded /\ kind \in Frames
    BY <2>9, <2>10, UpgradedFirst, Zenon
  <2>3. kind \in Requests \cup Frames /\ n \div 2 \in Nat
    <3> HIDE DEF n
    <3> QED
      BY <2>9, <2>11
  <2>4. p \in Piece
    BY <2>3, WsAssumption DEF Piece
  <2>5. n % 2 = 0
    <3>1. CASE sent[c] = <<>>
      BY <1>3, <3>1
    <3>2. CASE sent[c] # <<>>
      BY <1>3, <2>2, <3>2, LastPiece
    <3> QED
      BY <3>1, <3>2
  <2>6. (p.kind \in IF n <= 1 THEN Requests ELSE Frames) /\ (c \in upgraded \/ n <= 1)
    <3>1. p.kind = kind
      OBVIOUS
    <3> HIDE DEF n, p
    <3> QED
      BY <2>5, <2>9, <2>11, <3>1
  <2>8. p.number = Len(sent[c]) \div 2 /\ (p.last <=> Len(sent[c]) % 2 = 1)
    <3>1. p.number = Len(sent[c]) \div 2 /\ ~p.last
      OBVIOUS
    <3>2. ~(n % 2 = 1)
      <4> HIDE DEF n, p
      <4> QED
        BY <2>5, <2>9
    <3> QED
      BY <3>1, <3>2
  <2> HIDE DEF p
  <2> QED
    BY <1>2, <2>1, <2>2, <2>4, <2>6, <2>8, PieceStep DEF p
<1>6. CASE Complete(c)
  <2> DEFINE p == [Last(sent[c]) EXCEPT !.last = TRUE]
  <2>1. /\ conn[c] = "open" /\ sent[c] # <<>> /\ ~Last(sent[c]).last
        /\ wire' = [wire EXCEPT ![c] = Append(wire[c], p)]
        /\ sent' = [sent EXCEPT ![c] = Append(sent[c], p)]
        /\ UNCHANGED <<conn, backlog>>
    BY <1>6 DEF Complete
  <2>2. /\ Last(sent[c]) \in Piece /\ Len(sent[c]) % 2 = 1
        /\ Last(sent[c]).number = (Len(sent[c]) - 1) \div 2
        /\ Last(sent[c]).kind \in IF Len(sent[c]) <= 2 THEN Requests ELSE Frames
    <3>3. sent[c] \in Seq(Piece) /\ Shape(sent[c]) /\ sent[c] # <<>>
      BY <1>3, <2>1
    <3>1. /\ Last(sent[c]) \in Piece
          /\ Last(sent[c]).last <=> (Len(sent[c]) % 2 = 0)
          /\ Last(sent[c]).number = (Len(sent[c]) - 1) \div 2
          /\ Last(sent[c]).kind \in (IF Len(sent[c]) <= 2 THEN Requests ELSE Frames)
      <4> DEFINE s == sent[c]
      <4>1. s \in Seq(Piece) /\ Shape(s) /\ s # <<>>
        BY <3>3
      <4> HIDE DEF s
      <4>2. /\ Last(s) \in Piece
            /\ Last(s).last <=> (Len(s) % 2 = 0)
            /\ Last(s).number = (Len(s) - 1) \div 2
            /\ Last(s).kind \in (IF Len(s) <= 2 THEN Requests ELSE Frames)
        BY ONLY <4>1, LastPiece, Zenon
      <4> QED
        BY <4>2 DEF s
    <3>2. Len(sent[c]) % 2 = 1
      <4> DEFINE n == Len(sent[c])
      <4>1. n \in Nat /\ n % 2 # 0
        BY <1>3, <2>1, <3>1, Zenon
      <4> HIDE DEF n
      <4>2. n % 2 = 1
        BY ONLY <4>1
      <4> QED
        BY <4>2 DEF n
    <3> QED
      BY <3>1, <3>2
  <2>3. /\ p \in Piece /\ p.kind = Last(sent[c]).kind /\ p.number = Last(sent[c]).number /\ p.last
    BY <2>2 DEF Piece
  <2>4. /\ (Len(sent[c]) - 1) \div 2 = Len(sent[c]) \div 2
        /\ Len(sent[c]) <= 2 <=> Len(sent[c]) <= 1
    <3> DEFINE n == Len(sent[c])
    <3>1. n \in Nat /\ n % 2 = 1
      BY <1>3, <2>2
    <3> HIDE DEF n
    <3>2. (n - 1) \div 2 = n \div 2 /\ (n <= 2 <=> n <= 1)
      BY <3>1
    <3> QED
      BY <3>2 DEF n
  <2>5. c \in upgraded \/ Len(sent[c]) <= 1
    BY <1>3, <2>4 DEF TalkOf, Asked
  <2> HIDE DEF p
  <2> QED
    BY <1>2, <2>1, <2>2, <2>3, <2>4, <2>5, PieceStep
<1> QED
  BY <1>1, <1>4, <1>5, <1>6

(* The inductive invariant of the connections and the conversations.       *)
THEOREM WsInvariance == Spec => []WsInv
<1>1. Init => WsInv
  BY InitInv
<1>2. WsInv /\ [Next]_vars => WsInv'
  <2> SUFFICES ASSUME WsInv, [Next]_vars PROVE WsInv'
    OBVIOUS
  <2>1. CASE Next
    <3>1. CASE Start \/ StopBegin \/ StopListening \/ StopClear
      BY <3>1, OwnerSteps
    <3>2. CASE LoopStep
      BY <3>2, LoopSteps, ReadSteps DEF LoopStep
    <3>3. CASE Broadcast
      BY <3>3, BroadcastStep
    <3>4. CASE ClientStep
      BY <3>4, ClientSteps
    <3> QED
      BY <2>1, <3>1, <3>2, <3>3, <3>4 DEF Next
  <2>2. CASE UNCHANGED vars
    BY <2>2 DEF vars, serverVars, loopVars, clientVars, peerVars, WsInv, TypeOK, Turn, Places, Kept,
                Few, Served, Talk, TalkOf, Reached
  <2> QED
    BY <2>1, <2>2
<1> QED
  BY <1>1, <1>2, PTL DEF Spec

(* Before the 101 a client is written nothing but the page, and afterwards *)
(* no answer but to its own texts, each at most once and in their order,   *)
(* wherever Broadcast() puts its events.                                   *)
THEOREM AnswersAlwaysMatch == Spec => []AnswersMatch
<1>1. WsInv => AnswersMatch
  <2> SUFFICES ASSUME WsInv, NEW c \in Clients
               PROVE  /\ \A i \in DOMAIN out[c] : out[c][i][1] \in {"101", "page"} <=> i = 1
                      /\ \A i \in DOMAIN out[c] : out[c][i][1] = "answer" =>
                            /\ out[c][i][2] \in ToSet(handled[c])
                            /\ \A j \in 1..(i - 1) :
                                  out[c][j][1] = "answer" => out[c][j][2] < out[c][i][2]
    BY DEF AnswersMatch
  <2>1. DOMAIN out[c] = 1..Len(out[c]) /\ DOMAIN handled[c] = 1..Len(handled[c])
    BY SequencesOf DEF WsInv
  <2>2. Answered(out[c], handled[c])
    BY DEF WsInv, Talk, TalkOf
  <2> QED
    BY <2>1, <2>2 DEF Answered, ToSet
<1> QED
  BY <1>1, WsInvariance, PTL

(* The texts the handler got from a client are the first of those it sent, *)
(* whole and in order, however TCP cut them and with whatever control and  *)
(* close frames between.                                                   *)
THEOREM TextsHandledInOrder == Spec => []HandledInOrder
<1>1. WsInv => HandledInOrder
  <2> SUFFICES ASSUME WsInv, NEW c \in Clients
               PROVE  /\ ToSet(handled[c]) \subseteq TextsSent(c)
                      /\ \A i \in DOMAIN handled[c] : \A n \in TextsSent(c) :
                            n < handled[c][i] <=> \E j \in 1..(i - 1) : handled[c][j] = n
    BY DEF HandledInOrder
  <2> DEFINE s == sent[c]
  <2> DEFINE h == handled[c]
  <2>1. s \in Seq(Piece) /\ h \in Seq(Nat) /\ Shape(s) /\ DOMAIN h = 1..Len(h) /\ Len(s) \in Nat
        /\ DOMAIN s = 1..Len(s)
    BY SequencesOf DEF WsInv, Talk, TalkOf
  <2>2. PICK q \in Nat : 2 * q <= Len(s) /\ Heard(h, s, q)
    <3>1. CASE c \in upgraded
      <4>1. PICK q \in 0..Len(s) : Rest(buf[c], wire[c], s, q) /\ Heard(h, s, q)
        BY <3>1 DEF WsInv, Talk, TalkOf, Spoken
      <4>2. Len(buf[c]) \in Nat /\ Len(wire[c]) \in Nat
        BY SequencesOf DEF WsInv
      <4>3. q \in Nat /\ 2 * q <= Len(s)
        <5> DEFINE b == Len(buf[c])
        <5> DEFINE w == Len(wire[c])
        <5>1. Len(s) = 2 * q + b + w /\ b \in Nat /\ w \in Nat /\ q \in Nat
          BY <2>1, <4>1, <4>2 DEF Rest
        <5> HIDE DEF b, w, s
        <5> QED
          BY <5>1
      <4> QED
        BY <4>1, <4>3
    <3>2. CASE c \notin upgraded
      <4>1. h = <<>>
        BY <3>2 DEF WsInv, Talk, TalkOf, Asked
      <4>2. Heard(h, s, 0)
        BY <4>1 DEF Heard, TextsOf
      <4> QED
        BY <2>1, <4>2
    <3> QED
      BY <3>1, <3>2
  <2> HIDE DEF s, h
  <2>3. \A t \in 0..(q - 1) : 2 * t + 2 \in 1..Len(s) /\ s[2 * t + 2].number = t /\ s[2 * t + 2].last
    <3> TAKE t \in 0..(q - 1)
    <3>1. 2 * t + 2 \in 1..Len(s) /\ (2 * t + 2 - 1) \div 2 = t /\ (2 * t + 2) % 2 = 0
      BY <2>1, <2>2
    <3> QED
      BY <3>1, <2>1 DEF Shape
  <2>4. ASSUME NEW t \in TextsOf(s, q) PROVE t \in TextsSent(c) /\ t \in 0..(q - 1)
    <3>1. t \in 0..(q - 1) /\ s[2 * t + 2].kind = "text"
      BY DEF TextsOf, IsText
    <3>2. s[2 * t + 2] \in ToSet(s) /\ s[2 * t + 2].number = t /\ s[2 * t + 2].last
      BY <2>1, <2>3, <3>1 DEF ToSet
    <3> QED
      BY <3>1, <3>2 DEF TextsSent, s
  <2>5. ASSUME NEW t \in TextsSent(c), t < q PROVE t \in TextsOf(s, q)
    <3>1. PICK i \in 1..Len(s) : s[i].last /\ s[i].kind = "text" /\ t = s[i].number
      BY <2>1 DEF TextsSent, ToSet, s
    <3>2. i % 2 = 0 /\ t = (i - 1) \div 2
      BY <2>1, <3>1 DEF Shape
    <3>3. i = 2 * t + 2 /\ t \in Nat
      BY <2>1, <3>2
    <3> QED
      BY <2>5, <3>1, <3>3, <2>2 DEF TextsOf, IsText
  <2>6. ToSet(h) \subseteq TextsSent(c)
    BY <2>1, <2>2, <2>4 DEF ToSet, Heard
  <2>7. ASSUME NEW i \in 1..Len(h), NEW n \in TextsSent(c)
        PROVE  n < h[i] <=> \E j \in 1..(i - 1) : h[j] = n
    <3>1. h[i] \in TextsOf(s, q) /\ h[i] \in 0..(q - 1)
      <4>1. h[i] \in TextsOf(s, q)
        BY <2>2 DEF Heard
      <4> QED
        BY <2>4, <4>1
    <3>2. n \in Nat
      <4>1. PICK j \in 1..Len(s) : s[j].last /\ s[j].kind = "text" /\ n = s[j].number
        BY <2>1 DEF TextsSent, ToSet, s
      <4>2. s[j].number = (j - 1) \div 2
        BY <2>1, <4>1 DEF Shape
      <4> QED
        BY <2>1, <4>1, <4>2
    <3>3. ASSUME n < h[i] PROVE \E j \in 1..(i - 1) : h[j] = n
      <4>1. n \in TextsOf(s, q)
        BY <2>2, <2>5, <3>1, <3>2, <3>3
      <4>2. PICK j \in 1..Len(h) : h[j] = n
        BY <2>2, <4>1 DEF Heard
      <4>3. ~(i < j) /\ i # j
        BY <2>2, <3>1, <3>2, <3>3, <4>2 DEF Heard
      <4> QED
        BY <2>1, <4>2, <4>3
    <3>4. ASSUME NEW j \in 1..(i - 1), h[j] = n PROVE n < h[i]
      <4>1. j \in 1..Len(h) /\ j < i
        BY <2>1
      <4> QED
        BY <2>2, <3>4, <4>1 DEF Heard
    <3> QED
      BY <3>3, <3>4
  <2> QED
    BY <2>1, <2>6, <2>7 DEF h
<1> QED
  BY <1>1, WsInvariance, PTL

(* The server has a descriptor open for everyone in clients_, of whom      *)
(* there are max_clients at most, and for nobody else but the client just  *)
(* accepted and those it said goodbye to; Stop() leaves an empty list.     *)
THEOREM OpenAlwaysServed == Spec => []OpenIsServed
<1>1. WsInv => OpenIsServed
  BY DEF WsInv, OpenIsServed, Turn, Kept, Served, Few
<1> QED
  BY <1>1, WsInvariance, PTL

-----------------------------------------------------------------------------
(* IpcServer: the table of descriptors.                                    *)

\* The marks of the instance are no clients either.
LEMMA MarksOfInstance == Ipc!Free \notin Clients /\ Ipc!Foreign \notin Clients
BY ClientsAssumption DEF Free, Foreign, Ipc!Free, Ipc!Foreign

\* A connection that the server has not closed.
Alive == {"open", "left"}

\* A connection has one number.
Single == \A fd, g \in Ipc!Fds : holder[fd] \in Clients /\ holder[fd] = holder[g] => fd = g

\* A connection that is to be made or accepted has none.
Waiting ==
    \A c \in Clients :
        /\ c \in backlog => conn[c] \in Alive
        /\ c \in backlog \/ conn[c] = "away" => \A fd \in Ipc!Fds : holder[fd] # c

\* What is in clients_ refers to a connection that is alive.
Listed == \A fd \in clients : holder[fd] \in Clients /\ conn[holder[fd]] \in Alive

\* Between accept() and clients_mutex_ the new number is the loop's alone.
Arriving ==
    loop = "admit" =>
        /\ accepted \in Ipc!Fds \ clients
        /\ holder[accepted] \in Clients /\ conn[holder[accepted]] \in Alive

\* max_clients is kept.
WithinBound == Cardinality(clients) <= MaxClients

Table == Single /\ Waiting /\ Listed /\ Arriving
IpcInv == Ipc!TableTypeOK /\ Table /\ WithinBound

-----------------------------------------------------------------------------
\* The instance counts as FiniteSets does.
LEMMA SameCardinality == ASSUME NEW S PROVE Ipc!Cardinality(S) = Cardinality(S)
BY DEF Cardinality, Ipc!Cardinality

\* Fewer clients than before are within the bound.
LEMMA FewerListed ==
    ASSUME Ipc!TableTypeOK, WithinBound, clients' \subseteq clients
    PROVE  WithinBound'
<1>1. IsFiniteSet(clients)
  <2>1. IsFiniteSet(Ipc!Fds)
    BY FS_Interval, IpcAssumption DEF Ipc!Fds
  <2> QED
    BY <2>1, FS_Subset DEF Ipc!TableTypeOK
<1>2. Cardinality(clients') <= Cardinality(clients) /\ Cardinality(clients) \in Nat
        /\ Cardinality(clients') \in Nat
  BY <1>1, FS_Subset, FS_CardinalityType
<1> QED
  BY <1>2, IpcAssumption DEF WithinBound

\* There is room for one more if there are fewer than max_clients.
LEMMA OneMoreListed ==
    ASSUME Ipc!TableTypeOK, Ipc!HasRoom, NEW fd, clients' = clients \cup {fd}
    PROVE  WithinBound'
<1>1. IsFiniteSet(clients)
  <2>1. IsFiniteSet(Ipc!Fds)
    BY FS_Interval, IpcAssumption DEF Ipc!Fds
  <2> QED
    BY <2>1, FS_Subset DEF Ipc!TableTypeOK
<1>2. Cardinality(clients) \in Nat
        /\ Cardinality(clients') \in {Cardinality(clients), Cardinality(clients) + 1}
  BY <1>1, FS_AddElement, FS_CardinalityType
<1> QED
  BY <1>2, SameCardinality, IpcAssumption DEF WithinBound, Ipc!HasRoom

\* Closing numbers, and taking them out of clients_, leaves the others as they
\* were: no connection that is closed has another number.
LEMMA Closing ==
    ASSUME IpcInv, NEW fds \in SUBSET Ipc!Fds,
           holder' = Ipc!Closed(fds), conn' = Ipc!Cut(fds),
           backlog' = backlog, clients' \subseteq clients \ fds
    PROVE  /\ holder' \in [Ipc!Fds -> Clients \cup {Ipc!Free, Ipc!Foreign}]
           /\ conn' \in [Clients -> {"away", "open", "left", "cut"}]
           /\ Single' /\ Waiting' /\ Listed' /\ WithinBound'
           /\ \A fd \in Ipc!Fds \ fds : holder[fd] \in Clients =>
                  holder'[fd] = holder[fd] /\ conn'[holder[fd]] = conn[holder[fd]]
<1> USE DEF IpcInv, Table
<1>1. /\ holder' \in [Ipc!Fds -> Clients \cup {Ipc!Free, Ipc!Foreign}]
      /\ conn' \in [Clients -> {"away", "open", "left", "cut"}]
  BY DEF Ipc!Closed, Ipc!Cut, Ipc!TableTypeOK
<1>2. \A fd \in Ipc!Fds : holder'[fd] = IF fd \in fds THEN Ipc!Free ELSE holder[fd]
  BY DEF Ipc!Closed
<1>3. Single'
  BY <1>2, MarksOfInstance DEF Single
<1>4. \A c \in Clients : conn'[c] = IF conn[c] = "open" /\ \E fd \in fds : holder[fd] = c
                                    THEN "cut" ELSE conn[c]
  BY DEF Ipc!Cut
<1>5. Waiting'
  BY <1>2, <1>4, MarksOfInstance DEF Waiting, Alive
<1>6. \A fd \in Ipc!Fds \ fds : holder[fd] \in Clients =>
          holder'[fd] = holder[fd] /\ conn'[holder[fd]] = conn[holder[fd]]
  BY <1>2, <1>4 DEF Single
<1>7. Listed'
  <2> SUFFICES ASSUME NEW fd \in clients' PROVE holder'[fd] \in Clients /\ conn'[holder'[fd]] \in Alive
    BY DEF Listed
  <2>1. fd \in clients /\ fd \in Ipc!Fds \ fds
    BY DEF Ipc!TableTypeOK
  <2> QED
    BY <2>1, <1>6 DEF Listed
<1> QED
  BY <1>1, <1>3, <1>5, <1>6, <1>7, FewerListed

-----------------------------------------------------------------------------
\* Nothing is open at first.
LEMMA TableInit == Ipc!Init => IpcInv
<1> SUFFICES ASSUME Ipc!Init PROVE IpcInv
  OBVIOUS
<1>1. Ipc!TableTypeOK
  <2>1. inbox \in [Clients -> Seq(Ipc!Pieces)]
    BY DEF Ipc!Init
  <2> QED
    BY <2>1 DEF Ipc!Init, Ipc!TableTypeOK
<1>2. Table
  BY MarksOfInstance DEF Ipc!Init, Table, Single, Waiting, Listed, Arriving
<1>3. WithinBound
  BY FS_EmptySet, IpcAssumption DEF Ipc!Init, WithinBound
<1> QED
  BY <1>1, <1>2, <1>3 DEF IpcInv

\* The thread of Start() and Stop().
LEMMA OwnerInv == IpcInv /\ (Ipc!Start \/ Ipc!StopStep) => IpcInv'
<1> SUFFICES ASSUME IpcInv, Ipc!Start \/ Ipc!StopStep PROVE IpcInv'
  OBVIOUS
<1> USE DEF IpcInv, Table, Ipc!loopVars, Ipc!peerVars
<1>1. CASE Ipc!Start
  <2>1. Ipc!TableTypeOK'
    BY <1>1, IpcAssumption DEF Ipc!Start, Ipc!TableTypeOK
  <2> QED
    BY <2>1, <1>1 DEF Ipc!Start, Single, Waiting, Listed, Arriving, WithinBound
<1>2. CASE Ipc!StopBegin
  BY <1>2 DEF Ipc!StopBegin, Ipc!TableTypeOK, Single, Waiting, Listed, Arriving, WithinBound
<1>3. CASE Ipc!StopListening
  <2>1. Ipc!TableTypeOK'
    BY <1>3 DEF Ipc!StopListening, Ipc!TableTypeOK
  <2>2. \A c \in Clients : conn'[c] = IF c \in backlog /\ conn[c] = "open" THEN "cut" ELSE conn[c]
    BY <1>3 DEF Ipc!StopListening
  <2>3. Single' /\ WithinBound' /\ Waiting'
    BY <1>3, <2>2 DEF Ipc!StopListening, Single, WithinBound, Waiting
  <2>4. Listed'
    BY <1>3, <2>2 DEF Ipc!StopListening, Listed, Waiting, Ipc!TableTypeOK
  <2>5. Arriving'
    BY <1>3, <2>2 DEF Ipc!StopListening, Arriving, Waiting
  <2> QED
    BY <2>1, <2>3, <2>4, <2>5
<1>4. CASE Ipc!StopClear
  <2>1. /\ holder' \in [Ipc!Fds -> Clients \cup {Ipc!Free, Ipc!Foreign}]
        /\ conn' \in [Clients -> {"away", "open", "left", "cut"}]
        /\ Single' /\ Waiting' /\ Listed' /\ WithinBound'
        /\ \A fd \in Ipc!Fds \ clients : holder[fd] \in Clients =>
               holder'[fd] = holder[fd] /\ conn'[holder[fd]] = conn[holder[fd]]
    BY <1>4, Closing DEF Ipc!StopClear, Ipc!TableTypeOK
  <2>2. Ipc!TableTypeOK'
    BY <1>4, <2>1 DEF Ipc!StopClear, Ipc!TableTypeOK
  <2>3. Arriving'
    BY <1>4, <2>1 DEF Ipc!StopClear, Arriving
  <2> QED
    BY <2>1, <2>2, <2>3
<1>5. CASE Ipc!StopJoin
  BY <1>5 DEF Ipc!StopJoin, Ipc!TableTypeOK, Single, Waiting, Listed, Arriving, WithinBound
<1> QED
  BY <1>1, <1>2, <1>3, <1>4, <1>5 DEF Ipc!StopStep

\* accept() takes a number nobody has for a connection that has none.
LEMMA AcceptInv == IpcInv /\ Ipc!Accept => IpcInv'
<1> SUFFICES ASSUME IpcInv, Ipc!Accept PROVE IpcInv'
  OBVIOUS
<1> USE DEF IpcInv, Table
<1>1. CASE toAccept /\ listening /\ backlog # {} /\ \E fd \in Ipc!Fds : holder[fd] = Ipc!Free
  <2>1. PICK c \in backlog, fd \in Ipc!Fds :
            /\ holder[fd] = Ipc!Free /\ accepted' = fd /\ holder' = [holder EXCEPT ![fd] = c]
            /\ backlog' = backlog \ {c} /\ loop' = "admit"
    BY <1>1 DEF Ipc!Accept, Ipc!LowestFree
  <2>2. c \in Clients /\ conn' = conn /\ clients' = clients
    BY DEF Ipc!Accept, Ipc!TableTypeOK
  <2>3. \A g \in Ipc!Fds : holder'[g] = IF g = fd THEN c ELSE holder[g]
    BY <2>1 DEF Ipc!TableTypeOK
  <2>4. Ipc!TableTypeOK'
    BY <2>1, <2>2 DEF Ipc!Accept, Ipc!TableTypeOK
  <2>5. Single' /\ Waiting'
    BY <2>1, <2>2, <2>3, MarksOfInstance DEF Single, Waiting, Alive
  <2>6. fd \notin clients
    BY <2>1, MarksOfInstance DEF Listed
  <2>7. Listed' /\ Arriving'
    BY <2>1, <2>2, <2>3, <2>6 DEF Listed, Arriving, Waiting, Ipc!TableTypeOK
  <2> QED
    BY <2>2, <2>4, <2>5, <2>7 DEF WithinBound
<1>2. CASE ~(toAccept /\ listening /\ backlog # {} /\ \E fd \in Ipc!Fds : holder[fd] = Ipc!Free)
  BY <1>2 DEF Ipc!Accept, Ipc!TableTypeOK, Single, Waiting, Listed, Arriving, WithinBound
<1> QED
  BY <1>1, <1>2

\* The new number is listed or closed.
LEMMA AdmitInv == IpcInv /\ Ipc!Admit => IpcInv'
<1> SUFFICES ASSUME IpcInv, Ipc!Admit PROVE IpcInv'
  OBVIOUS
<1> USE DEF IpcInv, Table
<1>0. accepted \in Ipc!Fds \ clients /\ loop' = "read"
  BY DEF Ipc!Admit, Arriving
<1>1. CASE Ipc!HasRoom
  <2>1. Ipc!TableTypeOK'
    BY <1>0, <1>1 DEF Ipc!Admit, Ipc!Admitted, Ipc!TableTypeOK
  <2>2. WithinBound'
    BY <1>1, OneMoreListed DEF Ipc!Admit
  <2>3. Table'
    BY <1>0, <1>1 DEF Ipc!Admit, Single, Waiting, Listed, Arriving
  <2> QED
    BY <2>1, <2>2, <2>3
<1>2. CASE ~Ipc!HasRoom
  <2>1. holder' = Ipc!Closed({accepted}) /\ conn' = Ipc!Cut({accepted}) /\ clients' = clients
    BY <1>2 DEF Ipc!Admit
  <2>2. /\ holder' \in [Ipc!Fds -> Clients \cup {Ipc!Free, Ipc!Foreign}]
        /\ conn' \in [Clients -> {"away", "open", "left", "cut"}]
        /\ Single' /\ Waiting' /\ Listed' /\ WithinBound'
    BY <1>0, <2>1, Closing DEF Ipc!Admit
  <2>3. Ipc!TableTypeOK'
    BY <1>2, <2>2 DEF Ipc!Admit, Ipc!TableTypeOK
  <2> QED
    BY <1>0, <2>2, <2>3 DEF Arriving
<1> QED
  BY <1>1, <1>2

\* Reading changes buffers alone.
LEMMA ReadInv == IpcInv /\ Ipc!ReadClients => IpcInv'
<1> SUFFICES ASSUME IpcInv, Ipc!ReadClients PROVE IpcInv'
  OBVIOUS
<1> USE DEF IpcInv, Table
<1> DEFINE asked == clients \cap ready
           heard == {fd \in asked : holder[fd] \in Clients /\ inbox[holder[fd]] # <<>>}
<1>1. /\ buffers' = [fd \in Ipc!Fds |-> IF fd \in heard THEN Ipc!Buffered(fd) ELSE buffers[fd]]
      /\ inbox' = [c \in Clients |-> IF \E fd \in heard : holder[fd] = c THEN <<>> ELSE inbox[c]]
      /\ toRemove' = asked \ heard
      /\ killed' \in {FALSE, Ipc!AnswersNobody(heard)}
  BY DEF Ipc!ReadClients
<1>2. \A fd \in Ipc!Fds : holder[fd] \in Clients => Ipc!Buffered(fd) \in SUBSET Clients
  BY DEF Ipc!Buffered, Ipc!TableTypeOK
<1>3. buffers' \in [Ipc!Fds -> SUBSET Clients]
  BY <1>1, <1>2 DEF Ipc!TableTypeOK
<1>4. inbox' \in [Clients -> Seq(Ipc!Pieces)]
  BY <1>1 DEF Ipc!TableTypeOK
<1>5. killed' \in BOOLEAN
  BY <1>1 DEF Ipc!AnswersNobody
<1>6. toRemove' \in SUBSET Ipc!Fds
  BY <1>1 DEF Ipc!TableTypeOK
<1>7. Ipc!TableTypeOK'
  BY <1>3, <1>4, <1>5, <1>6 DEF Ipc!ReadClients, Ipc!TableTypeOK
<1> QED
  BY <1>7 DEF Ipc!ReadClients, Single, Waiting, Listed, Arriving, WithinBound

\* RemoveClient() closes one number, listed or not.
LEMMA RemoveInv == IpcInv /\ Ipc!RemoveClient => IpcInv'
<1> SUFFICES ASSUME IpcInv, Ipc!RemoveClient PROVE IpcInv'
  OBVIOUS
<1> USE DEF IpcInv, Table
<1>1. PICK fd \in toRemove :
          /\ buffers' = Ipc!Erased(fd) /\ orphans' = [orphans EXCEPT ![fd] = {}]
          /\ clients' = clients \ {fd}
          /\ holder' = Ipc!Closed({fd}) /\ conn' = Ipc!Cut({fd})
          /\ toRemove' = toRemove \ {fd}
  BY DEF Ipc!RemoveClient
<1>2. fd \in Ipc!Fds
  BY <1>1 DEF Ipc!TableTypeOK
<1>3. /\ holder' \in [Ipc!Fds -> Clients \cup {Ipc!Free, Ipc!Foreign}]
      /\ conn' \in [Clients -> {"away", "open", "left", "cut"}]
      /\ Single' /\ Waiting' /\ Listed' /\ WithinBound'
  BY <1>1, <1>2, Closing DEF Ipc!RemoveClient
<1>4. Ipc!TableTypeOK'
  BY <1>1, <1>2, <1>3 DEF Ipc!RemoveClient, Ipc!Erased, Ipc!TableTypeOK
<1>5. Arriving'
  BY DEF Ipc!RemoveClient, Arriving
<1> QED
  BY <1>3, <1>4, <1>5

\* Every step of ServerLoop().
LEMMA LoopInv == IpcInv /\ Ipc!LoopStep => IpcInv'
<1> SUFFICES ASSUME IpcInv, Ipc!LoopStep PROVE IpcInv'
  OBVIOUS
<1> USE DEF IpcInv, Table, Ipc!peerVars
<1>1. CASE Ipc!Check
  BY <1>1 DEF Ipc!Check, Ipc!TableTypeOK, Single, Waiting, Listed, Arriving, WithinBound
<1>2. CASE Ipc!Watch
  BY <1>2 DEF Ipc!Watch, Ipc!TableTypeOK, Single, Waiting, Listed, Arriving, WithinBound
<1>3. CASE Ipc!NextRound
  BY <1>3 DEF Ipc!NextRound, Ipc!TableTypeOK, Single, Waiting, Listed, Arriving, WithinBound
<1> QED
  BY <1>1, <1>2, <1>3, AcceptInv, AdmitInv, ReadInv, RemoveInv DEF Ipc!LoopStep

\* A broadcast drops clients that do not read, whatever the loop is doing; a
\* number the loop has just accepted is not among them.
LEMMA BroadcastInv == IpcInv /\ Ipc!Broadcast => IpcInv'
<1> SUFFICES ASSUME IpcInv, Ipc!Broadcast PROVE IpcInv'
  OBVIOUS
<1> USE DEF IpcInv, Table, Ipc!loopVars
<1> DEFINE deaf == {fd \in clients : holder[fd] \in unread}
<1>1. /\ clients' = clients \ deaf /\ holder' = Ipc!Closed(deaf) /\ conn' = Ipc!Cut(deaf)
      /\ orphans' = [fd \in Ipc!Fds |-> IF fd \in deaf THEN buffers[fd] ELSE orphans[fd]]
      /\ killed' = \E fd \in clients : holder[fd] \in Clients /\ conn[holder[fd]] = "left"
  BY DEF Ipc!Broadcast, Ipc!Kept
<1>2. deaf \in SUBSET Ipc!Fds
  BY DEF Ipc!TableTypeOK
<1> HIDE DEF deaf
<1>3. /\ holder' \in [Ipc!Fds -> Clients \cup {Ipc!Free, Ipc!Foreign}]
      /\ conn' \in [Clients -> {"away", "open", "left", "cut"}]
      /\ Single' /\ Waiting' /\ Listed' /\ WithinBound'
      /\ \A fd \in Ipc!Fds \ deaf : holder[fd] \in Clients =>
             holder'[fd] = holder[fd] /\ conn'[holder[fd]] = conn[holder[fd]]
  BY <1>1, <1>2, Closing DEF Ipc!Broadcast
<1>4. PICK filled \in SUBSET {c \in Slow : \E fd \in clients : holder[fd] = c} :
          unread' = unread \cup filled
  BY DEF Ipc!Broadcast
<1>5. unread' \in SUBSET Clients
  BY <1>4, IpcAssumption DEF Ipc!TableTypeOK
<1>6. killed' \in BOOLEAN
  BY <1>1
<1>7. orphans' \in [Ipc!Fds -> SUBSET Clients]
  BY <1>1 DEF Ipc!TableTypeOK
<1>8. Ipc!TableTypeOK'
  BY <1>1, <1>3, <1>5, <1>6, <1>7, IpcAssumption DEF Ipc!Broadcast, Ipc!TableTypeOK
<1>9. Arriving'
  BY <1>1, <1>3 DEF Ipc!Broadcast, Arriving, deaf
<1> QED
  BY <1>3, <1>8, <1>9

\* The rest of the process takes free numbers; clients connect, send and leave.
LEMMA OtherInv == IpcInv /\ (Ipc!OpenElsewhere \/ Ipc!ClientStep) => IpcInv'
<1> SUFFICES ASSUME IpcInv, Ipc!OpenElsewhere \/ Ipc!ClientStep PROVE IpcInv'
  OBVIOUS
<1> USE DEF IpcInv, Table, Ipc!loopVars
<1>1. CASE Ipc!OpenElsewhere
  <2>1. PICK fd \in Ipc!Fds : holder[fd] = Ipc!Free /\ holder' = [holder EXCEPT ![fd] = Ipc!Foreign]
    BY <1>1 DEF Ipc!OpenElsewhere, Ipc!LowestFree
  <2>2. Ipc!TableTypeOK'
    BY <1>1, <2>1 DEF Ipc!OpenElsewhere, Ipc!peerVars, Ipc!TableTypeOK
  <2>3. \A g \in Ipc!Fds : holder'[g] = IF g = fd THEN Ipc!Foreign ELSE holder[g]
    BY <2>1 DEF Ipc!TableTypeOK
  <2>4. Table'
    BY <1>1, <2>1, <2>3, MarksOfInstance
       DEF Ipc!OpenElsewhere, Ipc!peerVars, Single, Waiting, Listed, Arriving, Ipc!TableTypeOK
  <2> QED
    BY <1>1, <2>2, <2>4 DEF Ipc!OpenElsewhere, WithinBound
<1>2. CASE Ipc!ClientStep
  <2>1. PICK c \in Clients : Ipc!Connect(c) \/ Ipc!Send(c) \/ Ipc!Leave(c) \/ Ipc!ReadEvents(c)
    BY <1>2 DEF Ipc!ClientStep
  <2>2. /\ holder' = holder /\ clients' = clients /\ loop' = loop /\ accepted' = accepted
        /\ UNCHANGED <<running, listening, ready, toAccept, toRemove, buffers, owner, broadcasts,
                       starts, killed, orphans>>
    BY <1>2 DEF Ipc!ClientStep
  <2>3. CASE Ipc!Connect(c)
    <3>1. Ipc!TableTypeOK'
      BY <2>2, <2>3 DEF Ipc!Connect, Ipc!TableTypeOK
    <3>2. \A d \in Clients : conn'[d] = IF d = c THEN "open" ELSE conn[d]
      BY <2>3 DEF Ipc!Connect, Ipc!TableTypeOK
    <3>3. Waiting'
      BY <2>2, <2>3, <3>2 DEF Ipc!Connect, Waiting, Alive
    <3>4. Listed' /\ Arriving'
      BY <2>2, <3>2 DEF Listed, Arriving, Alive
    <3> QED
      BY <2>2, <3>1, <3>3, <3>4 DEF Single, WithinBound
  <2>4. CASE Ipc!Leave(c)
    <3>1. Ipc!TableTypeOK'
      BY <2>2, <2>4 DEF Ipc!Leave, Ipc!TableTypeOK
    <3>2. \A d \in Clients : conn'[d] = IF d = c THEN "left" ELSE conn[d]
      BY <2>4 DEF Ipc!Leave, Ipc!TableTypeOK
    <3> QED
      BY <2>2, <2>4, <3>1, <3>2 DEF Ipc!Leave, Single, Waiting, Listed, Arriving, Alive, WithinBound
  <2>5. CASE Ipc!Send(c)
    <3>1. inbox' \in [Clients -> Seq(Ipc!Pieces)]
      BY <2>5 DEF Ipc!Send, Ipc!TableTypeOK
    <3>2. Ipc!TableTypeOK'
      BY <2>2, <2>5, <3>1 DEF Ipc!Send, Ipc!TableTypeOK
    <3> QED
      BY <2>2, <2>5, <3>2 DEF Ipc!Send, Single, Waiting, Listed, Arriving, WithinBound
  <2>6. CASE Ipc!ReadEvents(c)
    BY <2>2, <2>6 DEF Ipc!ReadEvents, Ipc!TableTypeOK, Single, Waiting, Listed, Arriving, WithinBound
  <2> QED
    BY <2>1, <2>3, <2>4, <2>5, <2>6
<1> QED
  BY <1>1, <1>2

\* The inductive invariant of the table of descriptors.
THEOREM TableInvariance == Ipc!Spec => []IpcInv
<1>1. IpcInv /\ [Ipc!Next]_Ipc!vars => IpcInv'
  <2> SUFFICES ASSUME IpcInv, [Ipc!Next]_Ipc!vars PROVE IpcInv'
    OBVIOUS
  <2>1. CASE UNCHANGED Ipc!vars
    BY <2>1 DEF Ipc!vars, Ipc!loopVars, Ipc!peerVars, IpcInv, Ipc!TableTypeOK, Table, Single, Waiting,
                Listed, Arriving, WithinBound
  <2> QED
    BY <2>1, OwnerInv, LoopInv, BroadcastInv, OtherInv DEF Ipc!Next
<1> QED
  BY TableInit, <1>1, PTL DEF Ipc!Spec

\* Every descriptor in clients_ is open and refers to one client that was not
\* cut off, at most max_clients of them, whichever of Broadcast(), Stop() and
\* the loop closes and removes.
THEOREM ServedStayOpen == Ipc!Spec => []ServedAreOpen
<1>1. IpcInv => TableTypeOK
  BY DEF IpcInv, Ipc!TableTypeOK, TableTypeOK, Ipc!Fds, Fds, Ipc!Pieces, Pieces, Ipc!Free, Free,
         Ipc!Foreign, Foreign
<1>2. IpcInv /\ TableTypeOK => ServedAreOpen
  BY DEF IpcInv, Table, Single, Listed, WithinBound, Alive, TableTypeOK, Ipc!Fds, Fds, ServedAreOpen
<1> QED
  BY <1>1, <1>2, TableInvariance, PTL

-----------------------------------------------------------------------------
(***************************************************************************)
(* Line buffers.  A buffer may outlive its client: after Broadcast() has   *)
(* dropped it, and from the moment Stop() clears the list until the next   *)
(* Start() makes new buffers.  In the second case no number is given to a  *)
(* client any more, but for one that was accepted before.                  *)
(***************************************************************************)
Deafened == owner \in {"clear", "join", "down"} => ~listening

Leftover ==
    \A fd \in Ipc!Fds \ clients :
        \/ buffers[fd] \subseteq orphans[fd]
        \/ owner \in {"join", "down"} /\ ~(loop = "admit" /\ fd = accepted)

LinesInv == Deafened /\ Leftover /\ Ipc!OnlyDroppedLeaveBytes

\* Stop() leaves bytes behind that Start() drops with the buffers.
LEMMA OwnerLines == IpcInv /\ LinesInv /\ (Ipc!Start \/ Ipc!StopStep) => LinesInv'
<1> SUFFICES ASSUME IpcInv, LinesInv, Ipc!Start \/ Ipc!StopStep PROVE LinesInv'
  OBVIOUS
<1> USE DEF LinesInv, Deafened, Leftover, Ipc!OnlyDroppedLeaveBytes, Ipc!loopVars, Ipc!peerVars
<1>1. CASE Ipc!Start
  <2>1. \A fd \in Ipc!Fds : buffers'[fd] = {}
    BY <1>1 DEF Ipc!Start
  <2> QED
    BY <1>1, <2>1 DEF Ipc!Start, IpcInv, Ipc!TableTypeOK
<1>2. CASE Ipc!StopBegin
  BY <1>2 DEF Ipc!StopBegin
<1>3. CASE Ipc!StopListening
  BY <1>3 DEF Ipc!StopListening
<1>4. CASE Ipc!StopClear
  BY <1>4 DEF Ipc!StopClear, IpcInv, Table, Arriving
<1>5. CASE Ipc!StopJoin
  BY <1>5 DEF Ipc!StopJoin
<1> QED
  BY <1>1, <1>2, <1>3, <1>4, <1>5 DEF Ipc!StopStep

\* A buffer is the client's own while it is listed, and erased with it.
LEMMA LoopLines == IpcInv /\ LinesInv /\ Ipc!LoopStep => LinesInv'
<1> SUFFICES ASSUME IpcInv, LinesInv, Ipc!LoopStep PROVE LinesInv'
  OBVIOUS
<1> USE DEF LinesInv, Deafened, Leftover, Ipc!OnlyDroppedLeaveBytes, Ipc!peerVars
<1>0. clients \subseteq Ipc!Fds
  BY DEF IpcInv, Ipc!TableTypeOK
<1>1. CASE Ipc!Check
  BY <1>1 DEF Ipc!Check
<1>2. CASE Ipc!Watch
  BY <1>2 DEF Ipc!Watch
<1>3. CASE Ipc!Accept
  <2>1. CASE toAccept /\ listening /\ backlog # {} /\ \E fd \in Ipc!Fds : holder[fd] = Ipc!Free
    <3>1. PICK c \in backlog, fd \in Ipc!Fds :
              /\ holder[fd] = Ipc!Free /\ accepted' = fd /\ holder' = [holder EXCEPT ![fd] = c]
      BY <1>3, <2>1 DEF Ipc!Accept, Ipc!LowestFree
    <3>2. fd \notin clients
      BY <3>1, MarksOfInstance DEF IpcInv, Table, Listed
    <3>3. \A g \in clients : holder'[g] = holder[g]
      BY <3>1, <3>2
    <3>4. owner \notin {"join", "down"}
      BY <2>1
    <3> QED
      BY <1>3, <3>3, <3>4 DEF Ipc!Accept
  <2>2. CASE ~(toAccept /\ listening /\ backlog # {} /\ \E fd \in Ipc!Fds : holder[fd] = Ipc!Free)
    BY <1>3, <2>2 DEF Ipc!Accept
  <2> QED
    BY <2>1, <2>2
<1>4. CASE Ipc!Admit
  <2>1. accepted \in Ipc!Fds \ clients /\ buffers[accepted] \subseteq orphans[accepted]
    BY <1>4 DEF Ipc!Admit, IpcInv, Table, Arriving
  <2>2. CASE Ipc!HasRoom
    BY <1>4, <2>1, <2>2 DEF Ipc!Admit, Ipc!Admitted
  <2>3. CASE ~Ipc!HasRoom
    <3>1. \A g \in clients : holder'[g] = holder[g]
      BY <1>0, <1>4, <2>1, <2>3 DEF Ipc!Admit, Ipc!Closed
    <3> QED
      BY <1>4, <2>1, <2>3, <3>1 DEF Ipc!Admit
  <2> QED
    BY <2>2, <2>3
<1>5. CASE Ipc!ReadClients
  <2> DEFINE asked == clients \cap ready
             heard == {fd \in asked : holder[fd] \in Clients /\ inbox[holder[fd]] # <<>>}
  <2>1. /\ buffers' = [fd \in Ipc!Fds |-> IF fd \in heard THEN Ipc!Buffered(fd) ELSE buffers[fd]]
        /\ UNCHANGED <<clients, holder, orphans, owner, listening, accepted>> /\ loop' = "remove"
    BY <1>5 DEF Ipc!ReadClients
  <2>2. \A fd \in Ipc!Fds : Ipc!Buffered(fd) \subseteq buffers[fd] \cup {holder[fd]}
    BY DEF Ipc!Buffered
  <2>3. \A fd \in Ipc!Fds \ clients : buffers'[fd] = buffers[fd]
    BY <2>1
  <2>4. \A fd \in clients : buffers'[fd] \subseteq buffers[fd] \cup {holder[fd]}
    BY <1>0, <2>1, <2>2
  <2>5. Leftover'
    BY <2>1, <2>3
  <2> QED
    BY <2>1, <2>4, <2>5
<1>6. CASE Ipc!RemoveClient
  <2>1. PICK fd \in toRemove :
            /\ buffers' = [buffers EXCEPT ![fd] = {}] /\ orphans' = [orphans EXCEPT ![fd] = {}]
            /\ clients' = clients \ {fd} /\ holder' = Ipc!Closed({fd})
    BY <1>6 DEF Ipc!RemoveClient, Ipc!Erased
  <2>2. fd \in Ipc!Fds /\ DOMAIN buffers = Ipc!Fds /\ DOMAIN orphans = Ipc!Fds
    BY <2>1 DEF IpcInv, Ipc!TableTypeOK
  <2>3. \A g \in Ipc!Fds : /\ buffers'[g] = (IF g = fd THEN {} ELSE buffers[g])
                           /\ orphans'[g] = (IF g = fd THEN {} ELSE orphans[g])
                           /\ g # fd => holder'[g] = holder[g]
    BY <2>1, <2>2 DEF Ipc!Closed
  <2>4. loop = "remove" /\ UNCHANGED <<loop, accepted, owner, listening>>
    BY <1>6 DEF Ipc!RemoveClient
  <2>5. Ipc!OnlyDroppedLeaveBytes'
    BY <1>0, <2>1, <2>3
  <2>6. Leftover'
    <3>1. \A g \in Ipc!Fds \ clients' : g = fd \/ g \in Ipc!Fds \ clients
      BY <2>1
    <3> QED
      BY <2>3, <2>4, <3>1
  <2> QED
    BY <2>4, <2>5, <2>6
<1>7. CASE Ipc!NextRound
  BY <1>7 DEF Ipc!NextRound
<1> QED
  BY <1>1, <1>2, <1>3, <1>4, <1>5, <1>6, <1>7 DEF Ipc!LoopStep

\* A broadcast may leave bytes, which become orphans.
LEMMA BroadcastLines == IpcInv /\ LinesInv /\ Ipc!Broadcast => LinesInv'
<1> SUFFICES ASSUME IpcInv, LinesInv, Ipc!Broadcast PROVE LinesInv'
  OBVIOUS
<1> USE DEF LinesInv, Deafened, Leftover, Ipc!OnlyDroppedLeaveBytes, Ipc!loopVars
<1> DEFINE deaf == {fd \in clients : holder[fd] \in unread}
<1>1. /\ clients' = clients \ deaf /\ holder' = Ipc!Closed(deaf)
      /\ orphans' = [fd \in Ipc!Fds |-> IF fd \in deaf THEN buffers[fd] ELSE orphans[fd]]
      /\ UNCHANGED <<buffers, loop, accepted, owner, listening>>
  BY DEF Ipc!Broadcast, Ipc!Kept
<1>2. clients \subseteq Ipc!Fds /\ deaf \subseteq clients
  BY DEF IpcInv, Ipc!TableTypeOK
<1> HIDE DEF deaf
<1>3. \A fd \in Ipc!Fds : /\ orphans'[fd] = (IF fd \in deaf THEN buffers[fd] ELSE orphans[fd])
                          /\ fd \notin deaf => holder'[fd] = holder[fd]
  BY <1>1 DEF Ipc!Closed
<1> QED
  BY <1>1, <1>2, <1>3

\* Nobody else touches a buffer.
LEMMA OtherLines == IpcInv /\ LinesInv /\ (Ipc!OpenElsewhere \/ Ipc!ClientStep) => LinesInv'
<1> SUFFICES ASSUME IpcInv, LinesInv, Ipc!OpenElsewhere \/ Ipc!ClientStep PROVE LinesInv'
  OBVIOUS
<1> USE DEF LinesInv, Deafened, Leftover, Ipc!OnlyDroppedLeaveBytes, Ipc!loopVars
<1>1. CASE Ipc!OpenElsewhere
  <2>1. PICK fd \in Ipc!Fds : holder[fd] = Ipc!Free /\ holder' = [holder EXCEPT ![fd] = Ipc!Foreign]
    BY <1>1 DEF Ipc!OpenElsewhere, Ipc!LowestFree
  <2>2. \A g \in clients : holder'[g] = holder[g]
    BY <2>1, MarksOfInstance DEF IpcInv, Table, Listed
  <2> QED
    BY <1>1, <2>2 DEF Ipc!OpenElsewhere
<1>2. CASE Ipc!ClientStep
  BY <1>2 DEF Ipc!ClientStep
<1> QED
  BY <1>1, <1>2

\* The inductive invariant of the line buffers.
LEMMA LinesInvariance == Ipc!Spec => []LinesInv
<1>1. Ipc!Init => LinesInv
  BY DEF Ipc!Init, LinesInv, Deafened, Leftover, Ipc!OnlyDroppedLeaveBytes
<1>2. IpcInv /\ LinesInv /\ [Ipc!Next]_Ipc!vars => LinesInv'
  <2> SUFFICES ASSUME IpcInv, LinesInv, [Ipc!Next]_Ipc!vars PROVE LinesInv'
    OBVIOUS
  <2>1. CASE UNCHANGED Ipc!vars
    BY <2>1 DEF Ipc!vars, Ipc!loopVars, LinesInv, Deafened, Leftover, Ipc!OnlyDroppedLeaveBytes
  <2> QED
    BY <2>1, OwnerLines, LoopLines, BroadcastLines, OtherLines DEF Ipc!Next
<1> QED
  BY <1>1, <1>2, TableInvariance, PTL DEF Ipc!Spec

\* The bytes in front of a client's line are its own or those of a client that
\* Broadcast() dropped, however Stop(), Start() and the loop interleave.
THEOREM OnlyDroppedLeave == Ipc!Spec => []OnlyDroppedLeaveBytes
<1>1. LinesInv => OnlyDroppedLeaveBytes
  BY DEF LinesInv, Ipc!OnlyDroppedLeaveBytes, OnlyDroppedLeaveBytes
<1> QED
  BY <1>1, LinesInvariance, PTL
=============================================================================
