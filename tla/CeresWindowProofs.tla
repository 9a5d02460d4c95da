--------------------------- MODULE CeresWindowProofs ---------------------------
(***************************************************************************)
(* Theorems about CeresWindow, for every set of times and every setting.   *)
(***************************************************************************)
EXTENDS CeresWindow, SequenceTheorems, TLAPS

-----------------------------------------------------------------------------
(* Facts about sequences.                                                  *)

(* What a sequence holds after an element is appended. *)
LEMMA AppendElements ==
    ASSUME NEW S, NEW s \in Seq(S), NEW x \in S
    PROVE  /\ Append(s, x) \in Seq(S)
           /\ Len(Append(s, x)) = Len(s) + 1
           /\ \A i \in 1 .. Len(s) : Append(s, x)[i] = s[i]
           /\ Append(s, x)[Len(s) + 1] = x
BY AppendProperties

(* What a sequence holds without its k oldest elements. *)
LEMMA WithoutOldestElements ==
    ASSUME NEW S, NEW s \in Seq(S), NEW k \in Nat
    PROVE  /\ WithoutOldest(s, k) \in Seq(S)
           /\ Len(WithoutOldest(s, k)) = IF k <= Len(s) THEN Len(s) - k ELSE 0
           /\ \A i \in 1 .. Len(WithoutOldest(s, k)) : WithoutOldest(s, k)[i] = s[k + i]
<1>1. \A i \in (k + 1) .. Len(s) : s[i] \in S
  BY ElementOfSeq, LenProperties
<1>2. /\ SubSeq(s, k + 1, Len(s)) \in Seq(S)
      /\ Len(SubSeq(s, k + 1, Len(s))) = IF k + 1 <= Len(s) THEN Len(s) - (k + 1) + 1 ELSE 0
      /\ \A i \in 1 .. Len(SubSeq(s, k + 1, Len(s))) :
             SubSeq(s, k + 1, Len(s))[i] = s[(k + 1) + i - 1]
  BY <1>1, SubSeqProperties, LenProperties
<1>3. Len(WithoutOldest(s, k)) = IF k <= Len(s) THEN Len(s) - k ELSE 0
  BY <1>2, LenProperties DEF WithoutOldest
<1>4. ASSUME NEW i \in 1 .. Len(WithoutOldest(s, k))
      PROVE  WithoutOldest(s, k)[i] = s[k + i]
  BY <1>2, LenProperties DEF WithoutOldest
<1> QED BY <1>2, <1>3, <1>4 DEF WithoutOldest

-----------------------------------------------------------------------------
(* The window after a keyframe.                                            *)

NewWindow(t) == WithoutOldest(Pushed(window, t), Excess(Pushed(window, t)))
NewFactors(t) == TrimmedFactors(Pushed(window, t), Append(factors, Factor(t)))
Popped(t) == Excess(Pushed(window, t))

(* Pushing a keyframe and a factor and trimming both deques shifts both by *)
(* the same number of elements and leaves the new ones at the end.         *)
LEMMA KeyframeShifts ==
    ASSUME TypeOK, Chained, window # <<>>, NEW t \in Times, Factor(t) \in FactorType
    PROVE  /\ Popped(t) \in 0 .. Len(window) /\ Len(window) \in Nat \ {0}
           /\ NewWindow(t) \in Seq(Times)
           /\ Len(NewWindow(t)) = Len(window) + 1 - Popped(t)
           /\ Len(NewWindow(t)) <= MaxKeyframes + 1
           /\ \A i \in 1 .. Len(NewWindow(t)) - 1 : NewWindow(t)[i] = window[Popped(t) + i]
           /\ Newest(NewWindow(t)) = t
           /\ NewFactors(t) \in Seq(FactorType)
           /\ Len(NewFactors(t)) = Len(window) - Popped(t)
           /\ \A i \in 1 .. Len(NewFactors(t)) - 1 : NewFactors(t)[i] = factors[Popped(t) + i]
           /\ NewFactors(t) # <<>> => NewFactors(t)[Len(NewFactors(t))] = Factor(t)
<1> DEFINE P == Append(window, t)
           L == Append(factors, Factor(t))
           k == Excess(P)
<1>1. /\ window \in Seq(Times) /\ factors \in Seq(FactorType)
      /\ Len(window) \in Nat \ {0} /\ Len(factors) = Len(window) - 1
      /\ Len(window) <= MaxKeyframes + 1 /\ MaxKeyframes \in Nat
  <2>1. window \in Seq(Times) /\ Len(window) \in Nat \ {0}
    BY EmptySeq, LenProperties DEF TypeOK
  <2> QED BY <2>1, WindowAssumption DEF TypeOK, Chained
<1>2. /\ P \in Seq(Times) /\ Len(P) = Len(window) + 1
      /\ \A i \in 1 .. Len(window) : P[i] = window[i]
      /\ P[Len(window) + 1] = t
  BY <1>1, AppendElements
<1>3. /\ L \in Seq(FactorType) /\ Len(L) = Len(window)
      /\ \A i \in 1 .. Len(window) - 1 : L[i] = factors[i]
      /\ L[Len(window)] = Factor(t)
  <2>1. /\ L \in Seq(FactorType) /\ Len(L) = Len(factors) + 1
        /\ \A i \in 1 .. Len(factors) : L[i] = factors[i]
        /\ L[Len(factors) + 1] = Factor(t)
    BY <1>1, AppendElements
  <2> QED BY <2>1, <1>1
<1>4. k \in 0 .. Len(window) /\ Len(window) + 1 - k <= MaxKeyframes + 1
  <2> HIDE DEF P
  <2>1. Len(P) = Len(window) + 1 /\ k = IF Len(P) > MaxKeyframes + 1 THEN Len(P) - (MaxKeyframes + 1) ELSE 0
    BY <1>2 DEF Excess
  <2>2. Len(window) \in Nat /\ Len(window) # 0 /\ MaxKeyframes \in Nat /\ Len(window) <= MaxKeyframes + 1
    BY <1>1
  <2> HIDE DEF k
  <2>3. CASE Len(P) > MaxKeyframes + 1
    <3>1. k = Len(window) - MaxKeyframes
      BY <2>1, <2>2, <2>3
    <3> QED BY <2>1, <2>2, <2>3, <3>1
  <2>4. CASE ~(Len(P) > MaxKeyframes + 1)
    BY <2>1, <2>2, <2>4
  <2> QED BY <2>3, <2>4
<1>5. /\ WithoutOldest(P, k) \in Seq(Times)
      /\ Len(WithoutOldest(P, k)) = Len(window) + 1 - k
      /\ \A i \in 1 .. Len(WithoutOldest(P, k)) : WithoutOldest(P, k)[i] = P[k + i]
  <2>1. k \in Nat /\ k <= Len(P)
    BY <1>1, <1>2, <1>4
  <2> HIDE DEF k, P
  <2> QED BY <2>1, <1>2, WithoutOldestElements
<1>6. /\ WithoutOldest(L, k) \in Seq(FactorType)
      /\ Len(WithoutOldest(L, k)) = Len(window) - k
      /\ \A i \in 1 .. Len(WithoutOldest(L, k)) : WithoutOldest(L, k)[i] = L[k + i]
  <2>1. k \in Nat /\ k <= Len(L)
    BY <1>1, <1>3, <1>4
  <2> HIDE DEF k, L
  <2> QED BY <2>1, <1>3, WithoutOldestElements
<1>7. /\ NewWindow(t) = WithoutOldest(P, k) /\ NewFactors(t) = WithoutOldest(L, k)
      /\ Popped(t) = k
  BY DEF NewWindow, NewFactors, Popped, Pushed, TrimmedFactors
<1> HIDE DEF k, P, L
<1>8. Newest(WithoutOldest(P, k)) = t
  BY <1>1, <1>2, <1>4, <1>5 DEF Newest
<1>9. \A i \in 1 .. Len(WithoutOldest(P, k)) - 1 : WithoutOldest(P, k)[i] = window[k + i]
  BY <1>1, <1>2, <1>4, <1>5
<1>10. \A i \in 1 .. Len(WithoutOldest(L, k)) - 1 : WithoutOldest(L, k)[i] = factors[k + i]
  <2>1. ASSUME NEW i \in 1 .. Len(WithoutOldest(L, k)) - 1
        PROVE  WithoutOldest(L, k)[i] = factors[k + i]
    <3>1. i \in 1 .. Len(WithoutOldest(L, k)) /\ k + i \in 1 .. Len(window) - 1
      BY <1>1, <1>4, <1>6
    <3> QED BY <3>1, <1>3, <1>6
  <2> QED BY <2>1
<1>11. WithoutOldest(L, k) # <<>> => WithoutOldest(L, k)[Len(WithoutOldest(L, k))] = Factor(t)
  <2> SUFFICES ASSUME WithoutOldest(L, k) # <<>>
               PROVE  WithoutOldest(L, k)[Len(WithoutOldest(L, k))] = Factor(t)
    OBVIOUS
  <2>1. Len(WithoutOldest(L, k)) # 0
    BY <1>6, EmptySeq
  <2> QED BY <2>1, <1>1, <1>3, <1>4, <1>6
<1> QED BY <1>1, <1>4, <1>5, <1>6, <1>7, <1>8, <1>9, <1>10, <1>11

-----------------------------------------------------------------------------
(* The inductive invariant, whatever the order of the measurements.        *)

(* Before the first fix there is neither a keyframe nor a factor. *)
Blank == ~initialised => window = <<>> /\ factors = <<>>

IInv == TypeOK /\ Chained /\ Solved /\ StateIsNewestKeyframe /\ Blank

MotionType == [prev : Times \cup {None}, ticks : Nat, samples : Nat]

(* Integrating a sample only adds to what has been integrated. *)
LEMMA IntegrationType ==
    ASSUME NEW mo \in MotionType, NEW t \in Times
    PROVE  Integrated(mo, t) \in MotionType
BY WindowAssumption DEF MotionType, Integrated, Integrable, None

(* The history of the order of the measurements. *)
LEMMA ArrivalType ==
    ASSUME TypeOK, NEW t \in Times, Arrives(t)
    PROVE  /\ clock' \in Nat /\ ordered' \in BOOLEAN
           /\ ordered' => ordered /\ clock <= t /\ clock' = t
           /\ replay = <<>>
BY WindowAssumption DEF TypeOK, Arrives, Replaying

(* The initial state. *)
LEMMA InitIInv == Init => IInv
<1> SUFFICES ASSUME Init PROVE IInv
  OBVIOUS
<1>1. TypeOK
  <2>1. <<>> \in Seq(Times) /\ <<>> \in Seq(FactorType) /\ Len(<<>>) = 0
    BY EmptySeq
  <2>2. motion \in MotionType
    BY DEF Init, NoMotion, MotionType
  <2>3. 0 <= MaxKeyframes + 1 /\ 0 <= MaxImuBuffer
    BY WindowAssumption
  <2> QED BY <2>1, <2>2, <2>3 DEF Init, TypeOK, MotionType
<1>2. Chained /\ Solved
  BY EmptySeq DEF Init, Chained, Solved, NoProblem
<1>3. StateIsNewestKeyframe /\ Blank
  BY DEF Init, StateIsNewestKeyframe, Blank
<1> QED BY <1>1, <1>2, <1>3 DEF IInv

(* An inertial sample. *)
LEMMA AddImuIInv ==
    ASSUME IInv, NEW t \in Times, AddImu(t)
    PROVE  IInv'
<1>1. TypeOK /\ Arrives(t)
  BY DEF IInv, AddImu
<1>2. motion' \in MotionType
  BY <1>1, IntegrationType DEF AddImu, TypeOK, MotionType
<1>3. imuBuffer' \in Seq(Times) /\ Len(imuBuffer') <= MaxImuBuffer
  <2>1. Append(imuBuffer, t) \in Seq(Times) /\ Len(Append(imuBuffer, t)) = Len(imuBuffer) + 1
    BY <1>1, AppendElements DEF TypeOK
  <2>2. Len(imuBuffer) \in Nat
    BY <1>1, LenProperties DEF TypeOK
  <2> QED BY <1>1, <2>1, <2>2, WindowAssumption DEF AddImu, TypeOK
<1>4. TypeOK'
  BY <1>1, <1>2, <1>3, ArrivalType DEF AddImu, TypeOK, keyframes, MotionType
<1> QED BY <1>4 DEF IInv, AddImu, keyframes, Chained, Solved, StateIsNewestKeyframe, Blank

(* The first fix. *)
LEMMA InitFromGnssIInv ==
    ASSUME IInv, NEW t \in Times, InitFromGnss(t)
    PROVE  IInv'
<1>1. TypeOK /\ Arrives(t) /\ window = <<>> /\ factors = <<>>
  BY DEF IInv, InitFromGnss, Blank
<1>2. window' = <<t>> /\ window' \in Seq(Times) /\ Len(window') = 1 /\ window' # <<>>
  <2>1. window' = Append(<<>>, t)
    BY <1>1 DEF InitFromGnss, Pushed
  <2>2. Append(<<>>, t) = <<t>>
    OBVIOUS
  <2> QED BY <2>1, <2>2
<1>3. TypeOK'
  <2>1. motion' \in MotionType
    BY DEF InitFromGnss, Cleared, NoMotion, MotionType
  <2>2. Len(window') <= MaxKeyframes + 1
    BY <1>2, WindowAssumption
  <2>3. clock' \in Nat /\ ordered' \in BOOLEAN
    BY <1>1, ArrivalType
  <2> QED BY <1>1, <1>2, <2>1, <2>2, <2>3 DEF InitFromGnss, TypeOK, MotionType
<1>4. Chained' /\ Solved'
  BY <1>1, <1>2 DEF IInv, InitFromGnss, Chained, Solved
<1>5. StateIsNewestKeyframe' /\ Blank'
  BY <1>2 DEF InitFromGnss, StateIsNewestKeyframe, Blank, Newest
<1> QED BY <1>3, <1>4, <1>5 DEF IInv

(* A round of the replay. *)
LEMMA ReplaySampleIInv ==
    ASSUME IInv, ReplaySample
    PROVE  IInv'
<1>1. Head(replay) \in Times /\ Tail(replay) \in Seq(Times)
  BY HeadTailProperties DEF IInv, TypeOK, ReplaySample, Replaying
<1>2. motion' \in MotionType
  BY <1>1, IntegrationType DEF IInv, ReplaySample, TypeOK, MotionType
<1>3. TypeOK'
  BY <1>1, <1>2 DEF IInv, ReplaySample, TypeOK, keyframes, history, MotionType
<1> QED BY <1>3 DEF IInv, ReplaySample, keyframes, Chained, Solved, StateIsNewestKeyframe, Blank

(* A fix near the newest keyframe. *)
LEMMA UpdateLatestGnssIInv ==
    ASSUME IInv, NEW t \in Times, NEW far, UpdateLatestGnss(t, far)
    PROVE  IInv'
<1>1. TypeOK /\ Arrives(t) /\ StateIsNewestKeyframe /\ initialised
  BY DEF IInv, UpdateLatestGnss
<1>2. latest' = lastKf
  BY <1>1 DEF UpdateLatestGnss, Shown, StateIsNewestKeyframe
<1>3. TypeOK'
  BY <1>1, <1>2, ArrivalType DEF UpdateLatestGnss, TypeOK, preintegrator
<1> QED BY <1>2, <1>3 DEF IInv, UpdateLatestGnss, preintegrator, Chained, Solved, StateIsNewestKeyframe, Blank

(* A keyframe is only made when there is one to start from. *)
LEMMA FactorTypeCorrect ==
    ASSUME IInv, initialised, NEW t \in Times
    PROVE  Factor(t) \in FactorType /\ start \in Times /\ Factor(t).start = Newest(window)
<1>1. /\ window \in Seq(Times) /\ window # <<>> /\ start = Newest(window)
  BY DEF IInv, TypeOK, StateIsNewestKeyframe
<1>2. start \in Times
  <2>1. Len(window) \in Nat \ {0}
    BY <1>1, EmptySeq, LenProperties
  <2> QED BY <1>1, <2>1, ElementOfSeq DEF Newest
<1> QED BY <1>1, <1>2 DEF IInv, TypeOK, Factor, FactorType

(* A keyframe. *)
LEMMA CreateKeyframeIInv ==
    ASSUME IInv, NEW t \in Times, NEW far, CreateKeyframe(t, far)
    PROVE  IInv'
<1>1. /\ TypeOK /\ Arrives(t) /\ Chained /\ initialised /\ window # <<>>
      /\ Factor(t) \in FactorType /\ Factor(t).start = Newest(window)
  BY FactorTypeCorrect DEF IInv, CreateKeyframe, StateIsNewestKeyframe
<1>2. /\ window' = NewWindow(t) /\ factors' = NewFactors(t)
      /\ problem' = Optimise(NewWindow(t), NewFactors(t))
      /\ latest' = Newest(NewWindow(t))
  BY DEF CreateKeyframe, NewWindow, NewFactors, Shown
<1> DEFINE k == Popped(t)
<1>3. /\ k \in 0 .. Len(window) /\ Len(window) \in Nat \ {0}
      /\ window' \in Seq(Times) /\ Len(window') = Len(window) + 1 - k
      /\ Len(window') <= MaxKeyframes + 1
      /\ \A i \in 1 .. Len(window') - 1 : window'[i] = window[k + i]
      /\ Newest(window') = t
      /\ factors' \in Seq(FactorType) /\ Len(factors') = Len(window) - k
      /\ \A i \in 1 .. Len(factors') - 1 : factors'[i] = factors[k + i]
      /\ factors' # <<>> => factors'[Len(factors')] = Factor(t)
  BY <1>1, <1>2, KeyframeShifts
<1> HIDE DEF k
<1>4. window' # <<>>
  BY <1>3, EmptySeq
<1>5. Newest(window') \in Times
  BY <1>3
<1>6. TypeOK'
  BY <1>1, <1>2, <1>3, ArrivalType DEF CreateKeyframe, TypeOK, Cleared, NoMotion
<1>7. Chained'
  <2>1. Len(factors') = Len(window') - 1
    BY <1>3
  <2>2. ASSUME NEW i \in 1 .. Len(factors')
        PROVE  factors'[i].start = window'[i] /\ factors'[i].end = window'[i + 1]
    <3>0. i \in 1 .. Len(window') - 1 /\ k + i \in 1 .. Len(window) /\ k \in Nat
      BY <1>3, <2>1
    <3>1. CASE i < Len(factors')
      <4>1. i \in 1 .. Len(factors') - 1 /\ i + 1 \in 1 .. Len(window') - 1
        BY <1>3, <2>1, <3>1
      <4>2. factors'[i] = factors[k + i] /\ window'[i] = window[k + i]
            /\ window'[i + 1] = window[k + (i + 1)]
        BY <1>3, <4>1, <3>0
      <4>3. k + i \in 1 .. Len(factors)
        BY <1>1, <1>3, <3>0, <3>1 DEF Chained
      <4>4. k + (i + 1) = (k + i) + 1
        BY <1>3
      <4> QED BY <1>1, <4>2, <4>3, <4>4 DEF Chained
    <3>2. CASE i = Len(factors')
      <4>1. factors' # <<>> /\ k + i = Len(window) /\ i + 1 = Len(window')
        BY <1>3, <2>1, <3>2, EmptySeq
      <4>2. factors'[i] = Factor(t)
        BY <1>3, <3>2, <4>1
      <4>3. window'[i] = window[Len(window)] /\ window'[i + 1] = t
        BY <1>3, <3>0, <4>1 DEF Newest
      <4> QED BY <1>1, <4>2, <4>3 DEF Factor, Newest
    <3>3. i < Len(factors') \/ i = Len(factors')
      <4>1. Len(factors') \in Nat /\ i \in 1 .. Len(factors')
        BY <1>3, LenProperties
      <4> QED BY <4>1
    <3> QED BY <3>1, <3>2, <3>3
  <2> QED BY <2>1, <2>2, <1>4 DEF Chained
<1>8. Solved'
  <2>1. problem' = Optimise(window', factors')
    BY <1>2
  <2> QED BY <2>1, <1>7 DEF Optimise, Solved, Chained
<1>9. StateIsNewestKeyframe' /\ Blank'
  BY <1>1, <1>2, <1>3, <1>4 DEF CreateKeyframe, StateIsNewestKeyframe, Blank
<1> QED BY <1>6, <1>7, <1>8, <1>9 DEF IInv

(* Every step keeps the invariant. *)
LEMMA NextIInv == IInv /\ [Next]_vars => IInv'
<1> SUFFICES ASSUME IInv, [Next]_vars PROVE IInv'
  OBVIOUS
<1>1. ASSUME NEW t \in Times, Refuse(t) PROVE IInv'
  <2>1. TypeOK'
    BY <1>1, ArrivalType DEF IInv, Refuse, TypeOK, keyframes, preintegrator
  <2> QED BY <1>1, <2>1
          DEF IInv, Refuse, keyframes, preintegrator, Chained, Solved, StateIsNewestKeyframe, Blank
<1>2. CASE Reset
  <2>1. TypeOK'
    <3>1. <<>> \in Seq(Times) /\ <<>> \in Seq(FactorType) /\ Len(<<>>) = 0
      BY EmptySeq
    <3>2. 0 <= MaxKeyframes + 1 /\ 0 <= MaxImuBuffer
      BY WindowAssumption
    <3> QED BY <1>2, <3>1, <3>2 DEF IInv, Reset, TypeOK, NoMotion, history
  <2>2. Chained' /\ Solved'
    BY <1>2, EmptySeq DEF Reset, Chained, Solved, NoProblem
  <2> QED BY <1>2, <2>1, <2>2 DEF IInv, Reset, StateIsNewestKeyframe, Blank
<1>3. CASE UNCHANGED vars
  BY <1>3 DEF IInv, vars, keyframes, preintegrator, history, TypeOK, Chained, Solved, StateIsNewestKeyframe, Blank
<1> QED BY <1>1, <1>2, <1>3, AddImuIInv, InitFromGnssIInv, UpdateLatestGnssIInv, CreateKeyframeIInv,
           ReplaySampleIInv DEF Next

(* Every variable stays in its range, and the window within one keyframe   *)
(* of max_keyframes: CreateKeyframe() trims what it pushed.                *)
THEOREM WindowTypeCorrect == Spec => []TypeOK
<1>1. IInv => TypeOK
  BY DEF IInv
<1> QED BY <1>1, InitIInv, NextIInv, PTL DEF Spec

(* However measurements arrive, factor and keyframe deques stay in step    *)
(* under the trimming of CreateKeyframe(), and Optimise() ties only        *)
(* keyframes their factor belongs to.                                      *)
THEOREM FactorsLink == Spec => []FactorsLinkKeyframes
<1>1. IInv => FactorsLinkKeyframes
  BY DEF IInv, FactorsLinkKeyframes
<1> QED BY <1>1, InitIInv, NextIInv, PTL DEF Spec

(* The output and the factor under integration belong to the newest        *)
(* keyframe: the members CreateKeyframe() sets one after the other agree.  *)
THEOREM NewestShown == Spec => []StateIsNewestKeyframe
<1>1. IInv => StateIsNewestKeyframe
  BY DEF IInv
<1> QED BY <1>1, InitIInv, NextIInv, PTL DEF Spec

-----------------------------------------------------------------------------
(* Measurements in order of time.                                          *)

Sorted == \A i \in 1 .. Len(window) - 1 : window[i] <= window[i + 1]
WithinSpan == \A i \in 1 .. Len(factors) : factors[i].ticks <= factors[i].end - factors[i].start

(* What is integrated lies between the newest keyframe and the previous    *)
(* sample.                                                                 *)
MotionBounded ==
    IF motion.prev = None THEN motion.ticks = 0
    ELSE start <= motion.prev /\ motion.prev <= clock /\ motion.ticks <= motion.prev - start

(* While the buffer is replayed nothing in it is later than the keyframe.  *)
NothingLater ==
    /\ window # <<>> => Newest(window) <= clock
    /\ \A i \in 1 .. Len(imuBuffer) : imuBuffer[i] <= clock
    /\ \A i \in 1 .. Len(replay) : replay[i] <= clock
    /\ Replaying => start = clock

InOrder == Sorted /\ WithinSpan /\ MotionBounded /\ NothingLater
OInv == ordered => InOrder

(* A sample that is not before the previous one keeps what is integrated   *)
(* within the time that passed.                                            *)
LEMMA IntegrationBounded ==
    ASSUME IInv, MotionBounded, NEW t \in Times, start <= t,
           motion.prev # None => motion.prev <= t
    PROVE  LET mo == Integrated(motion, t) IN mo.prev = t /\ mo.ticks <= t - start
<1>1. motion \in MotionType /\ start \in Int /\ t \in Nat /\ None \notin Nat
  BY WindowAssumption DEF IInv, TypeOK, MotionType, None
<1>2. CASE motion.prev = None
  BY <1>1, <1>2 DEF Integrated, MotionBounded, MotionType
<1>3. CASE motion.prev # None
  <2>1. motion.prev \in Nat /\ motion.ticks \in Nat
    BY <1>1, <1>3, WindowAssumption DEF MotionType
  <2>2. motion.ticks <= motion.prev - start /\ motion.prev <= t
    BY <1>3 DEF MotionBounded
  <2>3. CASE Integrable(t - motion.prev)
    BY <1>1, <1>3, <2>1, <2>2, <2>3 DEF Integrated, MotionType
  <2>4. CASE ~Integrable(t - motion.prev)
    BY <1>1, <1>3, <2>1, <2>2, <2>4 DEF Integrated, MotionType
  <2> QED BY <2>3, <2>4
<1> QED BY <1>2, <1>3

(* The initial state. *)
LEMMA InitOInv == Init => OInv
BY EmptySeq DEF Init, OInv, InOrder, Sorted, WithinSpan, MotionBounded, NothingLater, Replaying, NoMotion, None

(* A measurement in order is not before anything the estimator holds. *)
LEMMA ArrivalInOrder ==
    ASSUME IInv, OInv, NEW t \in Times, Arrives(t), ordered'
    PROVE  /\ InOrder /\ clock' = t /\ t \in Nat /\ replay = <<>>
           /\ window # <<>> => Newest(window) \in Times /\ Newest(window) <= t
           /\ \A i \in 1 .. Len(imuBuffer) : imuBuffer[i] <= t
           /\ motion.prev # None => motion.prev <= t
<1>1. /\ TypeOK /\ InOrder /\ clock <= t /\ clock' = t /\ replay = <<>>
      /\ clock \in Nat /\ t \in Nat
  BY ArrivalType, WindowAssumption DEF IInv, OInv, TypeOK
<1>2. \A x \in Times : x <= clock => x <= t
  BY <1>1, WindowAssumption
<1>3. ASSUME window # <<>> PROVE Newest(window) \in Times /\ Newest(window) <= t
  <2>1. Len(window) \in Nat \ {0}
    BY <1>1, <1>3, EmptySeq, LenProperties DEF TypeOK
  <2>2. Newest(window) \in Times
    BY <1>1, <2>1, ElementOfSeq DEF Newest, TypeOK
  <2> QED BY <1>1, <1>2, <1>3, <2>2 DEF InOrder, NothingLater
<1>4. ASSUME NEW i \in 1 .. Len(imuBuffer) PROVE imuBuffer[i] <= t
  <2>1. imuBuffer[i] \in Times
    BY <1>1, ElementOfSeq DEF TypeOK
  <2> QED BY <1>1, <1>2, <2>1 DEF InOrder, NothingLater
<1>5. motion.prev # None => motion.prev <= t
  BY <1>1, <1>2 DEF InOrder, MotionBounded, TypeOK
<1> QED BY <1>1, <1>3, <1>4, <1>5

(* An inertial sample. *)
LEMMA AddImuOInv ==
    ASSUME IInv, OInv, NEW t \in Times, AddImu(t)
    PROVE  OInv'
<1> SUFFICES ASSUME ordered' PROVE InOrder'
  BY DEF OInv
<1>1. /\ InOrder /\ clock' = t /\ t \in Nat /\ replay = <<>>
      /\ window # <<>> => Newest(window) \in Times /\ Newest(window) <= t
      /\ \A i \in 1 .. Len(imuBuffer) : imuBuffer[i] <= t
      /\ motion.prev # None => motion.prev <= t
  BY ArrivalInOrder DEF AddImu
<1>2. Sorted' /\ WithinSpan'
  BY <1>1 DEF AddImu, keyframes, InOrder, Sorted, WithinSpan
<1>3. MotionBounded'
  <2>1. CASE ~initialised
    BY <1>1, <2>1 DEF AddImu, InOrder, MotionBounded
  <2>2. CASE initialised
    <3>1. start <= t
      BY <1>1, <2>2 DEF IInv, StateIsNewestKeyframe
    <3>2. motion' = Integrated(motion, t) /\ start' = start
      BY <2>2 DEF AddImu
    <3>3. motion'.prev = t /\ motion'.ticks <= t - start
      BY <1>1, <3>1, <3>2, IntegrationBounded DEF InOrder
    <3> QED BY <1>1, <3>1, <3>2, <3>3 DEF MotionBounded, None
  <2> QED BY <2>1, <2>2
<1>4. NothingLater'
  <2>1. \A i \in 1 .. Len(imuBuffer') : imuBuffer'[i] <= t
    <3>1. CASE imuBuffer' = imuBuffer
      BY <1>1, <3>1
    <3>2. CASE imuBuffer' = Append(imuBuffer, t)
      <4>1. /\ Len(Append(imuBuffer, t)) = Len(imuBuffer) + 1 /\ Len(imuBuffer) \in Nat
            /\ \A i \in 1 .. Len(imuBuffer) : Append(imuBuffer, t)[i] = imuBuffer[i]
            /\ Append(imuBuffer, t)[Len(imuBuffer) + 1] = t
        BY AppendElements, LenProperties DEF IInv, TypeOK
      <4> QED BY <1>1, <3>2, <4>1
    <3> QED BY <3>1, <3>2 DEF AddImu
  <2>2. replay' = <<>> /\ window' = window
    BY <1>1 DEF AddImu, keyframes
  <2> QED BY <1>1, <2>1, <2>2, EmptySeq DEF NothingLater, Replaying
<1> QED BY <1>2, <1>3, <1>4 DEF InOrder

(* The first fix. *)
LEMMA InitFromGnssOInv ==
    ASSUME IInv, OInv, NEW t \in Times, InitFromGnss(t)
    PROVE  OInv'
<1> SUFFICES ASSUME ordered' PROVE InOrder'
  BY DEF OInv
<1>1. /\ InOrder /\ clock' = t /\ t \in Nat
      /\ \A i \in 1 .. Len(imuBuffer) : imuBuffer[i] <= t
  BY ArrivalInOrder DEF InitFromGnss
<1>2. window' = <<t>> /\ factors' = <<>> /\ start' = t
  <2>1. window' = Append(<<>>, t) /\ factors' = <<>>
    BY DEF IInv, Blank, InitFromGnss, Pushed
  <2>2. Append(<<>>, t) = <<t>>
    OBVIOUS
  <2> QED BY <2>1, <2>2 DEF InitFromGnss
<1>3. Sorted' /\ WithinSpan'
  BY <1>2, EmptySeq DEF Sorted, WithinSpan
<1>4. MotionBounded'
  BY DEF InitFromGnss, Cleared, NoMotion, MotionBounded
<1>5. NothingLater'
  BY <1>1, <1>2 DEF InitFromGnss, NothingLater, Newest
<1> QED BY <1>3, <1>4, <1>5 DEF InOrder

(* A round of the replay: only a sample of the time of the keyframe is     *)
(* left to integrate.                                                      *)
LEMMA ReplaySampleOInv ==
    ASSUME IInv, OInv, ReplaySample
    PROVE  OInv'
<1> SUFFICES ASSUME ordered' PROVE InOrder'
  BY DEF OInv
<1>1. /\ TypeOK /\ InOrder /\ clock' = clock /\ clock \in Nat /\ start = clock /\ start' = start
      /\ replay \in Seq(Times) /\ replay # <<>> /\ replay' = Tail(replay)
  BY DEF IInv, OInv, ReplaySample, history, TypeOK, InOrder, NothingLater, Replaying
<1>2. Head(replay) \in Times /\ Head(replay) <= clock
      /\ \A i \in 1 .. Len(Tail(replay)) : Tail(replay)[i] <= clock
  <2>1. /\ Head(replay) = replay[1] /\ Len(replay) \in Nat \ {0} /\ Head(replay) \in Times
        /\ Len(Tail(replay)) = Len(replay) - 1
        /\ \A i \in 1 .. Len(Tail(replay)) : Tail(replay)[i] = replay[i + 1]
    BY <1>1, HeadTailProperties, LenProperties, EmptySeq
  <2>2. \A i \in 1 .. Len(replay) : replay[i] <= clock
    BY <1>1 DEF InOrder, NothingLater
  <2> QED BY <2>1, <2>2
<1>3. Sorted' /\ WithinSpan'
  BY <1>1 DEF ReplaySample, keyframes, InOrder, Sorted, WithinSpan
<1>4. MotionBounded'
  <2>1. CASE ~NotBefore(Head(replay), start)
    BY <1>1, <2>1 DEF ReplaySample, InOrder, MotionBounded
  <2>2. CASE NotBefore(Head(replay), start)
    <3>1. Head(replay) = start /\ Head(replay) \in Nat
      <4>1. start \in Nat /\ Head(replay) \in Nat
        BY <1>1, <1>2, WindowAssumption
      <4> QED BY <1>1, <1>2, <2>2, <4>1 DEF NotBefore
    <3>2. motion.prev # None => motion.prev <= Head(replay)
      BY <1>1, <3>1 DEF InOrder, MotionBounded
    <3>3. motion' = Integrated(motion, Head(replay))
      BY <2>2 DEF ReplaySample
    <3>4. motion'.prev = Head(replay) /\ motion'.ticks <= Head(replay) - start
      BY <1>1, <1>2, <3>1, <3>2, <3>3, IntegrationBounded DEF InOrder
    <3> QED BY <1>1, <3>1, <3>4 DEF MotionBounded, None
  <2> QED BY <2>1, <2>2
<1>5. NothingLater'
  BY <1>1, <1>2 DEF ReplaySample, keyframes, InOrder, NothingLater
<1> QED BY <1>3, <1>4, <1>5 DEF InOrder

(* A keyframe in order is the latest, and its factor spans what passed     *)
(* since the one before.                                                   *)
LEMMA CreateKeyframeOInv ==
    ASSUME IInv, OInv, NEW t \in Times, NEW far, CreateKeyframe(t, far)
    PROVE  OInv'
<1> SUFFICES ASSUME ordered' PROVE InOrder'
  BY DEF OInv
<1>1. /\ InOrder /\ clock' = t /\ t \in Nat /\ replay = <<>>
      /\ window # <<>> => Newest(window) \in Times /\ Newest(window) <= t
      /\ \A i \in 1 .. Len(imuBuffer) : imuBuffer[i] <= t
      /\ motion.prev # None => motion.prev <= t
  BY ArrivalInOrder DEF CreateKeyframe
<1>2. /\ TypeOK /\ Chained /\ window # <<>> /\ start = Newest(window) /\ start \in Times
      /\ Factor(t) \in FactorType /\ start <= t
  BY <1>1, FactorTypeCorrect DEF IInv, CreateKeyframe, StateIsNewestKeyframe
<1> DEFINE k == Popped(t)
<1>3. /\ k \in 0 .. Len(window) /\ Len(window) \in Nat \ {0}
      /\ window' \in Seq(Times) /\ Len(window') = Len(window) + 1 - k
      /\ \A i \in 1 .. Len(window') - 1 : window'[i] = window[k + i]
      /\ window'[Len(window')] = t
      /\ Len(factors') = Len(window) - k
      /\ \A i \in 1 .. Len(factors') - 1 : factors'[i] = factors[k + i]
      /\ factors' # <<>> => factors'[Len(factors')] = Factor(t)
  <2>1. window' = NewWindow(t) /\ factors' = NewFactors(t)
    BY DEF CreateKeyframe, NewWindow, NewFactors
  <2> QED BY <1>2, <2>1, KeyframeShifts DEF Newest
<1> HIDE DEF k
<1>4. Sorted'
  <2>1. ASSUME NEW i \in 1 .. Len(window') - 1 PROVE window'[i] <= window'[i + 1]
    <3>1. i \in Nat /\ k \in Nat /\ k + i \in 1 .. Len(window) /\ window'[i] = window[k + i]
      BY <1>3
    <3>2. CASE i + 1 = Len(window')
      <4>1. k + i = Len(window)
        <5>1. Len(window) \in Nat /\ i + 1 = Len(window) + 1 - k
          BY <1>3, <3>2
        <5> QED BY <3>1, <5>1
      <4> QED BY <1>1, <1>2, <1>3, <3>1, <3>2, <4>1 DEF Newest
    <3>3. CASE i + 1 # Len(window')
      <4>1. i + 1 \in 1 .. Len(window') - 1 /\ k + i \in 1 .. Len(window) - 1
        BY <1>3, <3>1, <3>3
      <4>2. window'[i + 1] = window[k + (i + 1)]
        BY <1>3, <4>1
      <4>3. k + (i + 1) = (k + i) + 1
        BY <3>1
      <4> QED BY <1>1, <3>1, <4>1, <4>2, <4>3 DEF InOrder, Sorted
    <3> QED BY <3>2, <3>3
  <2> QED BY <2>1 DEF Sorted
<1>5. Factor(t).ticks <= Factor(t).end - Factor(t).start
  <2>1. motion.prev \in Times \cup {None} /\ motion.ticks \in Nat
    BY <1>2 DEF TypeOK
  <2>2. motion.ticks <= t - start
    <3>1. start \in Nat
      BY <1>2, WindowAssumption
    <3>2. CASE motion.prev = None
      BY <1>1, <1>2, <3>1, <3>2 DEF InOrder, MotionBounded
    <3>3. CASE motion.prev # None
      <4>1. motion.prev \in Nat /\ motion.prev <= t /\ motion.ticks <= motion.prev - start
        BY <1>1, <2>1, <3>3, WindowAssumption DEF InOrder, MotionBounded
      <4> QED BY <1>1, <2>1, <3>1, <4>1
    <3> QED BY <3>2, <3>3
  <2> QED BY <2>2 DEF Factor
<1>6. WithinSpan'
  <2>1. ASSUME NEW i \in 1 .. Len(factors')
        PROVE  factors'[i].ticks <= factors'[i].end - factors'[i].start
    <3>1. CASE i = Len(factors')
      <4>1. factors' # <<>>
        BY <1>3, <3>1, EmptySeq
      <4> QED BY <1>3, <1>5, <3>1, <4>1
    <3>2. CASE i # Len(factors')
      <4>1. i \in 1 .. Len(factors') - 1 /\ k + i \in 1 .. Len(factors)
        BY <1>2, <1>3, <3>2 DEF Chained
      <4> QED BY <1>1, <1>3, <4>1 DEF InOrder, WithinSpan
    <3> QED BY <3>1, <3>2
  <2> QED BY <2>1 DEF WithinSpan
<1>7. MotionBounded'
  BY DEF CreateKeyframe, Cleared, NoMotion, MotionBounded
<1>8. NothingLater'
  BY <1>1, <1>3 DEF CreateKeyframe, NothingLater, Newest, Replaying
<1> QED BY <1>4, <1>6, <1>7, <1>8 DEF InOrder

(* The remaining steps change nothing but the history, or start anew. *)
LEMMA NextOInv == IInv /\ OInv /\ [Next]_vars => OInv'
<1> SUFFICES ASSUME IInv, OInv, [Next]_vars PROVE OInv'
  OBVIOUS
<1>1. ASSUME NEW t \in Times, Arrives(t), ordered',
             UNCHANGED <<window, factors, preintegrator, imuBuffer, replay>>
      PROVE  InOrder'
  <2>1. /\ InOrder /\ clock' = t /\ t \in Nat /\ replay = <<>>
        /\ window # <<>> => Newest(window) \in Times /\ Newest(window) <= t
        /\ \A i \in 1 .. Len(imuBuffer) : imuBuffer[i] <= t
        /\ motion.prev # None => motion.prev <= t
    BY <1>1, ArrivalInOrder
  <2>2. Sorted' /\ WithinSpan' /\ MotionBounded'
    BY <1>1, <2>1 DEF preintegrator, InOrder, Sorted, WithinSpan, MotionBounded
  <2>3. NothingLater'
    BY <1>1, <2>1, EmptySeq DEF NothingLater, Replaying
  <2> QED BY <2>2, <2>3 DEF InOrder
<1>2. ASSUME NEW t \in Times, Refuse(t) PROVE OInv'
  BY <1>1, <1>2 DEF Refuse, keyframes, OInv
<1>3. ASSUME NEW t \in Times, NEW far, UpdateLatestGnss(t, far) PROVE OInv'
  BY <1>1, <1>3 DEF UpdateLatestGnss, OInv
<1>4. CASE Reset
  <2>1. /\ window' = <<>> /\ factors' = <<>> /\ imuBuffer' = <<>> /\ replay' = <<>>
        /\ motion' = NoMotion
    BY <1>4 DEF Reset, Replaying
  <2> QED BY <2>1, EmptySeq
          DEF OInv, InOrder, Sorted, WithinSpan, MotionBounded, NothingLater, Replaying, NoMotion
<1>5. CASE UNCHANGED vars
  BY <1>5 DEF vars, keyframes, preintegrator, history, OInv, InOrder, Sorted, WithinSpan,
              MotionBounded, NothingLater, Replaying
<1> QED BY <1>2, <1>3, <1>4, <1>5, AddImuOInv, InitFromGnssOInv, ReplaySampleOInv, CreateKeyframeOInv DEF Next

(* As long as measurements come in order, keyframes are ordered by time.   *)
THEOREM KeyframesOrdered == Spec => []KeyframesInOrder
<1>1. IInv /\ OInv => KeyframesInOrder
  BY DEF OInv, InOrder, Sorted, KeyframesInOrder
<1> QED BY <1>1, InitIInv, NextIInv, InitOInv, NextOInv, PTL DEF Spec

(* As long as measurements come in order, a factor holds no more motion    *)
(* than time passed between its keyframes: what Integrate() adds up after  *)
(* a replay, a gap or a Reset() of the preintegrator.                      *)
THEOREM FactorsWithinSpan == Spec => []FactorWithinSpan
<1>1. IInv /\ OInv => FactorWithinSpan
  BY DEF OInv, InOrder, WithinSpan, FactorWithinSpan
<1> QED BY <1>1, InitIInv, NextIInv, InitOInv, NextOInv, PTL DEF Spec
=============================================================================
