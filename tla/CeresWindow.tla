----------------------------- MODULE CeresWindow -----------------------------
(***************************************************************************)
(* CeresSlidingWindowEstimator: a window of keyframes, the inertial factor *)
(* preintegrated between each two neighbours, and the optimisation run for *)
(* every keyframe.  A keyframe is its time stamp; positions, biases and    *)
(* covariances are left out, so how far a fix is from the newest keyframe  *)
(* is a choice.  Time is the steady time, in ticks.                        *)
(*                                                                         *)
(* A call holds mutex_ from begin to end.  The rounds of the loop that     *)
(* replays buffered samples are actions of their own, between which        *)
(* nothing else can happen: every other action needs ~Replaying.           *)
(***************************************************************************)
EXTENDS Integers, Sequences

CONSTANTS
    Times,          \* steady times of measurements
    MaxKeyframes,   \* max_keyframes
    MaxImuBuffer,   \* kMaxImuBuffer
    UpdateSpan,     \* a keyframe is due after this many ticks (0.2 s)
    LongGap,        \* samples further apart are not integrated over (1 s)
    MaxSamples      \* bound: samples integrated for one factor

ASSUME WindowAssumption ==
    /\ Times \subseteq Nat
    /\ MaxKeyframes \in Nat /\ MaxImuBuffer \in Nat
    /\ UpdateSpan \in Nat /\ LongGap \in Nat /\ MaxSamples \in Nat

VARIABLES
    initialised,    \* initialised_ and preint_active_
    window,         \* window_
    factors,        \* imu_factors_
    start,          \* preint_.t0_
    motion,         \* preint_: the previous sample, the ticks and samples integrated
    imuBuffer,      \* imu_buffer_
    replay,         \* what InitFromGnss() has left to replay
    lastKf,         \* last_kf_time_
    latest,         \* latest_state_.timestamp
    problem,        \* what the last Optimise() solved
    clock,          \* history: latest time of a measurement, while in order
    ordered         \* history: measurements have come in order of time

preintegrator == <<start, motion>>
keyframes == <<window, factors, lastKf, latest, problem>>
history == <<clock, ordered>>
vars == <<initialised, keyframes, preintegrator, imuBuffer, replay, history>>

None == -1
NoMotion == [prev |-> None, ticks |-> 0, samples |-> 0]
NoProblem == [imu |-> {}, fixed |-> None, measured |-> None]
Newest(w) == w[Len(w)]
Replaying == replay # <<>>

Init ==
    /\ initialised = FALSE
    /\ window = <<>> /\ factors = <<>>
    /\ start = None /\ motion = NoMotion
    /\ imuBuffer = <<>> /\ replay = <<>>
    /\ lastKf = None /\ latest = None /\ problem = NoProblem
    /\ clock = 0 /\ ordered = TRUE

\* The measurement of time t is given to the estimator.
Arrives(t) ==
    /\ ~Replaying
    /\ ordered' = (ordered /\ clock <= t)
    /\ clock' = IF clock <= t THEN t ELSE clock

-----------------------------------------------------------------------------
(* ImuPreintegrator: Integrate(), Reset() and Finalize().                  *)

Integrable(dt) == 0 < dt /\ dt <= LongGap

\* The first sample, and one after a gap or of an earlier time, is only kept.
Integrated(mo, t) ==
    IF mo.prev # None /\ Integrable(t - mo.prev)
    THEN [prev |-> t, ticks |-> mo.ticks + (t - mo.prev), samples |-> mo.samples + 1]
    ELSE [mo EXCEPT !.prev = t]

Cleared(mo) == NoMotion

Factor(t) == [start |-> start, end |-> t, ticks |-> motion.ticks, samples |-> motion.samples]

-----------------------------------------------------------------------------
(* AddMeasurement() of an inertial sample.                                 *)

AddImu(t) ==
    /\ Arrives(t)
    /\ imuBuffer' = IF Len(imuBuffer) < MaxImuBuffer THEN Append(imuBuffer, t) ELSE imuBuffer
    /\ motion' = IF initialised THEN Integrated(motion, t) ELSE motion
    /\ motion'.samples <= MaxSamples
    /\ UNCHANGED <<initialised, keyframes, start, replay>>

-----------------------------------------------------------------------------
(* AddMeasurement() of a valid GNSS solution.                              *)

Pushed(w, t) == Append(w, t)

\* BuildNavigationState() is given the newest keyframe.
Shown(w) == Newest(w)

InitFromGnss(t) ==
    /\ Arrives(t) /\ ~initialised
    /\ initialised' = TRUE
    /\ window' = Pushed(window, t)
    /\ lastKf' = t
    /\ latest' = t
    /\ start' = t
    /\ motion' = Cleared(motion)
    /\ replay' = imuBuffer
    /\ UNCHANGED <<factors, imuBuffer, problem>>

\* A mutant: every buffered sample is replayed.
AnyTime(sample, t) == TRUE

\* A round of the loop over imu_buffer_; samples before the fix are left out.
NotBefore(sample, t) == t <= sample

ReplaySample ==
    /\ Replaying
    /\ replay' = Tail(replay)
    /\ motion' = IF NotBefore(Head(replay), start) THEN Integrated(motion, Head(replay)) ELSE motion
    /\ UNCHANGED <<initialised, keyframes, start, imuBuffer, history>>

Near(far, t) == ~far /\ t - lastKf < UpdateSpan

\* A fix near the newest keyframe only refines its velocity.
UpdateLatestGnss(t, far) ==
    /\ Arrives(t) /\ initialised /\ Near(far, t)
    /\ latest' = Shown(window)
    /\ UNCHANGED <<initialised, window, factors, lastKf, problem, preintegrator, imuBuffer, replay>>

\* The loop that trims the window pops the front of both deques.
Excess(w) == IF Len(w) > MaxKeyframes + 1 THEN Len(w) - (MaxKeyframes + 1) ELSE 0
WithoutOldest(s, k) == SubSeq(s, k + 1, Len(s))

\* A mutant: the newest factor is popped instead of the oldest.
NewestPopped(w, f) == IF Excess(w) > 0 THEN SubSeq(f, 1, Len(f) - Excess(w)) ELSE f
TrimmedFactors(w, f) == WithoutOldest(f, Excess(w))

\* Optimise(): each factor ties two neighbours, the oldest keyframe is held
\* and the newest is measured by the fix.
Optimise(w, f) ==
    [imu |-> {<<w[i], w[i + 1], f[i]>> : i \in {j \in 1 .. Len(f) : j < Len(w)}},
     fixed |-> w[1], measured |-> Newest(w)]

CreateKeyframe(t, far) ==
    LET pushed == Pushed(window, t)
        linked == Append(factors, Factor(t))
        kept == WithoutOldest(pushed, Excess(pushed))
        keptFactors == TrimmedFactors(pushed, linked)
    IN
    /\ Arrives(t) /\ initialised /\ ~Near(far, t)
    /\ window' = kept
    /\ factors' = keptFactors
    /\ problem' = Optimise(kept, keptFactors)
    /\ start' = t
    /\ motion' = Cleared(motion)
    /\ lastKf' = t
    /\ latest' = Shown(kept)
    /\ UNCHANGED <<initialised, imuBuffer, replay>>

\* A GNSS solution that is not valid, or a measurement of another kind.
Refuse(t) == Arrives(t) /\ UNCHANGED <<initialised, keyframes, preintegrator, imuBuffer, replay>>

\* Reset() makes a new Impl.
Reset ==
    /\ ~Replaying
    /\ initialised' = FALSE
    /\ window' = <<>> /\ factors' = <<>>
    /\ start' = None /\ motion' = NoMotion
    /\ imuBuffer' = <<>>
    /\ lastKf' = None /\ latest' = None /\ problem' = NoProblem
    /\ UNCHANGED <<replay, history>>

Next ==
    \/ \E t \in Times :
        \/ AddImu(t)
        \/ InitFromGnss(t)
        \/ \E far \in BOOLEAN : UpdateLatestGnss(t, far) \/ CreateKeyframe(t, far)
        \/ Refuse(t)
    \/ ReplaySample
    \/ Reset

Spec == Init /\ [][Next]_vars

-----------------------------------------------------------------------------
(* Properties.                                                             *)

FactorType == [start : Times, end : Times, ticks : Nat, samples : Nat]

\* The window holds at most one keyframe more than max_keyframes (the "maximum
\* keyframes retained" of ceres_estimator.hpp), the sample buffer at most its
\* capacity: the trim loop of CreateKeyframe() and the push of AddImu().
TypeOK ==
    /\ initialised \in BOOLEAN
    /\ window \in Seq(Times) /\ Len(window) <= MaxKeyframes + 1
    /\ factors \in Seq(FactorType)
    /\ start \in Times \cup {None}
    /\ motion \in [prev : Times \cup {None}, ticks : Nat, samples : Nat]
    /\ imuBuffer \in Seq(Times) /\ Len(imuBuffer) <= MaxImuBuffer
    /\ replay \in Seq(Times)
    /\ lastKf \in Times \cup {None} /\ latest \in Times \cup {None}
    /\ clock \in Nat /\ ordered \in BOOLEAN

Chained ==
    /\ Len(factors) = IF window = <<>> THEN 0 ELSE Len(window) - 1
    /\ \A i \in 1 .. Len(factors) :
           factors[i].start = window[i] /\ factors[i].end = window[i + 1]

Solved ==
    \A link \in problem.imu : link[3].start = link[1] /\ link[3].end = link[2]

\* However measurements arrive and however often the window is trimmed, there
\* is one factor between each two neighbours, integrated from the one to the
\* other, and Optimise() ties no keyframes a factor does not belong to.
FactorsLinkKeyframes == Chained /\ Solved

\* The output is the newest keyframe's, from which the next factor starts;
\* CreateKeyframe() sets four members to make it so.
StateIsNewestKeyframe ==
    initialised => /\ window # <<>>
                   /\ Newest(window) = lastKf
                   /\ latest = lastKf /\ start = lastKf

\* As long as measurements come in order, keyframes are ordered by time, as
\* SlidingWindowState says they are.
KeyframesInOrder ==
    ordered => \A i \in 1 .. Len(window) - 1 : window[i] <= window[i + 1]

\* As long as measurements come in order, no factor holds more motion than
\* time passed between its keyframes: no tick is integrated for two factors.
FactorWithinSpan ==
    ordered => \A i \in 1 .. Len(factors) :
                   factors[i].ticks <= factors[i].end - factors[i].start
=============================================================================
