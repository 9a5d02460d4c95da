----------------------------- MODULE FusionFilter -----------------------------
(***************************************************************************)
(* EkfEstimator and UkfEstimator: how they initialise, buffer inertial     *)
(* samples, propagate to the time of a measurement and apply it.  The two  *)
(* classes differ in their arithmetic only; positions, attitudes and       *)
(* covariances are left out, time stamps and time spans are kept.          *)
(*                                                                         *)
(* A call holds mutex_ from begin to end.  The rounds of the loops of      *)
(* PropagateTo() are actions of their own, between which nothing else can  *)
(* happen: every other action needs call = Idle.                           *)
(***************************************************************************)
EXTENDS TimeOrderedBuffer

CONSTANTS
    Stamps,         \* time stamps of inertial samples
    AidingStamps,   \* those of all other measurements, and requested times
    BufferSize,     \* imu_buffer_'s max_size
    MinDt,          \* min_imu_dt_s, in ticks
    MaxDt,          \* max_imu_dt_s, in ticks
    Threshold       \* dead_reckoning_threshold_s, in ticks

ASSUME FilterAssumption ==
    /\ Stamps \subseteq Timestamp /\ AidingStamps \subseteq Timestamp
    /\ BufferSize \in Nat \ {0}
    /\ MinDt \in Nat /\ MaxDt \in Nat /\ Threshold \in Nat

VARIABLES
    initialised,    \* initialised_
    nominal,        \* state_.nominal.timestamp
    lastAiding,     \* last_aiding_timestamp_; NoStamp for std::nullopt
    imuBuffer,      \* imu_buffer_
    call,           \* the call in progress: its kind and target
    batch,          \* imu_batch of PropagateTo(), less what it has handled
    remaining,      \* remaining of PropagateTo()
    report,         \* what the last call returned, and for which time stamp
    origin,         \* history: time stamp the integration started from
    integrated,     \* history: ticks of inertial motion integrated since then
    aided,          \* history: latest steady time of an accepted measurement
    horizon         \* history: latest steady time anybody asked for

propagation == <<nominal, batch, remaining, origin, integrated>>
aiding == <<lastAiding, aided>>
vars == <<initialised, propagation, aiding, imuBuffer, call, report, horizon>>

Idle == [kind |-> "none", target |-> NoStamp]
Nothing == [result |-> "none", stamp |-> NoStamp]

Init ==
    /\ initialised = FALSE
    /\ nominal = NoStamp
    /\ lastAiding = NoStamp
    /\ imuBuffer = <<>>
    /\ call = Idle
    /\ batch = <<>>
    /\ remaining = 0
    /\ report = Nothing
    /\ origin = NoStamp
    /\ integrated = 0
    /\ aided = Absent
    /\ horizon = Absent

Later(x, y) == IF x < y THEN y ELSE x

Report(result, ts) == report' = [result |-> result, stamp |-> ts]

-----------------------------------------------------------------------------
(* AddMeasurement() of an inertial sample.                                 *)

Inserted(buffer, ts, maxSize) == Insert(buffer, ts, maxSize)

AddImu(ts) ==
    LET insertion == Inserted(imuBuffer, ts, BufferSize) IN
    /\ call = Idle
    /\ imuBuffer' = insertion.buffer
    /\ Report(IF insertion.result \in {"RejectedOutOfOrder", "RejectedNotComparable"}
              THEN "OutOfOrder" ELSE "Buffered", ts)
    /\ UNCHANGED <<initialised, propagation, aiding, call, horizon>>

-----------------------------------------------------------------------------
(* Every other measurement before the first usable GNSS solution.          *)

Initialise(ts) ==
    /\ call = Idle /\ ~initialised
    /\ initialised' = TRUE
    /\ nominal' = ts
    /\ origin' = ts
    /\ integrated' = 0
    /\ horizon' = Later(horizon, ts.steady)
    /\ Report("Accepted", ts)
    /\ UNCHANGED <<batch, remaining, aiding, imuBuffer, call>>

\* A GNSS solution without a valid fix is rejected, anything else is not
\* taken; ProcessUntil() answers the same.
RefuseUninitialised(ts) ==
    /\ call = Idle /\ ~initialised
    /\ \E result \in {"Rejected", "NotInitialized"} : Report(result, ts)
    /\ UNCHANGED <<initialised, propagation, aiding, imuBuffer, call, horizon>>

-----------------------------------------------------------------------------
(* AddMeasurement() of an aiding measurement, and ProcessUntil().          *)

Taken(buffer, ts) == Due(buffer, ts)

\* A mutant: only the oldest sample that is due is removed from the buffer.
AllButOldest(buffer, ts) == IF Due(buffer, ts) = <<>> THEN buffer ELSE Tail(buffer)
Left(buffer, ts) == NotYetDue(buffer, ts)

BeginCall(kind, ts) ==
    /\ call = Idle /\ initialised
    /\ call' = [kind |-> kind, target |-> ts]
    /\ batch' = Taken(imuBuffer, ts)
    /\ imuBuffer' = Left(imuBuffer, ts)
    /\ horizon' = Later(horizon, ts.steady)
    /\ UNCHANGED <<initialised, nominal, remaining, origin, integrated, aiding, report>>

\* The filter was initialised by a measurement without a time stamp.
AdoptTime ==
    /\ call # Idle /\ batch # <<>>
    /\ nominal = NoStamp
    /\ nominal' = Head(batch)
    /\ origin' = Head(batch)
    /\ integrated' = 0
    /\ batch' = Tail(batch)
    /\ UNCHANGED <<initialised, remaining, aiding, imuBuffer, call, report, horizon>>

\* A sample that is too close to the last one, or earlier.
FarEnough(dt) == dt >= MinDt

\* The loop's next round, and a mutant that skips its increment.
SameAgain(samples) == samples
NextRound(samples) == Tail(samples)

Skip ==
    /\ call # Idle /\ batch # <<>> /\ remaining <= 0
    /\ nominal # NoStamp
    /\ \A dt \in TimeDifference(Head(batch), nominal) : ~FarEnough(dt)
    /\ batch' = NextRound(batch)
    /\ UNCHANGED <<initialised, nominal, remaining, origin, integrated, aiding,
                   imuBuffer, call, report, horizon>>

\* One PropagateImu() over at most MaxDt of the span that is left.
Step(span) == IF span < MaxDt THEN span ELSE MaxDt

\* A mutant: a long gap is integrated by its first step only.
FirstStepOnly(span) == 0
Remainder(span) == span - Step(span)

Propagate ==
    /\ call # Idle /\ batch # <<>> /\ remaining <= 0
    /\ nominal # NoStamp
    /\ \E dt \in TimeDifference(Head(batch), nominal) :
         /\ FarEnough(dt)
         /\ integrated' = integrated + Step(dt)
         /\ remaining' = Remainder(dt)
    /\ nominal' = Head(batch)
    /\ batch' = Tail(batch)
    /\ UNCHANGED <<initialised, origin, aiding, imuBuffer, call, report, horizon>>

PropagateRest ==
    /\ remaining > 0
    /\ integrated' = integrated + Step(remaining)
    /\ remaining' = Remainder(remaining)
    /\ UNCHANGED <<initialised, nominal, batch, origin, aiding, imuBuffer, call, report,
                   horizon>>

\* The measurement models answer Accepted or Rejected; no model answers Rejected.
\* A mutant: the aiding time is taken before the model has answered.
AidedAnyway(result) == TRUE
Aided(result) == result = "Accepted"

Finish ==
    /\ call # Idle /\ batch = <<>> /\ remaining <= 0
    /\ \/ /\ call.kind = "process"
          /\ Report("Accepted", call.target)
          /\ UNCHANGED aiding
       \/ /\ call.kind = "aiding"
          /\ \E result \in {"Accepted", "Rejected"} :
               /\ Report(result, call.target)
               /\ lastAiding' = IF Aided(result) THEN call.target ELSE lastAiding
               /\ aided' = IF result = "Accepted" THEN Later(aided, call.target.steady)
                           ELSE aided
    /\ call' = Idle
    /\ UNCHANGED <<initialised, propagation, imuBuffer, horizon>>

Reset ==
    /\ call = Idle
    /\ initialised' = FALSE
    /\ nominal' = NoStamp
    /\ lastAiding' = NoStamp
    /\ imuBuffer' = <<>>
    /\ origin' = NoStamp
    /\ integrated' = 0
    /\ aided' = Absent
    /\ horizon' = Absent
    /\ report' = Nothing
    /\ UNCHANGED <<batch, remaining, call>>

-----------------------------------------------------------------------------
\* BuildNavigationState(): the status that goes with the state.
Status ==
    IF lastAiding.steady # Absent /\ nominal.steady # Absent
        /\ nominal.steady - lastAiding.steady <= Threshold
    THEN "Nominal"
    ELSE "DeadReckoning"

Loops == AdoptTime \/ Skip \/ Propagate \/ PropagateRest \/ Finish

Next ==
    \/ \E ts \in Stamps : AddImu(ts)
    \/ \E ts \in AidingStamps :
         \/ Initialise(ts) \/ RefuseUninitialised(ts)
         \/ \E kind \in {"aiding", "process"} : BeginCall(kind, ts)
    \/ Loops
    \/ Reset

(* A call that has begun goes on; no call is owed.                         *)
Spec == Init /\ [][Next]_vars /\ WF_vars(Loops)

-----------------------------------------------------------------------------
(* Properties.                                                             *)

(* The range of every variable; the buffer within its capacity.            *)
TypeOK ==
    /\ initialised \in BOOLEAN
    /\ nominal \in Timestamp /\ lastAiding \in Timestamp /\ origin \in Timestamp
    /\ imuBuffer \in Seq(Stamps) /\ Len(imuBuffer) <= BufferSize
    /\ batch \in Seq(Stamps)
    /\ call \in [kind : {"none", "aiding", "process"}, target : Timestamp]
    /\ remaining \in Nat /\ integrated \in Nat
    /\ report \in [result : {"none", "Accepted", "Rejected", "Buffered", "OutOfOrder",
                             "NotInitialized"}, stamp : Timestamp]
    /\ aided \in Nat \cup {Absent} /\ horizon \in Nat \cup {Absent}

Sorted(seq) ==
    \A i, j \in 1..Len(seq) : i < j => CompareTimestamps(seq[i], seq[j]) # "After"

(* The buffer, and what PropagateTo() takes from it, is in time order      *)
(* however late and out of order the samples came in.                      *)
BufferSorted == Sorted(imuBuffer) /\ Sorted(batch)

(* Samples are integrated up to and including the requested time and none  *)
(* beyond it: a state never contains motion of its measurement's future.   *)
OnlyDueIsTaken ==
    \A i \in 1..Len(batch) : CompareTimestamps(batch[i], call.target) \in {"Before", "Equal"}

(* "Propagates all buffered IMU up to and including timestamp"             *)
(* (ekf_estimator.hpp:83): while a call runs the buffer holds no sample    *)
(* that is due at the call's target.                                       *)
AllDueIsTaken ==
    call # Idle => \A i \in 1..Len(imuBuffer) :
        CompareTimestamps(imuBuffer[i], call.target) \notin {"Before", "Equal"}

(* Every tick between the first fix and the state's time has been          *)
(* integrated exactly once, however the samples were spaced, split,        *)
(* skipped, delayed or repeated.                                           *)
ElapsedIsIntegrated ==
    (initialised /\ origin.steady # Absent) =>
        nominal.steady - origin.steady = integrated + remaining

(* PopUntil() splits the buffer at the target, the target included.        *)
DueIsTaken == OnlyDueIsTaken /\ AllDueIsTaken

(* The state's time is never ahead of what was asked for since Reset().    *)
NotAhead == nominal.steady <= horizon

(* The state's time does not go back, except by Reset().                   *)
TimeGoesForward == [][initialised' => nominal.steady <= nominal'.steady]_vars

(* A state is only shown as Nominal if a measurement was accepted within   *)
(* the threshold before it.                                                *)
NominalMeansAided ==
    Status = "Nominal" => aided # Absent /\ nominal.steady - aided <= Threshold

(* Every call returns.                                                     *)
CallReturns == call # Idle ~> call = Idle
=============================================================================
