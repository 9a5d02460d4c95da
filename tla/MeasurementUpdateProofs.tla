----------------------- MODULE MeasurementUpdateProofs -----------------------
(***************************************************************************)
(* Theorems about MeasurementUpdate, for every epoch of satellites, every  *)
(* number of satellites required and every choice of sensors.              *)
(***************************************************************************)
EXTENDS MeasurementUpdate, FiniteSetTheorems, SequenceTheorems, TLAPS

-----------------------------------------------------------------------------
(* Sequences.                                                              *)

LEMMA HeadAndTail ==
    ASSUME NEW S, NEW s \in Seq(S), s # <<>>
    PROVE  /\ Head(s) \in S /\ Tail(s) \in Seq(S)
           /\ ToSet(s) = {Head(s)} \cup ToSet(Tail(s))
<1>1. Len(s) \in Nat /\ Len(s) > 0 /\ s \in [1..Len(s) -> S] /\ Head(s) = s[1]
  BY EmptySeq, LenProperties
<1>2. /\ Tail(s) \in Seq(S) /\ Len(Tail(s)) = Len(s) - 1
      /\ \A i \in 1..Len(Tail(s)) : Tail(s)[i] = s[i + 1]
  BY HeadTailProperties
<1>3. DOMAIN Tail(s) = 1..(Len(s) - 1) /\ DOMAIN s = 1..Len(s)
  BY <1>1, <1>2
<1>4. ASSUME NEW x \in ToSet(s) PROVE x \in {Head(s)} \cup ToSet(Tail(s))
  <2>1. PICK i \in 1..Len(s) : x = s[i]
    BY <1>3, <1>4 DEF ToSet
  <2>2. CASE i = 1
    BY <1>1, <2>1, <2>2
  <2>3. CASE i # 1
    <3>1. i - 1 \in 1..(Len(s) - 1) /\ Tail(s)[i - 1] = s[i]
      BY <1>1, <1>2, <2>1, <2>3
    <3>2. QED BY <1>3, <2>1, <3>1 DEF ToSet
  <2>4. QED BY <2>2, <2>3
<1>5. ASSUME NEW x \in ToSet(Tail(s)) PROVE x \in ToSet(s)
  <2>1. PICK i \in 1..(Len(s) - 1) : x = Tail(s)[i]
    BY <1>3, <1>5 DEF ToSet
  <2>2. i + 1 \in 1..Len(s) /\ x = s[i + 1]
    BY <1>1, <1>2, <2>1
  <2>3. QED BY <1>3, <2>2 DEF ToSet
<1>6. Head(s) \in ToSet(s)
  BY <1>1, <1>3 DEF ToSet
<1>7. Head(s) \in S
  BY <1>1
<1>8. QED BY <1>2, <1>4, <1>5, <1>6, <1>7

-----------------------------------------------------------------------------
(* The table of models.                                                    *)

LEMMA EkfKinds ==
    /\ GnssLooselyCoupled.kind = "gnss" /\ GnssTightlyCoupled.kind = "epoch"
    /\ Barometer.kind = "barometer" /\ Magnetometer.kind = "magnetometer"
    /\ WheelOdometry.kind = "wheel" /\ Airspeed.kind = "airspeed"
    /\ OpticalFlow.kind = "flow" /\ RadarAltimeter.kind = "radar"
    /\ RangeFinder.kind = "range" /\ Dvl.kind = "dvl" /\ EchoSounder.kind = "echo"
    /\ ExternalPose.kind = "pose" /\ ExternalVelocity.kind = "velocity"
    /\ ExternalOdometry.kind = "odometry" /\ AidingSolution.kind = "aiding"
    /\ StarTracker.kind = "star"
BY DEF Model, GnssLooselyCoupled, GnssTightlyCoupled, Barometer, Magnetometer, WheelOdometry,
       Airspeed, OpticalFlow, RadarAltimeter, RangeFinder, Dvl, EchoSounder, ExternalPose,
       ExternalVelocity, ExternalOdometry, AidingSolution, StarTracker

LEMMA UkfKinds ==
    /\ UkfGnssLooselyCoupled.kind = "gnss"
    /\ UkfBarometer.kind = "barometer" /\ UkfMagnetometer.kind = "magnetometer"
    /\ UkfWheelOdometry.kind = "wheel" /\ UkfAirspeed.kind = "airspeed"
    /\ UkfOpticalFlow.kind = "flow" /\ UkfRadarAltimeter.kind = "radar"
    /\ UkfDvl.kind = "dvl" /\ UkfEchoSounder.kind = "echo"
    /\ UkfExternalPose.kind = "pose" /\ UkfExternalVelocity.kind = "velocity"
    /\ UkfExternalOdometry.kind = "odometry" /\ UkfAidingSolution.kind = "aiding"
    /\ UkfStarTracker.kind = "star"
BY DEF Model, UkfGnssLooselyCoupled, UkfBarometer, UkfMagnetometer, UkfWheelOdometry,
       UkfAirspeed, UkfOpticalFlow, UkfRadarAltimeter, UkfDvl, UkfEchoSounder, UkfExternalPose,
       UkfExternalVelocity, UkfExternalOdometry, UkfAidingSolution, UkfStarTracker

LEMMA KindsAreDistinct ==
    /\ \A m, n \in EkfModels : m.kind = n.kind => m = n
    /\ \A m, n \in UkfModels : m.kind = n.kind => m = n
<1>1. \A m, n \in EkfModels : m.kind = n.kind => m = n
  BY EkfKinds DEF EkfModels
<1>2. \A m, n \in UkfModels : m.kind = n.kind => m = n
  BY UkfKinds DEF UkfModels
<1>3. QED BY <1>1, <1>2

\* What a model of the EKF needs set; of the UKF the tangent plane at most.
LEMMA EkfNeeds ==
    ASSUME NEW m \in EkfModels
    PROVE  m.needs \subseteq {"ltp"} \/ (m = GnssTightlyCoupled /\ m.needs = {"ltp", "clock"})
<1>1. /\ GnssLooselyCoupled.needs = {"ltp"} /\ Barometer.needs = {}
      /\ Magnetometer.needs = {} /\ WheelOdometry.needs = {}
      /\ Airspeed.needs = {} /\ OpticalFlow.needs = {}
      /\ RadarAltimeter.needs = {} /\ RangeFinder.needs = {}
      /\ Dvl.needs = {} /\ EchoSounder.needs = {}
      /\ ExternalPose.needs = {"ltp"} /\ ExternalVelocity.needs = {}
      /\ ExternalOdometry.needs = {"ltp"} /\ AidingSolution.needs = {"ltp"}
      /\ StarTracker.needs = {} /\ GnssTightlyCoupled.needs = {"ltp", "clock"}
  BY DEF Model, GnssLooselyCoupled, Barometer, Magnetometer, WheelOdometry, Airspeed, OpticalFlow,
         RadarAltimeter, RangeFinder, Dvl, EchoSounder, ExternalPose, ExternalVelocity,
         ExternalOdometry, AidingSolution, StarTracker, GnssTightlyCoupled
<1>2. QED BY <1>1 DEF EkfModels

LEMMA UkfNeeds ==
    ASSUME NEW m \in UkfModels
    PROVE  m.needs \subseteq {"ltp"}
<1>1. /\ UkfGnssLooselyCoupled.needs = {"ltp"} /\ UkfBarometer.needs = {}
      /\ UkfMagnetometer.needs = {} /\ UkfWheelOdometry.needs = {}
      /\ UkfAirspeed.needs = {} /\ UkfOpticalFlow.needs = {}
      /\ UkfRadarAltimeter.needs = {} /\ UkfDvl.needs = {}
      /\ UkfEchoSounder.needs = {} /\ UkfExternalPose.needs = {"ltp"}
      /\ UkfExternalVelocity.needs = {} /\ UkfExternalOdometry.needs = {"ltp"}
      /\ UkfAidingSolution.needs = {"ltp"} /\ UkfStarTracker.needs = {}
  BY DEF Model, UkfGnssLooselyCoupled, UkfBarometer, UkfMagnetometer, UkfWheelOdometry, UkfAirspeed,
         UkfOpticalFlow, UkfRadarAltimeter, UkfDvl, UkfEchoSounder, UkfExternalPose,
         UkfExternalVelocity, UkfExternalOdometry, UkfAidingSolution, UkfStarTracker
<1>2. QED BY <1>1 DEF UkfModels

\* A model has a sequence of parts, and at least one.
Proper(m) == m.parts \in Seq(ToSet(m.parts)) /\ m.parts # <<>>

LEMMA ProperModel ==
    ASSUME NEW kind, NEW needs, NEW flaws, NEW names, NEW n \in Nat, DOMAIN names = 1..n, n > 0
    PROVE  Proper(Model(kind, needs, flaws, names))
<1> DEFINE parts == Model(kind, needs, flaws, names).parts
<1>1. parts = [i \in 1..n |-> <<Whole, names[i]>>]
  BY DEF Model
<1>2. parts \in [1..n -> ToSet(parts)]
  BY <1>1 DEF ToSet
<1>3. parts \in Seq(ToSet(parts)) /\ 1 \in DOMAIN parts
  BY <1>1, <1>2, IsASeq
<1>4. QED BY <1>3 DEF Proper

LEMMA OneTwoThree ==
    ASSUME NEW kind, NEW needs, NEW flaws, NEW a, NEW b, NEW c
    PROVE  /\ Proper(Model(kind, needs, flaws, <<a>>))
           /\ Proper(Model(kind, needs, flaws, <<a, b>>))
           /\ Proper(Model(kind, needs, flaws, <<a, b, c>>))
<1>1. /\ DOMAIN <<a>> = 1..1 /\ 1 \in Nat /\ 1 > 0
      /\ DOMAIN <<a, b>> = 1..2 /\ 2 \in Nat /\ 2 > 0
      /\ DOMAIN <<a, b, c>> = 1..3 /\ 3 \in Nat /\ 3 > 0
  OBVIOUS
<1>2. Proper(Model(kind, needs, flaws, <<a>>))
  BY <1>1, ProperModel, Zenon
<1>3. Proper(Model(kind, needs, flaws, <<a, b>>))
  BY <1>1, ProperModel, Zenon
<1>4. Proper(Model(kind, needs, flaws, <<a, b, c>>))
  BY <1>1, ProperModel, Zenon
<1>5. QED BY <1>2, <1>3, <1>4

LEMMA EpochPartsSequence == EpochParts \in Seq(ToSet(EpochParts))
<1>1. 2 * Len(Satellites) \in Nat
  BY UpdateAssumption, LenProperties DEF UpdateAssumption
<1>2. EpochParts \in [1..2 * Len(Satellites) -> ToSet(EpochParts)]
  BY DEF EpochParts, ToSet
<1>3. QED BY <1>1, <1>2, IsASeq

LEMMA EkfParts ==
    ASSUME NEW m \in EkfModels
    PROVE  IF m = GnssTightlyCoupled THEN m.parts = EpochParts ELSE Proper(m)
<1>1. GnssTightlyCoupled.parts = EpochParts
  BY DEF Model, GnssTightlyCoupled
<1>2. /\ Proper(GnssLooselyCoupled) /\ Proper(Barometer) /\ Proper(Magnetometer)
      /\ Proper(WheelOdometry) /\ Proper(Airspeed) /\ Proper(OpticalFlow)
      /\ Proper(RadarAltimeter) /\ Proper(RangeFinder) /\ Proper(Dvl)
      /\ Proper(EchoSounder) /\ Proper(ExternalVelocity) /\ Proper(StarTracker)
  BY OneTwoThree DEF GnssLooselyCoupled, Barometer, Magnetometer, WheelOdometry, Airspeed, OpticalFlow,
      RadarAltimeter, RangeFinder, Dvl, EchoSounder, ExternalVelocity, StarTracker
<1>3. Proper(ExternalPose)
  BY OneTwoThree DEF ExternalPose
<1>4. Proper(ExternalOdometry) /\ Proper(AidingSolution)
  BY OneTwoThree DEF ExternalOdometry, AidingSolution
<1>5. QED BY <1>1, <1>2, <1>3, <1>4 DEF EkfModels

-----------------------------------------------------------------------------
(* Dispatch.                                                               *)

LEMMA SensorsOfModels ==
    /\ \A k \in Sensors : \E m \in EkfModels : m.kind = k
    /\ \A k \in Sensors \ {"range"} : \E m \in UkfModels : m.kind = k
    /\ \A m \in UkfModels : m.kind # "range"
    /\ "epoch" \notin Sensors
<1>1. \A k \in Sensors : \E m \in EkfModels : m.kind = k
  BY DEF Sensors
<1>2. \A k \in Sensors \ {"range"} : \E m \in UkfModels : m.kind = k
  <2>1. \A m \in EkfModels : m.kind \in {"range", "epoch"} \/ \E n \in UkfModels : n.kind = m.kind
    BY EkfKinds, UkfKinds DEF EkfModels, UkfModels
  <2>2. QED BY <2>1 DEF Sensors
<1>3. \A m \in UkfModels : m.kind # "range"
  BY UkfKinds DEF UkfModels
<1>4. QED BY <1>1, <1>2, <1>3 DEF Sensors

\* A model that a measurement is dispatched to is registered and of its kind.
LEMMA HandlerIsRegistered ==
    ASSUME NEW kind, Handlers(kind) # {}
    PROVE  HandlerOf(kind) \in BuildEstimator(config) /\ HandlerOf(kind).kind = kind
<1>1. HandlerOf(kind) \in Handlers(kind)
  BY DEF HandlerOf
<1>2. QED BY <1>1 DEF Handlers

\* The factories register a model for every sensor that is to be heard, and for no other.
LEMMA HeardHaveHandlers ==
    ASSUME config \in Configs, NEW kind
    PROVE  kind \in Heard <=> Handlers(kind) # {}
<1>1. config.enabled \subseteq Sensors
  BY EnabledAssumption DEF EnabledAssumption, Configs
<1>2. CASE config.backend = "ukf"
  <2>1. Handlers(kind) = {m \in UkfModels : m.kind \in config.enabled /\ m.kind = kind}
    BY <1>2 DEF Handlers, BuildEstimator, BuildUkfEstimator
  <2>2. Heard = config.enabled \ {"range"}
    BY <1>2 DEF Heard
  <2>3. QED BY <1>1, <2>1, <2>2, SensorsOfModels
<1>3. CASE config.backend = "ekf"
  <2>1. Handlers(kind) = {m \in EkfModels : m.kind \in Heard /\ m.kind = kind}
    BY <1>3 DEF Handlers, BuildEstimator, BuildEkfEstimator, Heard
  <2>2. ASSUME kind \in Heard PROVE \E m \in EkfModels : m.kind = kind
    <3>1. kind \in Sensors \cup {"epoch", "gnss"}
      BY <1>1, <1>3, <2>2 DEF Heard
    <3>2. GnssTightlyCoupled \in EkfModels /\ GnssLooselyCoupled \in EkfModels
      BY DEF EkfModels
    <3>3. QED BY <3>1, <3>2, SensorsOfModels, EkfKinds
  <2>3. QED BY <2>1, <2>2
<1>4. QED BY <1>2, <1>3 DEF Configs

LEMMA EkfHandler ==
    ASSUME config.backend = "ekf", NEW kind, Handlers(kind) # {}
    PROVE  /\ HandlerOf(kind) \in EkfModels
           /\ ToSet(HandlerOf(kind).parts) = PartsOf(kind)
           /\ HandlerOf(kind).parts \in Seq(PartsOf(kind))
           /\ PartsOf(kind) \subseteq Parts
           /\ kind # "epoch" => PartsOf(kind) # {}
           /\ kind = "epoch" => PartsOf(kind) = ToSet(EpochParts)
<1> DEFINE h == HandlerOf(kind)
<1>1. h \in EkfModels /\ h.kind = kind
  BY HandlerIsRegistered DEF BuildEstimator, BuildEkfEstimator
<1>2. {n \in EkfModels : n.kind = kind} = {h}
  BY <1>1, KindsAreDistinct
<1>3. PartsOf(kind) = ToSet(h.parts)
  BY <1>2 DEF PartsOf
<1>4. PartsOf(kind) \subseteq Parts
  BY <1>1, <1>3 DEF Parts
<1>5. kind = "epoch" <=> h = GnssTightlyCoupled
  <2>1. GnssTightlyCoupled \in EkfModels /\ GnssTightlyCoupled.kind = "epoch"
    BY EkfKinds DEF EkfModels
  <2>2. QED BY <1>1, <2>1, KindsAreDistinct
<1>6. IF h = GnssTightlyCoupled THEN h.parts = EpochParts ELSE Proper(h)
  BY <1>1, EkfParts
<1>7. h.parts \in Seq(ToSet(h.parts))
  BY <1>6, EpochPartsSequence DEF Proper
<1>8. ASSUME kind # "epoch" PROVE ToSet(h.parts) # {}
  <2>1. h.parts # <<>>
    BY <1>5, <1>6, <1>8 DEF Proper
  <2>2. QED BY <1>7, <2>1, HeadAndTail
<1>9. QED BY <1>1, <1>3, <1>4, <1>5, <1>6, <1>7, <1>8

-----------------------------------------------------------------------------
(* Types.                                                                  *)

LEMMA MeasurementFields ==
    ASSUME NEW m \in Measurements
    PROVE  m.kind \in Kinds /\ m.outliers \subseteq m.parts
BY DEF Measurements

LEMMA TypeInit == Init => TypeOK
<1>1. {"ltp"} \subseteq {"ltp", "clock"} /\ <<>> \in Seq(Parts)
  BY EmptySeq
<1>2. QED BY <1>1 DEF Init, TypeOK, NoMeasurement

LEMMA TypeStep == TypeOK /\ [Next]_vars => TypeOK'
<1> SUFFICES ASSUME TypeOK, [Next]_vars PROVE TypeOK'
  OBVIOUS
<1> USE DEF TypeOK
<1>1. ASSUME NEW m \in Measurements, TryInitialiseFromGnss(m) PROVE TypeOK'
  BY <1>1 DEF TryInitialiseFromGnss, Call, Returns, ReferencesAtFix, filter
<1>2. ASSUME NEW m \in Measurements, TooEarly(m) \/ NoModelMatched(m) \/ Refused(m) PROVE TypeOK'
  BY <1>2 DEF TooEarly, NoModelMatched, Refused, Call, Returns, filter
<1>3. ASSUME NEW m \in Measurements, EkfApply(m) PROVE TypeOK'
  <2>1. HandlerOf(m.kind).parts \in Seq(Parts)
    BY <1>3, EkfHandler, SeqMonotonic DEF EkfApply, Usable
  <2>2. QED BY <1>3, <2>1 DEF EkfApply, Call, filter
<1>4. ASSUME NEW m \in Measurements, ApplyMeasurementModel(m) \/ PredictionAborts(m) PROVE TypeOK'
  BY <1>4 DEF ApplyMeasurementModel, PredictionAborts, Call, UkfReturn, filter
<1>5. CASE EkfUpdate
  <2>1. Head(todo) \in Parts /\ Tail(todo) \in Seq(Parts)
    BY <1>5, HeadAndTail DEF EkfUpdate
  <2>2. QED BY <1>5, <2>1 DEF EkfUpdate, Present
<1>6. CASE EkfReturn
  BY <1>6 DEF EkfReturn, Left
<1>7. CASE Reset
  BY <1>7 DEF Reset, Returns
<1>8. CASE UNCHANGED vars
  BY <1>8 DEF vars, filter
<1>9. QED BY <1>1, <1>2, <1>3, <1>4, <1>5, <1>6, <1>7, <1>8 DEF Next

\* Types, and that todo is empty between calls.
THEOREM UpdateTypeCorrect == Spec => []TypeOK
BY TypeInit, TypeStep, PTL DEF Spec

-----------------------------------------------------------------------------
(* The gate.                                                               *)

\* An outlier never corrects an EKF whose gates are on.
THEOREM GateCorrect == Spec => []GateHolds
<1>1. Init => GateHolds
  BY DEF Init, GateHolds
<1>2. GateHolds /\ [Next]_vars => GateHolds'
  <2> SUFFICES ASSUME GateHolds, [Next]_vars PROVE GateHolds'
    OBVIOUS
  <2> USE DEF GateHolds
  <2>1. ASSUME NEW m \in Measurements,
               \/ TryInitialiseFromGnss(m) \/ TooEarly(m) \/ NoModelMatched(m) \/ Refused(m) \/ EkfApply(m)
        PROVE  GateHolds'
    BY <2>1 DEF TryInitialiseFromGnss, TooEarly, NoModelMatched, Refused, EkfApply, Returns, Call
  <2>2. ASSUME NEW m \in Measurements, ApplyMeasurementModel(m) \/ PredictionAborts(m) PROVE GateHolds'
    BY <2>2 DEF ApplyMeasurementModel, PredictionAborts, Call
  <2>3. CASE EkfUpdate
    BY <2>3 DEF EkfUpdate, PassesGate
  <2>4. CASE EkfReturn \/ Reset \/ UNCHANGED vars
    BY <2>4 DEF EkfReturn, Reset, Returns, vars, filter
  <2>5. QED BY <2>1, <2>2, <2>3, <2>4 DEF Next
<1>3. QED BY <1>1, <1>2, PTL DEF Spec

-----------------------------------------------------------------------------
(* References.                                                             *)

\* An initialised filter has the references of its configuration.
ReferencesOfConfig ==
    initialised => references = ReferencesAtFix /\ result # "NotInitialized"

LEMMA NothingMissing ==
    ASSUME TypeOK, initialised, ReferencesOfConfig, NEW m \in Measurements, Handlers(m.kind) # {}
    PROVE  Missing(m) = {}
<1> DEFINE h == HandlerOf(m.kind)
<1>1. h \in BuildEstimator(config) /\ h.kind = m.kind
  BY HandlerIsRegistered
<1>2. references = ReferencesAtFix /\ "ltp" \in references
  BY DEF ReferencesOfConfig, ReferencesAtFix
<1>3. CASE h.needs \subseteq {"ltp"}
  BY <1>2, <1>3 DEF Missing
<1>4. CASE ~(h.needs \subseteq {"ltp"})
  <2>1. config.backend = "ekf" /\ h \in BuildEkfEstimator(config)
    BY <1>1, <1>4, UkfNeeds DEF BuildEstimator, BuildUkfEstimator
  <2>2. h = GnssTightlyCoupled /\ h.needs = {"ltp", "clock"} /\ h.kind = "epoch"
    BY <1>4, <2>1, EkfNeeds, EkfKinds DEF BuildEkfEstimator
  <2>3. "epoch" \notin config.enabled
    BY SensorsOfModels, EnabledAssumption DEF TypeOK, Configs, EnabledAssumption
  <2>4. config.tight /\ "gnss" \in config.enabled
    BY <2>1, <2>2, <2>3 DEF BuildEkfEstimator, TypeOK, Configs
  <2>5. QED BY <1>2, <2>1, <2>2, <2>4 DEF Missing, ReferencesAtFix
<1>5. QED BY <1>3, <1>4

LEMMA ReferencesStep == TypeOK /\ ReferencesOfConfig /\ [Next]_vars => ReferencesOfConfig'
<1> SUFFICES ASSUME TypeOK, ReferencesOfConfig, [Next]_vars PROVE ReferencesOfConfig'
  OBVIOUS
<1> USE DEF ReferencesOfConfig, ReferencesAtFix
<1>1. ASSUME NEW m \in Measurements, TryInitialiseFromGnss(m) PROVE ReferencesOfConfig'
  BY <1>1 DEF TryInitialiseFromGnss, Call, Returns
<1>2. ASSUME NEW m \in Measurements, TooEarly(m) \/ NoModelMatched(m) PROVE ReferencesOfConfig'
  BY <1>2 DEF TooEarly, NoModelMatched, Call, Returns, filter
<1>3. ASSUME NEW m \in Measurements, Refused(m) PROVE ReferencesOfConfig'
  <2>1. Missing(m) = {}
    BY <1>3, NothingMissing DEF Refused
  <2>2. QED BY <1>3, <2>1 DEF Refused, Call, Returns, filter
<1>4. ASSUME NEW m \in Measurements, EkfApply(m) PROVE ReferencesOfConfig'
  BY <1>4 DEF EkfApply, Call, filter
<1>5. ASSUME NEW m \in Measurements, ApplyMeasurementModel(m) \/ PredictionAborts(m) PROVE ReferencesOfConfig'
  BY <1>5 DEF ApplyMeasurementModel, PredictionAborts, Call, UkfReturn, filter
<1>6. CASE EkfUpdate \/ EkfReturn
  BY <1>6 DEF EkfUpdate, EkfReturn
<1>7. CASE Reset \/ UNCHANGED vars
  BY <1>7 DEF Reset, Returns, vars, filter
<1>8. QED BY <1>1, <1>2, <1>3, <1>4, <1>5, <1>6, <1>7 DEF Next

LEMMA ReferencesInvariant == Spec => []ReferencesOfConfig
<1>1. Init => ReferencesOfConfig
  BY DEF Init, ReferencesOfConfig
<1>2. QED BY <1>1, UpdateTypeCorrect, ReferencesStep, PTL DEF Spec

\* After the first fix no model answers NotInitialized.
THEOREM ReferencesCorrect == Spec => []ReferencesSet
<1>1. ReferencesOfConfig => ReferencesSet
  BY DEF ReferencesOfConfig, ReferencesSet
<1>2. QED BY <1>1, ReferencesInvariant, PTL

-----------------------------------------------------------------------------
(* While Apply() runs.                                                     *)

\* What is left to look at and what was used belong to the measurement; all of
\* a sound one is used in the end.
ApplyingInv ==
    applying =>
        /\ config.backend = "ekf" /\ Handlers(measurement.kind) # {}
        /\ todo \in Seq(PartsOf(measurement.kind))
        /\ ToSet(todo) \cup used \subseteq PartsOf(measurement.kind)
        /\ measurement.outliers = {} /\ measurement.parts = PartsOf(measurement.kind)
           => PartsOf(measurement.kind) \subseteq ToSet(todo) \cup used

LEMMA ApplyingStep == TypeOK /\ ApplyingInv /\ [Next]_vars => ApplyingInv'
<1> SUFFICES ASSUME TypeOK, ApplyingInv, [Next]_vars PROVE ApplyingInv'
  OBVIOUS
<1>1. ASSUME NEW m \in Measurements,
             \/ TryInitialiseFromGnss(m) \/ TooEarly(m) \/ NoModelMatched(m) \/ Refused(m)
             \/ ApplyMeasurementModel(m) \/ PredictionAborts(m)
      PROVE  ApplyingInv'
  BY <1>1 DEF ApplyingInv, TryInitialiseFromGnss, TooEarly, NoModelMatched, Refused, ApplyMeasurementModel,
              PredictionAborts, Call, Returns, UkfReturn
<1>2. ASSUME NEW m \in Measurements, EkfApply(m) PROVE ApplyingInv'
  <2>1. /\ measurement' = m /\ config' = config /\ config.backend = "ekf" /\ Handlers(m.kind) # {}
        /\ todo' = HandlerOf(m.kind).parts /\ used' = {}
    BY <1>2 DEF EkfApply, Call, Usable
  <2>2. /\ ToSet(todo') = PartsOf(m.kind) /\ todo' \in Seq(PartsOf(m.kind))
    BY <2>1, EkfHandler
  <2>3. Handlers(m.kind)' = Handlers(m.kind)
    BY <2>1 DEF Handlers, BuildEstimator
  <2>4. QED BY <2>1, <2>2, <2>3 DEF ApplyingInv, Handlers, BuildEstimator
<1>3. CASE EkfUpdate
  <2>1. /\ applying /\ todo # <<>> /\ todo' = Tail(todo)
        /\ config' = config /\ measurement' = measurement /\ applying' = applying
    BY <1>3 DEF EkfUpdate
  <2>2. /\ todo \in Seq(PartsOf(measurement.kind)) /\ ToSet(todo) \cup used \subseteq PartsOf(measurement.kind)
        /\ config.backend = "ekf" /\ Handlers(measurement.kind) # {}
    BY <2>1 DEF ApplyingInv
  <2>3. /\ Tail(todo) \in Seq(PartsOf(measurement.kind))
        /\ ToSet(todo) = {Head(todo)} \cup ToSet(Tail(todo))
    BY <2>1, <2>2, HeadAndTail
  <2>4. used' \in {used, used \cup {Head(todo)}}
    BY <1>3 DEF EkfUpdate
  <2>5. ASSUME measurement.outliers = {}, measurement.parts = PartsOf(measurement.kind)
        PROVE  used' = used \cup {Head(todo)}
    BY <1>3, <2>2, <2>3, <2>5 DEF EkfUpdate, Present, PassesGate
  <2>6. ASSUME measurement.outliers = {}, measurement.parts = PartsOf(measurement.kind)
        PROVE  PartsOf(measurement.kind) \subseteq ToSet(todo') \cup used'
    BY <2>1, <2>3, <2>5, <2>6 DEF ApplyingInv
  <2>7. ToSet(todo') \cup used' \subseteq PartsOf(measurement.kind)
    BY <2>1, <2>2, <2>3, <2>4
  <2>8. QED BY <2>1, <2>2, <2>3, <2>6, <2>7 DEF ApplyingInv, Handlers, BuildEstimator
<1>4. CASE EkfReturn \/ Reset
  BY <1>4 DEF EkfReturn, Reset, Returns, ApplyingInv
<1>5. CASE UNCHANGED vars
  BY <1>5 DEF vars, filter, ApplyingInv, Handlers, BuildEstimator
<1>6. QED BY <1>1, <1>2, <1>3, <1>4, <1>5 DEF Next

LEMMA ApplyingInvariant == Spec => []ApplyingInv
<1>1. Init => ApplyingInv
  BY DEF Init, ApplyingInv
<1>2. QED BY <1>1, UpdateTypeCorrect, ApplyingStep, PTL DEF Spec

-----------------------------------------------------------------------------
(* The error vector.                                                       *)

ErrorInv == errorState \subseteq ToSet(EpochParts) \cup (IF applying THEN used ELSE {})

LEMMA ErrorStep == ApplyingInv /\ ErrorInv /\ [Next]_vars => ErrorInv'
<1> SUFFICES ASSUME ApplyingInv, ErrorInv, [Next]_vars PROVE ErrorInv'
  OBVIOUS
<1> USE DEF ErrorInv
<1>1. ASSUME NEW m \in Measurements, TryInitialiseFromGnss(m) PROVE ErrorInv'
  BY <1>1 DEF TryInitialiseFromGnss, Call, Returns
<1>2. ASSUME NEW m \in Measurements, TooEarly(m) \/ NoModelMatched(m) \/ Refused(m) PROVE ErrorInv'
  BY <1>2 DEF TooEarly, NoModelMatched, Refused, Call, Returns, filter
<1>3. ASSUME NEW m \in Measurements, EkfApply(m) PROVE ErrorInv'
  BY <1>3 DEF EkfApply, Call, filter
<1>4. ASSUME NEW m \in Measurements, ApplyMeasurementModel(m) \/ PredictionAborts(m) PROVE ErrorInv'
  BY <1>4 DEF ApplyMeasurementModel, PredictionAborts, Call, UkfReturn, filter
<1>5. CASE EkfUpdate
  BY <1>5 DEF EkfUpdate
<1>6. CASE EkfReturn
  <2>1. CASE EnoughUsed
    BY <1>6, <2>1 DEF EkfReturn, Left
  <2>2. CASE ~EnoughUsed
    <3>1. CASE measurement.kind = "epoch"
      <4>1. used \subseteq ToSet(EpochParts)
        BY <1>6, <3>1, EkfHandler DEF EkfReturn, ApplyingInv
      <4>2. QED BY <1>6, <2>2, <4>1 DEF EkfReturn
    <3>2. CASE measurement.kind # "epoch"
      BY <1>6, <2>2, <3>2 DEF EkfReturn, EnoughUsed
    <3>3. QED BY <3>1, <3>2
  <2>3. QED BY <2>1, <2>2
<1>7. CASE Reset \/ UNCHANGED vars
  BY <1>7 DEF Reset, Returns, vars, filter
<1>8. QED BY <1>1, <1>2, <1>3, <1>4, <1>5, <1>6, <1>7 DEF Next

\* Between calls only a refused epoch has left corrections in the error vector.
THEOREM OnlyEpochsLeave == Spec => []OnlyEpochsLeaveCorrections
<1>1. Init => ErrorInv
  BY DEF Init, ErrorInv
<1>2. ErrorInv => OnlyEpochsLeaveCorrections
  BY DEF ErrorInv, OnlyEpochsLeaveCorrections, Returned
<1>3. QED BY <1>1, <1>2, ApplyingInvariant, ErrorStep, PTL DEF Spec

-----------------------------------------------------------------------------
(* The report.                                                             *)

LEMMA ReportStep == ReportTruthful /\ [Next]_vars => ReportTruthful'
<1> SUFFICES ASSUME ReportTruthful, [Next]_vars PROVE ReportTruthful'
  OBVIOUS
<1> USE DEF ReportTruthful, Returned
<1>1. ASSUME NEW m \in Measurements, TryInitialiseFromGnss(m) PROVE ReportTruthful'
  BY <1>1 DEF TryInitialiseFromGnss, Call, Returns
<1>2. ASSUME NEW m \in Measurements, TooEarly(m) \/ NoModelMatched(m) \/ Refused(m) PROVE ReportTruthful'
  BY <1>2 DEF TooEarly, NoModelMatched, Refused, Call, Returns
<1>3. ASSUME NEW m \in Measurements, EkfApply(m) \/ ApplyMeasurementModel(m) \/ PredictionAborts(m)
      PROVE  ReportTruthful'
  BY <1>3 DEF EkfApply, ApplyMeasurementModel, PredictionAborts, Call, UkfReturn
<1>4. CASE EkfUpdate
  BY <1>4 DEF EkfUpdate
<1>5. CASE EkfReturn
  <2>1. ASSUME measurement.kind = "epoch", EnoughUsed, MinSatellites > 0 PROVE used # {}
    <3>1. SUFFICES ASSUME used = {} PROVE FALSE
      OBVIOUS
    <3> DEFINE counted == {s \in ToSet(Satellites) : Pseudorange(s) \in used}
    <3>2. counted = {}
      BY <3>1
    <3>3. Cardinality(counted) >= MinSatellites
      BY <2>1 DEF EnoughUsed
    <3>4. Cardinality(counted) = 0
      BY <3>2, FS_EmptySet
    <3>5. QED BY <2>1, <3>3, <3>4, UpdateAssumption DEF UpdateAssumption
  <2>2. measurement.kind # "epoch" => (EnoughUsed <=> used # {})
    BY DEF EnoughUsed
  <2>3. QED BY <1>5, <2>1, <2>2 DEF EkfReturn
<1>6. CASE Reset \/ UNCHANGED vars
  BY <1>6 DEF Reset, Returns, vars, filter
<1>7. QED BY <1>1, <1>2, <1>3, <1>4, <1>5, <1>6 DEF Next

\* Accepted means that a part was used, a refusal that none was.
THEOREM ReportCorrect == Spec => []ReportTruthful
<1>1. Init => ReportTruthful
  BY DEF Init, ReportTruthful
<1>2. QED BY <1>1, ReportStep, PTL DEF Spec

-----------------------------------------------------------------------------
(* Sensors as configured.                                                  *)

LEMMA NoneIsNoFlaw ==
    ASSUME NEW m \in EkfModels \cup UkfModels
    PROVE  "none" \notin m.flaws
<1>1. /\ "none" \notin GnssLooselyCoupled.flaws /\ "none" \notin GnssTightlyCoupled.flaws
      /\ "none" \notin Barometer.flaws /\ "none" \notin Magnetometer.flaws
      /\ "none" \notin WheelOdometry.flaws /\ "none" \notin Airspeed.flaws
      /\ "none" \notin OpticalFlow.flaws /\ "none" \notin RadarAltimeter.flaws
      /\ "none" \notin RangeFinder.flaws /\ "none" \notin Dvl.flaws
      /\ "none" \notin EchoSounder.flaws /\ "none" \notin ExternalPose.flaws
      /\ "none" \notin ExternalVelocity.flaws /\ "none" \notin ExternalOdometry.flaws
      /\ "none" \notin AidingSolution.flaws /\ "none" \notin StarTracker.flaws
  BY DEF Model, GnssLooselyCoupled, GnssTightlyCoupled, Barometer, Magnetometer, WheelOdometry,
         Airspeed, OpticalFlow, RadarAltimeter, RangeFinder, Dvl, EchoSounder,
         ExternalPose, ExternalVelocity, ExternalOdometry, AidingSolution, StarTracker
<1>2. /\ "none" \notin UkfGnssLooselyCoupled.flaws /\ "none" \notin UkfBarometer.flaws
      /\ "none" \notin UkfMagnetometer.flaws /\ "none" \notin UkfWheelOdometry.flaws
      /\ "none" \notin UkfAirspeed.flaws /\ "none" \notin UkfOpticalFlow.flaws
      /\ "none" \notin UkfRadarAltimeter.flaws /\ "none" \notin UkfDvl.flaws
      /\ "none" \notin UkfEchoSounder.flaws /\ "none" \notin UkfExternalPose.flaws
      /\ "none" \notin UkfExternalVelocity.flaws /\ "none" \notin UkfExternalOdometry.flaws
      /\ "none" \notin UkfAidingSolution.flaws /\ "none" \notin UkfStarTracker.flaws
  BY DEF Model, UkfGnssLooselyCoupled, UkfBarometer, UkfMagnetometer, UkfWheelOdometry, UkfAirspeed,
         UkfOpticalFlow, UkfRadarAltimeter, UkfDvl, UkfEchoSounder, UkfExternalPose,
         UkfExternalVelocity, UkfExternalOdometry, UkfAidingSolution, UkfStarTracker
<1>3. QED BY <1>1, <1>2 DEF EkfModels, UkfModels

LEMMA SensorsHaveParts ==
    ASSUME NEW kind \in Sensors
    PROVE  PartsOf(kind) # {}
<1>1. PICK m \in EkfModels : m.kind = kind
  BY SensorsOfModels
<1>2. m # GnssTightlyCoupled
  BY <1>1, SensorsOfModels, EkfKinds
<1>3. m.parts \in Seq(ToSet(m.parts)) /\ m.parts # <<>>
  BY <1>1, <1>2, EkfParts DEF Proper
<1>4. ToSet(m.parts) # {}
  BY <1>3, HeadAndTail
<1>5. QED BY <1>1, <1>4 DEF PartsOf

\* An aiding solution with all its parts has the nine rows of the prediction.
LEMMA WholeAidingSolution == Cardinality(PartsOf("aiding")) = Len(UkfAidingSolution.parts)
<1>1. {n \in EkfModels : n.kind = "aiding"} = {AidingSolution}
  BY EkfKinds DEF EkfModels
<1>2. /\ AidingSolution.parts = <<<<Whole, "position">>, <<Whole, "velocity">>, <<Whole, "attitude">>>>
      /\ Len(UkfAidingSolution.parts) = 3
  BY DEF Model, AidingSolution, UkfAidingSolution
<1>3. PartsOf("aiding") = {<<Whole, "position">>, <<Whole, "velocity">>, <<Whole, "attitude">>}
  BY <1>1, <1>2 DEF PartsOf, ToSet
<1>4. ASSUME NEW p, NEW v, NEW a, p # v, p # a, v # a PROVE Cardinality({p, v, a}) = 3
  <2>1. Cardinality({p}) = 1 /\ IsFiniteSet({p})
    BY FS_Singleton
  <2>2. {p} \cup {v} = {p, v} /\ {p, v} \cup {a} = {p, v, a} /\ v \notin {p} /\ a \notin {p, v}
    BY <1>4
  <2>3. Cardinality({p, v}) = 2 /\ IsFiniteSet({p, v})
    BY <2>1, <2>2, FS_AddElement
  <2>4. QED BY <2>2, <2>3, FS_AddElement
<1>5. <<Whole, "position">> # <<Whole, "velocity">> /\ <<Whole, "position">> # <<Whole, "attitude">>
      /\ <<Whole, "velocity">> # <<Whole, "attitude">>
  OBVIOUS
<1>6. Cardinality({<<Whole, "position">>, <<Whole, "velocity">>, <<Whole, "attitude">>}) = 3
  BY <1>4, <1>5, Zenon
<1>7. QED BY <1>2, <1>3, <1>6

\* Every satellite of an epoch has its pseudorange among the parts.
LEMMA WholeEpoch ==
    /\ \A s \in ToSet(Satellites) : Pseudorange(s) \in ToSet(EpochParts)
    /\ Cardinality(ToSet(Satellites)) = Len(Satellites)
<1>1. Len(Satellites) \in Nat /\ DOMAIN Satellites = 1..Len(Satellites)
  BY UpdateAssumption, LenProperties DEF UpdateAssumption
<1>2. ASSUME NEW s \in ToSet(Satellites) PROVE Pseudorange(s) \in ToSet(EpochParts)
  <2>1. PICK i \in 1..Len(Satellites) : s = Satellites[i]
    BY <1>1 DEF ToSet
  <2> DEFINE j == 2 * i - 1
  <2>2. j \in 1..2 * Len(Satellites) /\ (j + 1) \div 2 = i /\ j % 2 = 1
    BY <1>1
  <2>3. EpochParts[j] = Pseudorange(s) /\ j \in DOMAIN EpochParts
    BY <2>1, <2>2 DEF EpochParts
  <2>4. QED BY <2>3 DEF ToSet
<1>3. Cardinality(ToSet(Satellites)) = Len(Satellites)
  <2>1. Satellites \in Bijection(1..Len(Satellites), ToSet(Satellites))
    BY <1>1, UpdateAssumption DEF UpdateAssumption, ToSet, Bijection, Injection, Surjection
  <2>2. QED BY <1>1, <2>1, FS_CountingElements DEF ExistsBijection
<1>4. QED BY <1>2, <1>3

Sound(m) ==
    /\ m.kind \in Heard /\ m.flaw = "none"
    /\ m.parts = PartsOf(m.kind) /\ m.outliers = {}
    /\ MinSatellites <= Len(Satellites)

ConfiguredInv ==
    /\ applying \/ used # {} => measurement.kind \in Heard
    /\ ~applying /\ initialised /\ Sound(measurement) => result = "Accepted"

LEMMA SoundIsUsable ==
    ASSUME TypeOK, ReferencesOfConfig, initialised, NEW m \in Measurements, Sound(m)
    PROVE  Usable(m) /\ (m.kind = "aiding" => ~(Cardinality(m.parts) < Len(UkfAidingSolution.parts)))
<1> DEFINE h == HandlerOf(m.kind)
<1>1. Handlers(m.kind) # {}
  BY HeardHaveHandlers DEF Sound, TypeOK
<1>2. Missing(m) = {}
  BY <1>1, NothingMissing
<1>3. h \in EkfModels \cup UkfModels /\ h.kind = m.kind
  BY <1>1, HandlerIsRegistered DEF BuildEstimator, BuildEkfEstimator, BuildUkfEstimator
<1>4. ~Flawed(m)
  BY <1>3, NoneIsNoFlaw DEF Sound, Flawed
<1>5. ~NothingToObserve(m)
  <2>1. CASE m.kind \in Sensors
    BY <2>1, SensorsHaveParts DEF Sound, NothingToObserve
  <2>2. CASE m.kind \notin Sensors
    <3>1. config.backend = "ekf"
      BY <2>2, EnabledAssumption DEF EnabledAssumption, Sound, Heard, TypeOK, Configs
    <3>2. m.kind = "epoch" /\ h = GnssTightlyCoupled
      <4>1. h \in EkfModels
        BY <1>1, <3>1, EkfHandler
      <4>2. m.kind = "epoch"
        BY <1>3, <2>2, <4>1 DEF Sensors
      <4>3. GnssTightlyCoupled \in EkfModels
        BY DEF EkfModels
      <4>4. QED BY <1>3, <4>1, <4>2, <4>3, KindsAreDistinct, EkfKinds
    <3>3. "no part" \notin GnssTightlyCoupled.flaws
      BY DEF Model, GnssTightlyCoupled
    <3>4. QED BY <3>2, <3>3 DEF NothingToObserve
  <2>3. QED BY <2>1, <2>2
<1>6. m.kind = "aiding" => Cardinality(m.parts) = Len(UkfAidingSolution.parts)
  BY WholeAidingSolution DEF Sound
<1>7. Len(UkfAidingSolution.parts) = 3
  BY DEF Model, UkfAidingSolution
<1>8. QED BY <1>1, <1>2, <1>4, <1>5, <1>6, <1>7 DEF Usable

LEMMA ConfiguredStep ==
    TypeOK /\ ReferencesOfConfig /\ ApplyingInv /\ ConfiguredInv /\ [Next]_vars => ConfiguredInv'
<1> SUFFICES ASSUME TypeOK, ReferencesOfConfig, ApplyingInv, ConfiguredInv, [Next]_vars
             PROVE  ConfiguredInv'
  OBVIOUS
<1>1. config' = config
  BY DEF Next, vars, TryInitialiseFromGnss, TooEarly, NoModelMatched, Refused, EkfApply,
         ApplyMeasurementModel, PredictionAborts, Call, EkfUpdate, EkfReturn, Reset
<1>2. Heard' = Heard
  BY <1>1 DEF Heard
<1>3. ASSUME NEW m \in Measurements, TryInitialiseFromGnss(m) PROVE ConfiguredInv'
  BY <1>3 DEF TryInitialiseFromGnss, Call, Returns, ConfiguredInv
<1>4. ASSUME NEW m \in Measurements, TooEarly(m) PROVE ConfiguredInv'
  BY <1>4 DEF TooEarly, Call, Returns, filter, ConfiguredInv
<1>5. ASSUME NEW m \in Measurements, NoModelMatched(m) \/ Refused(m) PROVE ConfiguredInv'
  <2>1. ~Sound(m)
    <3>1. CASE NoModelMatched(m)
      BY <3>1, HeardHaveHandlers DEF NoModelMatched, Sound, TypeOK
    <3>2. CASE Refused(m)
      BY <3>2, SoundIsUsable DEF Refused, Usable
    <3>3. QED BY <1>5, <3>1, <3>2
  <2>2. measurement' = m /\ used' = {} /\ ~applying'
    BY <1>5 DEF NoModelMatched, Refused, Call, Returns
  <2>3. QED BY <1>2, <2>1, <2>2 DEF ConfiguredInv, Sound
<1>6. ASSUME NEW m \in Measurements, EkfApply(m) PROVE ConfiguredInv'
  BY <1>2, <1>6, HeardHaveHandlers DEF EkfApply, Usable, Call, ConfiguredInv, TypeOK
<1>7. ASSUME NEW m \in Measurements, ApplyMeasurementModel(m) PROVE ConfiguredInv'
  BY <1>2, <1>7, HeardHaveHandlers DEF ApplyMeasurementModel, Usable, Call, UkfReturn, ConfiguredInv, TypeOK
<1>8. ASSUME NEW m \in Measurements, PredictionAborts(m) PROVE ConfiguredInv'
  <2>1. m.kind \in Heard /\ ~Sound(m)
    BY <1>8, HeardHaveHandlers, SoundIsUsable DEF PredictionAborts, Usable, TypeOK
  <2>2. measurement' = m
    BY <1>8 DEF PredictionAborts, Call
  <2>3. QED BY <1>2, <2>1, <2>2 DEF ConfiguredInv, Sound
<1>9. CASE EkfUpdate
  BY <1>2, <1>9 DEF EkfUpdate, ConfiguredInv
<1>10. CASE EkfReturn
  <2>1. applying /\ todo = <<>> /\ measurement' = measurement /\ used' = used
    BY <1>10 DEF EkfReturn
  <2>2. ASSUME Sound(measurement) PROVE EnoughUsed
    <3>1. PartsOf(measurement.kind) \subseteq used
      BY <2>1, <2>2 DEF Sound, ApplyingInv, ToSet
    <3>2. CASE measurement.kind = "epoch"
      <4>1. ToSet(EpochParts) \subseteq used
        BY <2>1, <3>1, <3>2, EkfHandler DEF ApplyingInv
      <4>2. {s \in ToSet(Satellites) : Pseudorange(s) \in used} = ToSet(Satellites)
        BY <4>1, WholeEpoch
      <4>3. QED BY <2>2, <3>2, <4>2, WholeEpoch, UpdateAssumption, LenProperties
                DEF EnoughUsed, Sound, UpdateAssumption
    <3>3. CASE measurement.kind # "epoch"
      BY <2>1, <3>1, <3>3, EkfHandler DEF ApplyingInv, EnoughUsed
    <3>4. QED BY <3>2, <3>3
  <2>3. Sound(measurement)' <=> Sound(measurement)
    BY <1>2, <2>1 DEF Sound
  <2>4. QED BY <1>2, <1>10, <2>1, <2>2, <2>3 DEF EkfReturn, ConfiguredInv
<1>11. CASE Reset
  BY <1>11 DEF Reset, Returns, ConfiguredInv
<1>12. CASE UNCHANGED vars
  BY <1>2, <1>12 DEF vars, filter, ConfiguredInv, Sound
<1>13. QED BY <1>3, <1>4, <1>5, <1>6, <1>7, <1>8, <1>9, <1>10, <1>11, <1>12 DEF Next

\* From the first fix on an enabled sensor is heard, whatever the choice of
\* sensors, mode and filter, and a disabled one is not.
THEOREM ConfiguredCorrect == Spec => []SensorsAsConfigured
<1>1. Init => ConfiguredInv
  BY DEF Init, ConfiguredInv
<1>2. ConfiguredInv => SensorsAsConfigured
  BY DEF ConfiguredInv, SensorsAsConfigured, Sound, Returned
<1>3. QED BY <1>1, <1>2, UpdateTypeCorrect, ReferencesInvariant, ApplyingInvariant, ConfiguredStep, PTL DEF Spec
=============================================================================
