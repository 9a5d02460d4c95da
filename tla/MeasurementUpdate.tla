-------------------------- MODULE MeasurementUpdate --------------------------
(***************************************************************************)
(* What the EKF and the UKF do with an aiding measurement: the models that *)
(* NavigationSystem registers for a configuration, the model a measurement *)
(* is dispatched to, its guards, its innovation gate, and what becomes of  *)
(* the correction.  Propagation to the measurement's time is FusionFilter. *)
(*                                                                         *)
(* A measurement is a kind, at most one flaw its model looks for, the      *)
(* parts it consists of, and those that are outliers: whose innovation is  *)
(* beyond the gate of the model's options.  A correction is the part it is *)
(* computed from.                                                          *)
(***************************************************************************)
EXTENDS Naturals, Sequences, SequencesExt, FiniteSets

CONSTANTS
    Satellites,     \* satellites of a tightly coupled epoch, in order: a sequence
    MinSatellites,  \* min_satellites
    EnabledSets     \* the sets of sensors that configurations enable

ASSUME UpdateAssumption ==
    /\ Satellites \in Seq(Nat \ {0}) /\ IsInjective(Satellites)
    /\ MinSatellites \in Nat

VARIABLES
    config,         \* NavigationSystemConfig: backend, tight, enabled, gated
    initialised,    \* initialised_
    references,     \* which of local_tangent_plane_ and nominal.gnss_clock are set
    measurement,    \* the measurement of the last call
    todo,           \* the parts that Apply() has yet to look at; <<>> between calls
    applying,       \* Apply() is running
    errorState,     \* error_state: corrections not folded into the nominal state
    result,         \* result of the last call
    used            \* history: parts the last call used

filter == <<initialised, references, errorState>>
vars == <<config, filter, measurement, todo, applying, result, used>>

-----------------------------------------------------------------------------
(* Measurement models: the kind CanHandle() asks for, what the kind needs  *)
(* set, the flaws for which Apply() or Observe() returns early, and the    *)
(* parts used, in order.  A part is a block of rows with a gate of its own.*)

Whole == 0  \* what a part is of, unless it is of a satellite
Model(kind, needs, flaws, names) ==
    [kind |-> kind, needs |-> needs, flaws |-> flaws,
     parts |-> [i \in DOMAIN names |-> <<Whole, names[i]>>]]

Pseudorange(s) == <<s, "pseudorange">>
Doppler(s) == <<s, "doppler">>
EpochParts ==
    [i \in 1..2 * Len(Satellites) |->
        LET s == Satellites[(i + 1) \div 2] IN IF i % 2 = 1 THEN Pseudorange(s) ELSE Doppler(s)]

GnssLooselyCoupled == Model("gnss", {"ltp"}, {"invalid", "no fix"}, <<"solution">>)
GnssTightlyCoupled ==
    [Model("epoch", {"ltp", "clock"}, {"invalid", "no satellite"}, <<>>) EXCEPT !.parts = EpochParts]
Barometer == Model("barometer", {}, {"invalid", "no reading"}, <<"altitude">>)
Magnetometer == Model("magnetometer", {}, {"invalid"}, <<"field">>)
WheelOdometry == Model("wheel", {}, {"invalid"}, <<"velocity">>)
Airspeed == Model("airspeed", {}, {"invalid", "negative", "at rest"}, <<"speed">>)
OpticalFlow == Model("flow", {}, {"invalid", "no interval", "on ground"}, <<"flow">>)
RadarAltimeter == Model("radar", {}, {"invalid", "no surface", "negative"}, <<"altitude">>)
RangeFinder == Model("range", {}, {"not used", "invalid", "negative"}, <<"altitude">>)
Dvl == Model("dvl", {}, {"invalid", "no bottom track"}, <<"velocity">>)
EchoSounder == Model("echo", {}, {"invalid", "negative"}, <<"depth">>)
ExternalPose == Model("pose", {"ltp"}, {"invalid"}, <<"position", "attitude">>)
ExternalVelocity == Model("velocity", {}, {"invalid"}, <<"velocity">>)
ExternalOdometry == Model("odometry", {"ltp"}, {"invalid"}, <<"position", "velocity", "attitude">>)
AidingSolution == Model("aiding", {"ltp"}, {"invalid", "low score"}, <<"position", "velocity", "attitude">>)
StarTracker == Model("star", {}, {"invalid"}, <<"attitude">>)

UkfGnssLooselyCoupled == Model("gnss", {"ltp"}, {"invalid", "no fix"}, <<"solution">>)
UkfBarometer == Model("barometer", {}, {"invalid", "no reading"}, <<"altitude">>)
UkfMagnetometer == Model("magnetometer", {}, {"invalid"}, <<"field">>)
UkfWheelOdometry == Model("wheel", {}, {"invalid"}, <<"velocity">>)
UkfAirspeed == Model("airspeed", {}, {"invalid", "negative"}, <<"speed">>)
UkfOpticalFlow == Model("flow", {}, {"invalid", "no interval", "on ground"}, <<"flow">>)
UkfRadarAltimeter == Model("radar", {}, {"invalid", "no surface", "negative"}, <<"altitude">>)
UkfDvl == Model("dvl", {}, {"invalid", "no bottom track"}, <<"velocity">>)
UkfEchoSounder == Model("echo", {}, {"invalid", "negative"}, <<"depth">>)
UkfExternalPose == Model("pose", {"ltp"}, {"invalid"}, <<"position", "attitude">>)
UkfExternalVelocity == Model("velocity", {}, {"invalid"}, <<"velocity">>)
UkfExternalOdometry == Model("odometry", {"ltp"}, {"invalid"}, <<"position", "velocity", "attitude">>)
\* Observe() also refuses an aiding solution of which no part is present.
UkfAidingSolution ==
    Model("aiding", {"ltp"}, {"invalid", "low score", "no part"}, <<"position", "velocity", "attitude">>)
UkfStarTracker == Model("star", {}, {"invalid"}, <<"attitude">>)

EkfModels ==
    {GnssLooselyCoupled, GnssTightlyCoupled, Barometer, Magnetometer, WheelOdometry, Airspeed,
     OpticalFlow, RadarAltimeter, RangeFinder, Dvl, EchoSounder, ExternalPose, ExternalVelocity,
     ExternalOdometry, AidingSolution, StarTracker}
UkfModels ==
    {UkfGnssLooselyCoupled, UkfBarometer, UkfMagnetometer, UkfWheelOdometry, UkfAirspeed,
     UkfOpticalFlow, UkfRadarAltimeter, UkfDvl, UkfEchoSounder, UkfExternalPose,
     UkfExternalVelocity, UkfExternalOdometry, UkfAidingSolution, UkfStarTracker}

-----------------------------------------------------------------------------
(* Configurations and measurements.                                        *)

Sensors == {m.kind : m \in EkfModels} \ {"epoch"}
Kinds == Sensors \cup {"epoch", "camera"}

ASSUME EnabledAssumption == EnabledSets \subseteq SUBSET Sensors

\* Gates are all on or all off.
Configs == [backend : {"ekf", "ukf"}, tight : BOOLEAN, gated : BOOLEAN, enabled : EnabledSets]

\* A mutant: the mode of integration is not looked at.
LooselyCoupledOnly(c) == {m \in EkfModels : m.kind \in c.enabled}

\* A receiver is fused from its solution or, tightly coupled, from its epochs.
BuildEkfEstimator(c) ==
    LET gnss == IF c.tight THEN "epoch" ELSE "gnss"
        kinds == (c.enabled \ {"gnss"}) \cup (IF "gnss" \in c.enabled THEN {gnss} ELSE {})
    IN  {m \in EkfModels : m.kind \in kinds}

\* Sensors without a UKF model are skipped.
BuildUkfEstimator(c) == {m \in UkfModels : m.kind \in c.enabled}

BuildEstimator(c) == IF c.backend = "ekf" THEN BuildEkfEstimator(c) ELSE BuildUkfEstimator(c)

Handlers(kind) == {m \in BuildEstimator(config) : m.kind = kind}
HandlerOf(kind) == CHOOSE m \in Handlers(kind) : TRUE

FlawsOf(kind) == UNION {m.flaws : m \in {n \in EkfModels \cup UkfModels : n.kind = kind}} \ {"no part"}
Parts == UNION {ToSet(m.parts) : m \in EkfModels}
PartsOf(kind) == UNION {ToSet(m.parts) : m \in {n \in EkfModels : n.kind = kind}}

\* A satellite whose Doppler is measured has a pseudorange; a satellite that is
\* not healthy, not valid or too close has neither.  Poses and odometry may
\* have parts switched off, aiding solutions parts missing.
CanConsistOf(kind, parts) ==
    CASE kind = "epoch" -> \A s \in ToSet(Satellites) : Doppler(s) \in parts => Pseudorange(s) \in parts
      [] kind \in {"pose", "odometry", "aiding"} -> TRUE
      [] OTHER -> parts = PartsOf(kind)

Measurements ==
    UNION {
        {[kind |-> k, flaw |-> f, parts |-> PartsOf(k), outliers |-> {}] : f \in FlawsOf(k)}
        \cup UNION {{[kind |-> k, flaw |-> "none", parts |-> p, outliers |-> o] : o \in SUBSET p} :
                        p \in {q \in SUBSET PartsOf(k) : CanConsistOf(k, q)}}
        : k \in Kinds}

NoMeasurement == [kind |-> "camera", flaw |-> "none", parts |-> {}, outliers |-> {}]

Init ==
    /\ config \in Configs
    /\ initialised = FALSE /\ references = {}
    /\ measurement = NoMeasurement
    /\ todo = <<>> /\ applying = FALSE
    /\ errorState = {}
    /\ result = "None" /\ used = {}

-----------------------------------------------------------------------------
(* AddMeasurement(), up to the model.                                      *)

\* A call begins; after an abort there is none.
Call(m) ==
    /\ ~applying /\ result # "Abort"
    /\ measurement' = m
    /\ UNCHANGED config

Returns(r) ==
    /\ result' = r
    /\ used' = {}
    /\ UNCHANGED <<todo, applying>>

\* The first valid fix sets the tangent plane, and the clock where the layout has one.
ReferencesAtFix ==
    {"ltp"} \cup {r \in {"clock"} : config.backend = "ekf" /\ config.tight /\ "gnss" \in config.enabled}

TryInitialiseFromGnss(m) ==
    /\ Call(m) /\ ~initialised /\ m.kind = "gnss"
    /\ initialised' = (m.flaw = "none")
    /\ IF m.flaw = "none"
       THEN /\ references' = ReferencesAtFix
            /\ errorState' = {}
            /\ Returns("Accepted")
       ELSE /\ UNCHANGED <<references, errorState>>
            /\ Returns("Rejected")

TooEarly(m) ==
    /\ Call(m) /\ ~initialised /\ m.kind # "gnss"
    /\ Returns("NotInitialized")
    /\ UNCHANGED filter

NoModelMatched(m) ==
    /\ Call(m) /\ initialised /\ Handlers(m.kind) = {}
    /\ Returns("Rejected")
    /\ UNCHANGED filter

Missing(m) == HandlerOf(m.kind).needs \ references
Flawed(m) == m.flaw \in HandlerOf(m.kind).flaws
NothingToObserve(m) == "no part" \in HandlerOf(m.kind).flaws /\ m.parts = {}

\* The early returns of Apply() and Observe().  Which of the two answers comes
\* first differs between models, and matters to no reachable state.
Refused(m) ==
    /\ Call(m) /\ initialised /\ Handlers(m.kind) # {}
    /\ Missing(m) # {} \/ Flawed(m) \/ NothingToObserve(m)
    /\ Returns(IF config.backend = "ekf" /\ Missing(m) # {} THEN "NotInitialized" ELSE "Rejected")
    /\ UNCHANGED filter

Usable(m) ==
    /\ initialised /\ Handlers(m.kind) # {}
    /\ Missing(m) = {} /\ ~Flawed(m) /\ ~NothingToObserve(m)

-----------------------------------------------------------------------------
(* The EKF: Apply() updates error_state and covariance part by part.       *)

EkfApply(m) ==
    /\ Call(m) /\ config.backend = "ekf" /\ Usable(m)
    /\ applying' = TRUE /\ todo' = HandlerOf(m.kind).parts
    /\ used' = {} /\ result' = "None"
    /\ UNCHANGED filter

\* A satellite that is not healthy is skipped, as is a part that is missing or
\* switched off.
Present(part) == part \in measurement.parts

\* EkfUpdate() and ScalarUpdate(): a part that passes the gate adds its
\* correction.
PassesGate(part) == ~(config.gated /\ part \in measurement.outliers)

EkfUpdate ==
    /\ applying /\ todo # <<>>
    /\ todo' = Tail(todo)
    /\ IF Present(Head(todo)) /\ PassesGate(Head(todo))
       THEN /\ errorState' = errorState \cup {Head(todo)}
            /\ used' = used \cup {Head(todo)}
       ELSE UNCHANGED <<errorState, used>>
    /\ UNCHANGED <<config, initialised, references, measurement, applying, result>>

\* A mutant: a measurement is accepted only as a whole.
AllUsed == used = measurement.parts /\ used # {}

\* Pseudoranges are counted; of other measurements one part is enough.
EnoughUsed ==
    IF measurement.kind = "epoch"
    THEN Cardinality({s \in ToSet(Satellites) : Pseudorange(s) \in used}) >= MinSatellites
    ELSE used # {}

\* A mutant: a barometer's correction is folded in and not zeroed.
BaroLeft == {p \in errorState : p[2] = "altitude"}

\* What InjectErrorAndReset() leaves of the error vector.
Left == {}

\* Apply() returns; an accepted correction is folded into the nominal state.
EkfReturn ==
    /\ applying /\ todo = <<>>
    /\ applying' = FALSE
    /\ result' = IF EnoughUsed THEN "Accepted" ELSE "Rejected"
    /\ errorState' = IF EnoughUsed THEN Left ELSE errorState
    /\ UNCHANGED <<config, initialised, references, measurement, todo, used>>

-----------------------------------------------------------------------------
(* The UKF: ApplyMeasurementModel() uses all parts at once, without a gate.*)

UkfReturn(m, r) ==
    /\ result' = r
    /\ used' = m.parts
    /\ UNCHANGED <<todo, applying, filter>>

ApplyMeasurementModel(m) ==
    /\ Call(m) /\ config.backend = "ukf" /\ Usable(m)
    /\ UkfReturn(m, "Accepted")

\* The prediction for an aiding solution has nine rows, whatever parts it has:
\* the column it is assigned to is shorter.  A build with assertions aborts,
\* another compares the observation with the prediction's first rows.
PredictionAborts(m) ==
    /\ Call(m) /\ config.backend = "ukf" /\ Usable(m)
    /\ m.kind = "aiding" /\ Cardinality(m.parts) < Len(UkfAidingSolution.parts)
    /\ UkfReturn(m, "Abort")

Reset ==
    /\ ~applying /\ result # "Abort"
    /\ initialised' = FALSE /\ references' = {} /\ errorState' = {}
    /\ measurement' = NoMeasurement
    /\ Returns("None")
    /\ UNCHANGED config

Next ==
    \/ \E m \in Measurements :
        \/ TryInitialiseFromGnss(m) \/ TooEarly(m) \/ NoModelMatched(m) \/ Refused(m)
        \/ EkfApply(m) \/ ApplyMeasurementModel(m) \/ PredictionAborts(m)
    \/ EkfUpdate \/ EkfReturn
    \/ Reset

Spec == Init /\ [][Next]_vars

-----------------------------------------------------------------------------
(* Properties.                                                             *)

Returned == ~applying

\* Types, and what Reset() and the first fix set together.
TypeOK ==
    /\ config \in Configs
    /\ initialised \in BOOLEAN /\ references \subseteq {"ltp", "clock"}
    /\ measurement \in Measurements \cup {NoMeasurement}
    /\ todo \in Seq(Parts) /\ applying \in BOOLEAN
    /\ errorState \subseteq Parts
    /\ result \in {"None", "Accepted", "Rejected", "NotInitialized", "Abort"}
    /\ used \subseteq measurement.parts

\* An outlier never corrects the EKF while the gates are on: EkfUpdate() and
\* ScalarUpdate() return before they write.
GateHolds == config.backend = "ekf" /\ config.gated => used \cap measurement.outliers = {}

\* Between calls, only a refused epoch leaves corrections in the error vector:
\* every other model that writes it makes AddMeasurement() inject it.
OnlyEpochsLeaveCorrections == Returned => errorState \subseteq ToSet(EpochParts)

\* The report tells what was done: Accepted, a part was used; refused, none
\* was.  An epoch without enough satellites is left out, and a measurement of
\* which every part is switched off; with no satellite required an epoch is
\* accepted without any.
ReportTruthful ==
    Returned =>
        /\ /\ result = "Accepted" /\ measurement.kind # "gnss" /\ measurement.parts # {}
           /\ measurement.kind = "epoch" => MinSatellites > 0
           => used # {}
        /\ result \in {"Rejected", "NotInitialized"} /\ measurement.kind # "epoch" => used = {}

\* The kinds of measurement by which an enabled sensor is heard.
Heard ==
    IF config.backend = "ukf" THEN config.enabled \ {"range"}
    ELSE (config.enabled \ {"gnss"})
         \cup (IF "gnss" \in config.enabled THEN {IF config.tight THEN "epoch" ELSE "gnss"} ELSE {})

\* From the first fix on, a sound measurement of an enabled sensor is used, and
\* none of a disabled sensor ("no model is registered"), whatever the factory,
\* the dispatch and the models' guards have to agree on for it.
SensorsAsConfigured ==
    Returned /\ initialised =>
        /\ used # {} => measurement.kind \in Heard
        /\ /\ measurement.kind \in Heard /\ measurement.flaw = "none"
           /\ measurement.parts = PartsOf(measurement.kind) /\ measurement.outliers = {}
           /\ MinSatellites <= Len(Satellites)
           => result = "Accepted"

\* Once initialised, no model lacks the tangent plane or the clock: its
\* NotInitialized is never returned.
ReferencesSet == initialised => result # "NotInitialized"
=============================================================================
