-------------------------- MODULE MCMeasurementUpdate --------------------------
(***************************************************************************)
(* An instance of MeasurementUpdate for TLC.                               *)
(***************************************************************************)
EXTENDS MeasurementUpdate

TwoSatellites == <<1, 2>>

\* Every sensor, or every sensor but one: one with two modes, one with a part,
\* one without a UKF model, one of several parts.
AllOrAllButOne == {Sensors} \cup {Sensors \ {s} : s \in {"gnss", "barometer", "range", "odometry"}}
=============================================================================
