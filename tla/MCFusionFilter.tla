--------------------------- MODULE MCFusionFilter ---------------------------
(* Instances of FusionFilter: which time stamps the measurements carry.    *)
EXTENDS FusionFilter

\* The CSV data set's samples: a monotonic time and nothing else.
SteadyStamps == [steady : 0..3, gps : {Absent}]

\* Aiding and requested times: a monotonic time, a GPS time, both or none.
MixedStamps == [steady : {0, 3}, gps : {Absent}]
    \cup {NoStamp, [steady |-> Absent, gps |-> 2], [steady |-> 2, gps |-> 3]}
=============================================================================
