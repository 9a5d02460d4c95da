---------------------------- MODULE SessionConfig ----------------------------
(***************************************************************************)
(* SessionConfig and its JSON document.  A configuration maps every key of *)
(* the document, <<section, name>>, to a value of the field it stands for. *)
(* A document has a shape for every section (absent, an object, or some    *)
(* other JSON value) and a JSON value for every key of its objects.        *)
(*                                                                         *)
(* Values are told apart as far as reading them does: "dflt" is the struct *)
(* default (the literals of FromJson() repeat it), "set" another legal     *)
(* value, "zero" and "negative" those Validate() compares with, "unknown"  *)
(* an enumerator FromJson() does not know.  A document may also hold       *)
(* "null", a value of another type ("alien"), an array that is too short   *)
(* ("short") or holds something else than numbers ("broken"), and an       *)
(* integer that is zero in the width of its field ("wide").                *)
(***************************************************************************)
EXTENDS Naturals, FiniteSets

(***************************************************************************)
(* What FromJson() reads of a section.  "keep": the default stays if the   *)
(* key is absent.  "value": json::value(), which also refuses a section    *)
(* that is no object.  "optional": ReadOptDouble().  "array": ReadVec3()   *)
(* and ReadMat3().                                                         *)
(***************************************************************************)
Reads(keep, value, optional, array) ==
    [keep |-> keep, value |-> value, optional |-> optional, array |-> array]

ReadNav == Reads({"backend", "dead_reckoning_threshold_s", "min_imu_dt_s", "max_imu_dt_s"}, {}, {}, {})
ReadImu == Reads({"accel_noise_density", "gyro_noise_density", "accel_random_walk", "gyro_random_walk"}, {}, {}, {})
ReadGnss == Reads({}, {"enabled", "mode"}, {}, {})
ReadLooselyCoupled == Reads({"position_gate"}, {}, {"position_sigma_m", "velocity_sigma_mps"}, {})
ReadTightlyCoupled ==
    Reads({"base_pseudorange_sigma_m", "pseudorange_noise_floor_m", "base_doppler_sigma_mps",
           "innovation_gate_sigma"}, {}, {}, {})
ReadBarometer == Reads({}, {"enabled", "isa_sea_level_pressure_pa", "innovation_gate"}, {"altitude_sigma_m"}, {})
ReadMagnetometer ==
    Reads({}, {"enabled", "innovation_gate"}, {"sigma_tesla"}, {"reference_field_enu_tesla"})
ReadStarTracker ==
    Reads({"sigma_yaw_rad", "sigma_pitch_rad", "sigma_roll_rad", "use_pitch_roll", "innovation_gate"},
          {"enabled"}, {}, {})
ReadWheelOdometry ==
    Reads({"sigma_linear_mps", "sigma_angular_radps", "use_angular_rate", "innovation_gate"}, {"enabled"}, {}, {})
ReadRadarAltimeter == Reads({"innovation_gate"}, {"enabled"}, {}, {})
ReadRangeFinder ==
    Reads({"expected_range_m", "use_as_altitude", "terrain_elevation_m", "innovation_gate"}, {"enabled"},
          {"sigma_m"}, {})
ReadOpticalFlow == Reads({"fallback_altitude_m", "sigma_radps", "innovation_gate"}, {"enabled"}, {}, {})
ReadDvl == Reads({"bottom_track_only", "innovation_gate"}, {"enabled"}, {"sigma_mps"}, {"dvl_to_body_rotation"})
ReadEchoSounder == Reads({"sound_speed_mps", "depth_origin_m", "innovation_gate"}, {"enabled"}, {"sigma_m"}, {})
ReadAirspeed == Reads({"sigma_mps", "innovation_gate"}, {"enabled"}, {}, {"wind_enu_mps"})
ReadExternalPose == Reads({"use_position", "use_orientation", "innovation_gate"}, {"enabled"}, {}, {})
ReadExternalVelocity == Reads({"use_angular_rate", "innovation_gate"}, {"enabled"}, {}, {})
ReadExternalOdometry ==
    Reads({"use_position", "use_velocity", "use_orientation", "innovation_gate"}, {"enabled"},
          {"position_sigma_m", "velocity_sigma_mps", "orientation_sigma_rad"}, {})
ReadAidingSolution ==
    Reads({"min_match_score", "innovation_gate"}, {"enabled"},
          {"position_sigma_m", "velocity_sigma_mps", "attitude_sigma_rad"}, {})
ReadUkfSigma == Reads({"alpha", "beta", "kappa"}, {}, {}, {})
ReadDataset == Reads({}, {"type", "path"}, {}, {})
ReadIpc == Reads({}, {"socket_path", "max_clients"}, {}, {})
ReadWs == Reads({}, {"port", "max_clients", "ui_path"}, {}, {})
ReadRoot == Reads({}, {"playback_speed"}, {}, {})

ReadsOf ==
    [root |-> ReadRoot, nav |-> ReadNav, dataset |-> ReadDataset, ipc |-> ReadIpc, ws |-> ReadWs,
     imu |-> ReadImu, gnss |-> ReadGnss, loosely_coupled |-> ReadLooselyCoupled,
     tightly_coupled |-> ReadTightlyCoupled, barometer |-> ReadBarometer, magnetometer |-> ReadMagnetometer,
     star_tracker |-> ReadStarTracker, wheel_odometry |-> ReadWheelOdometry,
     radar_altimeter |-> ReadRadarAltimeter, range_finder |-> ReadRangeFinder,
     optical_flow |-> ReadOpticalFlow, dvl |-> ReadDvl, echo_sounder |-> ReadEchoSounder,
     airspeed |-> ReadAirspeed, external_pose |-> ReadExternalPose,
     external_velocity |-> ReadExternalVelocity, external_odometry |-> ReadExternalOdometry,
     aiding_solution |-> ReadAidingSolution, ukf_sigma |-> ReadUkfSigma]

Sections == DOMAIN ReadsOf
Coupled == {"loosely_coupled", "tightly_coupled"}
NavSections == Sections \ {"root", "dataset", "ipc", "ws"}

\* The section a section is nested in.
Parent(s) ==
    IF s \in Coupled THEN "gnss" ELSE IF s \in NavSections \ {"nav"} THEN "nav" ELSE "root"

NamesRead(s) == ReadsOf[s].keep \cup ReadsOf[s].value \cup ReadsOf[s].optional \cup ReadsOf[s].array
Keys == UNION {{s} \X NamesRead(s) : s \in Sections}

Speed == <<"root", "playback_speed">>
Path == <<"dataset", "path">>
Type == <<"dataset", "type">>
Socket == <<"ipc", "socket_path">>
IpcClients == <<"ipc", "max_clients">>
Port == <<"ws", "port">>
WsClients == <<"ws", "max_clients">>
Backend == <<"nav", "backend">>
Mode == <<"gnss", "mode">>

Whole == {IpcClients, Port, WsClients}      \* integers of a fixed width
Named == {Backend, Mode, Type}              \* strings that select something
Optional == {k \in Keys : k[2] \in ReadsOf[k[1]].optional}
Array == {k \in Keys : k[2] \in ReadsOf[k[1]].array}

\* The JSON values a key is tried with, those of the type of its field first.
Legal == [k \in Keys |->
    {"set"} \cup (IF k \in Optional THEN {} ELSE {"dflt"})
            \cup (IF k \in Whole \cup {Speed} THEN {"zero"} ELSE {})
            \cup (IF k \in {IpcClients, Speed} THEN {"negative"} ELSE {})
            \cup (IF k = Socket THEN {"empty"} ELSE {})
            \cup (IF k \in Named THEN {"unknown"} ELSE {})
            \cup (IF k \in Whole THEN {"wide"} ELSE {})]
JsonValues == [k \in Keys |->
    Legal[k] \cup {"absent", "null", "alien"} \cup (IF k \in Array THEN {"short", "broken"} ELSE {})]
FieldValues == {"dflt", "set", "zero", "negative", "empty", "unknown"}

Default == [k \in Keys |-> "dflt"]

(***************************************************************************)
(* Documents                                                               *)
(***************************************************************************)
Shapes == {"absent", "object", "other"}
\* A document: a shape for every section, a value for every key.
IsDocument(doc) ==
    /\ doc = [shape |-> doc.shape, val |-> doc.val]
    /\ doc.shape \in [Sections -> Shapes] /\ doc.val = [k \in Keys |-> doc.val[k]]
    /\ \A k \in Keys : doc.val[k] \in JsonValues[k]

Empty == [shape |-> [s \in Sections |-> IF s = "root" THEN "object" ELSE "absent"],
          val |-> [k \in Keys |-> "absent"]]

\* A key is found if its section and every section around it is an object.
Around(s) == {"root", s, Parent(s), Parent(Parent(s))}
Reached(doc, s) == \A t \in Around(s) : doc.shape[t] = "object"
Found(doc, s) == s = "root" \/ Reached(doc, Parent(s))

ReadOptDouble(v) == IF v \in {"absent", "null"} THEN "dflt" ELSE v
ReadArray(v) == IF v \in {"absent", "null", "alien", "short"} THEN "dflt" ELSE v

\* An unknown backend is EKF and an unknown mode LooselyCoupled, the defaults.
ReadName(k, v) == IF v = "unknown" /\ k # Type THEN "dflt" ELSE v

\* A whole number is cut to the width of its field.
Narrow(v) == IF v = "wide" THEN "zero" ELSE v

Field(k, v) ==
    IF k \in Optional THEN ReadOptDouble(v)
    ELSE IF k \in Array THEN ReadArray(v)
    ELSE IF v = "absent" THEN "dflt" ELSE Narrow(ReadName(k, v))

\* json::value() and the conversions throw; FromJson() then throws as a whole.
Refuses(k, v) ==
    CASE k \in Optional -> v = "alien"
      [] k \in Array    -> v = "broken"
      [] OTHER          -> v \in {"null", "alien"}
RefusedSection(doc, s) ==
    Found(doc, s) /\ doc.shape[s] = "other" /\ ReadsOf[s].value # {}

Refused(doc) ==
    \/ \E s \in Sections : RefusedSection(doc, s)
    \/ LET reached == {s \in Sections : Reached(doc, s)}
       IN  \E k \in Keys : k[1] \in reached /\ Refuses(k, doc.val[k])

FromJson(doc) ==
    LET reached == {s \in Sections : Reached(doc, s)}
    IN  [k \in Keys |-> IF k[1] \in reached THEN Field(k, doc.val[k]) ELSE "dflt"]

(***************************************************************************)
(* What ToJson() writes of a section: values, and WriteOptDouble().        *)
(***************************************************************************)
Writes(plain, optional) == [plain |-> plain, optional |-> optional]

WriteNav == Writes({"backend", "dead_reckoning_threshold_s", "min_imu_dt_s", "max_imu_dt_s"}, {})
WriteImu == Writes({"accel_noise_density", "gyro_noise_density", "accel_random_walk", "gyro_random_walk"}, {})
WriteGnss == Writes({"enabled", "mode"}, {})
WriteLooselyCoupled == Writes({"position_gate"}, {"position_sigma_m", "velocity_sigma_mps"})
WriteTightlyCoupled ==
    Writes({"base_pseudorange_sigma_m", "pseudorange_noise_floor_m", "base_doppler_sigma_mps",
            "innovation_gate_sigma"}, {})
WriteBarometer == Writes({"enabled", "isa_sea_level_pressure_pa", "innovation_gate"}, {"altitude_sigma_m"})
WriteMagnetometer == Writes({"enabled", "reference_field_enu_tesla", "innovation_gate"}, {"sigma_tesla"})
WriteStarTracker ==
    Writes({"enabled", "sigma_yaw_rad", "sigma_pitch_rad", "sigma_roll_rad", "use_pitch_roll",
            "innovation_gate"}, {})
WriteWheelOdometry ==
    Writes({"enabled", "sigma_linear_mps", "sigma_angular_radps", "use_angular_rate", "innovation_gate"}, {})
WriteRadarAltimeter == Writes({"enabled", "innovation_gate"}, {})
WriteRangeFinder ==
    Writes({"enabled", "expected_range_m", "use_as_altitude", "terrain_elevation_m", "innovation_gate"},
           {"sigma_m"})
WriteOpticalFlow == Writes({"enabled", "fallback_altitude_m", "sigma_radps", "innovation_gate"}, {})
WriteDvl == Writes({"enabled", "dvl_to_body_rotation", "bottom_track_only", "innovation_gate"}, {"sigma_mps"})
WriteEchoSounder == Writes({"enabled", "sound_speed_mps", "depth_origin_m", "innovation_gate"}, {"sigma_m"})
WriteAirspeed == Writes({"enabled", "wind_enu_mps", "sigma_mps", "innovation_gate"}, {})
WriteExternalPose == Writes({"enabled", "use_position", "use_orientation", "innovation_gate"}, {})
WriteExternalVelocity == Writes({"enabled", "use_angular_rate", "innovation_gate"}, {})
\* A mutant: a flag that is read is not written.
WriteExternalOdometryWithoutVelocity ==
    Writes({"enabled", "use_position", "use_orientation", "innovation_gate"},
           {"position_sigma_m", "velocity_sigma_mps", "orientation_sigma_rad"})
WriteExternalOdometry ==
    Writes({"enabled", "use_position", "use_velocity", "use_orientation", "innovation_gate"},
           {"position_sigma_m", "velocity_sigma_mps", "orientation_sigma_rad"})
WriteAidingSolution ==
    Writes({"enabled", "min_match_score", "innovation_gate"},
           {"position_sigma_m", "velocity_sigma_mps", "attitude_sigma_rad"})
WriteUkfSigma == Writes({"alpha", "beta", "kappa"}, {})
WriteDataset == Writes({"type", "path"}, {})
WriteIpc == Writes({"socket_path", "max_clients"}, {})
WriteWs == Writes({"port", "max_clients", "ui_path"}, {})
WriteRoot == Writes({"playback_speed"}, {})

WritesOf ==
    [root |-> WriteRoot, nav |-> WriteNav, dataset |-> WriteDataset, ipc |-> WriteIpc, ws |-> WriteWs,
     imu |-> WriteImu, gnss |-> WriteGnss, loosely_coupled |-> WriteLooselyCoupled,
     tightly_coupled |-> WriteTightlyCoupled, barometer |-> WriteBarometer, magnetometer |-> WriteMagnetometer,
     star_tracker |-> WriteStarTracker, wheel_odometry |-> WriteWheelOdometry,
     radar_altimeter |-> WriteRadarAltimeter, range_finder |-> WriteRangeFinder,
     optical_flow |-> WriteOpticalFlow, dvl |-> WriteDvl, echo_sounder |-> WriteEchoSounder,
     airspeed |-> WriteAirspeed, external_pose |-> WriteExternalPose,
     external_velocity |-> WriteExternalVelocity, external_odometry |-> WriteExternalOdometry,
     aiding_solution |-> WriteAidingSolution, ukf_sigma |-> WriteUkfSigma]

WriteOptDouble(v) == IF v = "dflt" THEN "null" ELSE v

ToJson(cfg) ==
    [shape |-> [s \in Sections |-> IF s \in DOMAIN WritesOf THEN "object" ELSE "absent"],
     val |-> [k \in Keys |->
                CASE k[2] \in WritesOf[k[1]].plain    -> cfg[k]
                  [] k[2] \in WritesOf[k[1]].optional -> WriteOptDouble(cfg[k])
                  [] OTHER                            -> "absent"]]

(***************************************************************************)
(* ToSchemaJson() and Validate()                                           *)
(***************************************************************************)
SchemaRoot == [root |-> {"playback_speed"}, dataset |-> {"type", "path"},
               ipc |-> {"socket_path", "max_clients"}, ws |-> {"port", "max_clients", "ui_path"}]
SchemaNav ==
    [nav |-> {"backend", "dead_reckoning_threshold_s", "min_imu_dt_s", "max_imu_dt_s"},
     imu |-> {"accel_noise_density", "gyro_noise_density", "accel_random_walk", "gyro_random_walk"},
     gnss |-> {"enabled", "mode"},
     loosely_coupled |-> {"position_sigma_m", "velocity_sigma_mps", "position_gate"}]
SchemaSensors ==
    [barometer |-> {"enabled", "altitude_sigma_m", "isa_sea_level_pressure_pa", "innovation_gate"},
     magnetometer |-> {"enabled", "reference_field_enu_tesla", "sigma_tesla", "innovation_gate"},
     wheel_odometry |-> {"enabled", "sigma_linear_mps", "sigma_angular_radps", "use_angular_rate",
                         "innovation_gate"},
     optical_flow |-> {"enabled", "fallback_altitude_m", "sigma_radps", "innovation_gate"},
     airspeed |-> {"enabled", "wind_enu_mps", "sigma_mps", "innovation_gate"}]
KeysOf(schema) == UNION {{s} \X schema[s] : s \in DOMAIN schema}
SchemaKeys == KeysOf(SchemaRoot) \cup KeysOf(SchemaNav) \cup KeysOf(SchemaSensors)

\* A mutant: the minimum of ipc.max_clients is 0.
SchemaForbidsLess(k) ==
    (IF k \in Named THEN {"unknown"} ELSE {})
    \cup (IF k \in {IpcClients, WsClients} THEN {"negative"} ELSE {})
    \cup (IF k = Speed THEN {"negative"} ELSE {})

\* Below the minimum of a number, or not one of the strings listed.
SchemaForbids(k) ==
    (IF k \in Named THEN {"unknown"} ELSE {})
    \cup (IF k \in {IpcClients, WsClients} THEN {"zero", "negative"} ELSE {})
    \cup (IF k = Speed THEN {"negative"} ELSE {})

\* The document is filled in from the schema: it has nothing else.
SchemaValid(doc) ==
    /\ \A s \in Sections : Found(doc, s) =>
           doc.shape[s] \in {"absent"} \cup
               (IF s \in DOMAIN SchemaRoot \cup DOMAIN SchemaNav \cup DOMAIN SchemaSensors
                THEN {"object"} ELSE {})
    /\ \A k \in Keys : Reached(doc, k[1]) =>
           doc.val[k] \in {"absent"} \cup
               (IF k \in SchemaKeys THEN Legal[k] \ SchemaForbids(k) ELSE {})

Validate(cfg) ==
    /\ cfg[Path] # "dflt"
    /\ cfg[Socket] # "empty"
    /\ cfg[IpcClients] \notin {"zero", "negative"}
    /\ cfg[Speed] # "negative"
=============================================================================
