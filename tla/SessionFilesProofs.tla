-------------------------- MODULE SessionFilesProofs --------------------------
(***************************************************************************)
(* Theorems about SessionFiles, for any files, any documents to begin with *)
(* and any number of edits and starts.                                     *)
(*                                                                         *)
(* The parts of a session agree with its configuration: the constructor of *)
(* the dataset reader may throw between the assignment of cfg_ and that of *)
(* the parts, but only the navigation system comes before it.              *)
(*                                                                         *)
(* What ToJson() writes FromJson() reads, section by section; the values   *)
(* an unknown enumerator or a wide integer are cut to make every           *)
(* configuration that comes from a document one that can be written.       *)
(*                                                                         *)
(* A replay is followed by the number of records up to the position of the *)
(* stream, the rank of a line; std::ifstream::open() on an open stream     *)
(* only sets its fail bit, so that it matters that Start() never gets one. *)
(***************************************************************************)
EXTENDS SessionFiles, FiniteSetTheorems, SequenceTheorems, WellFoundedInduction, TLAPS

\* A configuration has a value for every key, and the parts are three.
Shaped ==
    /\ cfg = [k \in Keys |-> cfg[k]]
    /\ parts = [nav |-> parts.nav, reader |-> parts.reader, servers |-> parts.servers]

\* PartsMatch without its guard: it also holds while there is no session, which
\* is what main() leaves behind when the constructor throws.
Matching ==
    /\ parts.nav = NavPart(cfg)
    /\ cfg[Type] # "unknown" => parts = PartsOf(cfg)
    /\ parts.reader[Type] # "unknown"

FilesInv == Shaped /\ Matching

LEMMA SpeedIsRoot == /\ Speed[1] = "root" /\ Speed # Type /\ Speed # Path
                     /\ "root" \notin NavSections /\ "root" \notin {"ipc", "ws"}
  BY DEF Speed, Type, Path, NavSections

\* No part is made of the playback speed, which a client may set at any time.
LEMMA SpeedInNoPart ==
    ASSUME NEW c, c = [k \in Keys |-> c[k]], NEW v
    PROVE  LET d == [c EXCEPT ![Speed] = v]
           IN  /\ d = [k \in Keys |-> d[k]]
               /\ NavPart(d) = NavPart(c) /\ ServerPart(d) = ServerPart(c)
               /\ d[Type] = c[Type]
               /\ ReaderPart(d) = ReaderPart(c)
<1> DEFINE d == [c EXCEPT ![Speed] = v]
<1>1. d = [k \in Keys |-> IF k = Speed THEN v ELSE c[k]]
  OBVIOUS
<1>2. \A k : k # Speed => d[k] = c[k]
  OBVIOUS
<1>3. NavPart(d) = NavPart(c)
  BY <1>2, SpeedIsRoot DEF NavPart
<1>4. ServerPart(d) = ServerPart(c)
  BY <1>2, SpeedIsRoot DEF ServerPart
<1>5. ReaderPart(d) = ReaderPart(c) /\ d[Type] = c[Type]
  BY <1>2, SpeedIsRoot DEF ReaderPart
<1> QED
  BY <1>1, <1>3, <1>4, <1>5

\* What FromJson() returns has a value for every key, as the defaults have.
LEMMA ReadHasEveryKey ==
    /\ \A d : FromJson(d) = [k \in Keys |-> FromJson(d)[k]]
    /\ Default = [k \in Keys |-> Default[k]]
  BY DEF FromJson, Default

\* The default dataset type has a reader.
LEMMA DefaultIsKnown == Default[Type] # "unknown"
<1>1. "dataset" \in Sections /\ ReadsOf["dataset"] = ReadDataset
  BY DEF Sections, ReadsOf
<1>2. "type" \in NamesRead("dataset")
  BY <1>1 DEF NamesRead, ReadDataset, Reads
<1>3. Type \in Keys
  BY <1>1, <1>2 DEF Keys, Type
<1> QED
  BY <1>3 DEF Default

LEMMA PartsOfShaped ==
    \A c : /\ PartsOf(c) = [nav |-> PartsOf(c).nav, reader |-> PartsOf(c).reader,
                            servers |-> PartsOf(c).servers]
           /\ PartsOf(c).nav = NavPart(c)
           /\ PartsOf(c).reader[Type] = c[Type]
  BY DEF PartsOf, ReaderPart

\* A session has the configuration it was constructed with.
LEMMA ConstructMatches ==
    ASSUME NEW c, c = [k \in Keys |-> c[k]], Construct(c)
    PROVE  FilesInv'
  BY PartsOfShaped DEF Construct, FilesInv, Shaped, Matching

\* Replacing the parts keeps them in agreement, whether or not it throws.
LEMMA ReplaceMatches ==
    ASSUME FilesInv, NEW c, c = [k \in Keys |-> c[k]], Replace(c)
    PROVE  FilesInv'
<1>1. CASE c[Type] = "unknown"
  BY <1>1 DEF Replace, FilesInv, Shaped, Matching
<1>2. CASE c[Type] # "unknown"
  BY <1>2, PartsOfShaped DEF Replace, FilesInv, Shaped, Matching
<1> QED
  BY <1>1, <1>2

-----------------------------------------------------------------------------
\* Everything a session is made or remade with.
LEMMA UseMatches == FilesInv /\ Use => FilesInv'
<1> SUFFICES ASSUME FilesInv, Use PROVE FilesInv'
  OBVIOUS
<1>1. CASE LaunchCli
  BY <1>1, ConstructMatches, ReadHasEveryKey DEF LaunchCli
<1>2. CASE LaunchCliThrows
  BY <1>2 DEF LaunchCliThrows, FilesInv, Shaped, Matching
<1>3. CASE \E edited \in BOOLEAN : LaunchUi(edited)
  <2>1. PICK edited \in BOOLEAN : LaunchUi(edited)
    BY <1>3
  <2>2. PICK speed \in {"dflt", "set"} : Construct(UiConfig(edited, speed))
    BY <2>1 DEF LaunchUi
  <2>3. UiConfig(edited, speed) = [k \in Keys |-> UiConfig(edited, speed)[k]]
    BY ReadHasEveryKey DEF UiConfig
  <2> QED
    BY <2>1, <2>2, <2>3, ConstructMatches DEF LaunchUi
<1>4. CASE Reconfigure
  BY <1>4, ReplaceMatches, ReadHasEveryKey DEF Reconfigure
<1>5. CASE ConfigureCompleted
  BY <1>5, ReplaceMatches, ReadHasEveryKey DEF ConfigureCompleted
<1> QED
  BY <1>1, <1>2, <1>3, <1>4, <1>5 DEF Use

\* The session at work.
LEMMA RunMatches == FilesInv /\ Run => FilesInv'
<1> SUFFICES ASSUME FilesInv, Run PROVE FilesInv'
  OBVIOUS
<1> USE DEF FilesInv, Shaped, Matching
<1>1. CASE Save
  BY <1>1 DEF Save, sessionVars
<1>2. CASE \E v \in {"set", "zero", "negative"} : SetSpeed(v)
  <2>1. PICK v \in {"set", "zero", "negative"} : SetSpeed(v)
    BY <1>2
  <2>2. status' = status /\ parts' = parts /\ status # "none" /\ cfg' = [cfg EXCEPT ![Speed] = v]
    BY <2>1 DEF SetSpeed
  <2>3. /\ cfg' = [k \in Keys |-> cfg'[k]] /\ NavPart(cfg') = NavPart(cfg)
        /\ ServerPart(cfg') = ServerPart(cfg) /\ cfg'[Type] = cfg[Type]
        /\ ReaderPart(cfg') = ReaderPart(cfg)
    BY <2>2, SpeedInNoPart
  <2>4. PartsOf(cfg') = PartsOf(cfg)
    BY <2>3 DEF PartsOf
  <2> QED
    BY <2>2, <2>3, <2>4
<1>3. CASE Start
  BY <1>3 DEF Start
<1>4. CASE ReplayRecord
  BY <1>4 DEF ReplayRecord
<1>5. CASE ReplayEnds
  BY <1>5 DEF ReplayEnds
<1>6. CASE Stop
  BY <1>6 DEF Stop
<1>7. CASE Destroy
  BY <1>7, PartsOfShaped, ReadHasEveryKey, DefaultIsKnown DEF Destroy
<1> QED
  BY <1>1, <1>2, <1>3, <1>4, <1>5, <1>6, <1>7 DEF Run

\* The program begins without a session, and every step keeps what was proved.
LEMMA InitMatches == Init => FilesInv
  BY PartsOfShaped, ReadHasEveryKey, DefaultIsKnown DEF Init, FilesInv, Shaped, Matching

LEMMA StepMatches == FilesInv /\ [Next]_vars => FilesInv'
<1> SUFFICES ASSUME FilesInv, [Next]_vars PROVE FilesInv'
  OBVIOUS
<1>1. CASE Edit
  BY <1>1 DEF Edit, EditKey, EditSection, sessionVars, FilesInv, Shaped, Matching
<1>2. CASE UNCHANGED vars
  BY <1>2 DEF vars, FilesInv, Shaped, Matching
<1> QED
  BY <1>1, <1>2, UseMatches, RunMatches DEF Next

\* The navigation system, the reader and the servers are those cfg_ describes,
\* but for a dataset type without a reader, through every edit, construction,
\* reconfiguration (one that throws halfway included) and command.
THEOREM PartsAgree == Spec => []PartsMatch
<1>1. FilesInv => PartsMatch
  BY DEF FilesInv, Matching, PartsMatch
<1> QED
  BY <1>1, InitMatches, StepMatches, PTL DEF Spec

-----------------------------------------------------------------------------
(* What is saved.                                                          *)

\* ToJson() writes of a section what FromJson() reads of it, and writes as
\* WriteOptDouble() what ReadOptDouble() reads.
WritesBack(reads, writes) ==
    /\ writes.plain = reads.keep \cup reads.value \cup reads.array
    /\ writes.optional = reads.optional
    /\ reads.optional \cap (reads.keep \cup reads.value \cup reads.array) = {}

\* This holds of every section, one by one.
LEMMA SectionsWritten == \A s \in Sections : WritesBack(ReadsOf[s], WritesOf[s])
<1> USE DEF WritesBack, Reads, Writes
<1>1. WritesBack(ReadRoot, WriteRoot)
  BY DEF ReadRoot, WriteRoot
<1>2. WritesBack(ReadNav, WriteNav)
  BY DEF ReadNav, WriteNav
<1>3. WritesBack(ReadDataset, WriteDataset)
  BY DEF ReadDataset, WriteDataset
<1>4. WritesBack(ReadIpc, WriteIpc)
  BY DEF ReadIpc, WriteIpc
<1>5. WritesBack(ReadWs, WriteWs)
  BY DEF ReadWs, WriteWs
<1>6. WritesBack(ReadImu, WriteImu)
  BY DEF ReadImu, WriteImu
<1>7. WritesBack(ReadGnss, WriteGnss)
  BY DEF ReadGnss, WriteGnss
<1>8. WritesBack(ReadLooselyCoupled, WriteLooselyCoupled)
  BY DEF ReadLooselyCoupled, WriteLooselyCoupled
<1>9. WritesBack(ReadTightlyCoupled, WriteTightlyCoupled)
  BY DEF ReadTightlyCoupled, WriteTightlyCoupled
<1>10. WritesBack(ReadBarometer, WriteBarometer)
  BY DEF ReadBarometer, WriteBarometer
<1>11. WritesBack(ReadMagnetometer, WriteMagnetometer)
  BY DEF ReadMagnetometer, WriteMagnetometer
<1>12. WritesBack(ReadStarTracker, WriteStarTracker)
  BY DEF ReadStarTracker, WriteStarTracker
<1>13. WritesBack(ReadWheelOdometry, WriteWheelOdometry)
  BY DEF ReadWheelOdometry, WriteWheelOdometry
<1>14. WritesBack(ReadRadarAltimeter, WriteRadarAltimeter)
  BY DEF ReadRadarAltimeter, WriteRadarAltimeter
<1>15. WritesBack(ReadRangeFinder, WriteRangeFinder)
  BY DEF ReadRangeFinder, WriteRangeFinder
<1>16. WritesBack(ReadOpticalFlow, WriteOpticalFlow)
  BY DEF ReadOpticalFlow, WriteOpticalFlow
<1>17. WritesBack(ReadDvl, WriteDvl)
  BY DEF ReadDvl, WriteDvl
<1>18. WritesBack(ReadEchoSounder, WriteEchoSounder)
  BY DEF ReadEchoSounder, WriteEchoSounder
<1>19. WritesBack(ReadAirspeed, WriteAirspeed)
  BY DEF ReadAirspeed, WriteAirspeed
<1>20. WritesBack(ReadExternalPose, WriteExternalPose)
  BY DEF ReadExternalPose, WriteExternalPose
<1>21. WritesBack(ReadExternalVelocity, WriteExternalVelocity)
  BY DEF ReadExternalVelocity, WriteExternalVelocity
<1>22. WritesBack(ReadExternalOdometry, WriteExternalOdometry)
  BY DEF ReadExternalOdometry, WriteExternalOdometry
<1>23. WritesBack(ReadAidingSolution, WriteAidingSolution)
  BY DEF ReadAidingSolution, WriteAidingSolution
<1>24. WritesBack(ReadUkfSigma, WriteUkfSigma)
  BY DEF ReadUkfSigma, WriteUkfSigma
<1> HIDE DEF WritesBack, Reads, Writes
<1> QED
  BY <1>1, <1>2, <1>3, <1>4, <1>5, <1>6, <1>7, <1>8, <1>9, <1>10, <1>11, <1>12,
     <1>13, <1>14, <1>15, <1>16, <1>17, <1>18, <1>19, <1>20, <1>21, <1>22, <1>23, <1>24
  DEF Sections, ReadsOf, WritesOf

\* Every section is written, and so are those around it.
LEMMA KnownSections ==
    /\ Sections = DOMAIN WritesOf
    /\ {"root", "nav", "gnss", "dataset", "ipc", "ws"} \subseteq Sections
    /\ \A s \in Sections : Around(s) \subseteq Sections
<1>1. Sections = DOMAIN WritesOf /\ {"root", "nav", "gnss", "dataset", "ipc", "ws"} \subseteq Sections
  BY DEF Sections, ReadsOf, WritesOf
<1>2. \A s : Parent(s) \in {"root", "nav", "gnss"}
  BY DEF Parent
<1> QED
  BY <1>1, <1>2 DEF Around

\* Keys that are neither an optional number nor an array.
Plain == Keys \ (Optional \cup Array)

\* A key is a section and a name read in it.
LEMMA KeysByName ==
    \A k \in Keys : k[1] \in Sections /\ k[2] \in NamesRead(k[1]) /\ k = <<k[1], k[2]>>
  BY DEF Keys

\* The keys the code treats specially are plain.
LEMMA PlainKeys == {Speed, Path, Type, Socket, IpcClients, Port, WsClients, Backend, Mode} \subseteq Plain
<1>1. /\ Speed[1] = "root" /\ Speed[2] = "playback_speed" /\ Speed = <<Speed[1], Speed[2]>>
      /\ Path[1] = "dataset" /\ Path[2] = "path" /\ Path = <<Path[1], Path[2]>>
      /\ Type[1] = "dataset" /\ Type[2] = "type" /\ Type = <<Type[1], Type[2]>>
      /\ Socket[1] = "ipc" /\ Socket[2] = "socket_path" /\ Socket = <<Socket[1], Socket[2]>>
      /\ IpcClients[1] = "ipc" /\ IpcClients[2] = "max_clients" /\ IpcClients = <<IpcClients[1], IpcClients[2]>>
      /\ Port[1] = "ws" /\ Port[2] = "port" /\ Port = <<Port[1], Port[2]>>
      /\ WsClients[1] = "ws" /\ WsClients[2] = "max_clients" /\ WsClients = <<WsClients[1], WsClients[2]>>
      /\ Backend[1] = "nav" /\ Backend[2] = "backend" /\ Backend = <<Backend[1], Backend[2]>>
      /\ Mode[1] = "gnss" /\ Mode[2] = "mode" /\ Mode = <<Mode[1], Mode[2]>>
  BY DEF Speed, Path, Type, Socket, IpcClients, Port, WsClients, Backend, Mode
<1>2. /\ ReadsOf["root"] = ReadRoot /\ ReadsOf["dataset"] = ReadDataset /\ ReadsOf["ipc"] = ReadIpc
      /\ ReadsOf["ws"] = ReadWs /\ ReadsOf["nav"] = ReadNav /\ ReadsOf["gnss"] = ReadGnss
  BY DEF ReadsOf
<1>3. /\ \A s \in {"root", "dataset", "ipc", "ws", "nav", "gnss"} :
           ReadsOf[s].optional = {} /\ ReadsOf[s].array = {}
      /\ "playback_speed" \in NamesRead("root") /\ {"path", "type"} \subseteq NamesRead("dataset")
      /\ {"socket_path", "max_clients"} \subseteq NamesRead("ipc")
      /\ {"port", "max_clients"} \subseteq NamesRead("ws")
      /\ "backend" \in NamesRead("nav") /\ "mode" \in NamesRead("gnss")
  BY <1>2 DEF NamesRead, Reads, ReadRoot, ReadDataset, ReadIpc, ReadWs, ReadNav, ReadGnss
<1>4. ASSUME NEW k, k = <<k[1], k[2]>>, k[1] \in {"root", "dataset", "ipc", "ws", "nav", "gnss"},
             k[2] \in NamesRead(k[1])
      PROVE  k \in Plain
  <2>1. k \in Keys
    BY <1>4, KnownSections DEF Keys
  <2> QED
    BY <1>3, <1>4, <2>1 DEF Plain, Optional, Array
<1>5. Speed \in Plain /\ Path \in Plain /\ Type \in Plain
  BY <1>1, <1>3, <1>4
<1>6. Socket \in Plain /\ IpcClients \in Plain /\ Port \in Plain
  BY <1>1, <1>3, <1>4
<1>7. WsClients \in Plain /\ Backend \in Plain /\ Mode \in Plain
  BY <1>1, <1>3, <1>4
<1> QED
  BY <1>5, <1>6, <1>7

\* The values a key is tried with.
LegalAt(k) ==
    /\ Legal[k] \subseteq {"set", "dflt", "zero", "negative", "empty", "unknown", "wide"}
    /\ "set" \in Legal[k] /\ (k \notin Optional => "dflt" \in Legal[k])
    /\ k \in Optional \cup Array => Legal[k] \subseteq {"set", "dflt"}
    /\ k \in Optional => Legal[k] = {"set"}
    /\ "wide" \in Legal[k] <=> k \in Whole
    /\ "unknown" \in Legal[k] <=> k \in Named
    /\ k \in Whole \cup {Speed} => "zero" \in Legal[k]
    /\ {"zero", "negative"} \subseteq Legal[Speed]
    /\ JsonValues[k] = Legal[k] \cup {"absent", "null", "alien"}
                       \cup (IF k \in Array THEN {"short", "broken"} ELSE {})

LEMMA LegalValues == \A k \in Keys : LegalAt(k)
<1> SUFFICES ASSUME NEW k \in Keys PROVE LegalAt(k)
  OBVIOUS
<1>1. k \in Optional \cup Array => k \notin Whole \cup Named \cup {Speed, Socket, IpcClients}
  BY PlainKeys DEF Plain, Whole, Named
<1>2. Legal[k] = {"set"} \cup (IF k \in Optional THEN {} ELSE {"dflt"})
            \cup (IF k \in Whole \cup {Speed} THEN {"zero"} ELSE {})
            \cup (IF k \in {IpcClients, Speed} THEN {"negative"} ELSE {})
            \cup (IF k = Socket THEN {"empty"} ELSE {})
            \cup (IF k \in Named THEN {"unknown"} ELSE {})
            \cup (IF k \in Whole THEN {"wide"} ELSE {})
  BY DEF Legal
<1>3. {"zero", "negative"} \subseteq Legal[Speed]
  BY PlainKeys DEF Plain, Legal
<1>4. JsonValues[k] = Legal[k] \cup {"absent", "null", "alien"}
                      \cup (IF k \in Array THEN {"short", "broken"} ELSE {})
  BY DEF JsonValues
<1> QED
  BY <1>1, <1>2, <1>3, <1>4 DEF LegalAt

\* A configuration as the fields of SessionConfig can hold it: an enumerator
\* that FromJson() does not know survives as the dataset's type only.
Fits(c) ==
    /\ c = [k \in Keys |-> c[k]]
    /\ \A k \in Keys : c[k] \in (Legal[k] \ {"wide"}) \cup {"dflt"} /\ (c[k] = "unknown" => k = Type)

\* FromJson() inverts ToJson() on every such configuration.
LEMMA SavedIsRead ==
    ASSUME NEW c, Fits(c)
    PROVE  ~Refused(ToJson(c)) /\ FromJson(ToJson(c)) = c
<1> DEFINE d == ToJson(c)
<1>1. \A s \in Sections : d.shape[s] = "object"
  BY KnownSections DEF ToJson
<1>2. \A s \in Sections : Reached(d, s)
  BY <1>1, KnownSections DEF Reached
<1>3. \A k \in Keys : d.val[k] = IF k \in Optional THEN WriteOptDouble(c[k]) ELSE c[k]
  <2> SUFFICES ASSUME NEW k \in Keys
               PROVE  d.val[k] = IF k \in Optional THEN WriteOptDouble(c[k]) ELSE c[k]
    OBVIOUS
  <2>1. k[1] \in Sections /\ k[2] \in NamesRead(k[1])
    BY KeysByName
  <2>2. /\ k \in Optional <=> k[2] \in WritesOf[k[1]].optional
        /\ k \notin Optional <=> k[2] \in WritesOf[k[1]].plain
    BY <2>1, SectionsWritten DEF WritesBack, NamesRead, Optional
  <2>3. d.val[k] = CASE k[2] \in WritesOf[k[1]].plain    -> c[k]
                     [] k[2] \in WritesOf[k[1]].optional -> WriteOptDouble(c[k])
                     [] OTHER                            -> "absent"
    BY DEF ToJson
  <2> QED
    BY <2>2, <2>3
<1>4. \A k \in Keys : /\ c[k] \in {"set", "dflt", "zero", "negative", "empty", "unknown"}
                      /\ c[k] = "unknown" => k = Type
                      /\ d.val[k] = IF k \in Optional /\ c[k] = "dflt" THEN "null" ELSE c[k]
  BY <1>3, LegalValues DEF LegalAt, Fits, WriteOptDouble
<1> HIDE DEF d
<1>5. ~Refused(d)
  <2>1. \A s \in Sections : ~RefusedSection(d, s)
    BY <1>1 DEF RefusedSection
  <2>2. \A k \in Keys : ~Refuses(k, d.val[k])
    BY <1>4 DEF Refuses
  <2> QED
    BY <2>1, <2>2 DEF Refused
<1>6. \A k \in Keys : Field(k, d.val[k]) = c[k]
  BY <1>4, PlainKeys DEF Plain, Field, ReadOptDouble, ReadArray, ReadName, Narrow
<1>7. FromJson(d) = [k \in Keys |-> Field(k, d.val[k])]
  BY <1>2, KeysByName DEF FromJson
<1>8. FromJson(d) = [k \in Keys |-> c[k]]
  BY <1>6, <1>7
<1> QED
  BY <1>5, <1>8 DEF d, Fits

\* No key is both.
LEMMA OptionalNoArray == Optional \cap Array = {}
<1>1. \A k \in Keys : ReadsOf[k[1]].optional \cap ReadsOf[k[1]].array = {}
  BY KeysByName, SectionsWritten DEF WritesBack
<1> QED
  BY <1>1 DEF Optional, Array

\* FromJson() returns such a configuration whenever it returns.
LEMMA ReadFits ==
    ASSUME NEW d, \A k \in Keys : d.val[k] \in JsonValues[k], ~Refused(d)
    PROVE  Fits(FromJson(d))
<1>1. \A k \in Keys : FromJson(d)[k] = "dflt" \/ (FromJson(d)[k] = Field(k, d.val[k]) /\ ~Refuses(k, d.val[k]))
  BY DEF FromJson, Refused
<1>2. \A k \in Keys : ~Refuses(k, d.val[k]) =>
          /\ k \in Optional => d.val[k] # "alien"
          /\ k \in Array => d.val[k] # "broken"
          /\ k \notin Optional \cup Array => d.val[k] # "null" /\ d.val[k] # "alien"
  BY OptionalNoArray DEF Refuses
<1>3. ASSUME NEW k \in Keys, ~Refuses(k, d.val[k])
      PROVE  /\ Field(k, d.val[k]) \in (Legal[k] \ {"wide"}) \cup {"dflt"}
             /\ Field(k, d.val[k]) = "unknown" => k = Type
  <2> DEFINE v == d.val[k]
  <2>1. v \in Legal[k] \cup {"absent", "null", "alien"} \cup (IF k \in Array THEN {"short", "broken"} ELSE {})
    BY LegalValues DEF LegalAt
  <2> HIDE DEF v
  <2>2. CASE k \in Optional
    <3>1. v # "alien" /\ k \notin Array /\ Legal[k] = {"set"}
      BY <1>2, <1>3, <2>2, OptionalNoArray, LegalValues DEF LegalAt, v
    <3>2. Field(k, v) = ReadOptDouble(v)
      BY <2>2 DEF Field
    <3> QED
      BY <2>1, <3>1, <3>2 DEF v, ReadOptDouble
  <2>3. CASE k \notin Optional /\ k \in Array
    BY <1>2, <1>3, <2>1, <2>3, LegalValues DEF LegalAt, v, Field, ReadArray
  <2>4. CASE k \notin Optional \cup Array
    <3>1. v \in Legal[k] \cup {"absent"}
      BY <1>2, <1>3, <2>1, <2>4 DEF v
    <3>2. Field(k, v) = IF v = "absent" THEN "dflt" ELSE Narrow(ReadName(k, v))
      BY <2>4 DEF Field
    <3> QED
      BY <3>1, <3>2, LegalValues DEF LegalAt, v, Narrow, ReadName
  <2> QED
    BY <2>2, <2>3, <2>4
<1>4. FromJson(d) = [k \in Keys |-> FromJson(d)[k]]
  BY ReadHasEveryKey
<1> QED
  BY <1>1, <1>3, <1>4 DEF Fits

\* The defaults are one.
LEMMA DefaultFits == Fits(Default)
  BY ReadHasEveryKey DEF Fits, Default

\* ToJson() writes a document of the kind that is read.
LEMMA WrittenIsJson ==
    ASSUME NEW c, Fits(c)
    PROVE  /\ \A k \in Keys : ToJson(c).val[k] \in JsonValues[k]
           /\ \A s \in Sections : ToJson(c).shape[s] \in Shapes
<1>1. \A s \in Sections : ToJson(c).shape[s] \in Shapes
  BY DEF ToJson, Shapes
<1>2. ASSUME NEW k \in Keys PROVE ToJson(c).val[k] \in JsonValues[k]
  <2>1. k[1] \in Sections /\ k[2] \in NamesRead(k[1])
    BY KeysByName
  <2>2. /\ k \in Optional <=> k[2] \in WritesOf[k[1]].optional
        /\ k \notin Optional <=> k[2] \in WritesOf[k[1]].plain
    BY <2>1, SectionsWritten DEF WritesBack, NamesRead, Optional
  <2>3. ToJson(c).val[k] = CASE k[2] \in WritesOf[k[1]].plain    -> c[k]
                             [] k[2] \in WritesOf[k[1]].optional -> WriteOptDouble(c[k])
                             [] OTHER                            -> "absent"
    BY DEF ToJson
  <2>4. ToJson(c).val[k] = IF k \in Optional THEN WriteOptDouble(c[k]) ELSE c[k]
    BY <2>2, <2>3
  <2> QED
    BY <2>4, LegalValues DEF LegalAt, Fits, WriteOptDouble
<1> QED
  BY <1>1, <1>2

\* ToSchemaJson() names no key that FromJson() does not read.
LEMMA SchemaKnown == SchemaKeys \subseteq Keys
<1>1. /\ \A s \in DOMAIN SchemaRoot : s \in Sections /\ SchemaRoot[s] \subseteq NamesRead(s)
      /\ \A s \in DOMAIN SchemaNav : s \in Sections /\ SchemaNav[s] \subseteq NamesRead(s)
  BY DEF SchemaRoot, SchemaNav, Sections, NamesRead, ReadsOf, Reads, ReadRoot, ReadDataset, ReadIpc,
         ReadWs, ReadNav, ReadImu, ReadGnss, ReadLooselyCoupled
<1>2. \A s \in DOMAIN SchemaSensors : s \in Sections /\ SchemaSensors[s] \subseteq NamesRead(s)
  BY DEF SchemaSensors, Sections, NamesRead, ReadsOf, Reads, ReadBarometer, ReadMagnetometer,
         ReadWheelOdometry, ReadOpticalFlow, ReadAirspeed
<1> QED
  BY <1>1, <1>2 DEF SchemaKeys, KeysOf, Keys

\* A document the schema admits is accepted, and what Validate() adds is listed.
LEMMA SchemaIsEnough ==
    ASSUME NEW d, SchemaValid(d)
    PROVE  /\ ~Refused(d)
           /\ Validate(FromJson(d)) <=>
                  /\ Reached(d, "dataset") /\ d.val[Path] = "set"
                  /\ Reached(d, "ipc") => d.val[Socket] # "empty" /\ d.val[IpcClients] # "wide"
<1>1. /\ Speed[1] = "root" /\ Path[1] = "dataset" /\ Socket[1] = "ipc" /\ IpcClients[1] = "ipc"
      /\ "root" \in Sections /\ "dataset" \in Sections /\ "ipc" \in Sections
      /\ {Speed, Path, Socket, IpcClients} \subseteq Keys \ (Optional \cup Array)
      /\ Speed \notin Named /\ Socket \notin Named /\ Path \notin Named /\ IpcClients \notin Named
      /\ Socket # Path /\ Socket # IpcClients /\ Path # IpcClients
  BY KnownSections, PlainKeys DEF Plain, Speed, Path, Socket, IpcClients, Named, Backend, Mode, Type
<1>2. ASSUME NEW k \in Keys, Reached(d, k[1])
      PROVE  d.val[k] = "absent" \/ (d.val[k] \in Legal[k] /\ d.val[k] \notin SchemaForbids(k))
  BY <1>2 DEF SchemaValid
<1>3. ~Refused(d)
  <2>1. \A s \in Sections : ~RefusedSection(d, s)
    BY DEF SchemaValid, RefusedSection
  <2>2. \A k \in Keys : Reached(d, k[1]) => ~Refuses(k, d.val[k])
    BY <1>2, LegalValues DEF LegalAt, Refuses
  <2> QED
    BY <2>1, <2>2 DEF Refused
<1>4. \A k \in Keys \ (Optional \cup Array) :
          FromJson(d)[k] = IF Reached(d, k[1]) /\ d.val[k] # "absent"
                           THEN Narrow(ReadName(k, d.val[k])) ELSE "dflt"
  BY KeysByName DEF FromJson, Field
<1>5. FromJson(d)[Path] # "dflt" <=> Reached(d, "dataset") /\ d.val[Path] = "set"
  <2>1. Legal[Path] \subseteq {"set", "dflt"}
    BY <1>1 DEF Legal, Whole, Path, Speed, IpcClients, Port, WsClients, Socket
  <2> QED
    BY <1>1, <1>2, <1>4, <2>1 DEF Narrow, ReadName
<1>6. FromJson(d)[Socket] # "empty" <=> (Reached(d, "ipc") => d.val[Socket] # "empty")
  BY <1>1, <1>2, <1>4, LegalValues DEF LegalAt, Narrow, ReadName
<1>7. FromJson(d)[IpcClients] \notin {"zero", "negative"} <=> (Reached(d, "ipc") => d.val[IpcClients] # "wide")
  <2>1. "zero" \in SchemaForbids(IpcClients) /\ "negative" \in SchemaForbids(IpcClients)
    BY DEF SchemaForbids
  <2> QED
    BY <1>1, <1>2, <1>4, <2>1, LegalValues DEF LegalAt, Narrow, ReadName
<1>8. FromJson(d)[Speed] # "negative"
  <2>1. "negative" \in SchemaForbids(Speed)
    BY DEF SchemaForbids
  <2> QED
    BY <1>1, <1>2, <1>4, <2>1, LegalValues DEF LegalAt, Narrow, ReadName
<1> QED
  BY <1>3, <1>5, <1>6, <1>7, <1>8 DEF Validate

-----------------------------------------------------------------------------
(* What is replayed.                                                       *)

\* The lines of a file that are records.
LEMMA RecordsOfFile ==
    ASSUME NEW lines \in Seq(Line)
    PROVE  /\ Records(lines) \subseteq 1..Len(lines) /\ IsFiniteSet(Records(lines))
           /\ Len(lines) \in Nat /\ Cardinality(Records(lines)) \in Nat
           /\ Cardinality(Records(lines)) <= Len(lines)
           /\ \A i \in Records(lines) : lines[i].stamp \in Nat
<1>1. Len(lines) \in Nat /\ Records(lines) \subseteq 1..Len(lines)
  BY DEF Records
<1>2. IsFiniteSet(1..Len(lines)) /\ Cardinality(1..Len(lines)) = Len(lines)
  <2>1. /\ IsFiniteSet(1..Len(lines))
        /\ Cardinality(1..Len(lines)) = IF 1 > Len(lines) THEN 0 ELSE Len(lines) - 1 + 1
    BY <1>1, FS_Interval
  <2> QED
    BY <1>1, <2>1
<1>3. \A i \in 1..Len(lines) : lines[i] \in Line
  OBVIOUS
<1> QED
  BY <1>1, <1>2, <1>3, FS_Subset, FS_CardinalityType DEF Line

\* The number of records up to a line, from none to all.
LEMMA Ranks ==
    ASSUME NEW lines \in Seq(Line), NEW p \in Nat
    PROVE  /\ Rank(lines, p) \in Nat /\ Rank(lines, p) <= Cardinality(Records(lines))
           /\ (\A j \in Records(lines) : j > p) => Rank(lines, p) = 0
           /\ (\A j \in Records(lines) : j <= p) => Rank(lines, p) = Cardinality(Records(lines))
<1> DEFINE S == Records(lines)
<1> DEFINE T == {j \in S : j <= p}
<1>1. S \subseteq Nat /\ IsFiniteSet(S) /\ T \in SUBSET S /\ Rank(lines, p) = Cardinality(T)
  BY RecordsOfFile DEF Rank
<1> HIDE DEF T
<1>2. IsFiniteSet(T) /\ Cardinality(T) <= Cardinality(S) /\ Cardinality(T) \in Nat
  BY <1>1, FS_Subset, FS_CardinalityType
<1>3. ASSUME \A j \in S : j > p PROVE Rank(lines, p) = 0
  <2>1. T = {}
    BY <1>1, <1>3 DEF T
  <2> QED
    BY <1>1, <2>1, FS_EmptySet
<1>4. ASSUME \A j \in S : j <= p PROVE T = S
  BY <1>1, <1>4 DEF T
<1> QED
  BY <1>1, <1>2, <1>3, <1>4

\* The next record is one place further.
LEMMA NextRank ==
    ASSUME NEW lines \in Seq(Line), NEW p \in Nat, NEW q \in Records(lines), p < q,
           \A j \in Records(lines) : j > p => j >= q
    PROVE  Rank(lines, q) = Rank(lines, p) + 1
<1> DEFINE S == Records(lines)
<1> DEFINE T == {j \in S : j <= p}
<1>1. S \subseteq Nat /\ IsFiniteSet(S) /\ T \in SUBSET S /\ q \in Nat
  BY RecordsOfFile
<1>2. {j \in S : j <= q} = T \cup {q} /\ q \notin T
  BY <1>1
<1> HIDE DEF T
<1>3. IsFiniteSet(T)
  BY <1>1, FS_Subset
<1>4. Cardinality(T \cup {q}) = Cardinality(T) + 1
  BY <1>2, <1>3, FS_AddElement
<1> QED
  BY <1>2, <1>4 DEF Rank, T

\* Two records have two places.
LEMMA RankRises ==
    ASSUME NEW lines \in Seq(Line), NEW i \in Records(lines), NEW j \in Records(lines), i < j
    PROVE  Rank(lines, i) < Rank(lines, j)
<1> DEFINE S == Records(lines)
<1> DEFINE T(n) == {k \in S : k <= n}
<1>1. S \subseteq Nat /\ IsFiniteSet(S) /\ i \in Nat /\ j \in Nat
  BY RecordsOfFile
<1>2. T(i) \in SUBSET T(j) /\ T(j) \in SUBSET S /\ j \in T(j) /\ j \notin T(i)
  BY <1>1
<1>3. Rank(lines, i) = Cardinality(T(i)) /\ Rank(lines, j) = Cardinality(T(j))
  BY DEF Rank
<1> HIDE DEF T
<1>4. IsFiniteSet(T(j)) /\ IsFiniteSet(T(i))
  BY <1>1, <1>2, FS_Subset
<1>5. Cardinality(T(i)) <= Cardinality(T(j)) /\ Cardinality(T(i)) # Cardinality(T(j))
  BY <1>2, <1>4, FS_Subset
<1>6. Cardinality(T(i)) \in Nat /\ Cardinality(T(j)) \in Nat
  BY <1>4, FS_CardinalityType
<1> QED
  BY <1>3, <1>5, <1>6

\* The record at a line stands at its place in WellFormed().
LEMMA RecordAtRank ==
    ASSUME NEW lines \in Seq(Line), NEW i \in Records(lines)
    PROVE  /\ Rank(lines, i) \in 1..Cardinality(Records(lines))
           /\ WellFormed(lines)[Rank(lines, i)] = lines[i]
<1> DEFINE S == Records(lines)
<1> DEFINE T == {j \in S : j <= i}
<1>1. S \subseteq Nat /\ IsFiniteSet(S) /\ i \in Nat /\ T \in SUBSET S /\ i \in T
  BY RecordsOfFile
<1>2. Rank(lines, i) = Cardinality(T)
  BY DEF Rank
<1> HIDE DEF T
<1>3. IsFiniteSet(T) /\ Cardinality(T) # 0 /\ Cardinality(T) \in Nat /\ Cardinality(T) <= Cardinality(S)
      /\ Cardinality(S) \in Nat
  BY <1>1, FS_Subset, FS_EmptySet, FS_CardinalityType
<1>4. Rank(lines, i) \in 1..Cardinality(S)
  BY <1>2, <1>3
<1>5. \A j \in S : Rank(lines, j) = Rank(lines, i) => j = i
  <2> SUFFICES ASSUME NEW j \in S, Rank(lines, j) = Rank(lines, i) PROVE j = i
    OBVIOUS
  <2>1. j \in Nat /\ Rank(lines, i) \in Nat
    BY <1>1, <1>4
  <2>2. CASE j < i
    BY <2>1, <2>2, RankRises
  <2>3. CASE i < j
    BY <2>1, <2>3, RankRises
  <2> QED
    BY <1>1, <2>1, <2>2, <2>3
<1>6. (CHOOSE k \in S : Rank(lines, k) = Rank(lines, i)) = i
  BY <1>5
<1> QED
  BY <1>4, <1>6 DEF WellFormed

\* WellFormed() holds as many records as there are.
LEMMA WellFormedLength ==
    ASSUME NEW lines \in Seq(Line)
    PROVE  /\ Len(WellFormed(lines)) = Cardinality(Records(lines))
           /\ DOMAIN WellFormed(lines) = 1..Cardinality(Records(lines))
  BY RecordsOfFile DEF WellFormed

\* IsPrefix() element by element.
Follows(s, t) == Len(s) <= Len(t) /\ \A i \in 1..Len(s) : s[i] = t[i]

\* The record at the next place may be added.
LEMMA FollowsNext ==
    ASSUME NEW lines \in Seq(Line), NEW s \in Seq(Line), Follows(s, WellFormed(lines)),
           NEW q \in Records(lines), Rank(lines, q) = Len(s) + 1
    PROVE  Follows(Append(s, lines[q]), WellFormed(lines))
<1> DEFINE t == WellFormed(lines)
<1>1. Len(t) = Cardinality(Records(lines)) /\ t[Rank(lines, q)] = lines[q] /\ Len(s) \in Nat
      /\ Rank(lines, q) \in 1..Cardinality(Records(lines)) /\ Cardinality(Records(lines)) \in Nat
  BY RecordAtRank, WellFormedLength, RecordsOfFile
<1>2. /\ Len(Append(s, lines[q])) = Len(s) + 1 /\ Append(s, lines[q])[Len(s) + 1] = lines[q]
      /\ \A i \in 1..Len(s) : Append(s, lines[q])[i] = s[i]
  <2>1. lines[q] \in Line
    BY RecordsOfFile
  <2> QED
    BY <2>1, AppendProperties
<1> QED
  BY <1>1, <1>2 DEF Follows

\* A prefix with all the records is the whole.
LEMMA FollowsAll ==
    ASSUME NEW lines \in Seq(Line), NEW s \in Seq(Line), Follows(s, WellFormed(lines)),
           Len(s) = Cardinality(Records(lines))
    PROVE  s = WellFormed(lines)
<1>1. s = [i \in 1..Len(s) |-> s[i]]
  OBVIOUS
<1>2. WellFormed(lines) = [i \in 1..Cardinality(Records(lines)) |-> WellFormed(lines)[i]]
  BY DEF WellFormed
<1> QED
  BY <1>1, <1>2 DEF Follows

\* Follows() is IsPrefix().
LEMMA FollowsIsPrefix ==
    ASSUME NEW s \in Seq(Line), NEW t, Follows(s, t), Len(t) \in Nat
    PROVE  IsPrefix(s, t)
<1>1. Len(s) \in Nat /\ Len(s) <= Len(t)
  BY DEF Follows
<1>2. SubSeq(s, 1, Len(s)) = [i \in 1..Len(s) |-> s[i]] /\ SubSeq(t, 1, Len(s)) = [i \in 1..Len(s) |-> t[i]]
  BY <1>1
<1> QED
  BY <1>1, <1>2 DEF IsPrefix, Follows

\* The values held anywhere in the program.
Held ==
    /\ Fits(cfg) /\ IsDocument(doc)
    /\ Values(parts.nav) /\ Values(parts.reader) /\ Values(parts.servers)

\* Such a configuration with one legal field set, as set_speed sets it.
LEMMA FitsWith ==
    ASSUME NEW c, Fits(c), NEW k \in Keys, NEW v, v \in Legal[k] \ {"wide", "unknown"}
    PROVE  Fits([c EXCEPT ![k] = v])
<1> DEFINE d == [c EXCEPT ![k] = v]
<1>1. d = [n \in Keys |-> IF n = k THEN v ELSE c[n]]
  BY DEF Fits
<1> HIDE DEF d
<1>2. d = [n \in Keys |-> d[n]] /\ \A n \in Keys : d[n] = IF n = k THEN v ELSE c[n]
  BY <1>1
<1> QED
  BY <1>2 DEF Fits, d

\* The parts made of such a configuration hold its values.
LEMMA FitsHasValues ==
    ASSUME NEW c, Fits(c)
    PROVE  /\ DOMAIN c = Keys /\ Values(c)
           /\ Values(NavPart(c)) /\ Values(ReaderPart(c)) /\ Values(ServerPart(c))
<1>1. DOMAIN c = Keys /\ \A k \in Keys : c[k] \in FieldValues
  BY LegalValues DEF LegalAt, Fits, FieldValues
<1>2. Type \in Keys /\ Path \in Keys
  BY PlainKeys DEF Plain
<1> QED
  BY <1>1, <1>2 DEF Values, NavPart, ReaderPart, ServerPart

\* The documents and configurations the program makes.
LEMMA DocumentsMade ==
    /\ IsDocument(Empty)
    /\ \A c : Fits(c) => IsDocument(ToJson(c))
    /\ \A d : IsDocument(d) /\ ~Refused(d) => Fits(FromJson(d))
    /\ \A edited \in BOOLEAN, speed \in {"dflt", "set"} :
          IsDocument(doc) => Fits(UiConfig(edited, speed))
<1>1. \A k \in Keys : "absent" \in JsonValues[k] /\ "set" \in Legal[k]
  BY LegalValues DEF LegalAt
<1>2. IsDocument(Empty)
  BY <1>1 DEF IsDocument, Empty, Shapes
<1>3. ASSUME NEW c, Fits(c) PROVE IsDocument(ToJson(c))
  BY <1>3, WrittenIsJson DEF IsDocument, ToJson, Shapes
<1>4. ASSUME NEW d, IsDocument(d), ~Refused(d) PROVE Fits(FromJson(d))
  BY <1>4, ReadFits DEF IsDocument
<1>5. ASSUME NEW edited \in BOOLEAN, NEW speed \in {"dflt", "set"}, IsDocument(doc)
      PROVE  Fits(UiConfig(edited, speed))
  <2>1. /\ {Path, Port, Speed, WsClients} \subseteq Keys
        /\ Port \notin Optional /\ Speed \notin Optional
    BY PlainKeys DEF Plain
  <2>2. /\ "set" \in Legal[Path] /\ "set" \in Legal[WsClients] /\ "dflt" \in Legal[Port]
        /\ speed \in Legal[Speed]
    BY <2>1, LegalValues DEF LegalAt
  <2>3. CASE edited /\ ~Refused(doc)
    <3>1. Fits([FromJson(doc) EXCEPT ![Path] = "set"])
      BY <1>4, <1>5, <2>1, <2>2, <2>3, FitsWith
    <3>2. Fits([[FromJson(doc) EXCEPT ![Path] = "set"] EXCEPT ![Port] = "dflt"])
      BY <2>1, <2>2, <3>1, FitsWith
    <3> QED
      BY <2>3, <3>2 DEF UiConfig
  <2>4. CASE ~(edited /\ ~Refused(doc))
    <3>1. Fits([Default EXCEPT ![Path] = "set"])
      BY <2>1, <2>2, FitsWith, DefaultFits
    <3>2. Fits([[Default EXCEPT ![Path] = "set"] EXCEPT ![Speed] = speed])
      BY <2>1, <2>2, <3>1, FitsWith
    <3>3. Fits([[[Default EXCEPT ![Path] = "set"] EXCEPT ![Speed] = speed] EXCEPT ![WsClients] = "set"])
      BY <2>1, <2>2, <3>2, FitsWith
    <3> QED
      BY <2>4, <3>3 DEF UiConfig
  <2> QED
    BY <2>3, <2>4
<1> QED
  BY <1>2, <1>3, <1>4, <1>5

\* An edited document is still one.
LEMMA EditIsDocument ==
    ASSUME NEW d, IsDocument(d), NEW s \in Sections, NEW shape \in Shapes
    PROVE  /\ IsDocument([d EXCEPT !.shape[s] = shape])
           /\ \A k \in Keys : \A v \in JsonValues[k] :
                 IsDocument([shape |-> [d.shape EXCEPT ![s] = shape], val |-> [d.val EXCEPT ![k] = v]])
<1>1. IsDocument([d EXCEPT !.shape[s] = shape])
  <2> DEFINE e == [d EXCEPT !.shape[s] = shape]
  <2>1. e = [shape |-> [d.shape EXCEPT ![s] = shape], val |-> d.val]
    BY DEF IsDocument
  <2> HIDE DEF e
  <2> QED
    BY <2>1 DEF IsDocument, e
<1>2. ASSUME NEW k \in Keys, NEW v \in JsonValues[k]
      PROVE  IsDocument([shape |-> [d.shape EXCEPT ![s] = shape], val |-> [d.val EXCEPT ![k] = v]])
  <2> DEFINE e == [shape |-> [d.shape EXCEPT ![s] = shape], val |-> [d.val EXCEPT ![k] = v]]
  <2>1. e = [shape |-> [d.shape EXCEPT ![s] = shape], val |-> [d.val EXCEPT ![k] = v]]
    OBVIOUS
  <2>2. [d.shape EXCEPT ![s] = shape] \in [Sections -> Shapes]
    BY DEF IsDocument
  <2>3. [d.val EXCEPT ![k] = v] = [n \in Keys |-> IF n = k THEN v ELSE d.val[n]]
    BY DEF IsDocument
  <2> HIDE DEF e
  <2>4. \A n \in Keys : e.val[n] = IF n = k THEN v ELSE d.val[n]
    BY <2>1, <2>3
  <2>5. e.val = [n \in Keys |-> e.val[n]]
    BY <2>1, <2>3
  <2>6. \A n \in Keys : d.val[n] \in JsonValues[n]
    BY DEF IsDocument
  <2> QED
    BY <2>1, <2>2, <2>4, <2>5, <2>6 DEF IsDocument, e
<1> QED
  BY <1>1, <1>2

\* Every step keeps what is held; first the edits.
LEMMA EditHeld == Held /\ Edit => Held'
<1> SUFFICES ASSUME Held, Edit PROVE Held'
  OBVIOUS
<1>1. UNCHANGED <<cfg, parts>>
  BY DEF Edit, EditKey, EditSection, sessionVars
<1>2. CASE \E k \in Keys : \E v \in JsonValues[k] : EditKey(k, v)
  <2>1. PICK k \in Keys : \E v \in JsonValues[k] : EditKey(k, v)
    BY <1>2
  <2>2. PICK v \in JsonValues[k] : EditKey(k, v)
    BY <2>1
  <2>3. k[1] \in Sections /\ "object" \in Shapes
    BY KeysByName DEF Shapes
  <2> QED
    BY <1>1, <2>2, <2>3, EditIsDocument DEF Held, EditKey
<1>3. CASE \E s \in Sections, shape \in {"absent", "other"} : EditSection(s, shape)
  <2>1. PICK s \in Sections, shape \in {"absent", "other"} : EditSection(s, shape)
    BY <1>3
  <2> QED
    BY <1>1, <2>1, EditIsDocument DEF Held, EditSection, Shapes
<1> QED
  BY <1>2, <1>3 DEF Edit

\* The constructor and Reconfigure(), whether or not making the reader throws.
LEMMA MadeHeld ==
    ASSUME Held, NEW c, Fits(c), Construct(c) \/ (FilesInv /\ Replace(c)), doc' \in {doc, Empty}
    PROVE  Held'
<1>1. /\ PartsOf(c).nav = NavPart(c) /\ PartsOf(c).reader = ReaderPart(c)
      /\ PartsOf(c).servers = ServerPart(c)
  BY DEF PartsOf
<1>2. Values(NavPart(c)) /\ Values(ReaderPart(c)) /\ Values(ServerPart(c))
  BY FitsHasValues
<1>3. IsDocument(doc')
  BY DocumentsMade DEF Held
<1>4. cfg' = c /\ (parts' = PartsOf(c) \/ (FilesInv /\ parts' = [parts EXCEPT !.nav = NavPart(c)]))
  BY DEF Construct, Replace
<1> QED
  BY <1>1, <1>2, <1>3, <1>4 DEF Held, FilesInv, Shaped

\* All steps.
LEMMA HeldStep == Held /\ FilesInv /\ [Next]_vars => Held'
<1> SUFFICES ASSUME Held, FilesInv, [Next]_vars PROVE Held'
  OBVIOUS
<1>1. IsDocument(doc) /\ Fits(cfg)
  BY DEF Held
<1>2. CASE LaunchCli
  BY <1>1, <1>2, DocumentsMade, MadeHeld DEF LaunchCli, PutAway
<1>3. CASE \E edited \in BOOLEAN : LaunchUi(edited)
  <2>1. PICK edited \in BOOLEAN : LaunchUi(edited)
    BY <1>3
  <2> QED
    BY <1>1, <2>1, DocumentsMade, MadeHeld DEF LaunchUi, PutAway
<1>4. CASE Reconfigure \/ ConfigureCompleted
  BY <1>1, <1>4, DocumentsMade, MadeHeld DEF Reconfigure, ConfigureCompleted, PutAway
<1>5. CASE Save
  BY <1>1, <1>5, DocumentsMade DEF Save, sessionVars, Held
<1>6. CASE \E v \in {"set", "zero", "negative"} : SetSpeed(v)
  <2>1. PICK v \in {"set", "zero", "negative"} : SetSpeed(v)
    BY <1>6
  <2>2. Speed \in Keys /\ v \in Legal[Speed] \ {"wide", "unknown"}
    BY PlainKeys, LegalValues DEF LegalAt, Plain
  <2> QED
    BY <1>1, <2>1, <2>2, FitsWith DEF SetSpeed, Held
<1>7. CASE Destroy
  <2>1. Fits(Default) /\ cfg' = Default /\ parts' = PartsOf(Default) /\ doc' = doc
    BY <1>7, DefaultFits DEF Destroy
  <2> QED
    BY <1>1, <2>1, FitsHasValues DEF Held, PartsOf
<1>8. CASE LaunchCliThrows \/ Start \/ ReplayRecord \/ ReplayEnds \/ Stop \/ UNCHANGED vars
  <2>1. UNCHANGED <<doc, cfg, parts>>
    BY <1>8 DEF LaunchCliThrows, Start, ReplayRecord, ReplayEnds, Stop, vars
  <2> QED
    BY <2>1 DEF Held
<1> QED
  BY <1>2, <1>3, <1>4, <1>5, <1>6, <1>7, <1>8, EditHeld DEF Next, Use, Run

\* The beginning.
LEMMA InitHeld == Init => Held
  BY DefaultFits, FitsHasValues, FilesAssumption DEF Init, Held, PartsOf

\* The states of a reader.
ReaderType == [stream : [open : BOOLEAN, pos : Nat, failed : BOOLEAN], count : Nat, start : Int, end : Int]

Reader ==
    /\ file \in Seq(Line) /\ pushed \in Seq(Line) /\ reader \in ReaderType
    /\ starts \in 0 .. MaxStarts

\* A stream is open only while the replay thread is joinable, so that Start()
\* opens it anew; a running replay has pushed the records up to its position.
Reading ==
    /\ ~joinable => reader.stream = Closed
    /\ status = "running" =>
          /\ joinable /\ reader.stream.open /\ ~reader.stream.failed
          /\ reader.stream.pos <= Len(file) /\ Len(pushed) = Rank(file, reader.stream.pos)
    /\ status = "completed" => Len(pushed) = Cardinality(Records(file))

\* Whatever the status, what was pushed are the first records.
InOrder == Follows(pushed, WellFormed(file))

\* start_time_ is that of the first record since the reader was made, end_time_
\* that of the last one read.
Bounds ==
    /\ reader.start # NoTime => WellFormed(file) # <<>> /\ reader.start = WellFormed(file)[1].stamp
    /\ pushed # <<>> => reader.start # NoTime /\ reader.end = pushed[Len(pushed)].stamp

\* No Start() reads more than the lines of the file.
Counted ==
    /\ reader.count <= starts * Len(file)
    /\ status = "running" => starts >= 1 /\ reader.count <= (starts - 1) * Len(file) + Len(pushed)

ReplayInv == Reader /\ Reading /\ InOrder /\ Bounds /\ Counted

\* Arithmetic for Counted.
LEMMA Products ==
    ASSUME NEW a \in Nat, NEW n \in Nat
    PROVE  a * n \in Nat /\ (a + 1) * n = a * n + n
<1>1. a * n \in Nat
  OBVIOUS
<1>2. (a + 1) * n = a * n + n
  OBVIOUS
<1> QED
  BY <1>1, <1>2

\* More starts, more lines.
LEMMA ProductsRise ==
    ASSUME NEW a \in Nat, NEW b \in Nat, NEW n \in Nat, a <= b
    PROVE  a * n <= b * n
<1>1. PICK k \in Nat : b = a + k
  <2>1. b - a \in Nat /\ b = a + (b - a)
    OBVIOUS
  <2> QED
    BY <2>1
<1>2. b * n = a * n + k * n /\ k * n >= 0 /\ a * n \in Int
  BY <1>1
<1> QED
  BY <1>2

\* A new reader.
LEMMA NothingRead ==
    ASSUME ReplayInv, file' = file, reader' = NewReader, pushed' = <<>>, starts' = starts,
           status' \notin {"running", "completed"}
    PROVE  ReplayInv'
<1> USE DEF ReplayInv
<1>1. NewReader \in ReaderType /\ NewReader.stream = Closed /\ NewReader.count = 0 /\ NewReader.start = NoTime
  BY DEF NewReader, Closed, ReaderType, NoTime
<1>2. <<>> \in Seq(Line) /\ Len(<<>>) = 0
  BY EmptySeq
<1>3. Len(WellFormed(file)) \in Nat
  BY WellFormedLength, RecordsOfFile DEF Reader
<1>4. starts * Len(file) \in Nat
  BY Products, LenProperties DEF Reader
<1>5. Reader' /\ Reading'
  BY <1>1, <1>2 DEF Reader, Reading
<1>6. InOrder'
  BY <1>2, <1>3 DEF InOrder, Follows
<1>7. Bounds'
  BY <1>1 DEF Bounds
<1>8. Counted'
  BY <1>1, <1>4 DEF Counted
<1> QED
  BY <1>5, <1>6, <1>7, <1>8

\* Steps that leave the reader and what was pushed alone.
LEMMA NothingChanges ==
    ASSUME ReplayInv, UNCHANGED <<file, reader, pushed, starts>>, joinable' = joinable,
           status' \in {"running", "completed"} => status' = status
    PROVE  ReplayInv'
<1> USE DEF ReplayInv
<1>1. Reader'
  BY DEF Reader
<1>2. Reading'
  BY DEF Reading
<1>3. InOrder' /\ Bounds'
  BY DEF InOrder, Bounds
<1>4. Counted'
  BY DEF Counted
<1> QED
  BY <1>1, <1>2, <1>3, <1>4

\* A set of lines that is not empty has a first one.
LEMMA LeastLine ==
    ASSUME NEW S \in SUBSET Nat, S # {}
    PROVE  \E i \in S : \A j \in S : i <= j
<1> DEFINE R == OpToRel(<, Nat)
<1>1. PICK m \in S : \A j \in S : ~(<<j, m>> \in R)
  <2>1. IsWellFoundedOn(R, Nat)
    BY NatLessThanWellFounded
  <2> HIDE DEF R
  <2> QED
    BY <2>1, WFMin
<1>2. \A j \in S : m <= j
  <2>1. ASSUME NEW j \in S PROVE ~(j < m)
    BY <1>1 DEF OpToRel
  <2> QED
    BY <2>1
<1> QED
  BY <1>2

\* Next() passes over the lines up to the next record and returns it.
LEMMA RecordRead ==
    ASSUME ReplayInv, ReplayRecord
    PROVE  ReplayInv'
<1> USE DEF ReplayInv
<1> DEFINE p == reader.stream.pos
<1> DEFINE q == First(Ahead(reader, file))
<1>1. /\ status = "running" /\ UNCHANGED <<status, file, joinable, starts>>
      /\ joinable /\ reader.stream.open /\ ~reader.stream.failed
      /\ p \in Nat /\ p <= Len(file) /\ Len(pushed) = Rank(file, p)
      /\ Ahead(reader, file) # {}
      /\ file \in Seq(Line) /\ pushed \in Seq(Line) /\ reader \in ReaderType /\ starts \in Nat
      /\ Len(file) \in Nat /\ Len(pushed) \in Nat
  BY FilesAssumption DEF ReplayRecord, NextResult, Reading, Reader, ReaderType
<1>2. Ahead(reader, file) = {i \in Records(file) : i > p}
  BY <1>1 DEF Ahead, Records
<1>3. /\ q \in Records(file) /\ q > p /\ q \in Nat /\ q <= Len(file)
      /\ \A j \in Records(file) : j > p => j >= q
  <2>1. Ahead(reader, file) \subseteq Nat
    BY <1>2, <1>1, RecordsOfFile
  <2>2. \E i \in Ahead(reader, file) : \A j \in Ahead(reader, file) : i <= j
    BY <1>1, <2>1, LeastLine
  <2>3. q \in Ahead(reader, file) /\ \A j \in Ahead(reader, file) : q <= j
    BY <2>2 DEF First
  <2>4. \A j \in Records(file) : j \in 1..Len(file)
    BY <1>1, RecordsOfFile
  <2>5. q \in Records(file) /\ q > p /\ q \in 1..Len(file)
    BY <1>2, <2>3, <2>4
  <2>6. \A j \in Records(file) : j > p => j >= q
    BY <1>1, <1>2, <2>3, <2>4, <2>5
  <2> QED
    BY <1>1, <2>5, <2>6
<1> HIDE DEF q
<1>4. Rank(file, q) = Rank(file, p) + 1 /\ Rank(file, q) <= Len(file)
  <2>1. Rank(file, q) = Rank(file, p) + 1
    BY <1>1, <1>3, NextRank
  <2>2. Rank(file, q) \in Nat /\ Rank(file, q) <= Cardinality(Records(file))
    BY <1>1, <1>3, Ranks
  <2>3. Cardinality(Records(file)) \in Nat /\ Cardinality(Records(file)) <= Len(file)
    BY <1>1, RecordsOfFile
  <2> QED
    BY <1>1, <2>1, <2>2, <2>3
<1>5. /\ pushed' = Append(pushed, file[q])
      /\ reader' = [stream |-> [reader.stream EXCEPT !.pos = q], count |-> reader.count + 1,
                    start |-> IF reader.start = NoTime THEN file[q].stamp ELSE reader.start,
                    end |-> file[q].stamp]
  BY DEF ReplayRecord, AfterNext, NextRecord, q
<1>6. file[q] \in Line /\ file[q].stamp \in Nat
  BY <1>1, <1>3, RecordsOfFile
<1>7. /\ pushed' \in Seq(Line) /\ Len(pushed') = Len(pushed) + 1 /\ pushed' # <<>>
      /\ pushed'[Len(pushed')] = file[q]
      /\ pushed'[1] = IF Len(pushed) = 0 THEN file[q] ELSE pushed[1]
  BY <1>1, <1>5, <1>6, AppendProperties
<1>8. /\ reader'.stream = [open |-> TRUE, pos |-> q, failed |-> FALSE]
      /\ reader'.count = reader.count + 1 /\ reader'.end = file[q].stamp
      /\ reader'.start = IF reader.start = NoTime THEN file[q].stamp ELSE reader.start
      /\ reader.count \in Nat /\ reader.start \in Int
  BY <1>1, <1>5 DEF ReaderType
<1>9. reader' \in ReaderType
  <2>1. [open |-> TRUE, pos |-> q, failed |-> FALSE] \in [open : BOOLEAN, pos : Nat, failed : BOOLEAN]
    BY <1>3
  <2>2. reader'.count \in Nat /\ reader'.start \in Int /\ reader'.end \in Int
    BY <1>6, <1>8
  <2>3. reader' = [stream |-> reader'.stream, count |-> reader'.count, start |-> reader'.start,
                   end |-> reader'.end]
    BY <1>5
  <2> QED
    BY <1>8, <2>1, <2>2, <2>3 DEF ReaderType
<1>10. Reader'
  BY <1>1, <1>7, <1>9 DEF Reader
<1>11. Reading'
  BY <1>1, <1>3, <1>4, <1>7, <1>8 DEF Reading
<1>12. InOrder'
  BY <1>1, <1>3, <1>4, <1>5, FollowsNext DEF InOrder
<1>13. Bounds'
  <2>1. /\ Len(WellFormed(file)) \in Nat /\ Len(pushed') <= Len(WellFormed(file))
        /\ WellFormed(file)[1] = pushed'[1]
    BY <1>1, <1>7, <1>12, WellFormedLength, RecordsOfFile DEF InOrder, Follows
  <2>2. WellFormed(file) # <<>>
    BY <1>1, <1>7, <2>1
  <2>3. reader'.start = WellFormed(file)[1].stamp /\ reader'.start # NoTime
    <3>1. CASE reader.start = NoTime
      <4>1. pushed = <<>>
        BY <3>1 DEF Bounds
      <4> QED
        BY <1>6, <1>7, <1>8, <2>1, <3>1, <4>1 DEF NoTime
    <3>2. CASE reader.start # NoTime
      BY <1>8, <3>2 DEF Bounds
    <3> QED
      BY <3>1, <3>2
  <2> QED
    BY <1>1, <1>7, <1>8, <2>2, <2>3 DEF Bounds
<1>14. Counted'
  <2>1. starts >= 1 /\ reader.count <= (starts - 1) * Len(file) + Len(pushed)
    BY <1>1 DEF Counted
  <2>2. (starts - 1) * Len(file) \in Nat /\ starts * Len(file) = (starts - 1) * Len(file) + Len(file)
    BY <1>1, <2>1, Products
  <2>3. Len(pushed') = Len(pushed) + 1 /\ Len(pushed') <= Len(file)
    BY <1>1, <1>4, <1>7
  <2>4. reader'.count <= (starts - 1) * Len(file) + Len(pushed') /\ reader'.count <= starts * Len(file)
    BY <1>1, <1>8, <2>1, <2>2, <2>3
  <2> QED
    BY <1>1, <2>1, <2>4 DEF Counted
<1> QED
  BY <1>10, <1>11, <1>12, <1>13, <1>14

\* Start() opens the file from its beginning, or ends the process.
LEMMA Started ==
    ASSUME ReplayInv, Start
    PROVE  ReplayInv'
<1> USE DEF ReplayInv
<1>1. /\ starts' = starts + 1 /\ starts' \in 0..MaxStarts /\ file' = file /\ starts \in Nat /\ Len(file) \in Nat
      /\ file \in Seq(Line) /\ reader \in ReaderType /\ pushed \in Seq(Line)
      /\ starts * Len(file) \in Nat /\ starts' * Len(file) = starts * Len(file) + Len(file)
  BY FilesAssumption, Products DEF Start, Reader
<1>2. CASE status' = "error" /\ UNCHANGED <<reader, joinable, pushed>>
  <2>1. Reader' /\ Reading' /\ InOrder' /\ Bounds'
    BY <1>1, <1>2 DEF Reader, Reading, InOrder, Bounds
  <2>2. Counted'
    BY <1>1, <1>2 DEF Counted, ReaderType
  <2> QED
    BY <2>1, <2>2
<1>3. CASE /\ reader' = Open(reader) /\ joinable' = TRUE /\ pushed' = <<>>
           /\ status' = IF joinable THEN "terminated" ELSE "running"
  <2>1. /\ reader'.count = reader.count /\ reader'.start = reader.start /\ reader' \in ReaderType
    BY <1>1, <1>3 DEF Open, ReaderType
  <2>2. <<>> \in Seq(Line) /\ Len(<<>>) = 0
    BY EmptySeq
  <2>3. ~joinable => reader'.stream = [open |-> TRUE, pos |-> 0, failed |-> FALSE]
    BY <1>1, <1>3 DEF Open, Reading, Closed, ReaderType
  <2>4. Rank(file, 0) = 0
    BY <1>1, Ranks, RecordsOfFile
  <2>5. Reader'
    BY <1>1, <1>3, <2>1, <2>2 DEF Reader
  <2>6. Reading'
    BY <1>1, <1>3, <2>2, <2>3, <2>4 DEF Reading
  <2>7. InOrder'
    BY <1>1, <1>3, <2>2, WellFormedLength, RecordsOfFile DEF InOrder, Follows
  <2>8. Bounds'
    BY <1>1, <1>3, <2>1 DEF Bounds
  <2>9. Counted'
    <3>1. reader.count \in Nat /\ reader.count <= starts * Len(file)
      BY <1>1 DEF Counted, ReaderType
    <3>2. starts' >= 1 /\ starts' - 1 = starts
      BY <1>1
    <3> QED
      BY <1>1, <1>3, <2>1, <2>2, <3>1, <3>2 DEF Counted
  <2> QED
    BY <2>5, <2>6, <2>7, <2>8, <2>9
<1> QED
  BY <1>2, <1>3 DEF Start

\* Next() found no record any more: all of them have been pushed.
LEMMA Ended ==
    ASSUME ReplayInv, ReplayEnds
    PROVE  ReplayInv'
<1> USE DEF ReplayInv
<1>1. /\ status = "running" /\ status' = "completed" /\ UNCHANGED <<file, joinable, starts, pushed>>
      /\ joinable /\ reader.stream.open /\ ~reader.stream.failed
      /\ reader.stream.pos \in Nat /\ Len(pushed) = Rank(file, reader.stream.pos)
      /\ Ahead(reader, file) = {} /\ reader' = [reader EXCEPT !.stream.failed = TRUE]
      /\ file \in Seq(Line) /\ reader \in ReaderType
  BY DEF ReplayEnds, NextResult, AfterNext, Reading, Reader, ReaderType
<1>2. \A i \in Records(file) : i <= reader.stream.pos
  <2>1. \A i \in Records(file) : i \in 1..Len(file) /\ ~Rejected(file[i])
    BY <1>1, RecordsOfFile DEF Records
  <2> QED
    BY <1>1, <2>1 DEF Ahead
<1>3. Len(pushed) = Cardinality(Records(file))
  BY <1>1, <1>2, Ranks
<1>4. /\ reader'.count = reader.count /\ reader'.start = reader.start /\ reader'.end = reader.end
      /\ reader' \in ReaderType
  BY <1>1 DEF ReaderType
<1>5. Reader' /\ Reading' /\ InOrder'
  BY <1>1, <1>3, <1>4 DEF Reader, Reading, InOrder
<1>6. Bounds' /\ Counted'
  BY <1>1, <1>4 DEF Bounds, Counted
<1> QED
  BY <1>5, <1>6

\* Stop() closes the stream.
LEMMA Stopped ==
    ASSUME ReplayInv, Stop
    PROVE  ReplayInv'
<1> USE DEF ReplayInv
<1>1. /\ reader' = [reader EXCEPT !.stream = Closed] /\ ~joinable' /\ status' = "idle"
      /\ UNCHANGED <<file, starts, pushed>> /\ reader \in ReaderType
  BY DEF Stop, Close, Reader
<1>2. /\ reader'.count = reader.count /\ reader'.start = reader.start /\ reader'.end = reader.end
      /\ reader' \in ReaderType /\ reader'.stream = Closed
  BY <1>1 DEF ReaderType, Closed
<1>3. Reader' /\ Reading' /\ InOrder'
  BY <1>1, <1>2 DEF Reader, Reading, InOrder
<1>4. Bounds' /\ Counted'
  BY <1>1, <1>2 DEF Bounds, Counted
<1> QED
  BY <1>3, <1>4

\* All steps.
LEMMA ReplayStep == ReplayInv /\ [Next]_vars => ReplayInv'
<1> SUFFICES ASSUME ReplayInv, [Next]_vars PROVE ReplayInv'
  OBVIOUS
<1>1. CASE ReplayRecord \/ ReplayEnds \/ Start \/ Stop
  BY <1>1, RecordRead, Ended, Started, Stopped
<1>2. CASE Destroy \/ LaunchCli \/ \E edited \in BOOLEAN : LaunchUi(edited)
  <2>1. UNCHANGED <<file, starts>> /\ reader' = NewReader /\ pushed' = <<>>
        /\ status' \in {"none", "configured"}
    BY <1>2 DEF Destroy, LaunchCli, LaunchUi, Construct
  <2> QED
    BY <2>1, NothingRead
<1>3. CASE Reconfigure \/ ConfigureCompleted
  <2>1. UNCHANGED <<file, starts, joinable>>
    BY <1>3 DEF Reconfigure, ConfigureCompleted
  <2>2. CASE cfg'[Type] = "unknown"
    <3>1. UNCHANGED <<reader, pushed, status>>
      BY <1>3, <2>2 DEF Reconfigure, ConfigureCompleted, Replace
    <3> QED
      BY <2>1, <3>1, NothingChanges
  <2>3. CASE cfg'[Type] # "unknown"
    <3>1. reader' = NewReader /\ pushed' = <<>> /\ status' \in {"configured", "terminated"}
      BY <1>3, <2>3 DEF Reconfigure, ConfigureCompleted, Replace
    <3> QED
      BY <2>1, <3>1, NothingRead
  <2> QED
    BY <2>2, <2>3
<1>4. CASE \/ Edit \/ LaunchCliThrows \/ Save \/ UNCHANGED vars
           \/ \E v \in {"set", "zero", "negative"} : SetSpeed(v)
  <2>1. UNCHANGED <<file, reader, pushed, starts, joinable>>
        /\ (status' = status \/ status' = "terminated")
    BY <1>4 DEF Edit, EditKey, EditSection, LaunchCliThrows, Save, SetSpeed, sessionVars, vars
  <2> QED
    BY <2>1, NothingChanges
<1> QED
  BY <1>1, <1>2, <1>3, <1>4 DEF Next, Use, Run

\* The beginning.
LEMMA InitReplay == Init => ReplayInv
<1> SUFFICES ASSUME Init PROVE ReplayInv
  OBVIOUS
<1>1. file \in Seq(Line) /\ reader = NewReader /\ pushed = <<>> /\ starts = 0 /\ status = "none"
      /\ MaxStarts \in Nat /\ Len(file) \in Nat
  BY FilesAssumption DEF Init
<1>2. NewReader \in ReaderType /\ NewReader.stream = Closed /\ NewReader.count = 0 /\ NewReader.start = NoTime
  BY DEF NewReader, Closed, ReaderType, NoTime
<1>3. <<>> \in Seq(Line) /\ Len(<<>>) = 0 /\ Len(WellFormed(file)) \in Nat
  BY <1>1, EmptySeq, WellFormedLength, RecordsOfFile
<1>4. Reader /\ Reading /\ Bounds
  BY <1>1, <1>2, <1>3 DEF Reader, Reading, Bounds
<1>5. InOrder /\ Counted
  BY <1>1, <1>2, <1>3 DEF InOrder, Follows, Counted
<1> QED
  BY <1>4, <1>5 DEF ReplayInv

\* The rest of TypeOK.
Bounded == status \in Statuses /\ edits \in 0 .. MaxEdits

LEMMA BoundedStep == Bounded /\ [Next]_vars => Bounded'
<1> SUFFICES ASSUME Bounded, [Next]_vars PROVE Bounded'
  OBVIOUS
<1>1. status' \in Statuses
  BY DEF Bounded, Next, Edit, Use, Run, EditKey, EditSection, Save, Construct, LaunchCli, LaunchCliThrows,
         LaunchUi, Reconfigure, ConfigureCompleted, SetSpeed, Start, ReplayRecord, ReplayEnds, Stop,
         Destroy, sessionVars, vars, Statuses
<1>2. edits' = edits \/ (edits < MaxEdits /\ edits' = edits + 1)
  BY DEF Next, Edit, Use, Run, EditKey, EditSection, Save, Construct, LaunchCli, LaunchCliThrows,
         LaunchUi, Reconfigure, ConfigureCompleted, SetSpeed, Start, ReplayRecord, ReplayEnds, Stop,
         Destroy, sessionVars, vars
<1> QED
  BY <1>1, <1>2, FilesAssumption DEF Bounded

-----------------------------------------------------------------------------
\* The inductive invariant: the parts match, what is held has the values of its
\* fields, and what was pushed are the records up to the position of the stream.
THEOREM FilesInvariance == Spec => [](FilesInv /\ Held /\ ReplayInv /\ Bounded)
<1>1. Init => FilesInv /\ Held /\ ReplayInv /\ Bounded
  <2>1. Init => FilesInv
    BY InitMatches
  <2>2. Init => Bounded
    BY FilesAssumption DEF Init, Bounded, Statuses
  <2> QED
    BY <2>1, <2>2, InitHeld, InitReplay
<1>2. FilesInv /\ [Next]_vars => FilesInv'
  BY StepMatches
<1> QED
  BY <1>1, <1>2, HeldStep, ReplayStep, BoundedStep, PTL DEF Spec

\* "Serializes the configuration": whatever session a configuration has come from,
\* the document SaveToPath() writes of it is accepted and gives it back.
THEOREM WhatIsSavedComesBack == Spec => []SavedComesBack
<1>1. Held => SavedComesBack
  BY SavedIsRead DEF Held, SavedComesBack
<1> QED
  BY <1>1, FilesInvariance, PTL

\* Every document that ToSchemaJson() admits is accepted by FromJson(), and
\* Validate() only adds the path, the socket and integers wider than their field.
THEOREM SchemaAlwaysSuffices == Spec => []SchemaSuffices
<1>1. SchemaSuffices
  BY SchemaKnown, SchemaIsEnough DEF SchemaSuffices
<1> QED
  BY <1>1, PTL

\* A replay pushes the records of the file, each once and in order, from the
\* first on, whatever was started, stopped or reconfigured before; Completed is
\* not reported before the last.
THEOREM ReplayIsTheFile == Spec => []ReplaysTheFile
<1>1. ReplayInv => ReplaysTheFile
  <2> SUFFICES ASSUME ReplayInv PROVE ReplaysTheFile
    OBVIOUS
  <2>1. /\ pushed \in Seq(Line) /\ Follows(pushed, WellFormed(file))
        /\ Len(WellFormed(file)) = Cardinality(Records(file)) /\ Len(WellFormed(file)) \in Nat
        /\ file \in Seq(Line)
    BY WellFormedLength, RecordsOfFile DEF ReplayInv, Reader, InOrder
  <2>2. IsPrefix(pushed, WellFormed(file))
    BY <2>1, FollowsIsPrefix
  <2>3. status = "completed" => pushed = WellFormed(file)
    <3> SUFFICES ASSUME status = "completed" PROVE pushed = WellFormed(file)
      OBVIOUS
    <3>1. Len(pushed) = Cardinality(Records(file))
      BY DEF ReplayInv, Reading
    <3> QED
      BY <2>1, <3>1, FollowsAll
  <2> QED
    BY <2>2, <2>3 DEF ReplaysTheFile
<1> QED
  BY <1>1, FilesInvariance, PTL

\* TypeOK, and on a file in time order StartTime() and EndTime() enclose what was
\* read, over any number of starts of one reader.
THEOREM BoundsAlwaysEnclose == Spec => []BoundsEnclose
<1>1. FilesInv /\ Held /\ ReplayInv /\ Bounded => BoundsEnclose
  <2> SUFFICES ASSUME FilesInv, Held, ReplayInv, Bounded PROVE BoundsEnclose
    OBVIOUS
  <2>1. reader.count \in 0 .. MaxStarts * Len(file)
    <3>1. /\ reader.count \in Nat /\ Len(file) \in Nat /\ starts \in Nat /\ MaxStarts \in Nat
          /\ starts <= MaxStarts /\ reader.count <= starts * Len(file)
      BY FilesAssumption DEF ReplayInv, Reader, ReaderType, Counted
    <3>2. starts * Len(file) <= MaxStarts * Len(file) /\ starts * Len(file) \in Nat
          /\ MaxStarts * Len(file) \in Nat
      BY <3>1, ProductsRise, Products
    <3> QED
      BY <3>1, <3>2
  <2>2. TypeOK
    <3>1. DOMAIN cfg = Keys /\ Values(cfg)
      BY FitsHasValues DEF Held
    <3> QED
      BY <2>1, <3>1 DEF TypeOK, Held, IsDocument, Bounded
  <2>3. ASSUME \A i, j \in DOMAIN WellFormed(file) :
                 i < j => WellFormed(file)[i].stamp <= WellFormed(file)[j].stamp,
               NEW i \in DOMAIN pushed, reader.start # NoTime
        PROVE  reader.start <= pushed[i].stamp /\ pushed[i].stamp <= reader.end
    <3> DEFINE all == WellFormed(file)
    <3>1. /\ Len(pushed) \in Nat /\ Len(all) \in Nat /\ Len(pushed) <= Len(all) /\ i \in 1..Len(pushed)
          /\ DOMAIN all = 1..Len(all)
          /\ \A k \in 1..Len(pushed) : pushed[k] = all[k]
          /\ \A k \in 1..Len(pushed) : pushed[k].stamp \in Nat
      <4>1. file \in Seq(Line) /\ pushed \in Seq(Line) /\ Follows(pushed, all)
        BY DEF ReplayInv, Reader, InOrder
      <4>2. Len(all) \in Nat /\ DOMAIN all = 1..Len(all)
        BY <4>1, WellFormedLength, RecordsOfFile
      <4>3. \A k \in 1..Len(pushed) : pushed[k] \in Line
        BY <4>1
      <4>4. Len(pushed) \in Nat /\ i \in 1..Len(pushed)
        BY <2>3, <4>1
      <4> HIDE DEF all
      <4> QED
        BY <4>1, <4>2, <4>3, <4>4 DEF Follows, Line
    <3>2. pushed # <<>> /\ 1 \in 1..Len(all) /\ Len(pushed) \in 1..Len(all) /\ i \in 1..Len(all)
      BY <3>1
    <3>3. reader.start = all[1].stamp /\ reader.end = pushed[Len(pushed)].stamp
      BY <2>3, <3>2 DEF ReplayInv, Bounds
    <3>4. all[1].stamp <= all[i].stamp
      BY <2>3, <3>1, <3>2
    <3>5. all[i].stamp <= all[Len(pushed)].stamp
      BY <2>3, <3>1, <3>2
    <3> QED
      BY <3>1, <3>2, <3>3, <3>4, <3>5
  <2> QED
    BY <2>2, <2>3 DEF BoundsEnclose
<1> QED
  BY <1>1, FilesInvariance, PTL

=============================================================================
