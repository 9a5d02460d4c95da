---------------------------- MODULE SessionFiles -----------------------------
(***************************************************************************)
(* What a session is built from, and what it reads: documents edited by a  *)
(* user or sent by a client, the configuration parsed from them, the parts *)
(* of FalconGuideSession made of it, and the replay of its dataset.  A     *)
(* session is made by the CLI (FromPath() and Validate()) or by the        *)
(* desktop program (UiApp::StartSession()), and reconfigured by clients.   *)
(*                                                                         *)
(* Threads are left to Session: here every call is a step.  A paused       *)
(* session is a running one that takes no replay step.                     *)
(***************************************************************************)
EXTENDS SessionConfig, CsvReader

CONSTANTS
    DatasetFiles,   \* the files a path may name
    MaxEdits,       \* bound: edits of documents
    Documents,      \* bound: the documents there are to begin with
    MaxStarts       \* bound: calls of Start()

ASSUME FilesAssumption ==
    /\ DatasetFiles \subseteq Seq(Line)
    /\ \A d \in Documents : IsDocument(d)
    /\ MaxEdits \in Nat /\ MaxStarts \in Nat

VARIABLES
    doc,            \* the document at hand: a file, a text field, a message;
                    \* it is put away when it has been read
    edits,
    editing,        \* it has been edited and not been read since
    status,         \* status_, or "none" while there is no session
    cfg,            \* cfg_
    parts,          \* the configuration nav_system_, dataset_reader_ and the servers were made from
    reader,         \* dataset_reader_
    file,           \* what the dataset's path names
    joinable,       \* replay_thread_.joinable()
    starts,
    pushed          \* history: records read since Start()

vars == <<doc, edits, editing, status, cfg, parts, reader, file, joinable, starts, pushed>>
sessionVars == <<status, cfg, parts, reader, joinable, starts, pushed>>

Statuses == {"none", "configured", "running", "completed", "idle", "error", "terminated"}

NavPart(c) == [k \in {k \in Keys : k[1] \in NavSections} |-> c[k]]
ReaderPart(c) == [k \in {Type, Path} |-> c[k]]
ServerPart(c) == [k \in {k \in Keys : k[1] \in {"ipc", "ws"}} |-> c[k]]
PartsOf(c) == [nav |-> NavPart(c), reader |-> ReaderPart(c), servers |-> ServerPart(c)]

Init ==
    /\ doc \in Documents /\ edits = 0 /\ editing = FALSE
    /\ status = "none" /\ cfg = Default /\ parts = PartsOf(Default)
    /\ reader = NewReader /\ file \in DatasetFiles
    /\ joinable = FALSE /\ starts = 0
    /\ pushed = <<>>

(***************************************************************************)
(* Documents                                                               *)
(***************************************************************************)
\* A key of an object is given another value or removed.
EditKey(k, v) ==
    /\ Reached([doc EXCEPT !.shape[k[1]] = "object"], k[1])
    /\ doc.val[k] # v
    /\ doc' = [shape |-> [doc.shape EXCEPT ![k[1]] = "object"], val |-> [doc.val EXCEPT ![k] = v]]
    /\ edits' = edits + 1 /\ editing' = TRUE
    /\ UNCHANGED <<sessionVars, file>>

\* A whole section is removed or replaced; the whole text by one that is no
\* JSON object.
EditSection(s, shape) ==
    /\ Found(doc, s) /\ doc.shape[s] # shape
    /\ s = "root" => shape = "other"
    /\ doc' = [doc EXCEPT !.shape[s] = shape]
    /\ edits' = edits + 1 /\ editing' = TRUE
    /\ UNCHANGED <<sessionVars, file>>

\* SaveToPath(); the desktop program shows ToJson() of the defaults likewise.
Save ==
    /\ doc' = ToJson(cfg)
    /\ UNCHANGED <<edits, editing, sessionVars, file>>

(***************************************************************************)
(* Making a session                                                        *)
(***************************************************************************)
PutAway == doc' = Empty /\ editing' = FALSE

\* The constructor: MakeDatasetReader() throws for an unknown type.
Construct(c) ==
    /\ c[Type] # "unknown"
    /\ cfg' = c /\ parts' = PartsOf(c) /\ reader' = NewReader
    /\ status' = "configured" /\ joinable' = FALSE /\ pushed' = <<>>
    /\ UNCHANGED <<edits, file, starts>>

\* main(): a document that is refused or not valid ends the program.
LaunchCli ==
    /\ status = "none" /\ ~Refused(doc) /\ Validate(FromJson(doc))
    /\ Construct(FromJson(doc))
    /\ PutAway

\* main() has no handler around the constructor.
LaunchCliThrows ==
    /\ status = "none" /\ ~Refused(doc) /\ Validate(FromJson(doc))
    /\ FromJson(doc)[Type] = "unknown"
    /\ status' = "terminated"
    /\ UNCHANGED <<doc, edits, editing, cfg, parts, reader, file, joinable, starts, pushed>>

\* The path comes from the picker, the port from the program; everything
\* else from the text, if it was edited and is accepted, else the speed comes
\* from the slider, which stays above zero.
UiConfig(edited, speed) ==
    IF edited /\ ~Refused(doc)
    THEN [FromJson(doc) EXCEPT ![Path] = "set", ![Port] = "dflt"]
    ELSE [Default EXCEPT ![Path] = "set", ![Speed] = speed, ![WsClients] = "set"]

LaunchUi(edited) ==
    /\ status = "none"
    /\ \E speed \in {"dflt", "set"} : Construct(UiConfig(edited, speed))
    /\ IF edited THEN PutAway ELSE UNCHANGED <<doc, editing>>

(***************************************************************************)
(* The session                                                             *)
(***************************************************************************)
\* A mutant: the reader is made before the navigation system.
ReplaceReaderFirst(c) ==
    /\ cfg' = c
    /\ IF c[Type] = "unknown"
       THEN UNCHANGED <<parts, reader, pushed>>
       ELSE parts' = PartsOf(c) /\ reader' = NewReader /\ pushed' = <<>>

\* Reconfigure() assigns cfg_ and replaces the parts one after the other;
\* making the reader may throw, with the navigation system replaced already.
Replace(c) ==
    /\ cfg' = c
    /\ IF c[Type] = "unknown"
       THEN parts' = [parts EXCEPT !.nav = NavPart(c)] /\ UNCHANGED <<reader, pushed>>
       ELSE parts' = PartsOf(c) /\ reader' = NewReader /\ pushed' = <<>>

\* Called by the program that owns the session, unless it runs.
Reconfigure ==
    /\ status \in {"configured", "completed", "idle", "error"} /\ ~Refused(doc)
    /\ Replace(FromJson(doc))
    /\ status' = IF cfg'[Type] = "unknown" THEN status ELSE "configured"
    /\ PutAway
    /\ UNCHANGED <<edits, file, joinable, starts>>

\* A client's "configure" is without effect on a running session.  After the
\* replay the servers would be replaced by a thread of theirs, which ends the
\* process or, over IPC, that thread (ReplaceServers in Session): the session is
\* not followed any further.
ConfigureCompleted ==
    /\ status = "completed" /\ ~Refused(doc)
    /\ Replace(FromJson(doc))
    /\ status' = IF cfg'[Type] = "unknown" THEN status ELSE "terminated"
    /\ PutAway
    /\ UNCHANGED <<edits, file, joinable, starts>>

\* A client's "set_speed" takes any number, and takes effect at once.
SetSpeed(v) ==
    /\ status \in {"running", "completed"} /\ cfg[Speed] # v
    /\ edits < MaxEdits /\ edits' = edits + 1
    /\ cfg' = [cfg EXCEPT ![Speed] = v]
    /\ UNCHANGED <<doc, editing, status, parts, reader, file, joinable, starts, pushed>>

\* Start(): std::thread may not be assigned while it is joinable.
Start ==
    /\ status \in {"configured", "completed", "idle"} /\ starts < MaxStarts
    /\ starts' = starts + 1
    /\ IF parts.reader[Path] # "set"
       THEN status' = "error" /\ UNCHANGED <<reader, joinable, pushed>>
       ELSE /\ reader' = Open(reader)
            /\ status' = IF joinable THEN "terminated" ELSE "running"
            /\ joinable' = TRUE /\ pushed' = <<>>
    /\ UNCHANGED <<doc, edits, editing, cfg, parts, file>>

\* One round of ReplayLoop().
ReplayRecord ==
    /\ status = "running" /\ NextResult(reader, file) = "Ok"
    /\ pushed' = Append(pushed, NextRecord(reader, file))
    /\ reader' = AfterNext(reader, file)
    /\ UNCHANGED <<doc, edits, editing, status, cfg, parts, file, joinable, starts>>

ReplayEnds ==
    /\ status = "running" /\ NextResult(reader, file) = "EndOfData"
    /\ reader' = AfterNext(reader, file)
    /\ status' = "completed"
    /\ UNCHANGED <<doc, edits, editing, cfg, parts, file, joinable, starts, pushed>>

\* Stop(): running_ is true from Start() on, whatever the status.
Stop ==
    /\ status \in {"running", "completed"} \/ (status \in {"configured", "error"} /\ joinable)
    /\ reader' = Close(reader) /\ joinable' = FALSE
    /\ status' = "idle"
    /\ UNCHANGED <<doc, edits, editing, cfg, parts, file, starts, pushed>>

\* The session is destroyed: ~FalconGuideSession() calls Stop().
Destroy ==
    /\ status \notin {"none", "terminated", "running"} /\ ~joinable
    /\ status' = "none" /\ cfg' = Default /\ parts' = PartsOf(Default)
    /\ reader' = NewReader /\ pushed' = <<>>
    /\ UNCHANGED <<doc, edits, editing, file, joinable, starts>>

Edit ==
    /\ edits < MaxEdits /\ status # "running"
    /\ \/ \E k \in Keys : \E v \in JsonValues[k] : EditKey(k, v)
       \/ \E s \in Sections, shape \in {"absent", "other"} : EditSection(s, shape)

Use ==
    \/ LaunchCli \/ LaunchCliThrows \/ \E edited \in BOOLEAN : LaunchUi(edited)
    \/ Reconfigure \/ ConfigureCompleted

\* No step of these reads the document: it is edited just before it is used,
\* and no running session uses one.
Run ==
    \/ Save
    \/ \E v \in {"set", "zero", "negative"} : SetSpeed(v)
    \/ Start \/ ReplayRecord \/ ReplayEnds \/ Stop \/ Destroy

Next == Edit \/ Use \/ (~editing /\ Run)

Spec == Init /\ [][Next]_vars

(***************************************************************************)
(* Properties                                                              *)
(***************************************************************************)
Values(c) == DOMAIN c \subseteq Keys /\ \A k \in DOMAIN c : c[k] \in FieldValues

\* Every field holds a value its type has, and the reader's history is a
\* sequence of records.
TypeOK ==
    /\ status \in Statuses
    /\ DOMAIN cfg = Keys /\ Values(cfg)
    /\ Values(parts.nav) /\ Values(parts.reader) /\ Values(parts.servers)
    /\ \A k \in Keys : doc.val[k] \in JsonValues[k]
    /\ \A s \in Sections : doc.shape[s] \in Shapes
    /\ reader.count \in 0 .. MaxStarts * Len(file) /\ edits \in 0 .. MaxEdits

\* "Serializes the configuration" (config_json.hpp:49): whatever configuration
\* a session has come to, from whatever documents and commands, the document
\* SaveToPath() writes is accepted by FromPath() and gives it back.
SavedComesBack == ~Refused(ToJson(cfg)) /\ FromJson(ToJson(cfg)) = cfg

\* A document filled in from ToSchemaJson() is accepted, and Validate() has
\* nothing to add but what the schema cannot say: a path, a socket, and an
\* integer that fits its field.
SchemaSuffices ==
    /\ SchemaKeys \subseteq Keys
    /\ SchemaValid(doc) =>
        /\ ~Refused(doc)
        /\ Validate(FromJson(doc)) <=>
               /\ Reached(doc, "dataset") /\ doc.val[Path] = "set"
               /\ Reached(doc, "ipc") => doc.val[Socket] # "empty" /\ doc.val[IpcClients] # "wide"

\* The navigation system is always the one cfg_ describes, and so are the
\* reader and the servers, except after a reconfiguration that named a dataset
\* type there is no reader for: it leaves the old ones.
PartsMatch ==
    status # "none" =>
        /\ parts.nav = NavPart(cfg)
        /\ cfg[Type] # "unknown" => parts = PartsOf(cfg)
        /\ parts.reader[Type] # "unknown"

\* A replay reads the file from its first line to its last, every record in
\* it once and in order, however often the session was started, stopped or
\* reconfigured before; "completed" is not reported before its end.
ReplaysTheFile ==
    /\ status \in {"running", "completed"} => IsPrefix(pushed, WellFormed(file))
    /\ status = "completed" => pushed = WellFormed(file)

\* The ranges of the variables; and StartTime() and EndTime() enclose what has
\* been read, if the file is in time order as csv_measurement_reader.hpp:38 demands.
BoundsEnclose ==
    /\ TypeOK
    /\ (\A i, j \in DOMAIN WellFormed(file) :
            i < j => WellFormed(file)[i].stamp <= WellFormed(file)[j].stamp)
       => \A i \in DOMAIN pushed : reader.start # NoTime =>
              reader.start <= pushed[i].stamp /\ pushed[i].stamp <= reader.end
=============================================================================
