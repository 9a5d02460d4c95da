# FalconGuide: a verification development

FalconGuide is a navigation program: it replays a recorded data set (or is fed
by sensor drivers), runs every measurement through an estimator (EKF, UKF, a
Ceres or a GTSAM sliding window), and sends the navigation states it computes to
local clients over a Unix socket and to browsers over WebSocket.

The modules in this directory are TLA+ translations of its C++ code. TLC checks
them on small instances, TLAPS proves theorems about them for every value of
their constants. Paths below are relative to the repository.

Run, in this directory:

    tlc -workers 2 -config EstimatorPipeline.cfg EstimatorPipeline
    tlapm EstimatorPipelineProofs.tla

and likewise for every run listed in PROJECT.json.

## 1. Inventory

| Component | State it keeps | Operations | Interacts with |
|---|---|---|---|
| `MeasurementQueue` (`src/estimation/include/.../measurement_queue.hpp`) | a bounded deque, `shutdown_`, a mutex, a condition variable | `Push`, blocking `Pop`, `RequestShutdown` | producers and the pipeline's worker |
| `EstimatorPipeline` (`src/estimation/src/estimator_pipeline.cpp`) | `running_`, a worker thread, observers, the estimator | `Push`, `Start`, `Stop`, `Reset`, `RegisterObserver`, `RunLoop` | calls the estimator, then every observer, on the worker thread |
| EKF and UKF estimators (`src/estimation/src/backends/{ekf,ukf}`) | nominal state, covariance, a time-ordered IMU buffer and an aiding buffer | `AddMeasurement`, `ProcessUntil`, `LatestState`, `Reset` | measurement models |
| Ceres estimator and `ImuPreintegrator` (`src/estimation/src/backends/ceres`) | a window of keyframes, the IMU factors between them, the motion integrated since the newest, buffered samples | `AddMeasurement`, `LatestState`, `Reset` | the Ceres solver |
| GTSAM estimator | the same, in a factor graph | the same | the GTSAM library |
| `TimeOrderedBuffer`, time stamps (`src/core`) | a deque sorted by time stamp | `Insert`, `PopUntil`, `Clear` | the filters |
| Measurement models (16 EKF, 14 UKF) | none | EKF `Apply`: guards, gates, corrections of error vector and covariance; UKF `Observe`, `Predict` | one filter each |
| `NavigationSystem` | the pipeline and its configuration | builds an estimator with its models | session |
| `FalconGuideSession` (`src/app/src/session.cpp`) | `status_`, `running_`, `paused_`, the replay thread, both servers, the pipeline | `Start`, `Stop`, `Pause`, `Resume`, `Reconfigure`, command handlers, `ReplayLoop`, `OnNavigationState` | everything above and below |
| `IpcServer` | a listening socket, clients, per-client line buffers, a mutex, a thread | `Start`, `Stop`, `Broadcast`, `ServerLoop` | runs the session's command handler on its thread |
| `WsServer` | the same, with HTTP upgrade and WebSocket frames | the same | the same |
| Data set and CSV readers | an open file, the count of measurements read | `Open`, `Next`, `Close` | replay thread |
| NMEA writer | an open file | `Open`, `WriteState`, `Flush`, `Close` | observers |
| Session configuration | none | parse, write, `Validate` | command line, `configure` command |
| Command line program (`exe/falconguide_cli.cpp`) | the session, a global pointer to it | `main`, `OnSignal` | session |
| Desktop UI and `WsClient` | a socket, a reader thread, sample windows | `Connect`, `Disconnect`, `Send`, `Loop` | a WebSocket server |

### Where it is hard

* **Threads.** A running program has up to six: `main`, a signal handler that
  interrupts it, the replay thread, the estimator's worker, and one thread per
  server. They share `status_`, `running_`, `paused_`, the pipeline, and two
  server mutexes.
* **Callbacks under a lock.** Both servers run the session's command handler
  while they hold the mutex that their own `Broadcast()` locks. A handler may
  itself broadcast, stop the servers, or wait for a thread that is about to
  broadcast.
* **Thread handles.** `std::thread` terminates the process when it is assigned
  or destroyed while joinable; `join()` by the thread itself throws.
* **Shutdown.** `Stop()` may be called by `main`, by a signal, by a command of
  either server and by the destructor, and must drain the queue and silence the
  observers.
* **Time.** Measurements arrive late and out of order; the filters sort them in
  bounded buffers, and two time bases that are not always comparable are mixed.
* **Descriptors.** A closed number is given to whoever opens next, while other
  threads may still hold it: `Broadcast()`, `Stop()`, the server's loop and the
  desktop client each close and forget on their own.
* **Pieces.** TCP and Unix sockets deliver lines, requests and frames in pieces.
* **Documents.** Configurations come from files, a text field and clients, and
  replace the parts of a session one after the other, any of which may throw.
* **Bounds.** Queues, buffers and windows at their capacity.

PROJECT.json lists each hazard at the line where it bites, with the properties
that would catch it.

### What makes each component correct

* Pipeline: what `Push()` accepted is processed once and in order; `Stop()`
  drains; no wake-up is lost; observers agree; silence after `Stop()`.
* Session: no circular wait; no termination; `Idle` means everything stopped;
  the reported status is true; the program ends when the data set or a signal
  says so.
* Filters: no aiding is applied to a state later than its time stamp; buffers
  stay sorted and bounded; a report tells what was done with the measurement.
* Measurement models: an enabled sensor is heard, a disabled one is not; an
  outlier does not correct the state; nothing of a measurement stays in the
  error vector after its call.
* Window back ends: the factors always chain the keyframes that are kept.
* Servers: what is served is open, once, and within the limit; a line or frame is
  its sender's, whole, in order; what arrived is read; `Stop()` returns.
* Desktop program: after `StopSession()` nothing of the session is left; the
  window shows the newest samples of this session; a lost connection is remade.
* Configuration and data set: what is saved comes back; the schema suffices;
  the parts of a session are those its configuration describes; a replay is the
  whole file, in order.

## 2. Modules

An arrow points to the module that is used; modules whose names end in Proofs
hold the theorems about the module they extend, ServerProofs those of both
servers (IpcServer as the instance `Ipc`).

    EstimatorPipeline  --implements-->  MeasurementHandoff   (the abstract hand-off)
    Session            --instance of->  EstimatorPipeline
    FusionFilter       -->  TimeOrderedBuffer  -->  Timestamps
    SessionFiles       -->  SessionConfig, CsvReader
    IpcServer          -->  IpcTable  -->  ServerState
    WsServer           -->  ServerState
    MeasurementUpdate, CeresWindow, UiClient

    EstimatorPipelineProofs   SessionProofs   FusionFilterProofs
    MeasurementUpdateProofs   CeresWindowProofs   ServerProofs
    UiClientProofs            SessionFilesProofs

    MCFusionFilter, MCMeasurementUpdate, MCSessionFiles   (instances for TLC)

`Session` composes the pipeline with everything that calls it and is about
threads and mutexes; of the servers it has the thread, the flag and the lock.
`IpcServer` and `WsServer` are about what `Session` leaves out of them:
descriptors, buffers, connections. `ServerState` declares what both keep, and
`IpcTable` the table of descriptors of `IpcServer` with what must hold of it, so
that `ServerProofs` can speak of both. A section under a server's mutex is one step
there, because who waits for it is `Session`'s question. `UiClient` is the other
end of a WebSocket connection and the owner of a session in one process.
`SessionFiles` is about what a session is built from and reads, one call a step.

### EstimatorPipeline

| Variable | Code |
|---|---|
| `running` | `EstimatorPipeline::running_` |
| `queue`, `shutdown` | `MeasurementQueue::queue_`, `shutdown_` |
| `joinable`, `worker`, `current`, `turn` | `thread_.joinable()`, the statement of `RunLoop()`, its local measurement, the index of the loop in `NotifyObservers()` |
| `hasState` | whether `LatestState()` returns a value |
| `owner` | the statement of `Start()` or `Stop()` of the owning thread |
| `pending` | producers between the `running_` test and the queue's mutex |
| `accepted`, `delivered`, `observed` | histories, read by properties only |

`Push()` is two actions because it reads `running_` before it takes the queue's
mutex; `Stop()` is three (exchange, shut down, join), `Start()` two. What the
code does inside one critical section is one action. The estimator is any that
keeps a state once it has one. The code documents one owner: `Start()`,
`Stop()`, `Reset()` and the destructor (which is `Stop()`) are not called
concurrently in this module; `Session` checks what happens when they are.
`Reset()` "must only be called when the pipeline is stopped", so it is one step.

`MeasurementHandoff` says the same without queue, thread or condition variable.
The refinement mapping takes `closed` from `shutdown_` and `stopped` from the
end of the first `Stop()`; the abstract capacity is the queue's plus the one
measurement the worker holds.

### Session

`pc[c]` is the statement that caller `c` (main, the signal handler, either
server's thread) executes next in a call of the session; the replay thread and
the pipeline's worker have their own position. The pipeline is an `INSTANCE` of
`EstimatorPipeline`, with the replay thread as its only producer.

* `clientsMutex` and `wsMutex` are `IpcServer::clients_mutex_` and
  `WsServer::mu_` while a command handler runs under them. A lock that is taken
  and released without waiting for anything in between (every `Broadcast()`) is
  one step that needs the mutex to be free.
* `dead` is set when the program is terminated by the rules of `std::thread`
  (assignment or destruction of a joinable one) or when two threads are inside
  `Start()`/`Stop()` of the pipeline at once and use the same handle, which is
  undefined behaviour.
* The signal handler is a call nested in main: main takes no step until it
  returns. A mutex held by the interrupted statement of main is not modelled.
* A `configure` command without a configuration is done at once; one that cannot
  be read, or that comes while the session runs, is answered. Otherwise the
  pipeline is stopped, destroyed and replaced by a new one (`DestroyPipe`,
  `ReplacePipe`), and `MakeDatasetReader()` throws, which is answered: the session
  lives on with the new pipeline and the old reader and servers. Or the reader is
  replaced, and then the servers, by the thread of one of them
  (`ReplaceServers`). Over WebSocket that ends in termination. Over IPC
  `~IpcServer()` waits for the mutex that its own thread holds, for ever, while
  everyone else uses the new server: the session goes on without that thread
  (`op[Ipc] = "stranded"`), may be started again and may exit. If a `Stop()` has
  cleared the server's flag before, its thread is destroyed joinable.
* The new pipeline, reader or server is in its `unique_ptr` before the old one is
  destroyed. A caller that comes in between is modelled as one that comes after
  it. A `Push()` or `Next()` that is inside the old one when it is freed is
  undefined: the measurement is lost, or the process is terminated. A thread
  that waits for the mutex of an IPC server that is replaced meanwhile waits for
  ever; the model lets it go on, which leaves out no state before that. What
  others do with the new IPC server while a WebSocket thread destroys the old
  one, between the assignment and the termination it leads to, is left out.
* `left` is what the dataset reader has still to return, or `Closed`. `Open()` of a
  reader that is open sets the stream's fail bit, so the next replay ends at once;
  `Next()` of a closed one returns an error, and the replay tries again.
* A server handles the commands of one round one after the other under its mutex,
  without a test of `running_` in between.

### Timestamps, TimeOrderedBuffer, FusionFilter

A time stamp has a steady time, a GPS time, both or neither; GPS time is an
integer that stands for week and tick (`WeekTicks` to a week). The comparison
and the difference follow `time_helpers.hpp`, the difference without a value
when the weeks differ. The buffer is a sequence of time stamps; insertion,
eviction and draining are operators over it. Every buffer of the program is
built with `allow_out_of_order_insert`, its default.

`FusionFilter` is both the EKF and the UKF: they differ in arithmetic, which is
left out, and not in control. A public call holds `mutex_`; the rounds of the
loops in `PropagateTo()` are actions of their own that only run while a call is
in progress. `integrated` sums the step lengths handed to `PropagateImu()`.
`Stamps` are the time stamps of inertial samples, `AidingStamps` those of all
other measurements and of `PropagateTo()`. The first accepted fix sets the time
of the state; if it has a GPS time only, no steady sample can be subtracted from
it, and the code skips every one: `ElapsedIsIntegrated` speaks of the others.
Ticks stand for seconds, so the comparison with `min_imu_dt_s` and the split by
`max_imu_dt_s` are exact. A measurement model answers Accepted or Rejected, any
of the two: gating depends on values that are left out.

### MeasurementUpdate

What `FusionFilter` leaves open: the models that the factories of
`NavigationSystem` register, the dispatch, and each model's guards and outcome.

| Variable | Code |
|---|---|
| `config` | `NavigationSystemConfig`: back end, GNSS mode, enabled sensors, gates on or off |
| `references` | whether `local_tangent_plane_` and `nominal.gnss_clock` have a value |
| `todo`, `applying` | what the body of an `Apply()` has yet to look at |
| `errorState` | `state_.error_state`, as the set of parts whose correction is in it |
| `used` | history: the parts of the last measurement that corrected the filter |

A model is a record: the kind of measurement of its `CanHandle()`, the
references it needs, the flaws for which it returns early, and its parts, which
are blocks of rows with a gate of their own. An epoch of GNSS observations has
two parts per satellite. A measurement has at most one flaw, any of the parts
its kind can lack, and any of its parts may be outliers: whether an innovation
is beyond the gate is arithmetic, so it is an input. The UKF has no gate in the
code. Sequential updates of an EKF are actions of their own within one call;
the error vector is visible only between calls, but which corrections reach it,
and in which of several epochs, depends on them. Some models test their flaws
first and others their references; the two answers differ only before a
reference is set, which `ReferencesSet` shows cannot happen.

`Configs` takes every set of sensors of `EnabledSets`, both modes, both back
ends. Gates are on or off together; one gate per sensor would only mix the two.

### CeresWindow

| Variable | Code |
|---|---|
| `initialised` | `initialised_`, `preint_active_` (set together) |
| `window`, `factors` | the deques `window_` and `imu_factors_`; a keyframe is its time stamp |
| `start`, `motion` | `preint_.t0_`, and of the preintegrator the previous sample, the ticks and the number of samples integrated |
| `imuBuffer`, `replay` | `imu_buffer_`, and what the loop of `InitFromGnss()` has left |
| `lastKf`, `latest` | `last_kf_time_`, the time stamp of `latest_state_` |
| `problem` | the residual blocks of the last `Optimise()` |

`AddMeasurement()` holds `mutex_`; the rounds of the replay loop are actions
between which nothing else can happen. Positions are left out, so whether a fix
is far enough from the newest keyframe to be one is a choice; the 0.2 s and 1 s
of the code are `UpdateSpan` and `LongGap` ticks. Only steady times are
modelled: the CSV data set sets no other.

### IpcServer

| Variable | Code |
|---|---|
| `running`, `listening` | `running_`, `listen_fd_ >= 0` |
| `loop`, `ready`, `toAccept`, `accepted`, `toRemove` | the statement of `ServerLoop()` and its locals `rfds`, `cfd`, `to_remove` |
| `clients`, `buffers` | `clients_`; the loop's map of incomplete lines: whose bytes are in each |
| `owner` | the statement of `Start()` or `Stop()` |
| `holder` | the process's table of descriptors: what each number refers to |
| `conn`, `backlog`, `inbox`, `unread` | the clients' ends: connection, bytes not read, receive buffer full |

A client sends pieces: a part of a line or the end of one. Another part of the
process opens and closes files (`Foreign`), so a number that was closed may be
anything by the time it is closed again. Writing to a client that has left
raises SIGPIPE, which nothing handles: `killed`. The position of the loop tells
what it may still do with a number it read under the mutex it has released.

### WsServer

`Loop()` accepts, upgrades, serves the page, decodes frames and answers. Requests
and frames travel as a head and a tail; `read()` returns any number of the pieces
that are there. `buf` is `Client::buf`, `out` what the server wrote to a client
(the 101, the page, answers, events, the goodbye to a close frame), `handled` the
texts the handler saw. A client sends frames once it has read the 101. A control frame
ends the loop that drains a buffer and a close frame removes a client without
`::close()`; both are as in the code. Frame headers, masks and SHA-1 are left out.

### UiClient

`ui` is the statement of the UI thread in `StartSession()`, `StopSession()`,
`Connect()`, `Disconnect()` and `Send()`; `loop` that of `WsClient::Loop()`.
`running_`, `connected_` and `socket_fd_` are shared without a lock, so every
access to one is an action. `holder` is the table of two descriptors, `link` and
`linkOpen` the connection to the session's server in the same process, `samples`,
`t0`, `status` what `OnMessage()` keeps. `Receive` covers everything that makes
`RecvFrame()` return: a frame, five silent seconds, the end of the connection, a
number that is not the client's any more.

### SessionConfig, CsvReader, SessionFiles

`SessionConfig` has no state: a configuration is a function from the keys of the
JSON document to values, told apart as far as reading distinguishes them; the
header of the module lists them. `FromJson`, `ToJson`, `SchemaValid` (the
document follows `ToSchemaJson()`) and `Validate` are tables, one row for each
section, of which keys are read and written how. Members that are neither read
nor written are not keys.

`CsvReader` is the stream, its fail bit, the bounds and the count; a line is its
kind and, for a record, its time.

`SessionFiles` joins them: a document is edited, read by the CLI, the desktop
program, `Reconfigure()` or a client's `configure`; parts are made from the
result; `Start()` opens the reader and the replay reads it. `parts` records which
configuration each part was made from. A document is edited only just before it
is used (`editing`): no other step reads it, so this leaves out no outcome. The
calls of a session are atomic here, threads are `Session`'s. A session is followed
up to a `configure` that gets through when the replay is completed: the process
ends there, or the thread that runs the command does (`ReplaceServers` of
`Session`).

## 3. Runs

Every property a run checks has a mutant in PROJECT.json: a plausible bug in one
definition, for which TLC finds the property violated by the same run.

| Run | Instance | Shows |
|---|---|---|
| `pipeline` | 2 producers, 3 measurements, capacity 2, 2 observers, 2 starts, 1 reset | no wake-up is lost, `Stop()` drains, observers see the order of the pushes and nothing after a stop; the pipeline implements `MeasurementHandoff`; what was accepted is delivered |
| `session_pause` | 2 records, `pause` and `resume` over WebSocket, one signal | no circular wait, no termination; the meaning of Idle, and no state sent after "idle"; a paused replay can be woken |
| `session_cli` | 2 records, one `get_status`, one signal | the program ends at the end of the data set and on a signal; the status is true |
| `session_commands` | 1 record, one command of any kind on each server, a signal at any time; up to 3 starts of the session, and new pipelines | whatever deadlocks or terminates, a regular exit leaves nothing behind |
| `session_ws_stop` | one `stop` over WebSocket | **finding**: that `Stop()` never reaches Idle |
| `filter` | samples at 4 steady times; aiding with a steady time, a GPS time, both or none; buffer of 2; minimum and maximum step 2 | exactly the samples due are integrated, every elapsed tick once; Nominal means aided; each call returns |
| `ceres` | 4 times, window and sample buffer of 2, span and gap 2, 2 samples to a factor | factors chain the keyframes that are kept; with ordered input no motion is counted twice |
| `updates` | two satellites, both required; all sensors, or all but GNSS, barometer, range finder or odometry; both modes, both filters | sensors are heard as configured; reports are true; only refused epochs leave corrections behind |
| `ipc` | 2 clients, one of them slow, 2 descriptors, `max_clients` 1, 2 pieces each, 2 events | what is in `clients_` is open and listed once; foreign bytes in a line only after `Broadcast()` dropped a client; what is sent is read; `Stop()` returns |
| `ws` | 2 clients, `max_clients` 1, 3 requests or frames of every kind, 1 event | answers go to who asked, texts are handled whole and in order, a descriptor is kept for who is served, a text that arrived is handled |
| `ui` | 2 sessions, window of 2, 4 events, 2 connections, 1 command | nothing is left after `StopSession()`; the window is this session's; the client reconnects; `StopSession()` returns |
| `files` | a file with every kind of line; an almost empty and an unusable document; one edit of any key to any value, or of any section; 2 starts | what is saved comes back; the schema suffices; the parts agree; a replay is the whole file; its bounds enclose it |

Other disagreements between the code and its documentation that modelling
showed, without a run in the list:

* `Start()` accepts status Completed, and a second caller, while
  `replay_thread_` is joinable; assigning it calls `std::terminate`
  (`NotTerminated` of `Session` with `WsVerbs = {"start"}`).
* A `Stop()` from a signal that falls between `running_ = true` and the creation
  of the replay thread finds nothing to join; the destructor later destroys a
  joinable thread (`NotTerminated` with `SignalPhases = {"start"}`).
* `configure` answers "configured" whatever `Reconfigure()` returned
  (`session.cpp:213-222`); while Running or Paused it changed nothing.
* `PopUntil()` stops at the first sample whose time cannot be compared with the
  target; samples behind it that are due stay (`AllDueIsTaken` of `FusionFilter`
  with `Stamps <- MixedStamps`).
* A sample older than everything in a full buffer is inserted in front, evicted
  at once and reported Buffered, "stored for later processing"
  (`time_ordered_buffer.hpp:128`, `estimator_interface.hpp:41`).
* Late samples are inserted and reported Buffered;
  `tests/estimation_tests.cpp:180` asserts OutOfOrder.
* With `max_imu_dt_s` 0, which the schema of `config_json.cpp:529` admits, the
  loop of `PropagateTo()` never ends (`CallReturns` with `MinDt = MaxDt = 0`).
* A late aiding measurement sets `last_aiding_timestamp_` back, so the status may
  turn to DeadReckoning because a measurement was accepted.
* `Pause()` tests the status and stores Paused later; a replay that ends in
  between leaves Paused over a session that replays nothing (`StatusTruthful` of
  `Session` with `WsVerbs = {"pause"}` and no signal).
* `TimeDifference()` has no value across GPS weeks (`time_helpers.hpp:75`), so
  after a rollover no sample without a steady time is integrated.
* `innovation_gate` of the UKF options is copied from the configuration and read
  by nothing; `ukf_estimator.cpp:121` logs "rejected (gate or invalid)". The GNSS
  position gate and the wheels' `use_angular_rate` do not reach the UKF at all.
* The prediction of `UkfAidingSolution` has nine rows whatever parts are
  present; `ukf_aiding_solution.cpp:28` says "Observe() will select the
  relevant rows", which it does not do. With a part missing, a build with
  Eigen's assertions aborts, another compares wrong rows (`PredictionAborts`).
* A UKF pose or odometry with every part switched off is Accepted and corrects
  nothing.
* Tightly coupled EKF with the CSV data set, which has GNSS solutions only: after
  the first fix no GNSS measurement is ever applied.
* The gate of loosely coupled GNSS looks at the position; a velocity outlier
  passes with it. Parts of one measurement are applied one after the other
  against the nominal state, which their corrections have not reached.
* The Ceres window keeps `max_keyframes` + 1 keyframes (`ceres_estimator.cpp:236`);
  `ceres_estimator.hpp:38` calls it the maximum retained. Old keyframes are
  dropped; the Schur-complement prior of the header is not computed.
* A late fix makes a keyframe behind a later one; `ceres_state.hpp` says they are
  "ordered oldest to newest" (`KeyframesInOrder` without its premise).
* `Reset()` of the preintegrator forgets the previous sample, so the motion
  between a keyframe's fix and the first sample after it is in no factor; a
  factor without samples still gets a weight (`ceres_cost_functions.hpp:116`).
* The GTSAM estimator does not compile with `FALCONGUIDE_HAVE_GTSAM`, and throws
  without it.
* A restarted pipeline has `running_` true and `shutdown_` still set: its
  `Push()` refuses everything (`estimator_pipeline.hpp:60` promises a start,
  nothing clears `measurement_queue.hpp:57`).
* Over IPC `get_status`, `get_schema` and unknown commands call `Broadcast()`
  from the handler, under the `clients_mutex_` it locks (`ipc_server.hpp:26`,
  `ipc_server.cpp:181`): the server's thread waits for itself.
* A tightly coupled epoch that is refused for too few satellites has already put
  corrections into `error_state` (`gnss_tightly_coupled.cpp:181`); the next
  accepted measurement of any sensor injects them (`ekf_state.hpp:60`).
* `Push()`'s result is ignored by the replay (`session.cpp:173`): at
  `playback_speed` 0 a full queue drops measurements. `playback_speed` itself is
  written by a server's thread and read by the replay's without synchronisation.
* Nothing ignores SIGPIPE: writing to a client that has left ends the process.
  `RemoveClient()` and the loop's `to_remove` close numbers read before the
  mutex was released; by then they may belong to somebody else.
* A client that the loop accepts after `Stop()` has cleared `clients_` stays in
  it, and open; `ipc_server.hpp:44` says that `Stop()` closes the clients.
* A line buffer outlives the client that `Broadcast()` drops: the next client
  with that number starts in the middle of its line.
* A WebSocket client that says goodbye with a close frame is erased without
  `::close()`. A ping or pong ends the loop that drains the buffer, so frames
  behind it wait for the next bytes; frames that arrive with the upgrade request
  are dropped.
* `WsClient::Disconnect()` and `Loop()` may both close the same number, and
  `Send()` may write to it after it was closed. Five seconds without an event
  count as a lost connection.
* The back end chosen in the desktop program is used by nothing; an edited JSON
  text overrides the speed slider, and a text that does not parse is silently
  replaced by the defaults.
* Some members are neither read nor written (the satellite minimum of tightly
  coupled GNSS, the radar altimeter's sigma and terrain, the sigmas of external
  pose and velocity, the star tracker's mounting): saving loses them. `ToJson()`
  writes `null` for an empty sigma, for which `ToSchemaJson()` says number; the
  schema lacks several sensors.
* Whole numbers are cut to the width of their field: port 65536 is 0, which
  switches the server off. `configure` and `set_speed` of clients do not pass
  `Validate()`. An unknown data set type ends the CLI by an exception outside its
  `try`, and leaves a session with a new navigation system and an old reader.
* `csv_measurement_reader.hpp:38` demands ascending time stamps, which is not
  checked; malformed lines are skipped although `ReadResult::Error` is
  documented; opening an open reader makes it read nothing.
* The NMEA writer, which nothing constructs, reads the clock separately for time
  and date, and may print a course of 360.00 and minutes of 60.

**Bounds.** Capacity 2 with 3 measurements makes the queue empty, partly filled
and full; two producers race for its last place; two observers are the least
for which an order among them exists; two starts are one restart. In the session
runs 2 records let a pause fall before, between and behind them, and capacity 1
lets a push be refused. A command more per server repeats interleavings with a
state that is already reached. Four times with steps of two give distances
below, equal to and above both limits and an odd rest of the split; a buffer of
two evicts. A window of two (three with the one too many) is trimmed by the
fourth keyframe; four times with a span and a gap of two give fixes within and
beyond the span, samples on both sides of the gap, and late ones. Two satellites
that are both required make an epoch with too few, with enough and with one
gated; the error vector is a set, so more epochs add no state. Two clients
with one place let one be refused, follow the other, and be given its number;
two pieces are a line cut in two, three messages an upgrade and two frames. Two
sessions and two connections are one restart and one reconnection; two samples
overflow a window of two with the third event. One edit reaches every key, and
every pair of a key and the reading of its section, because keys are read
independently of each other. `MaxStarts`, `MaxResets`, `MaxCommands`,
`MaxPieces`, `MaxMessages`, `MaxBroadcasts`, `MaxEvents`, `MaxConnects`,
`MaxSessions` and `MaxEdits` bound environments, not the program. `Session` has no
bound but `MaxCommands`: it instantiates its pipeline with as many starts as
there can be calls of `Start()`, main's and one for each command, and with as many
measurements as these can read. That these never stand in the way of a caller
is proved (`BoundsDoNotBind`).

**Deadlock.** `CHECK_DEADLOCK FALSE` in all runs but `ceres`, whose measurements
never end: the program may exit, producers may stop pushing, clients may stop
sending, and nobody owes a filter a call. Circular waiting is an invariant
(`NoDeadlock`) in its place.

**Fairness.** Weak fairness of each thread: the operating system schedules a
thread that can run. Nothing is assumed about producers, the calls of the
owner, signals, commands, clients, events, lost connections and spurious
wake-ups. A `Stop()` or `StopSession()` that was begun continues: its caller is
in it. A mutex is not assumed to be
fair beyond that: the progress properties hold without strong fairness on the
runs they are checked in, because every holder either releases its mutex for
good or the waiting thread finds it free at its next step. A server's `select()`
returns at least once in its timeout of 50 ms.

## 4. Theorems

`EstimatorPipelineProofs` proves, for every set of producers and measurements,
every capacity, every number of observers, starts and resets:

| Theorem | Statement |
|---|---|
| `Invariance` | `Spec => []IInv` |
| `TypeCorrect` | `Spec => []TypeOK` |
| `HandoffCorrect` | `Spec => []HandoffIntact` |
| `NoWakeupIsLost` | `Spec => []NoLostWakeup` |
| `StopDrainsTheQueue` | `Spec => []StopDrains` |
| `NoLateNotifications` | `Spec => NoLateNotification` |
| `ObserversCorrect` | `Spec => []ObserversAgree` |
| `ObservedStatesInOrder` | `Spec => []ObservedInOrder` |
| `Implementation` | `Spec => Handoff!Safety` |

The only assumption is `ConstantsAssumption` of `EstimatorPipeline`, which TLC
evaluates in every run of it.

None of the properties is inductive by itself. That the queue stays empty after
`Stop()` needs that `shutdown_` has been set and refuses pushes; that the worker
has ended by then needs the relation between the owner's position, `running_`
and `thread_.joinable()`; that a worker that ended left nothing behind needs
`HandoffIntact`. `IInv` is the conjunction of the safety properties with
`Phases`, which states that relation. Each is preserved under the others, one
lemma each, one step per action. `ObserversAgree` is inductive relative to
`IInv`. `ObservedInOrder` compares what one observer saw with everything that
was ever pushed; it needs that no measurement is pushed twice (`Distinct`), that
what a producer is about to push comes after what it pushed (`SentAfter`), and
that observers have seen a part of what was accepted, in its order (`OrderOf`).
For `Implementation` every step of the pipeline is shown to be an
accepted push, a delivery, the closing, the first return of `Stop()`, or a
stutter.

`Untouched` (a pipeline that was never started holds nothing) and `Rested` (with
the owner idle and no joinable thread, everything accepted was processed) are
lemmas for `SessionProofs`, which uses them through an `INSTANCE`.

`SessionProofs` proves, for every data set, capacity, set of commands on either
server, number of commands, and phase in which a signal may arrive:

| Theorem | Statement |
|---|---|
| `SessionInvariance` | `Spec => []SInv` |
| `PipelineServes` | `Spec => [](Pipe!TypeOK /\ Pipe!HandoffIntact /\ Pipe!NoLostWakeup)` |
| `SessionTypes` | `Spec => []TypeOK` |
| `BoundsDoNotBind` | `Spec => []Unhindered` |
| `ExitIsClean` | `Spec => []ExitLeavesNothing` |
| `SupervisedInvariance` | `Supervised`: `Spec => []Sup` |
| `NeverTerminated` | `Supervised`: `Spec => []NotTerminated` |
| `PausedIsAlwaysWakeable` | `Supervised`: `Spec => []PausedIsWakeable` |
| `IdleIsStopped` | `Supervised`: `Spec => []IdleMeansStopped` |
| `DeadlockFree` | `Unentangled`: `Spec => []NoDeadlock` |
| `StatusIsTruthful` | `Supervised`, `Unpaused`: `Spec => []StatusTruthful` |

`ExitLeavesNothing` is not inductive: it is true at the exit because of what held
before it. `SInv` says where every caller may be: a server that runs has a
thread; a caller that is about to join one has cleared its flag, and is the only
one (`ServersPart`); a mutex is held by a handler's thread alone (`LocksPart`); a
handle that is not joinable has no thread, and the pipeline is half-way through
`Start()` or `Stop()` only while a caller is (`HandlesPart`); after the exit
nobody is left to start anything (`ExitPart`). `PipelineSteps` shows that every
step of the session is a step of the pipeline, leaves it alone, or replaces it by
one that is as it was constructed, so the lemmas of `EstimatorPipelineProofs` carry
over. Every command is included, with further starts of the session, with
`configure` in all its outcomes, and where the program is terminated or deadlocks.
An IPC thread that its own `configure` has left waiting for itself belongs to a
server the session no longer has: a regular exit is possible with it, and
`ExitLeavesNothing` says nothing of it.

`Unhindered` says that a caller about to start a pipeline finds `starts` below its
bound, and the replay thread about to push a record a number that is not used.
The argument counts down: the calls of `Start()` that are still to come, by the
commands left and the callers before the statement, and for each of them a whole
dataset, next to the records left in the one that is open.

The other properties hold only of some uses of the session, and the hypotheses
say which. They are not assumptions of the module: the runs of `Session` differ
in just these constants, and what TLC finds when one is dropped is that the
property fails.

* `Supervised`: clients pause, resume and ask; only main and the signal handler
  start and stop the session, and a signal arrives while main polls. With
  `start`, `stop` or `configure` on either server two calls of the session may
  overlap, and a handle is assigned or destroyed while joinable; a signal in
  `Start()` leaves a session that goes on starting after its `Stop()`.
* `Unentangled`: a handler of the WebSocket server may start the session but not
  stop or reconfigure it (the handler's thread would join itself), and one of
  the IPC server only sets the speed (whatever is answered by an event locks the
  mutex the handler holds). main and the signal handler are not restricted.
* `Unpaused`: nobody pauses. `Pause()` reads the status and stores it later; the
  replay may end in between, and the status says `Paused` for good.

`Sup` relates what there is to the statement each of main and the signal handler
is at: which call each may be in (`Roles`), what `Start()` has not started yet
(`Unstarted`), what each stage of `Stop()` has ended (`Stages`), what has been
reported (`Reports`), who can still wake a paused replay (`Sleep`), and that a
server with a thread runs or is about to be joined (`Upright`). `NotTerminated`
needs all of it: that no two of them are in one stage is what keeps a handle from
being joined twice. `DeadlockFree` needs `SInv` and `Handlers` only: the waits
are ordered, IPC server before WebSocket server and replay, before main and the
signal handler, so a least member of a circle waits for none of the others.
`StatusIsTruthful` adds that a session that says `Running` has a replay that has
not come to its end, and that the end is reported by `Completed`.

`FusionFilterProofs` proves, for every set of time stamps, every buffer size and
every setting of the filter:

| Theorem | Statement |
|---|---|
| `FilterTypeCorrect` | `Spec => []TypeOK` |
| `NothingOfTheFuture` | `Spec => []OnlyDueIsTaken` |
| `NominalIsAided` | `Spec => []NominalMeansAided` |
| `MixedInvariance`, `SteadyInvariance` | the inductive invariants, the second under `SteadyClock` |
| `BuffersSorted` | `SteadyClock`: `Spec => []BufferSorted` |
| `DueTaken` | `SteadyClock`: `Spec => []DueIsTaken` |
| `ElapsedIntegrated` | `SteadyClock`: `Spec => []ElapsedIsIntegrated` |
| `NeverAhead` | `SteadyClock`: `Spec => []NotAhead` |
| `TimeNeverGoesBack` | `SteadyClock`: `Spec => TimeGoesForward` |

`SteadyClock` says that inertial samples carry a monotonic time and no GPS time;
other measurements may carry anything. It is a hypothesis of these theorems, not
an assumption of the module: the CSV data set, the only source of measurements in
the program, sets that time and no other, and without it they are false (a GPS
sample in front of the buffer hides steady ones behind it). The lemmas say where the scans of `Insert()` and
`PopUntil()` end (`WhereScanEnds`, `WherePopStops`), which elements insertion
and eviction leave where (`InsertionElements`, `Eviction`), and that insertion
keeps a buffer sorted (`InsertionSorted`). `MixedInv` adds to the first three
statements that `last_aiding_timestamp_` is never later than the latest accepted
measurement. `SteadyInv` adds `Phase`: nothing of a call is left when it has
returned, its target is a measurement's time and an initialised filter has the
time of one. Without it a step could integrate what an earlier call left over.

`CeresWindowProofs` proves, for every set of times and every setting:

| Theorem | Statement |
|---|---|
| `WindowTypeCorrect` | `Spec => []TypeOK` |
| `FactorsLink` | `Spec => []FactorsLinkKeyframes` |
| `NewestShown` | `Spec => []StateIsNewestKeyframe` |
| `KeyframesOrdered` | `Spec => []KeyframesInOrder` |
| `FactorsWithinSpan` | `Spec => []FactorWithinSpan` |

That a new factor ties the last two keyframes needs that the preintegrator
started at the newest one (`StateIsNewestKeyframe`), and this in turn that an
estimator that is not initialised holds nothing (`Blank`). Trimming pops as many
factors as keyframes (`KeyframeShifts`), so the chain is shifted as a whole. The
last two theorems need `OInv`: while input is in order, no time held anywhere is
later than the last measurement's, and the ticks integrated so far fit between
the newest keyframe and the previous sample.

`MeasurementUpdateProofs` proves, for every sequence of satellites, every number
required and every choice of sensors:

| Theorem | Statement |
|---|---|
| `UpdateTypeCorrect` | `Spec => []TypeOK` |
| `GateCorrect` | `Spec => []GateHolds` |
| `ReferencesCorrect` | `Spec => []ReferencesSet` |
| `OnlyEpochsLeave` | `Spec => []OnlyEpochsLeaveCorrections` |
| `ReportCorrect` | `Spec => []ReportTruthful` |
| `ConfiguredCorrect` | `Spec => []SensorsAsConfigured` |

Its assumptions are that satellites of an epoch are distinct and that enabled
sensors exist. `HeardHaveHandlers` says that the two factories register a model
for exactly the sensors that are to be heard, `NothingMissing` that the first
fix sets what they need (`ReferencesOfConfig`), `SoundIsUsable` that no guard
stops a sound measurement. `ApplyingInv` relates the parts that are left, the
parts used and those of the kind: at the end of an `Apply()` a sound measurement
has been used whole.

`ServerProofs` proves, for every number of clients, messages, events and starts,
and for `IpcServer` (as `Ipc`) every number of descriptors:

| Theorem | Statement |
|---|---|
| `WsInvariance` | `Spec => []WsInv` |
| `AnswersAlwaysMatch` | `Spec => []AnswersMatch` |
| `TextsHandledInOrder` | `Spec => []HandledInOrder` |
| `OpenAlwaysServed` | `Spec => []OpenIsServed` |
| `TableInvariance` | `Ipc!Spec => []IpcInv` |
| `ServedStayOpen` | `Ipc!Spec => []ServedAreOpen` |
| `OnlyDroppedLeave` | `Ipc!Spec => []OnlyDroppedLeaveBytes` |

The variables of `ServerState` stand for either server's; a theorem is about one
of the two.

What a WebSocket client has sent is, piece by piece, the frames that were read
whole, then its buffer, then the wire (`Rest`), and the texts among those frames
are exactly the ones handled, in their order (`Heard`); both together are
`Spoken`. A read moves the boundary by as many frames as `Drain()` takes: up to
the first that is no text and that one too (`WhereTextsEnd`, `Drained`). Answers
are to texts already handled, behind all earlier answers (`Answered`). Before the
101 one request at most is under way and nothing but the page was written
(`Asked`, `Fresh`); the handler's buffer is empty at the moment of the upgrade
because a client sends no frame before it has read the 101. That a client is
spoken to at all needs its place: backlog, `accept()`, `clients_`, each left for
good (`Places`), and that a round reads only clients in the list that are not
dead (`Turn`).

Numbers of descriptors are closed in five places of `IpcServer` and used again,
so its invariant is about every descriptor, listed or not: a connection has one
number and none before it is accepted, and the number between `accept()` and the
mutex is the loop's alone. The argument about line buffers adds from which moment
a buffer can hold bytes of a client that has gone.

`UiClientProofs` proves, for every number of sessions, connections and events:

| Theorem | Statement |
|---|---|
| `UiInvariance` | `Spec => []UiInv` |
| `UiTypes` | `Spec => []TypeOK` |
| `QuietAfterStopping` | `Spec => []QuietAfterStop` |
| `SamplesAreOfSession` | `Spec => []SamplesOfSession` |

`UiInv` ties `running_`, `connected_`, `socket_fd_` and the client's descriptor to
the statements of `Loop()` at which each may be set, so that a loop that has
ended has none of them. For the samples, what was broadcast, what is on the way
and what was seen are each in the order of their time stamps (`Stamps`,
`OnTheWay`), and `samples_` is the last of those seen since it was cleared
(`Window`), so that a sample is shown once and in order over all reconnections.

`SessionFilesProofs` proves, for every file, document, number of edits and limit of
lines:

| Theorem | Statement |
|---|---|
| `PartsAgree` | `Spec => []PartsMatch` |
| `FilesInvariance` | `Spec => []FilesInv` |
| `WhatIsSavedComesBack` | `Spec => []SavedComesBack` |
| `SchemaAlwaysSuffices` | `Spec => []SchemaSuffices` |
| `ReplayIsTheFile` | `Spec => []ReplaysTheFile` |
| `BoundsAlwaysEnclose` | `Spec => []BoundsEnclose` |

The constructor of the reader may throw between the assignment of `cfg_` and that
of the parts; only the navigation system comes before it. No part is made of the
playback speed, which clients set at any time (`SpeedInNoPart`).

That a saved configuration comes back is shown section by section: what a section
writes is what it reads (`WritesBack`), given that the configuration is one the
program can have (`Fits`): enumerators that no document names are only ever
found in the type of the data set.

A replay is the file because a running one has pushed as many records as there
are up to the stream's position (`Reading`, by `Rank`) and what was pushed are
the first records of the file (`InOrder`); the stream is open only while the replay
thread is joinable, so `Start()` never opens one that is. `start_time_` is that of
the first record since the reader was made and `end_time_` that of the last one
read (`Bounds`), and no `Start()` counts more records than the file has lines
(`Counted`).

Assumed throughout: the named `ASSUME`s of the modules, which TLC evaluates in
every run.

Only model-checked: all liveness (under fairness, which this prover does not
treat), the fairness part of the refinement, and what happens to a session under
the commands and signals that the hypotheses above exclude. Every other invariant
and action property of the runs is a theorem.

## 5. Not modelled

* GTSAM estimator: with `FALCONGUIDE_HAVE_GTSAM` its constructor uses a member
  that `Impl` does not have, so it does not compile; what builds is a stub whose
  constructor throws.
* NMEA writer: nothing in the program constructs it; its one state is a stream.
* Diagnostics, sensor and navigation data types, frames, coordinates, linear
  algebra: values and real arithmetic. Whether an innovation is beyond its gate,
  whether a solver converges, and what a factor weighs are inputs of the models.
* Command line program: parsing of arguments. Its use of the session, the signal
  handler and what becomes of its configuration file are modelled.
* Desktop program: widgets and plots, which read what `OnMessage()` keeps.
* `Rewind()` of the readers, which nothing calls.
* `NavigationSystem`: its calls forward to the pipeline; which models a
  configuration registers is in `MeasurementUpdate`.
* The mutex that `Reset()` of the Ceres estimator destroys while it holds it, with
  the `impl_` it replaces (`ceres_estimator.cpp:395-397`): undefined, and modelled
  by the new `impl_` alone. Nothing in the program calls the pipeline's `Reset()`.
* A frame whose announced length cannot be allocated: `RecvFrame()` resizes its
  buffer outside the `try` of `HandleRead()`.
* Logger, build files, scripts and the browser page.
