------------------------------- MODULE Session -------------------------------
(***************************************************************************)
(* FalconGuideSession with everything it drives: the replay thread, the    *)
(* EstimatorPipeline (an instance of that module) whose worker calls the   *)
(* session back, the threads of IpcServer and WsServer that run its        *)
(* command handlers, the CLI's main thread and its signal handler.         *)
(*                                                                         *)
(* A session call is a program run by one of the Callers; pc[c] is the     *)
(* statement c executes next.  Both servers hold a mutex while they run a  *)
(* handler (IpcServer::clients_mutex_, WsServer::mu_), which Broadcast()   *)
(* of the same server locks too.  A lock that is taken and released        *)
(* without waiting for anything else in between is one step.               *)
(***************************************************************************)
EXTENDS Integers, Sequences, FiniteSets

CONSTANTS
    Records,        \* measurements in the dataset
    QueueCapacity,  \* capacity of the pipeline's queue
    WsVerbs,        \* commands WebSocket clients send
    IpcVerbs,       \* commands IPC clients send
    MaxCommands,    \* bound: commands per server
    SignalPhases    \* phases of main() in which a SIGINT may arrive

Main == "main"
Sig == "signal"     \* OnSignal(), which interrupts main()
Ws == "ws"
Ipc == "ipc"
Replay == "replay"
Estimator == "estimator"
Callers == {Main, Sig, Ws, Ipc}
Threads == Callers \cup {Replay, Estimator}
Free == "free"
Closed == -1        \* instead of a number of records: the dataset is not open

\* Calls of FalconGuideSession::Start() there can be: main()'s, and one for
\* each command.
Starts == 1 + 2 * MaxCommands

Verbs == {"start", "stop", "pause", "resume", "set_speed", "get_status",
          "get_schema", "configure", "unknown"}

ASSUME ConstantsAssumption ==
    /\ Records \in Nat
    /\ QueueCapacity \in Nat \ {0}
    /\ WsVerbs \subseteq Verbs
    /\ IpcVerbs \subseteq Verbs
    /\ MaxCommands \in Nat
    /\ SignalPhases \subseteq {"start", "poll"}

VARIABLES
    \* the EstimatorPipeline
    running, shutdown, queue, joinable, worker, current, turn, hasState, owner,
    pending, fresh, starts, resets, accepted, delivered, observed,
    \* the session
    status,         \* status_
    sessionRunning, \* running_
    paused,         \* paused_
    replay,         \* where ReplayLoop() is; "off" before it is spawned
    replayJoinable, \* replay_thread_.joinable()
    left,           \* records the dataset reader has not returned yet, or Closed
    pc,             \* the statement each caller executes next
    op,             \* "stop": the signal has come; "stranded": an IPC thread
                    \* waits for itself for ever; else "none"
    main,           \* the phase of main()
    \* the servers
    up,             \* running_ of each server
    threadOf,       \* thread_.joinable() of each server
    clientsMutex,   \* owner of IpcServer::clients_mutex_
    wsMutex,        \* owner of WsServer::mu_
    commands,       \* commands each server may still receive
    navStep,        \* which Broadcast() OnNavigationState() is at
    announced,      \* the last status event sent to IPC clients
    dead            \* the process was terminated

pipeVars == <<running, shutdown, queue, joinable, worker, current, turn, hasState,
              owner, pending, fresh, starts, resets, accepted, delivered, observed>>
replayVars == <<replay, replayJoinable, left>>
serverVars == <<up, threadOf, commands>>
lockVars == <<clientsMutex, wsMutex>>
sessionVars == <<status, sessionRunning, paused>>
vars == <<pipeVars, replayVars, serverVars, lockVars, sessionVars, pc, op, main,
          navStep, announced, dead>>

Pipe == INSTANCE EstimatorPipeline WITH
    Producers <- {Replay},
    Measurement <- 1..Starts * Records,
    NumObservers <- 1,
    NoMeasurement <- 0,
    EstimatorReset <- -1,
    MaxStarts <- Starts,
    MaxResets <- 0

Init ==
    /\ Pipe!Init
    /\ status = "Configured"
    /\ sessionRunning = FALSE
    /\ paused = FALSE
    /\ replay = "off"
    /\ replayJoinable = FALSE
    /\ left = Closed
    /\ pc = [c \in Callers |-> IF c = Main THEN "home" ELSE "off"]
    /\ op = [c \in Callers |-> "none"]
    /\ main = "init"
    /\ up = [s \in {Ws, Ipc} |-> FALSE]
    /\ threadOf = [s \in {Ws, Ipc} |-> FALSE]
    /\ clientsMutex = Free
    /\ wsMutex = Free
    /\ commands = [s \in {Ws, Ipc} |-> MaxCommands]
    /\ navStep = "ipc"
    /\ announced = "none"
    /\ dead = FALSE

-----------------------------------------------------------------------------
(* Control of a caller.                                                    *)

\* A signal handler interrupts main(): main() waits until it returns.
CanRun(c) == c = Main => pc[Sig] = "off"

At(c, label) == CanRun(c) /\ pc[c] = label

Home(c) == CASE c = Main -> "home" [] c = Sig -> "off" [] OTHER -> "reply"

Go(c, label) == pc' = [pc EXCEPT ![c] = label]
Return(c) == Go(c, Home(c))

ClientsLockable == clientsMutex = Free
WsLockable == wsMutex = Free

\* IpcServer::Broadcast() of a status event by thread c.
Announce(event) == ClientsLockable /\ announced' = event

-----------------------------------------------------------------------------
(* FalconGuideSession::Start()                                             *)

StartBegin(c) ==
    /\ At(c, "start")
    /\ IF status \in {"Running", "Paused", "Error"} THEN Return(c) ELSE Go(c, "open")
    /\ UNCHANGED <<pipeVars, replayVars, serverVars, lockVars, sessionVars, op,
                   main, navStep, announced, dead>>

\* Opening the dataset succeeds or fails.  A stream that is open still is:
\* open() only sets its fail bit, after which there is nothing to read.
StartOpen(c) ==
    /\ At(c, "open")
    /\ \/ /\ left' = IF left = Closed THEN Records ELSE 0
          /\ Go(c, "start_ipc") /\ UNCHANGED status
       \/ /\ left = Closed
          /\ Go(c, "start_failed") /\ status' = "Error" /\ UNCHANGED left
    /\ UNCHANGED <<pipeVars, replay, replayJoinable, serverVars, lockVars,
                   sessionRunning, paused, op, main, navStep, announced, dead>>

StartFailed(c) ==
    /\ At(c, "start_failed")
    /\ Announce("error")
    /\ Return(c)
    /\ UNCHANGED <<pipeVars, replayVars, serverVars, lockVars, sessionVars, op,
                   main, navStep, dead>>

\* IpcServer::Start() and WsServer::Start().  A server that runs is left alone
\* and a socket that cannot be bound is only logged.  Assigning a new thread
\* to one that is still joinable terminates the process.
StartServer(c, s, label, next) ==
    /\ At(c, label)
    /\ \/ Go(c, next) /\ UNCHANGED <<up, threadOf, dead>>
       \/ /\ ~up[s] /\ ~threadOf[s]
          /\ up' = [up EXCEPT ![s] = TRUE]
          /\ threadOf' = [threadOf EXCEPT ![s] = TRUE]
          /\ pc' = [pc EXCEPT ![c] = next, ![s] = "loop"]
          /\ UNCHANGED dead
       \/ /\ ~up[s] /\ threadOf[s]
          /\ dead' = TRUE
          /\ UNCHANGED <<up, threadOf, pc>>
    /\ UNCHANGED <<pipeVars, replayVars, commands, lockVars, sessionVars, op, main,
                   navStep, announced>>

\* Two callers are in Start() or Stop() of the pipeline at once: one uses the
\* std::thread the other is assigning or joining.
HandleContended == owner # "idle" /\ dead' = TRUE /\ UNCHANGED <<pipeVars, pc>>

\* EstimatorPipeline::Start(): its two steps, or nothing when it runs.
StartPipe(c) ==
    /\ \/ /\ At(c, "start_pipe")
          /\ \/ running /\ Go(c, "start_status") /\ UNCHANGED <<pipeVars, dead>>
             \/ Go(c, "spawn_worker") /\ Pipe!StartExchange /\ UNCHANGED dead
             \/ ~running /\ HandleContended
       \/ /\ At(c, "spawn_worker")
          /\ Go(c, "start_status") /\ Pipe!SpawnWorker /\ UNCHANGED dead
    /\ UNCHANGED <<replayVars, serverVars, lockVars, sessionVars, op, main, navStep,
                   announced>>

StartStatus(c) ==
    /\ At(c, "start_status")
    /\ status' = "Running"
    /\ Go(c, "start_announce")
    /\ UNCHANGED <<pipeVars, replayVars, serverVars, lockVars, sessionRunning,
                   paused, op, main, navStep, announced, dead>>

StartAnnounce(c) ==
    /\ At(c, "start_announce")
    /\ Announce("running")
    /\ Go(c, "start_running")
    /\ UNCHANGED <<pipeVars, replayVars, serverVars, lockVars, sessionVars, op,
                   main, navStep, dead>>

StartRunning(c) ==
    /\ At(c, "start_running")
    /\ sessionRunning' = TRUE
    /\ Go(c, "start_thread")
    /\ UNCHANGED <<pipeVars, replayVars, serverVars, lockVars, status, paused, op,
                   main, navStep, announced, dead>>

StartThread(c) ==
    /\ At(c, "start_thread")
    /\ \/ /\ ~replayJoinable
          /\ replayJoinable' = TRUE
          /\ replay' = "check"
          /\ Return(c)
          /\ UNCHANGED dead
       \/ /\ replayJoinable
          /\ dead' = TRUE
          /\ UNCHANGED <<replayJoinable, replay, pc>>
    /\ UNCHANGED <<pipeVars, left, serverVars, lockVars, sessionVars, op, main,
                   navStep, announced>>

-----------------------------------------------------------------------------
(* FalconGuideSession::Stop(), also run by the destructor.                 *)

StopBegin(c) ==
    /\ At(c, "stop")
    /\ sessionRunning' = FALSE
    /\ IF sessionRunning THEN Go(c, "stop_unpause") ELSE Return(c)
    /\ UNCHANGED <<pipeVars, replayVars, serverVars, lockVars, status, paused, op,
                   main, navStep, announced, dead>>

\* pause_cv_.notify_all(), and a mutant that forgets it.
ReplayAsleep == replay
ReplayWoken == IF replay = "waiting" THEN "pause" ELSE replay

StopUnpause(c) ==
    /\ At(c, "stop_unpause")
    /\ paused' = FALSE
    /\ replay' = ReplayWoken
    /\ Go(c, "join_replay")
    /\ UNCHANGED <<pipeVars, replayJoinable, left, serverVars, lockVars, status,
                   sessionRunning, op, main, navStep, announced, dead>>

\* A mutant: the replay thread is not waited for.
ReplayAbandoned == TRUE
ReplayEnded == replay \in {"off", "done"}

\* A mutant of StopJoinReplay: the thread is waited for but not joined.
StopWithoutJoin(c) ==
    /\ At(c, "join_replay")
    /\ ReplayEnded
    /\ Go(c, "stop_pipe")
    /\ UNCHANGED <<pipeVars, replayVars, serverVars, lockVars, sessionVars, op,
                   main, navStep, announced, dead>>

StopJoinReplay(c) ==
    /\ At(c, "join_replay")
    /\ replayJoinable => ReplayEnded
    /\ replayJoinable' = FALSE
    /\ Go(c, "stop_pipe")
    /\ UNCHANGED <<pipeVars, replay, left, serverVars, lockVars, sessionVars, op,
                   main, navStep, announced, dead>>

\* EstimatorPipeline::Stop().
StopPipe(c) ==
    /\ \/ /\ At(c, "stop_pipe")
          /\ \/ ~running /\ Go(c, "stop_close") /\ UNCHANGED <<pipeVars, dead>>
             \/ Go(c, "pipe_shutdown") /\ Pipe!StopExchange /\ UNCHANGED dead
             \/ running /\ HandleContended
       \/ /\ At(c, "pipe_shutdown")
          /\ Go(c, "pipe_join") /\ Pipe!RequestShutdown /\ UNCHANGED dead
       \/ /\ At(c, "pipe_join")
          /\ Go(c, "stop_close") /\ Pipe!Join /\ UNCHANGED dead
    /\ UNCHANGED <<replayVars, serverVars, lockVars, sessionVars, op, main, navStep,
                   announced>>

\* The dataset is closed.
StopClose(c) ==
    /\ At(c, "stop_close")
    /\ left' = Closed
    /\ Go(c, "stop_announce")
    /\ UNCHANGED <<pipeVars, replay, replayJoinable, serverVars, lockVars,
                   sessionVars, op, main, navStep, announced, dead>>

StopAnnounce(c) ==
    /\ At(c, "stop_announce")
    /\ Announce("idle")
    /\ Go(c, "stop_ipc")
    /\ UNCHANGED <<pipeVars, replayVars, serverVars, lockVars, sessionVars, op,
                   main, navStep, dead>>

\* running_.exchange(false) of a server.
Lowered(s) == [up EXCEPT ![s] = FALSE]

\* IpcServer::Stop(): the flag is cleared, the clients are closed under
\* clients_mutex_, and the thread is joined.
StopIpc(c) ==
    /\ \/ /\ At(c, "stop_ipc")
          /\ up' = Lowered(Ipc)
          /\ Go(c, IF up[Ipc] THEN "ipc_clear" ELSE "stop_ws")
          /\ UNCHANGED threadOf
       \/ /\ At(c, "ipc_clear")
          /\ ClientsLockable
          /\ Go(c, "ipc_join")
          /\ UNCHANGED <<up, threadOf>>
       \/ /\ At(c, "ipc_join")
          /\ pc[Ipc] = "off"
          /\ threadOf' = [threadOf EXCEPT ![Ipc] = FALSE]
          /\ Go(c, "stop_ws")
          /\ UNCHANGED up
    /\ UNCHANGED <<pipeVars, replayVars, commands, lockVars, sessionVars, op, main,
                   navStep, announced, dead>>

\* WsServer::Stop().  join() by the server's own thread throws, and the
\* handler's catch (...) ends the command: the rest of Stop() is skipped.
StopWs(c) ==
    /\ \/ /\ At(c, "stop_ws")
          /\ up' = Lowered(Ws)
          /\ Go(c, IF up[Ws] THEN "ws_join" ELSE "stop_status")
          /\ UNCHANGED threadOf
       \/ /\ At(c, "ws_join")
          /\ c # Ws
          /\ pc[Ws] = "off"
          /\ threadOf' = [threadOf EXCEPT ![Ws] = FALSE]
          /\ Go(c, "ws_clear")
          /\ UNCHANGED up
       \/ /\ At(c, "ws_join")
          /\ c = Ws
          /\ Return(c)
          /\ UNCHANGED <<up, threadOf>>
       \/ /\ At(c, "ws_clear")
          /\ WsLockable
          /\ Go(c, "stop_status")
          /\ UNCHANGED <<up, threadOf>>
    /\ UNCHANGED <<pipeVars, replayVars, commands, lockVars, sessionVars, op, main,
                   navStep, announced, dead>>

\* A mutant: the end of Stop() is not reported.
StopUnreported(c) ==
    /\ At(c, "stop_status")
    /\ Return(c)
    /\ UNCHANGED <<pipeVars, replayVars, serverVars, lockVars, sessionVars, op,
                   main, navStep, announced, dead>>

StopStatus(c) ==
    /\ At(c, "stop_status")
    /\ status' = "Idle"
    /\ Return(c)
    /\ UNCHANGED <<pipeVars, replayVars, serverVars, lockVars, sessionRunning,
                   paused, op, main, navStep, announced, dead>>

-----------------------------------------------------------------------------
(* FalconGuideSession::Pause() and Resume(): status_ is read, paused_ is   *)
(* set under pause_mutex_, status_ is stored, IPC clients are told.        *)

\* A mutant: the dispatch of "pause" falls through to "stop".
PauseFallsThrough(c) ==
    /\ At(c, "pause")
    /\ Go(c, "stop")
    /\ UNCHANGED <<pipeVars, replayVars, serverVars, lockVars, sessionVars, op,
                   main, navStep, announced, dead>>

PauseBegin(c) ==
    /\ At(c, "pause")
    /\ IF status = "Running" THEN Go(c, "pause_set") ELSE Return(c)
    /\ UNCHANGED <<pipeVars, replayVars, serverVars, lockVars, sessionVars, op,
                   main, navStep, announced, dead>>

ResumeBegin(c) ==
    /\ At(c, "resume")
    /\ IF status = "Paused" THEN Go(c, "resume_set") ELSE Return(c)
    /\ UNCHANGED <<pipeVars, replayVars, serverVars, lockVars, sessionVars, op,
                   main, navStep, announced, dead>>

SetPaused(c) ==
    /\ \/ /\ At(c, "pause_set")
          /\ paused' = TRUE
          /\ Go(c, "pause_status")
          /\ UNCHANGED replay
       \/ /\ At(c, "resume_set")
          /\ paused' = FALSE
          /\ replay' = ReplayWoken
          /\ Go(c, "resume_status")
    /\ UNCHANGED <<pipeVars, replayJoinable, left, serverVars, lockVars, status,
                   sessionRunning, op, main, navStep, announced, dead>>

PauseStatus(c) ==
    /\ \/ At(c, "pause_status") /\ status' = "Paused" /\ Go(c, "pause_announce")
       \/ At(c, "resume_status") /\ status' = "Running" /\ Go(c, "resume_announce")
    /\ UNCHANGED <<pipeVars, replayVars, serverVars, lockVars, sessionRunning,
                   paused, op, main, navStep, announced, dead>>

PauseAnnounce(c) ==
    /\ \/ At(c, "pause_announce") /\ Announce("paused")
       \/ At(c, "resume_announce") /\ Announce("running")
    /\ Return(c)
    /\ UNCHANGED <<pipeVars, replayVars, serverVars, lockVars, sessionVars, op,
                   main, navStep, dead>>

-----------------------------------------------------------------------------
(* FalconGuideSession::Reconfigure() and the commands that do nothing but  *)
(* answer.  get_status, get_schema and unknown commands are answered over  *)
(* IPC with a Broadcast(), over WebSocket with a return value.             *)

\* A command without "config" is done.  One that cannot be read, or that comes
\* while the session runs, is answered.
Reconfigure(c) ==
    /\ At(c, "configure")
    /\ \/ Return(c)
       \/ Go(c, "acknowledge")
       \/ status \notin {"Running", "Paused"} /\ Go(c, "destroy_pipe")
    /\ UNCHANGED <<pipeVars, replayVars, serverVars, lockVars, sessionVars, op,
                   main, navStep, announced, dead>>

\* A pipeline as it is constructed.
NewPipe ==
    /\ running' = FALSE /\ shutdown' = FALSE /\ queue' = <<>>
    /\ joinable' = FALSE /\ worker' = "gone" /\ current' = 0 /\ turn' = 1
    /\ hasState' = FALSE /\ owner' = "idle" /\ starts' = 0 /\ resets' = 0
    /\ pending' = [p \in {Replay} |-> 0] /\ fresh' = 1..Starts * Records
    /\ accepted' = <<>> /\ delivered' = <<>>
    /\ observed' = [o \in Pipe!Observers |-> <<>>]

\* Nothing is left of the old pipeline, and Pipeline() is the new one.  Then
\* MakeDatasetReader() throws, which is answered, or the reader is new as well.
\* A call of the replay thread that is in the old one uses what has been freed:
\* its measurement is lost, or the process is terminated.
ReplacePipe(c) ==
    /\ NewPipe
    /\ \/ /\ Go(c, "acknowledge") /\ UNCHANGED left
          /\ dead' \in {FALSE, pending[Replay] # 0}
       \/ /\ Go(c, "replace_servers") /\ left' = Closed
          /\ dead' \in {FALSE, pending[Replay] # 0 \/ replay = "read"}

\* nav_system_ is assigned: ~EstimatorPipeline() of the old one is Stop().
DestroyPipe(c) ==
    /\ \/ /\ At(c, "destroy_pipe")
          /\ \/ ~running /\ owner = "idle" /\ ReplacePipe(c)
             \/ Go(c, "destroy_shutdown") /\ Pipe!StopExchange /\ UNCHANGED <<left, dead>>
             \/ HandleContended /\ UNCHANGED left
       \/ /\ At(c, "destroy_shutdown")
          /\ Go(c, "destroy_join") /\ Pipe!RequestShutdown /\ UNCHANGED <<left, dead>>
       \/ At(c, "destroy_join") /\ Pipe!WorkerEnded /\ ReplacePipe(c)
    /\ UNCHANGED <<replay, replayJoinable, serverVars, lockVars, sessionVars, op, main,
                   navStep, announced>>

\* ipc_server_ is assigned.  ~IpcServer() of the old one, run by its own thread,
\* waits for the mutex this thread holds, while ipc_server_ is the new one; and
\* when Stop() has been there before, the thread is destroyed joinable, as is
\* that of the old ws_server_ when a thread of it assigns them both.  What the
\* others do with the new ipc_server_ until then is left out.
ReplaceServers(c) ==
    /\ At(c, "replace_servers")
    /\ \/ /\ c = Ipc /\ up[Ipc]
          /\ Go(Ipc, "off") /\ op' = [op EXCEPT ![Ipc] = "stranded"]
          /\ up' = Lowered(Ipc) /\ threadOf' = [threadOf EXCEPT ![Ipc] = FALSE]
          /\ clientsMutex' = Free
          /\ UNCHANGED dead
       \/ /\ c = Ipc => ~up[Ipc]
          /\ dead' = TRUE
          /\ UNCHANGED <<pc, op, up, threadOf, clientsMutex>>
    /\ UNCHANGED <<pipeVars, replayVars, commands, wsMutex, sessionVars, main, navStep,
                   announced>>

\* "configured", whatever Reconfigure() returned, or what it has thrown.
Acknowledge(c) ==
    /\ At(c, "acknowledge")
    /\ c = Ipc => ClientsLockable
    /\ Return(c)
    /\ UNCHANGED <<pipeVars, replayVars, serverVars, lockVars, sessionVars, op,
                   main, navStep, announced, dead>>

AnswerStatus(c) ==
    /\ \/ At(c, "set_speed")
       \/ /\ \/ At(c, "get_status") \/ At(c, "get_schema") \/ At(c, "unknown")
          /\ c = Ipc => ClientsLockable
    /\ Return(c)
    /\ UNCHANGED <<pipeVars, replayVars, serverVars, lockVars, sessionVars, op,
                   main, navStep, announced, dead>>

-----------------------------------------------------------------------------
(* IpcServer::ServerLoop() and WsServer::Loop().  select() returns because *)
(* of its timeout or of clients; their commands are handled one after the  *)
(* other under the server's mutex, which is released when the last handler *)
(* has returned or thrown.                                                 *)

ServerTest(s) ==
    /\ pc[s] = "loop"
    /\ Go(s, IF up[s] THEN "select" ELSE "off")
    /\ UNCHANGED <<pipeVars, replayVars, serverVars, lockVars, sessionVars, op,
                   main, navStep, announced, dead>>

SelectTimeout(s) ==
    /\ pc[s] = "select"
    /\ Go(s, "loop")
    /\ UNCHANGED <<pipeVars, replayVars, serverVars, lockVars, sessionVars, op,
                   main, navStep, announced, dead>>

ServerCommand(s, verb) ==
    /\ commands[s] > 0
    /\ commands' = [commands EXCEPT ![s] = @ - 1]
    /\ \/ /\ pc[s] = "select"
          /\ \/ s = Ws /\ WsLockable /\ wsMutex' = Ws /\ UNCHANGED clientsMutex
             \/ s = Ipc /\ ClientsLockable /\ clientsMutex' = Ipc /\ UNCHANGED wsMutex
       \/ pc[s] = "reply" /\ UNCHANGED lockVars
    /\ Go(s, verb)
    /\ UNCHANGED <<pipeVars, replayVars, up, threadOf, sessionVars, op, main,
                   navStep, announced, dead>>

ServerReply(s) ==
    /\ pc[s] = "reply"
    /\ \/ s = Ws /\ wsMutex' = Free /\ UNCHANGED clientsMutex
       \/ s = Ipc /\ clientsMutex' = Free /\ UNCHANGED wsMutex
    /\ Go(s, "loop")
    /\ UNCHANGED <<pipeVars, replayVars, serverVars, sessionVars, op, main, navStep,
                   announced, dead>>

-----------------------------------------------------------------------------
(* ReplayLoop().                                                           *)

ReplayStep(from, to) == replay = from /\ replay' = to /\ UNCHANGED replayJoinable

\* while (running_), and the test behind the pause.
ReplayTest ==
    /\ \/ ReplayStep("check", IF sessionRunning THEN "pause" ELSE "end")
       \/ ReplayStep("test", IF sessionRunning THEN "read" ELSE "end")
    /\ UNCHANGED <<pipeVars, left, serverVars, lockVars, sessionVars, pc, op, main,
                   navStep, announced, dead>>

\* pause_cv_.wait() under pause_mutex_: goes on, or sleeps until notified;
\* woken for no reason it tests its predicate again.
ReplayPause ==
    /\ \/ ReplayStep("pause", IF paused /\ sessionRunning THEN "waiting" ELSE "test")
       \/ ReplayStep("waiting", "pause")
    /\ UNCHANGED <<pipeVars, left, serverVars, lockVars, sessionVars, pc, op, main,
                   navStep, announced, dead>>

\* dataset_reader_->Next(), which returns a record, EndOfData, or Error when the
\* dataset is closed; the sleep that follows changes nothing.
ReplayRead ==
    /\ \/ left > 0 /\ ReplayStep("read", "push") /\ left' = left - 1
       \/ left = 0 /\ ReplayStep("read", "end") /\ UNCHANGED left
       \/ left = Closed /\ ReplayStep("read", "check") /\ UNCHANGED left
    /\ UNCHANGED <<pipeVars, serverVars, lockVars, sessionVars, pc, op, main, navStep,
                   announced, dead>>

\* Pipeline().Push(): refused when the pipeline does not run or its queue is
\* full, lost when it has been destroyed; the result is ignored.  Measurements
\* are numbered as they come.
ReplayPush ==
    /\ \/ ReplayStep("push", IF running THEN "queue" ELSE "check")
          /\ \E m \in fresh : (\A n \in fresh : m <= n) /\ Pipe!PushCheck(Replay, m)
       \/ ReplayStep("queue", "check")
          /\ \/ Pipe!QueuePush(Replay)
             \/ pending[Replay] = 0 /\ UNCHANGED pipeVars
    /\ UNCHANGED <<left, serverVars, lockVars, sessionVars, pc, op, main, navStep,
                   announced, dead>>

EndedNaturally == sessionRunning

\* A mutant: the dataset's end is broadcast but not stored.
ReplayEndUnreported ==
    /\ ReplayStep("end", IF EndedNaturally THEN "completed" ELSE "done")
    /\ UNCHANGED <<pipeVars, left, serverVars, lockVars, sessionVars, pc, op, main,
                   navStep, announced, dead>>

ReplayEnd ==
    /\ \/ /\ EndedNaturally
          /\ ReplayStep("end", "completed")
          /\ status' = "Completed"
       \/ /\ ~EndedNaturally
          /\ ReplayStep("end", "done")
          /\ UNCHANGED status
    /\ UNCHANGED <<pipeVars, left, serverVars, lockVars, sessionRunning, paused, pc,
                   op, main, navStep, announced, dead>>

ReplayAnnounce ==
    /\ ReplayStep("completed", "done")
    /\ Announce("completed")
    /\ UNCHANGED <<pipeVars, left, serverVars, lockVars, sessionVars, pc, op, main,
                   navStep, dead>>

-----------------------------------------------------------------------------
(* The pipeline's worker; OnNavigationState() sends the state to the IPC   *)
(* clients and then to the WebSocket clients.                              *)

EstimatorStep ==
    /\ \/ Pipe!Pop /\ UNCHANGED navStep
       \/ Pipe!SpuriousWakeup /\ UNCHANGED navStep
       \/ Pipe!Update /\ UNCHANGED navStep
       \/ /\ worker = "notify" /\ navStep = "ipc"
          /\ ClientsLockable
          /\ navStep' = "ws"
          /\ UNCHANGED pipeVars
       \/ /\ navStep = "ws"
          /\ WsLockable
          /\ Pipe!NotifyObserver
          /\ navStep' = "ipc"
    /\ UNCHANGED <<replayVars, serverVars, lockVars, sessionVars, pc, op, main,
                   announced, dead>>

-----------------------------------------------------------------------------
(* main() of the CLI and OnSignal().                                       *)

MainCall(from, to, label) ==
    /\ main = from /\ At(Main, "home")
    /\ main' = to
    /\ Go(Main, label)
    /\ UNCHANGED <<pipeVars, replayVars, serverVars, lockVars, sessionVars, op,
                   navStep, announced, dead>>

\* session.Start(), the poll of GetStatus(), session.Stop() and then
\* ~FalconGuideSession().  When Start() fails the status is "Error" and nothing
\* runs: the polls and Stop() that main() skips then would change nothing.
MainStart == MainCall("init", "start", "start")
MainStarted == MainCall("start", "poll", "home")
MainPoll ==
    /\ status \in {"Completed", "Idle", "Error"}
    /\ MainCall("poll", "stop", "stop")
MainDestroy == MainCall("stop", "destroy", "stop")

\* The session's members are destroyed.  A thread that is still joinable, or
\* still executing a call of the session, ends the process the wrong way.
MembersAtRest ==
    /\ ~replayJoinable /\ ~joinable
    /\ \A s \in {Ws, Ipc} : ~threadOf[s] /\ pc[s] = "off"

MainExit ==
    /\ main = "destroy" /\ At(Main, "home")
    /\ IF MembersAtRest THEN main' = "exited" /\ UNCHANGED dead
                        ELSE dead' = TRUE /\ UNCHANGED main
    /\ UNCHANGED <<pipeVars, replayVars, serverVars, lockVars, sessionVars, pc, op,
                   navStep, announced>>

Signal ==
    /\ main \in SignalPhases
    /\ op[Sig] = "none" /\ pc[Sig] = "off"
    /\ op' = [op EXCEPT ![Sig] = "stop"]
    /\ Go(Sig, "stop")
    /\ UNCHANGED <<pipeVars, replayVars, serverVars, lockVars, sessionVars, main,
                   navStep, announced, dead>>

-----------------------------------------------------------------------------
CallStep(c) ==
    \/ StartBegin(c) \/ StartOpen(c) \/ StartFailed(c)
    \/ StartServer(c, Ipc, "start_ipc", "start_ws")
    \/ StartServer(c, Ws, "start_ws", "start_pipe")
    \/ StartPipe(c) \/ StartStatus(c) \/ StartAnnounce(c)
    \/ StartRunning(c) \/ StartThread(c)
    \/ StopBegin(c) \/ StopUnpause(c) \/ StopJoinReplay(c) \/ StopPipe(c)
    \/ StopClose(c) \/ StopAnnounce(c) \/ StopIpc(c) \/ StopWs(c) \/ StopStatus(c)
    \/ PauseBegin(c) \/ ResumeBegin(c) \/ SetPaused(c) \/ PauseStatus(c)
    \/ PauseAnnounce(c)
    \/ Reconfigure(c) \/ DestroyPipe(c) \/ ReplaceServers(c) \/ Acknowledge(c) \/ AnswerStatus(c)

ServerStep(s) ==
    \/ ServerTest(s) \/ SelectTimeout(s) \/ ServerReply(s)
    \/ \E verb \in (IF s = Ws THEN WsVerbs ELSE IpcVerbs) : ServerCommand(s, verb)

ReplayThread ==
    ReplayTest \/ ReplayPause \/ ReplayRead \/ ReplayPush \/ ReplayEnd \/ ReplayAnnounce

MainThread == MainStart \/ MainStarted \/ MainPoll \/ MainDestroy \/ MainExit

Next ==
    /\ ~dead
    /\ \/ \E c \in Callers : CallStep(c)
       \/ \E s \in {Ws, Ipc} : ServerStep(s)
       \/ ReplayThread
       \/ EstimatorStep
       \/ MainThread
       \/ Signal

(* Every thread that can take a step eventually does.  Signals, commands   *)
(* and spurious wake-ups are not owed to anybody.                          *)
Fairness ==
    /\ \A c \in Callers : WF_vars(~dead /\ CallStep(c))
    /\ \A s \in {Ws, Ipc} :
          WF_vars(~dead /\ (ServerTest(s) \/ SelectTimeout(s) \/ ServerReply(s)))
    /\ WF_vars(~dead /\ ReplayThread)
    /\ WF_vars(~dead /\ EstimatorStep)
    /\ WF_vars(~dead /\ MainThread)

Spec == Init /\ [][Next]_vars /\ Fairness

-----------------------------------------------------------------------------
(* Properties.                                                             *)

(* The range of the session's own variables, and of the pipeline's.        *)
TypeOK ==
    /\ Pipe!TypeOK
    /\ status \in {"Idle", "Configured", "Running", "Paused", "Completed", "Error"}
    /\ sessionRunning \in BOOLEAN /\ paused \in BOOLEAN
    /\ replay \in {"off", "check", "pause", "waiting", "test", "read", "push", "queue",
                   "end", "completed", "done"}
    /\ replayJoinable \in BOOLEAN
    /\ left \in {Closed} \cup 0..Records
    /\ DOMAIN pc = Callers /\ DOMAIN op = Callers
    /\ up \in [{Ws, Ipc} -> BOOLEAN] /\ threadOf \in [{Ws, Ipc} -> BOOLEAN]
    /\ commands \in [{Ws, Ipc} -> 0..MaxCommands]
    /\ clientsMutex \in {Free, Ipc} /\ wsMutex \in {Free, Ws}
    /\ navStep \in {"ipc", "ws"}
    /\ main \in {"init", "start", "poll", "stop", "destroy", "exited"}
    /\ announced \in {"none", "running", "paused", "idle", "completed", "error"}
    /\ dead \in BOOLEAN

InCall(c) == pc[c] \notin {"off", "home", "loop", "select", "reply"}

NeedsClients == {"start_failed", "start_announce", "stop_announce", "ipc_clear",
                 "pause_announce", "resume_announce"}
IpcNeedsClients == NeedsClients \cup {"acknowledge", "get_status", "get_schema", "unknown"}

\* The thread whose progress thread t needs before it can take its next step.
WaitsFor(t) ==
    LET label == IF t \in Callers THEN pc[t] ELSE "none" IN
    IF t = Main /\ pc[Sig] # "off" THEN {Sig}
    ELSE IF t = Ipc /\ op[Ipc] = "stranded" THEN {Ipc}
    ELSE IF label \in NeedsClients \/ (t = Ipc /\ label \in IpcNeedsClients)
              \/ (t = Estimator /\ worker = "notify" /\ navStep = "ipc")
              \/ (t = Replay /\ replay = "completed")
    THEN {clientsMutex} \ {Free}
    ELSE IF label = "ws_clear" \/ (t = Estimator /\ navStep = "ws") THEN {wsMutex} \ {Free}
    ELSE IF label = "join_replay" /\ replayJoinable /\ ~ReplayEnded THEN {Replay}
    ELSE IF label \in {"pipe_join", "destroy_join"} /\ worker # "gone" THEN {Estimator}
    ELSE IF label = "ipc_join" /\ pc[Ipc] # "off" THEN {Ipc}
    ELSE IF label = "ws_join" /\ t # Ws /\ pc[Ws] # "off" THEN {Ws}
    ELSE {}

(* No threads wait for each other (or for themselves) in a circle of       *)
(* mutexes and joins.                                                      *)
NoDeadlock ==
    ~\E S \in (SUBSET Threads) \ {{}} : \A t \in S : WaitsFor(t) \cap S # {}

(* The process is not terminated by a thread handle that is assigned or    *)
(* destroyed while joinable.                                               *)
NotTerminated == ~dead

(* The ranges of the variables; and                                        *)
(* "Gracefully stops replay, pipeline, and IPC" (session.hpp:68): when the *)
(* status is Idle, the replay thread, the worker and both servers' threads *)
(* are gone and every accepted measurement has been processed.  After the  *)
(* "idle" event no navigation state is sent to any client.                 *)
IdleMeansStopped ==
    /\ TypeOK
    /\ status = "Idle" =>
        /\ replay \in {"off", "done"} /\ ~replayJoinable
        /\ worker = "gone" /\ delivered = accepted
        /\ \A s \in {Ws, Ipc} : pc[s] = "off" /\ ~up[s]
        /\ clientsMutex = Free /\ wsMutex = Free
    /\ announced = "idle" => worker # "notify"

(* "Running: replay and pipeline are active", "Paused: replay is paused"   *)
(* (session.hpp:51-52): when no call is in progress these two states are   *)
(* only reported while the replay has not ended.  "Completed: dataset      *)
(* replay completed" is only reported when every record was read, never    *)
(* because a Stop() ended the replay (which closes the dataset later).     *)
StatusTruthful ==
    /\ (\A c \in Callers : ~InCall(c)) /\ main = "poll" /\ status \in {"Running", "Paused"}
       => replay \notin {"off", "done"}
    /\ status = "Completed" => left \in {0, Closed}

(* A paused replay thread sleeps with somebody left to wake it: paused_ is *)
(* set and neither Stop() nor Resume() has passed its notification.        *)
PausedIsWakeable == replay = "waiting" => paused /\ \A c \in Callers : pc[c] # "join_replay"

(* Whatever the clients and signals did, a program that exits the regular  *)
(* way leaves nothing behind: no thread, no mutex held, no server, and no  *)
(* accepted measurement unprocessed.  (The thread of an IpcServer that was *)
(* replaced by a command of its own client is no longer the session's.)    *)
ExitLeavesNothing ==
    main = "exited" =>
        /\ replay \in {"off", "done"}
        /\ worker = "gone" /\ delivered = accepted
        /\ \A s \in {Ws, Ipc} : pc[s] = "off" /\ ~up[s]
        /\ clientsMutex = Free /\ wsMutex = Free

(* An interrupt delivered while the session runs makes the program exit.   *)
SignalExits == (pc[Sig] = "stop" /\ sessionRunning) ~> main = "exited"

(* The CLI exits when the dataset has been replayed to its end.            *)
ReplayExits == replay = "completed" ~> main = "exited"

(* A call of Stop() by any thread sets the status to Idle.                 *)
StopCompletes == \A c \in Callers :
    (pc[c] = "stop_unpause") ~> (status = "Idle")
=============================================================================
