----------------------------- MODULE SessionProofs -----------------------------
(***************************************************************************)
(* Theorems about Session for any dataset, any capacity of the pipeline's  *)
(* queue, any commands of the clients, and a SIGINT in any phase: the      *)
(* session drives its pipeline only in ways that keep the pipeline's own   *)
(* invariant, and a program that exits the regular way leaves nothing      *)
(* behind.  The inductive invariant SInv joins that of the pipeline (IInv, *)
(* proved in EstimatorPipelineProofs) to where the callers are.  With      *)
(* hypotheses on the commands (Supervised, Unentangled, Unpaused), which   *)
(* each theorem names, more follows: the process is not terminated, does   *)
(* not deadlock, and reports a status that is so.                          *)
(***************************************************************************)
EXTENDS Session, TLAPS

PipeProofs == INSTANCE EstimatorPipelineProofs WITH
    Producers <- {Replay},
    Measurement <- 1..Starts * Records,
    NumObservers <- 1,
    NoMeasurement <- 0,
    EstimatorReset <- -1,
    MaxStarts <- Starts,
    MaxResets <- 0

USE DEF Callers, Main, Sig, Ws, Ipc

-----------------------------------------------------------------------------
(* The inductive invariant.                                                *)

Outside == {"off", "home", "loop", "select", "reply"}
OwnerLabels == {"spawn_worker", "pipe_shutdown", "pipe_join", "destroy_shutdown", "destroy_join"}

\* Where a caller that stops server s is about to join its thread.
Joining(s) == IF s = Ipc THEN {"ipc_clear", "ipc_join"} ELSE {"ws_join"}

\* A server that runs has a thread, a thread that is not there executes
\* nothing, and one caller at most is about to join it, after clearing up[s].
ServersPart ==
    /\ DOMAIN pc = Callers
    /\ up \in [{Ws, Ipc} -> BOOLEAN] /\ threadOf \in [{Ws, Ipc} -> BOOLEAN]
    /\ \A s \in {Ws, Ipc} :
          /\ up[s] => threadOf[s]
          /\ ~threadOf[s] => pc[s] = "off"
          /\ \A c \in Callers : pc[c] \in Joining(s) => ~up[s] /\ threadOf[s]
          /\ \A c, d \in Callers : pc[c] \in Joining(s) /\ pc[d] \in Joining(s) => c = d

\* A server's mutex is held by nobody but its own thread in a handler.
LocksPart ==
    /\ clientsMutex \in {Free, Ipc} /\ wsMutex \in {Free, Ws}
    /\ clientsMutex = Ipc => pc[Ipc] \notin {"off", "loop", "select"}
    /\ wsMutex = Ws => pc[Ws] \notin {"off", "loop", "select"}

\* A handle that is not joinable has no thread; the pipeline is between the
\* steps of its Start() or Stop() only while a caller is.
HandlesPart ==
    /\ ~replayJoinable => ReplayEnded
    /\ owner # "idle" => \E c \in Callers : pc[c] \in OwnerLabels

\* Once main() has returned nobody is left that could start anything.
ExitPart ==
    main = "exited" =>
        /\ \A c \in Callers : pc[c] \in {"off", "home"}
        /\ ~replayJoinable /\ ~joinable
        /\ \A s \in {Ws, Ipc} : ~threadOf[s]

Control == ServersPart /\ LocksPart /\ HandlesPart /\ ExitPart

SInv == PipeProofs!IInv /\ PipeProofs!Untouched /\ Control

-----------------------------------------------------------------------------
(* The pipeline's part: each of its actions the session takes is one of    *)
(* the pipeline's own steps, so its lemmas apply.                          *)

LEMMA PipelineConstants == PipeProofs!ConstantsAssumption
<1>1. Starts \in Nat
  BY ConstantsAssumption DEF Starts
<1>2. 0 \notin 1..Starts * Records /\ -1 \notin 1..Starts * Records
  BY <1>1, ConstantsAssumption
<1> QED
  BY <1>1, <1>2, ConstantsAssumption DEF PipeProofs!ConstantsAssumption

(* The pipeline of a constructed session satisfies its invariant.          *)
LEMMA PipelineInit == Init => PipeProofs!IInv /\ PipeProofs!Untouched
<1>1. Pipe!Init => PipeProofs!Init
  BY DEF Pipe!Init, PipeProofs!Init, Pipe!Observers, PipeProofs!Observers
<1>2. PipeProofs!Init => PipeProofs!IInv
  BY PipelineConstants, PipeProofs!InitIInv
<1>3. PipeProofs!Init => PipeProofs!Untouched
  BY DEF PipeProofs!Init, PipeProofs!Untouched
<1> QED
  BY <1>1, <1>2, <1>3 DEF Init

(* The session uses its pipeline only through the pipeline's operations,   *)
(* or replaces it.                                                         *)
LEMMA PipelineSteps ==
    ASSUME PipeProofs!IInv, [Next]_vars
    PROVE  [PipeProofs!Next]_PipeProofs!vars \/ NewPipe
<1> USE DEF PipeProofs!queueVars, PipeProofs!workerVars, PipeProofs!ownerVars,
            PipeProofs!producerVars, PipeProofs!histories, Pipe!queueVars,
            Pipe!workerVars, Pipe!ownerVars, Pipe!producerVars, Pipe!histories
<1>1. UNCHANGED pipeVars => UNCHANGED PipeProofs!vars
  BY DEF pipeVars, PipeProofs!vars
<1>2. ASSUME NEW c \in Callers, CallStep(c) PROVE [PipeProofs!Next]_PipeProofs!vars \/ NewPipe
  <2>1. CASE StartPipe(c)
    <3>1. \/ UNCHANGED pipeVars \/ Pipe!StartExchange \/ Pipe!SpawnWorker
      BY <2>1 DEF StartPipe, HandleContended
    <3> QED BY <3>1, <1>1 DEF Pipe!StartExchange, Pipe!SpawnWorker, PipeProofs!StartExchange,
           PipeProofs!SpawnWorker, PipeProofs!Owner, PipeProofs!Next
  <2>2. CASE StopPipe(c) \/ DestroyPipe(c)
    <3>1. \/ UNCHANGED pipeVars \/ Pipe!StopExchange \/ Pipe!RequestShutdown \/ Pipe!Join
          \/ NewPipe
      BY <2>2 DEF StopPipe, DestroyPipe, ReplacePipe, HandleContended
    <3>2. Pipe!StopExchange => PipeProofs!StopExchange
      BY DEF Pipe!StopExchange, PipeProofs!StopExchange
    <3>3. Pipe!RequestShutdown => PipeProofs!RequestShutdown
      BY DEF Pipe!RequestShutdown, PipeProofs!RequestShutdown, Pipe!Wake, PipeProofs!Wake
    <3>4. Pipe!Join => PipeProofs!Join
      BY DEF Pipe!Join, PipeProofs!Join, Pipe!WorkerEnded, PipeProofs!WorkerEnded
    <3> QED BY <3>1, <3>2, <3>3, <3>4, <1>1 DEF PipeProofs!Owner, PipeProofs!Next
  <2>3. CASE ~StartPipe(c) /\ ~StopPipe(c) /\ ~DestroyPipe(c)
    BY <1>1, <1>2, <2>3 DEF CallStep, StartBegin, StartOpen, StartFailed, StartServer,
       StartStatus, StartAnnounce, StartRunning, StartThread, StopBegin, StopUnpause,
       StopJoinReplay, StopClose, StopAnnounce, StopIpc, StopWs, StopStatus, PauseBegin,
       ResumeBegin, SetPaused, PauseStatus, PauseAnnounce, Reconfigure, DestroyPipe,
       ReplacePipe, ReplaceServers, Acknowledge, AnswerStatus
  <2> QED BY <2>1, <2>2, <2>3
<1>3. ASSUME NEW s \in {Ws, Ipc}, ServerStep(s) PROVE [PipeProofs!Next]_PipeProofs!vars
  BY <1>1, <1>3 DEF ServerStep, ServerTest, SelectTimeout, ServerReply, ServerCommand
<1>4. ASSUME ReplayThread PROVE [PipeProofs!Next]_PipeProofs!vars
  <2>1. \/ UNCHANGED pipeVars
        \/ \E m \in fresh : Pipe!PushCheck(Replay, m)
        \/ Pipe!QueuePush(Replay)
    BY <1>4 DEF ReplayThread, ReplayTest, ReplayPause, ReplayRead, ReplayPush, ReplayEnd,
       ReplayAnnounce
  <2>2. ASSUME NEW m \in fresh, Pipe!PushCheck(Replay, m) PROVE PipeProofs!Producer
    <3>1. m \in 1..Starts * Records
      BY DEF PipeProofs!IInv, PipeProofs!TypeOK
    <3>2. PipeProofs!PushCheck(Replay, m)
      BY <2>2 DEF Pipe!PushCheck, PipeProofs!PushCheck
    <3> QED BY <3>1, <3>2 DEF PipeProofs!Producer
  <2>3. ASSUME Pipe!QueuePush(Replay) PROVE PipeProofs!Producer
    <3>1. PipeProofs!QueuePush(Replay)
      BY <2>3 DEF Pipe!QueuePush, PipeProofs!QueuePush, Pipe!QueueAccepts,
         PipeProofs!QueueAccepts, Pipe!Pushed, PipeProofs!Pushed, Pipe!Wake, PipeProofs!Wake
    <3> QED BY <3>1 DEF PipeProofs!Producer
  <2> QED BY <2>1, <2>2, <2>3, <1>1 DEF PipeProofs!Next
<1>5. ASSUME EstimatorStep PROVE [PipeProofs!Next]_PipeProofs!vars
  <2>1. \/ UNCHANGED pipeVars
        \/ Pipe!Pop \/ Pipe!SpuriousWakeup \/ Pipe!Update \/ Pipe!NotifyObserver
    BY <1>5 DEF EstimatorStep
  <2>2. Pipe!Pop => PipeProofs!Pop
    BY DEF Pipe!Pop, PipeProofs!Pop, Pipe!Exits, PipeProofs!Exits
  <2>3. Pipe!SpuriousWakeup => PipeProofs!SpuriousWakeup
    BY DEF Pipe!SpuriousWakeup, PipeProofs!SpuriousWakeup
  <2>4. Pipe!Update => PipeProofs!Update
    BY DEF Pipe!Update, PipeProofs!Update
  <2>5. Pipe!NotifyObserver => PipeProofs!NotifyObserver
    BY DEF Pipe!NotifyObserver, PipeProofs!NotifyObserver, Pipe!MoreObservers,
       PipeProofs!MoreObservers
  <2> QED BY <2>1, <2>2, <2>3, <2>4, <2>5, <1>1 DEF PipeProofs!Worker, PipeProofs!Next
<1>6. ASSUME MainThread \/ Signal PROVE [PipeProofs!Next]_PipeProofs!vars
  BY <1>1, <1>6 DEF MainThread, MainStart, MainStarted, MainPoll, MainDestroy, MainExit,
     MainCall, Signal
<1>7. UNCHANGED vars => UNCHANGED pipeVars
  BY DEF vars
<1> QED
  BY <1>1, <1>2, <1>3, <1>4, <1>5, <1>6, <1>7 DEF Next

(* A pipeline just constructed satisfies its invariant.                    *)
LEMMA NewPipeStep ==
    ASSUME NewPipe
    PROVE  PipeProofs!IInv' /\ PipeProofs!Untouched'
<1> USE DEF NewPipe, Pipe!Observers, PipeProofs!Observers
<1>1. Starts \in Nat /\ QueueCapacity \in Nat \ {0}
  BY ConstantsAssumption DEF Starts
<1>2. /\ <<>> \in Seq(1..Starts * Records) /\ Len(<<>>) = 0
      /\ <<>> \in Seq(1..Starts * Records \cup {-1})
  OBVIOUS
<1>3. observed' \in [PipeProofs!Observers -> Seq(1..Starts * Records \cup {-1})]
  BY <1>2
<1>4. /\ pending' \in [{Replay} -> 1..Starts * Records \cup {0}]
      /\ fresh' \subseteq 1..Starts * Records
  OBVIOUS
<1>5. /\ queue' \in Seq(1..Starts * Records) /\ Len(queue') <= QueueCapacity
      /\ accepted' \in Seq(1..Starts * Records) /\ delivered' \in Seq(1..Starts * Records)
      /\ starts' \in 0..Starts /\ resets' \in 0..0
  BY <1>1, <1>2
<1>6. PipeProofs!TypeOK'
  BY <1>1, <1>3, <1>4, <1>5 DEF PipeProofs!TypeOK
<1>7. PipeProofs!HandoffIntact'
  BY DEF PipeProofs!HandoffIntact, PipeProofs!InFlight
<1>8. PipeProofs!NoLostWakeup' /\ PipeProofs!Phases' /\ PipeProofs!StopDrains'
  BY DEF PipeProofs!NoLostWakeup, PipeProofs!Phases, PipeProofs!StopDrains
<1>9. PipeProofs!Untouched'
  BY DEF PipeProofs!Untouched
<1> QED
  BY <1>6, <1>7, <1>8, <1>9 DEF PipeProofs!IInv

(* The pipeline's invariant survives every step of the session.            *)
LEMMA PipelineStep ==
    ASSUME PipeProofs!IInv, PipeProofs!Untouched, [Next]_vars
    PROVE  PipeProofs!IInv' /\ PipeProofs!Untouched'
<1>1. [PipeProofs!Next]_PipeProofs!vars \/ NewPipe
  BY PipelineSteps
<1> QED
  BY <1>1, NewPipeStep, PipelineConstants, PipeProofs!InvariantStep, PipeProofs!UntouchedStep

-----------------------------------------------------------------------------
(* Where the callers are: one lemma per kind of step.                      *)

(* The initial state. *)
LEMMA ControlInit == Init => Control
  BY DEF Init, Pipe!Init, Control, ServersPart, LocksPart, HandlesPart, ExitPart, Joining,
     OwnerLabels, ReplayEnded, Free

(* A caller moves on within its call, or returns, without touching the     *)
(* servers, the pipeline's handle or the replay thread's.                  *)
LEMMA Moves ==
    ASSUME Control, NEW c \in Callers, NEW l,
           pc[c] \notin Outside, pc[c] \notin OwnerLabels,
           l = Home(c) \/ l \notin Outside \cup Joining(Ipc) \cup Joining(Ws),
           pc' = [pc EXCEPT ![c] = l],
           up' = up, threadOf' = threadOf, clientsMutex' = clientsMutex, wsMutex' = wsMutex,
           main' = main, owner' = owner, joinable' = joinable,
           replayJoinable' = replayJoinable, ReplayEnded => replay' = replay
    PROVE  Control'
<1> USE DEF Control, Outside, OwnerLabels, Joining, Home
<1>1. ServersPart'
  BY DEF ServersPart
<1>2. LocksPart'
  BY DEF LocksPart, ServersPart
<1>3. HandlesPart'
  BY DEF HandlesPart, ServersPart, ReplayEnded
<1>4. ExitPart'
  BY DEF ExitPart
<1> QED
  BY <1>1, <1>2, <1>3, <1>4

(* The same when nobody moves. *)
LEMMA Rests ==
    ASSUME Control, pc' = pc,
           up' = up, threadOf' = threadOf, clientsMutex' = clientsMutex, wsMutex' = wsMutex,
           main' = main, owner' = owner, joinable' = joinable,
           replayJoinable' = replayJoinable, ReplayEnded => replay' = replay
    PROVE  Control'
  BY DEF Control, ServersPart, LocksPart, HandlesPart, ExitPart, ReplayEnded

(* The steps of a call that only move the caller. *)
LEMMA PlainStep ==
    ASSUME Control, NEW c \in Callers,
           \/ StartBegin(c) \/ StartOpen(c) \/ StartFailed(c) \/ StartStatus(c)
           \/ StartAnnounce(c) \/ StartRunning(c)
           \/ StopBegin(c) \/ StopUnpause(c) \/ StopClose(c) \/ StopAnnounce(c)
           \/ StopStatus(c)
           \/ PauseBegin(c) \/ ResumeBegin(c) \/ SetPaused(c) \/ PauseStatus(c)
           \/ PauseAnnounce(c) \/ Reconfigure(c) \/ Acknowledge(c) \/ AnswerStatus(c)
    PROVE  Control'
<1>1. \/ pc' = pc
      \/ \E l : /\ pc[c] \notin Outside /\ pc[c] \notin OwnerLabels
                /\ l = Home(c) \/ l \notin Outside \cup Joining(Ipc) \cup Joining(Ws)
                /\ pc' = [pc EXCEPT ![c] = l]
  BY DEF StartBegin, StartOpen, StartFailed, StartStatus, StartAnnounce, StartRunning,
     StopBegin, StopUnpause, StopClose, StopAnnounce, StopStatus, PauseBegin, ResumeBegin,
     SetPaused, PauseStatus, PauseAnnounce, Reconfigure, Acknowledge, AnswerStatus, At, Go,
     Return, Outside, OwnerLabels, Joining
<1>2. /\ up' = up /\ threadOf' = threadOf /\ clientsMutex' = clientsMutex
      /\ wsMutex' = wsMutex /\ main' = main /\ owner' = owner /\ joinable' = joinable
      /\ replayJoinable' = replayJoinable /\ (ReplayEnded => replay' = replay)
  BY DEF StartBegin, StartOpen, StartFailed, StartStatus, StartAnnounce, StartRunning,
     StopBegin, StopUnpause, StopClose, StopAnnounce, StopStatus, PauseBegin, ResumeBegin,
     SetPaused, PauseStatus, PauseAnnounce, Reconfigure, Acknowledge, AnswerStatus, pipeVars,
     replayVars, serverVars, lockVars, ReplayWoken, ReplayEnded
<1>3. CASE pc' = pc
  BY <1>2, <1>3, Rests
<1>4. CASE pc' # pc
  <2>1. PICK l : /\ pc[c] \notin Outside /\ pc[c] \notin OwnerLabels
                 /\ l = Home(c) \/ l \notin Outside \cup Joining(Ipc) \cup Joining(Ws)
                 /\ pc' = [pc EXCEPT ![c] = l]
    BY <1>1, <1>4
  <2> QED
    BY <2>1, <1>2, Moves
<1> QED
  BY <1>3, <1>4

(* Start(): a server's thread begins only where none is left. *)
LEMMA StartServerStep ==
    ASSUME Control, NEW c \in Callers,
           \/ StartServer(c, Ipc, "start_ipc", "start_ws")
           \/ StartServer(c, Ws, "start_ws", "start_pipe")
    PROVE  Control'
<1>1. ASSUME NEW s \in {Ws, Ipc}, NEW label \in {"start_ipc", "start_ws"},
             NEW next \in {"start_ws", "start_pipe"}, StartServer(c, s, label, next)
      PROVE  Control'
  <2> USE DEF Control, Outside, OwnerLabels, Joining
  <2>1. /\ pc[c] = label
        /\ clientsMutex' = clientsMutex /\ wsMutex' = wsMutex /\ main' = main
        /\ owner' = owner /\ joinable' = joinable
        /\ replayJoinable' = replayJoinable /\ replay' = replay
    BY <1>1 DEF StartServer, At, pipeVars, replayVars, lockVars
  <2>2. CASE pc' = pc /\ up' = up /\ threadOf' = threadOf
    BY <2>1, <2>2, Rests
  <2>3. CASE pc' = [pc EXCEPT ![c] = next] /\ up' = up /\ threadOf' = threadOf
    BY <2>1, <2>3, Moves
  <2>4. CASE /\ ~up[s] /\ ~threadOf[s]
             /\ up' = [up EXCEPT ![s] = TRUE] /\ threadOf' = [threadOf EXCEPT ![s] = TRUE]
             /\ pc' = [pc EXCEPT ![c] = next, ![s] = "loop"]
    <3>1. pc[s] = "off" /\ c # s /\ pc'[s] = "loop" /\ pc'[c] = next
          /\ \A d \in Callers \ {c, s} : pc'[d] = pc[d]
      BY <2>1, <2>4 DEF ServersPart
    <3>2. ServersPart'
      BY <2>1, <2>4, <3>1 DEF ServersPart
    <3>3. LocksPart'
      BY <2>1, <2>4, <3>1 DEF LocksPart
    <3>4. HandlesPart'
      BY <2>1, <2>4, <3>1 DEF HandlesPart, ReplayEnded
    <3>5. ExitPart'
      BY <2>1, <2>4, <3>1 DEF ExitPart
    <3> QED
      BY <3>2, <3>3, <3>4, <3>5
  <2> QED
    BY <1>1, <2>2, <2>3, <2>4 DEF StartServer, Go
<1> QED
  BY <1>1

(* Start() and Stop() of the pipeline. *)
LEMMA StartPipeStep ==
    ASSUME Control, NEW c \in Callers, StartPipe(c)
    PROVE  Control'
<1> USE DEF Control, Outside, OwnerLabels, Joining
<1>1. /\ pc[c] \in {"start_pipe", "spawn_worker"}
      /\ up' = up /\ threadOf' = threadOf /\ clientsMutex' = clientsMutex
      /\ wsMutex' = wsMutex /\ main' = main /\ replayJoinable' = replayJoinable
      /\ replay' = replay
  BY DEF StartPipe, At, replayVars, serverVars, lockVars
<1>2. \/ pc' = pc /\ owner' = owner /\ joinable' = joinable
      \/ /\ pc' = [pc EXCEPT ![c] = "start_status"]
         /\ \/ pc[c] = "start_pipe" /\ owner' = owner /\ joinable' = joinable
            \/ owner' = "idle"
      \/ pc' = [pc EXCEPT ![c] = "spawn_worker"]
  BY DEF StartPipe, At, Go, HandleContended, pipeVars, Pipe!StartExchange, Pipe!SpawnWorker
<1>3. ServersPart'
  BY <1>1, <1>2 DEF ServersPart
<1>4. LocksPart'
  BY <1>1, <1>2 DEF LocksPart, ServersPart
<1>5. HandlesPart'
  BY <1>1, <1>2 DEF HandlesPart, ServersPart, ReplayEnded
<1>6. ExitPart'
  BY <1>1 DEF ExitPart
<1> QED
  BY <1>3, <1>4, <1>5, <1>6

LEMMA StopPipeStep ==
    ASSUME Control, NEW c \in Callers, StopPipe(c) \/ DestroyPipe(c)
    PROVE  Control'
<1> USE DEF Control, Outside, OwnerLabels, Joining
<1>1. /\ pc[c] \in {"stop_pipe", "pipe_shutdown", "pipe_join",
                    "destroy_pipe", "destroy_shutdown", "destroy_join"}
      /\ up' = up /\ threadOf' = threadOf /\ clientsMutex' = clientsMutex
      /\ wsMutex' = wsMutex /\ main' = main /\ replayJoinable' = replayJoinable
      /\ replay' = replay
  BY DEF StopPipe, DestroyPipe, At, replayVars, serverVars, lockVars
<1>2. \/ pc' = pc /\ owner' = owner /\ joinable' = joinable
      \/ /\ pc' = [pc EXCEPT ![c] = "stop_close"]
         /\ \/ pc[c] = "stop_pipe" /\ owner' = owner /\ joinable' = joinable
            \/ owner' = "idle"
      \/ \E l \in {"acknowledge", "replace_servers"} : pc' = [pc EXCEPT ![c] = l] /\ owner' = "idle"
      \/ \E l \in OwnerLabels : pc' = [pc EXCEPT ![c] = l]
  BY DEF StopPipe, DestroyPipe, ReplacePipe, NewPipe, At, Go, HandleContended, pipeVars,
     Pipe!StopExchange, Pipe!RequestShutdown, Pipe!Join
<1>3. OwnerLabels \cap (Outside \cup Joining(Ipc) \cup Joining(Ws)) = {}
  OBVIOUS
<1>4. ServersPart'
  BY <1>1, <1>2, <1>3 DEF ServersPart
<1>5. LocksPart'
  BY <1>1, <1>2, <1>3 DEF LocksPart, ServersPart
<1>6. HandlesPart'
  BY <1>1, <1>2, <1>3 DEF HandlesPart, ServersPart, ReplayEnded
<1>7. ExitPart'
  BY <1>1 DEF ExitPart
<1> QED
  BY <1>4, <1>5, <1>6, <1>7

(* Start() and Stop() of the replay thread. *)
LEMMA StartThreadStep ==
    ASSUME Control, NEW c \in Callers, StartThread(c)
    PROVE  Control'
<1> USE DEF Control, Outside, OwnerLabels, Joining, Home
<1>1. /\ pc[c] = "start_thread"
      /\ up' = up /\ threadOf' = threadOf /\ clientsMutex' = clientsMutex
      /\ wsMutex' = wsMutex /\ main' = main /\ owner' = owner /\ joinable' = joinable
  BY DEF StartThread, At, pipeVars, serverVars, lockVars
<1>2. CASE pc' = pc /\ replayJoinable' = replayJoinable /\ replay' = replay
  BY <1>1, <1>2, Rests
<1>3. CASE pc' = [pc EXCEPT ![c] = Home(c)] /\ replayJoinable'
  <2>1. ServersPart'
    BY <1>1, <1>3 DEF ServersPart
  <2>2. LocksPart'
    BY <1>1, <1>3 DEF LocksPart, ServersPart
  <2>3. HandlesPart'
    BY <1>1, <1>3 DEF HandlesPart, ServersPart
  <2>4. ExitPart'
    BY <1>1 DEF ExitPart
  <2> QED
    BY <2>1, <2>2, <2>3, <2>4
<1> QED
  BY <1>2, <1>3 DEF StartThread, Return, Go

LEMMA StopJoinReplayStep ==
    ASSUME Control, NEW c \in Callers, StopJoinReplay(c)
    PROVE  Control'
<1> USE DEF Control, Outside, OwnerLabels, Joining
<1>1. /\ pc[c] = "join_replay" /\ pc' = [pc EXCEPT ![c] = "stop_pipe"]
      /\ ReplayEnded /\ replay' = replay /\ ~replayJoinable'
      /\ up' = up /\ threadOf' = threadOf /\ clientsMutex' = clientsMutex
      /\ wsMutex' = wsMutex /\ main' = main /\ owner' = owner /\ joinable' = joinable
  BY DEF StopJoinReplay, At, Go, pipeVars, serverVars, lockVars, HandlesPart
<1>2. ServersPart'
  BY <1>1 DEF ServersPart
<1>3. LocksPart'
  BY <1>1 DEF LocksPart, ServersPart
<1>4. HandlesPart'
  BY <1>1 DEF HandlesPart, ServersPart, ReplayEnded
<1>5. ExitPart'
  BY <1>1 DEF ExitPart
<1> QED
  BY <1>2, <1>3, <1>4, <1>5

(* Stop() of a server: its flag is cleared before its thread is joined,    *)
(* and only the caller that cleared it joins. *)
LEMMA StopServerStep ==
    ASSUME Control, NEW c \in Callers, StopIpc(c) \/ StopWs(c)
    PROVE  Control'
<1> USE DEF Control, Outside, OwnerLabels, Joining
<1>0. /\ Home(c) \in {"home", "off", "reply"} /\ (c \in {Ws, Ipc} => Home(c) = "reply")
  BY DEF Home
<1>1. /\ clientsMutex' = clientsMutex /\ wsMutex' = wsMutex /\ main' = main
      /\ owner' = owner /\ joinable' = joinable
      /\ replayJoinable' = replayJoinable /\ replay' = replay
  BY DEF StopIpc, StopWs, pipeVars, replayVars, lockVars
<1>2. pc[c] \in {"stop_ipc", "ipc_clear", "ipc_join", "stop_ws", "ws_join", "ws_clear"}
  BY DEF StopIpc, StopWs, At
<1>3. ServersPart'
  <2>1. CASE pc[c] = "stop_ipc"
    <3>1. /\ up' = [up EXCEPT ![Ipc] = FALSE] /\ threadOf' = threadOf
          /\ pc' = [pc EXCEPT ![c] = IF up[Ipc] THEN "ipc_clear" ELSE "stop_ws"]
      BY <2>1 DEF StopIpc, StopWs, At, Go, Lowered
    <3> QED
      BY <1>0, <2>1, <3>1 DEF ServersPart
  <2>2. CASE pc[c] = "stop_ws"
    <3>1. /\ up' = [up EXCEPT ![Ws] = FALSE] /\ threadOf' = threadOf
          /\ pc' = [pc EXCEPT ![c] = IF up[Ws] THEN "ws_join" ELSE "stop_status"]
      BY <2>2 DEF StopIpc, StopWs, At, Go, Lowered
    <3> QED
      BY <2>2, <3>1 DEF ServersPart
  <2>3. CASE pc[c] = "ipc_clear"
    <3>1. up' = up /\ threadOf' = threadOf /\ pc' = [pc EXCEPT ![c] = "ipc_join"]
      BY <2>3 DEF StopIpc, StopWs, At, Go
    <3> QED
      BY <2>3, <3>1 DEF ServersPart
  <2>4. CASE pc[c] = "ipc_join"
    <3>1. /\ up' = up /\ threadOf' = [threadOf EXCEPT ![Ipc] = FALSE]
          /\ pc[Ipc] = "off" /\ pc' = [pc EXCEPT ![c] = "stop_ws"]
      BY <2>4 DEF StopIpc, StopWs, At, Go
    <3> QED
      BY <1>0, <2>4, <3>1 DEF ServersPart
  <2>5. CASE pc[c] = "ws_join"
    <3>1. CASE c = Ws
      <4>1. up' = up /\ threadOf' = threadOf /\ pc' = [pc EXCEPT ![c] = "reply"]
        BY <1>0, <2>5, <3>1 DEF StopIpc, StopWs, At, Go, Return
      <4> QED
        BY <2>5, <3>1, <4>1 DEF ServersPart
    <3>2. CASE c # Ws
      <4>1. /\ up' = up /\ threadOf' = [threadOf EXCEPT ![Ws] = FALSE]
            /\ pc[Ws] = "off" /\ pc' = [pc EXCEPT ![c] = "ws_clear"]
        BY <2>5, <3>2 DEF StopIpc, StopWs, At, Go
      <4> QED
        BY <2>5, <3>2, <4>1 DEF ServersPart
    <3> QED
      BY <3>1, <3>2
  <2>6. CASE pc[c] = "ws_clear"
    <3>1. up' = up /\ threadOf' = threadOf /\ pc' = [pc EXCEPT ![c] = "stop_status"]
      BY <2>6 DEF StopIpc, StopWs, At, Go
    <3> QED
      BY <2>6, <3>1 DEF ServersPart
  <2> QED
    BY <1>2, <2>1, <2>2, <2>3, <2>4, <2>5, <2>6
<1>4. \A d \in Callers : d # c => pc'[d] = pc[d]
  BY DEF StopIpc, StopWs, At, Go, Return, ServersPart
<1>5. c \in {Ws, Ipc} => pc'[c] \notin {"off", "loop", "select"}
  BY <1>0 DEF StopIpc, StopWs, At, Go, Return, ServersPart
<1>6. LocksPart'
  BY <1>1, <1>4, <1>5 DEF LocksPart
<1>7. HandlesPart'
  BY <1>1, <1>2, <1>4 DEF HandlesPart, ReplayEnded
<1>8. ExitPart'
  BY <1>1, <1>2 DEF ExitPart
<1> QED
  BY <1>3, <1>6, <1>7, <1>8

(* A process whose servers are replaced is dead, and nothing moved; or the *)
(* thread of the old IPC server is out of the session's reach, with all    *)
(* that it holds. *)
LEMMA ReplaceServersStep ==
    ASSUME Control, NEW c \in Callers, ReplaceServers(c)
    PROVE  Control'
<1> USE DEF Control, Outside, OwnerLabels, Joining
<1>1. /\ wsMutex' = wsMutex /\ main' = main /\ owner' = owner /\ joinable' = joinable
      /\ replayJoinable' = replayJoinable /\ replay' = replay /\ pc[c] = "replace_servers"
  BY DEF ReplaceServers, At, pipeVars, replayVars
<1>2. CASE UNCHANGED <<pc, up, threadOf, clientsMutex>>
  BY <1>1, <1>2, Rests
<1>3. CASE ~UNCHANGED <<pc, up, threadOf, clientsMutex>>
  <2>1. /\ c = Ipc /\ up[Ipc] /\ pc' = [pc EXCEPT ![Ipc] = "off"]
        /\ up' = [up EXCEPT ![Ipc] = FALSE] /\ threadOf' = [threadOf EXCEPT ![Ipc] = FALSE]
        /\ clientsMutex' = Free
    BY <1>3 DEF ReplaceServers, Go, Lowered
  <2>2. ServersPart'
    BY <1>1, <2>1 DEF ServersPart
  <2>3. LocksPart'
    BY <1>1, <2>1 DEF LocksPart, ServersPart, Free
  <2>4. HandlesPart'
    BY <1>1, <2>1 DEF HandlesPart, ServersPart, ReplayEnded
  <2>5. ExitPart'
    BY <1>1, <2>1 DEF ExitPart, ServersPart
  <2> QED
    BY <2>2, <2>3, <2>4, <2>5
<1> QED
  BY <1>2, <1>3

(* Every step of a call. *)
LEMMA CallSteps ==
    ASSUME Control, NEW c \in Callers, CallStep(c)
    PROVE  Control'
  BY PlainStep, StartServerStep, StartPipeStep, StopPipeStep, StartThreadStep,
     StopJoinReplayStep, StopServerStep, ReplaceServersStep DEF CallStep

(* A server's thread: its loop, a command under its mutex, the reply. *)
LEMMA ServerSteps ==
    ASSUME Control, NEW s \in {Ws, Ipc}, ServerStep(s)
    PROVE  Control'
<1> USE DEF Control, Outside, OwnerLabels, Joining, Free
<1>1. /\ up' = up /\ threadOf' = threadOf /\ main' = main
      /\ owner' = owner /\ joinable' = joinable
      /\ replayJoinable' = replayJoinable /\ replay' = replay
  BY DEF ServerStep, ServerTest, SelectTimeout, ServerCommand, ServerReply, pipeVars,
     replayVars, serverVars
<1>2. pc[s] \in {"loop", "select", "reply"}
  BY DEF ServerStep, ServerTest, SelectTimeout, ServerCommand, ServerReply
<1>3. \A d \in Callers : d # s => pc'[d] = pc[d]
  BY DEF ServerStep, ServerTest, SelectTimeout, ServerCommand, ServerReply, Go, ServersPart
<1>4. DOMAIN pc' = Callers
  BY DEF ServerStep, ServerTest, SelectTimeout, ServerCommand, ServerReply, Go, ServersPart
<1>5. pc'[s] \in Verbs \cup {"select", "off", "loop"}
  BY ConstantsAssumption DEF ServerStep, ServerTest, SelectTimeout, ServerCommand,
     ServerReply, Go, ServersPart
<1>6. ServersPart'
  BY <1>1, <1>2, <1>3, <1>4, <1>5 DEF ServersPart, Verbs
<1>7. LocksPart'
  <2>1. CASE ServerTest(s) \/ SelectTimeout(s)
    <3>1. /\ clientsMutex' = clientsMutex /\ wsMutex' = wsMutex
          /\ pc[s] \in {"loop", "select"}
      BY <2>1 DEF ServerTest, SelectTimeout, lockVars
    <3> QED
      BY <3>1, <1>3 DEF LocksPart
  <2>2. ASSUME NEW verb \in (IF s = Ws THEN WsVerbs ELSE IpcVerbs), ServerCommand(s, verb)
        PROVE  LocksPart'
    <3>1. verb \in Verbs /\ pc'[s] = verb
      BY <2>2, ConstantsAssumption DEF ServerCommand, Go, ServersPart
    <3>2. verb \notin {"off", "loop", "select"}
      BY <3>1 DEF Verbs
    <3> QED
      BY <2>2, <3>1, <3>2, <1>3 DEF ServerCommand, LocksPart, lockVars
  <2>3. CASE ServerReply(s)
    BY <2>3, <1>3 DEF ServerReply, LocksPart
  <2> QED
    BY <2>1, <2>2, <2>3 DEF ServerStep
<1>8. HandlesPart'
  BY <1>1, <1>2, <1>3 DEF HandlesPart, ReplayEnded
<1>9. ExitPart'
  BY <1>1, <1>2 DEF ExitPart
<1> QED
  BY <1>6, <1>7, <1>8, <1>9

(* The replay thread and the pipeline's worker. *)
LEMMA ThreadSteps ==
    ASSUME Control, ReplayThread \/ EstimatorStep
    PROVE  Control'
<1>1. /\ pc' = pc /\ up' = up /\ threadOf' = threadOf
      /\ clientsMutex' = clientsMutex /\ wsMutex' = wsMutex /\ main' = main
      /\ replayJoinable' = replayJoinable
  BY DEF ReplayThread, ReplayTest, ReplayPause, ReplayRead, ReplayPush, ReplayEnd,
     ReplayAnnounce, ReplayStep, EstimatorStep, replayVars, serverVars, lockVars
<1>2. ReplayEnded => replay' = replay
  BY DEF ReplayThread, ReplayTest, ReplayPause, ReplayRead, ReplayPush, ReplayEnd,
     ReplayAnnounce, ReplayStep, EstimatorStep, ReplayEnded, replayVars
<1>3. owner' = owner /\ joinable' = joinable
  <2>1. CASE ReplayThread
    BY <2>1 DEF ReplayThread, ReplayTest, ReplayPause, ReplayRead, ReplayPush, ReplayEnd,
       ReplayAnnounce, pipeVars, Pipe!PushCheck, Pipe!QueuePush, Pipe!ownerVars
  <2>2. CASE EstimatorStep
    BY <2>2 DEF EstimatorStep, pipeVars, Pipe!Pop, Pipe!SpuriousWakeup, Pipe!Update,
       Pipe!NotifyObserver, Pipe!ownerVars
  <2> QED
    BY <2>1, <2>2
<1> QED
  BY <1>1, <1>2, <1>3, Rests

(* main() and the signal handler. *)
LEMMA MainSteps ==
    ASSUME Control, MainThread \/ Signal
    PROVE  Control'
<1> USE DEF Control, Outside, OwnerLabels, Joining
<1>1. /\ up' = up /\ threadOf' = threadOf /\ clientsMutex' = clientsMutex
      /\ wsMutex' = wsMutex /\ owner' = owner /\ joinable' = joinable
      /\ replayJoinable' = replayJoinable /\ replay' = replay
  BY DEF MainThread, MainStart, MainStarted, MainPoll, MainDestroy, MainExit, MainCall,
     Signal, pipeVars, replayVars, serverVars, lockVars
<1>2. ASSUME NEW c \in {Main, Sig}, pc[c] \in {"home", "off"},
             NEW l \in {"start", "home", "stop"}, pc' = [pc EXCEPT ![c] = l],
             main' # "exited"
      PROVE  Control'
  <2>1. ServersPart'
    BY <1>1, <1>2 DEF ServersPart
  <2>2. LocksPart'
    BY <1>1, <1>2 DEF LocksPart, ServersPart
  <2>3. HandlesPart'
    BY <1>1, <1>2 DEF HandlesPart, ServersPart, ReplayEnded
  <2>4. ExitPart'
    BY <1>2 DEF ExitPart
  <2> QED
    BY <2>1, <2>2, <2>3, <2>4
<1>3. CASE MainStart \/ MainStarted \/ MainPoll \/ MainDestroy
  BY <1>2, <1>3 DEF MainStart, MainStarted, MainPoll, MainDestroy, MainCall, At, Go
<1>4. CASE Signal
  <2>1. main \notin {"exited"} /\ main' = main
    BY <1>4, ConstantsAssumption DEF Signal
  <2> QED
    BY <1>2, <1>4, <2>1 DEF Signal, Go
<1>5. CASE MainExit
  <2>1. pc' = pc
    BY <1>5 DEF MainExit
  <2>2. ServersPart' /\ LocksPart' /\ HandlesPart'
    BY <1>1, <2>1 DEF ServersPart, LocksPart, HandlesPart, ReplayEnded
  <2>3. ExitPart'
    BY <1>1, <1>5, <2>1 DEF MainExit, MembersAtRest, At, CanRun, ExitPart
  <2> QED
    BY <2>2, <2>3
<1> QED
  BY <1>3, <1>4, <1>5 DEF MainThread

-----------------------------------------------------------------------------
(* The invariant and what follows from it.                                 *)

(* Every step preserves where the callers, threads and mutexes are.        *)
LEMMA ControlStep == Control /\ [Next]_vars => Control'
<1> SUFFICES ASSUME Control, [Next]_vars PROVE Control'
  OBVIOUS
<1>1. CASE UNCHANGED vars
  BY <1>1, Rests DEF vars, pipeVars, replayVars, serverVars, lockVars
<1> QED
  BY <1>1, CallSteps, ServerSteps, ThreadSteps, MainSteps DEF Next

(* The session's invariant holds in every reachable state; with it that of *)
(* the pipeline, however often the CLI, the signal handler and the clients *)
(* start and stop it, and of the pipeline that "configure" puts in its     *)
(* place.                                                                  *)
THEOREM SessionInvariance == Spec => []SInv
<1>1. Init => SInv
  BY PipelineInit, ControlInit DEF SInv
<1>2. SInv /\ [Next]_vars => SInv'
  BY PipelineStep, ControlStep DEF SInv
<1> QED
  BY <1>1, <1>2, PTL DEF Spec

(* Nothing that the session's pipeline accepted is lost, duplicated or     *)
(* reordered in it, and the worker never sleeps on a queue it should       *)
(* serve: the replay thread, the commands of clients and Stop() use the    *)
(* pipeline only as it allows, when it is started again and in the new one *)
(* that "configure" constructs, too.                                       *)
THEOREM PipelineServes == Spec => [](Pipe!TypeOK /\ Pipe!HandoffIntact /\ Pipe!NoLostWakeup)
<1>1. SInv => PipeProofs!TypeOK /\ PipeProofs!HandoffIntact /\ PipeProofs!NoLostWakeup
  BY DEF SInv, PipeProofs!IInv
<1>2. PipeProofs!TypeOK => Pipe!TypeOK
  BY DEF PipeProofs!TypeOK, Pipe!TypeOK, PipeProofs!Observers, Pipe!Observers
<1>3. PipeProofs!HandoffIntact => Pipe!HandoffIntact
  BY DEF PipeProofs!HandoffIntact, Pipe!HandoffIntact, PipeProofs!InFlight, Pipe!InFlight
<1>4. PipeProofs!NoLostWakeup => Pipe!NoLostWakeup
  BY DEF PipeProofs!NoLostWakeup, Pipe!NoLostWakeup
<1> QED
  BY <1>1, <1>2, <1>3, <1>4, SessionInvariance, PTL

(* main() returns only when no thread is left, no mutex is held, no server *)
(* runs and every measurement that the last pipeline accepted has been     *)
(* processed, also when clients have started the session again, or have    *)
(* configured it, before.                                                  *)
THEOREM ExitIsClean == Spec => []ExitLeavesNothing
<1>1. ASSUME SInv, main = "exited"
      PROVE  /\ replay \in {"off", "done"}
             /\ \A s \in {Ws, Ipc} : pc[s] = "off" /\ ~up[s]
             /\ clientsMutex = Free /\ wsMutex = Free
  <2>1. /\ \A s \in {Ws, Ipc} : pc[s] = "off" /\ ~threadOf[s] /\ ~up[s]
        /\ replay \in {"off", "done"}
    BY <1>1 DEF SInv, Control, ServersPart, HandlesPart, ExitPart, ReplayEnded
  <2> QED
    BY <1>1, <2>1 DEF SInv, Control, LocksPart
<1>2. ASSUME SInv, main = "exited"
      PROVE  worker = "gone" /\ delivered = accepted
  <2>1. owner = "idle" /\ ~joinable
    BY <1>2 DEF SInv, Control, HandlesPart, ExitPart, OwnerLabels
  <2> QED
    BY <1>2, <2>1, PipelineConstants, PipeProofs!Rested DEF SInv
<1>3. SInv => ExitLeavesNothing
  BY <1>1, <1>2 DEF ExitLeavesNothing
<1> QED
  BY <1>3, SessionInvariance, PTL

-----------------------------------------------------------------------------
(* The supervised session: clients pause, resume, and ask, but only main() *)
(* and the signal handler start and stop the session.  No part can be      *)
(* dropped: with any one of these three commands on either server two      *)
(* calls may overlap, which nothing in the session excludes, and end the   *)
(* process; so may Start() that goes on after the Stop() of a signal.      *)

Supervised ==
    /\ (WsVerbs \cup IpcVerbs) \cap {"start", "stop", "configure"} = {}
    /\ SignalPhases \subseteq {"poll"}

Drivers == {Main, Sig}

\* Where a caller is in Start(), in Stop() (StopN: behind its n-th stage,
\* which ended the replay, the pipeline, and each server), in a handler.
StartLabels == {"start", "open", "start_failed", "start_ipc", "start_ws", "start_pipe",
                "spawn_worker", "start_status", "start_announce", "start_running",
                "start_thread"}
Stop5 == {"ws_clear", "stop_status"}
Stop4 == {"stop_ws", "ws_join"} \cup Stop5
Stop3 == {"stop_close", "stop_announce", "stop_ipc", "ipc_clear", "ipc_join"} \cup Stop4
Stop2 == {"stop_pipe", "pipe_shutdown", "pipe_join"} \cup Stop3
Stop1 == {"stop_unpause", "join_replay"} \cup Stop2
StopLabels == {"stop"} \cup Stop1
ServeLabels == {"off", "loop", "select", "reply", "pause", "pause_set", "pause_status",
                "pause_announce", "resume", "resume_set", "resume_status",
                "resume_announce", "set_speed", "get_status", "get_schema", "unknown"}

\* Who may execute which call, and in which phase of main().
Roles ==
    /\ \A s \in {Ws, Ipc} : pc[s] \in ServeLabels
    /\ pc[Main] \in {"home"} \cup StartLabels \cup StopLabels
    /\ pc[Sig] \in {"off"} \cup StopLabels
    /\ pc[Sig] # "off" => main = "poll"
    /\ pc[Main] \in StartLabels => main = "start"
    /\ pc[Main] \in StopLabels => main \in {"stop", "destroy"}
    /\ DOMAIN op = Callers
    /\ op[Ipc] = "none"

\* Nothing is left to be stopped.
Down == ~sessionRunning /\ ~replayJoinable /\ ~joinable /\ \A s \in {Ws, Ipc} : ~threadOf[s]

\* What the one Start() has not started yet.
Unstarted ==
    /\ main = "init" => Down /\ replay = "off"
    /\ pc[Main] \in {"start", "open", "start_failed", "start_ipc"} => Down
    /\ pc[Main] = "start_ws" => ~threadOf[Ws]
    /\ pc[Main] \in StartLabels => ~replayJoinable /\ replay = "off"
    /\ pc[Main] \in StartLabels => (sessionRunning <=> pc[Main] = "start_thread")

\* Between calls the session runs or is down; what each stage of Stop() ended
\* stays ended.
Stages ==
    /\ main # "init" /\ pc[Main] \in {"home", "stop"} /\ pc[Sig] \in {"off", "stop"}
          => sessionRunning \/ Down
    /\ main \in {"stop", "destroy"} /\ pc[Main] = "home" => Down
    /\ \A c \in Drivers :
          /\ pc[c] \in Stop1 => ~sessionRunning
          /\ pc[c] \in Stop2 => ~replayJoinable
          /\ pc[c] \in Stop3 => ~joinable
          /\ pc[c] \in Stop4 => ~threadOf[Ipc]
          /\ pc[c] \in Stop5 => ~threadOf[Ws]

\* What has been reported is so.
Reports ==
    /\ status = "Idle" =>
          Down /\ main \notin {"init", "start"} /\ \A c \in Drivers : pc[c] \notin Stop1
    /\ announced = "idle" => ~joinable /\ main \notin {"init", "start"}

\* The replay thread sleeps only while somebody can still wake it.
Sleep ==
    /\ replay = "waiting" => paused
    /\ replay = "waiting" => \A c \in Drivers : pc[c] # "join_replay"

\* A server has a thread only while it runs or somebody is about to join it.
Upright == \A s \in {Ws, Ipc} :
    threadOf[s] => up[s] \/ \E c \in Drivers : pc[c] \in Joining(s)

Sup == Upright /\ Roles /\ Unstarted /\ Stages /\ Reports /\ Sleep /\ ~dead

USE DEF Drivers

-----------------------------------------------------------------------------
(* What kinds of steps preserve Sup.                                       *)

\* No step but those of Start() brings anything up.
Fewer ==
    /\ sessionRunning' => sessionRunning
    /\ replayJoinable' => replayJoinable
    /\ joinable' => joinable
    /\ \A s \in {Ws, Ipc} : threadOf'[s] => threadOf[s]

(* A step of Stop() that leaves behind what its stage requires, from       *)
(* wherever in it the step was taken.                                      *)
LEMMA StopMoves ==
    ASSUME Sup, NEW c \in Drivers, pc[c] \in StopLabels,
           pc'[c] \in Stop1 \cup {Home(c)}, \A d \in Callers : d # c => pc'[d] = pc[d],
           main' = main, op' = op, Fewer, ~dead',
           pc'[c] \in Stop1 => ~sessionRunning',
           pc'[c] \in Stop2 => ~replayJoinable',
           pc'[c] \in Stop3 => ~joinable',
           pc'[c] \in Stop4 => ~threadOf'[Ipc],
           pc'[c] \in Stop5 => ~threadOf'[Ws],
           \A s \in {Ws, Ipc} : threadOf'[s] => up'[s] \/ pc'[c] \in Joining(s),
           pc'[c] = Home(c) => Down',
           status' = "Idle" => Down' /\ pc'[c] = Home(c),
           announced' = "idle" => announced = "idle" \/ ~joinable',
           replay' = "waiting" => replay = "waiting" /\ paused' = paused /\ pc'[c] # "join_replay"
    PROVE  Sup'
<1>0. /\ \A d \in Drivers : d # c => pc[d] \in {"home", "off"}
      /\ main \notin {"init", "exited"}
      /\ c = Sig => main = "poll"
      /\ c = Main => main \in {"stop", "destroy"}
  BY DEF Sup, Roles, StartLabels, Stop1, Stop2, Stop3, Stop4, Stop5, StopLabels
<1>2. Home(c) = (IF c = Main THEN "home" ELSE "off")
  BY DEF Home
<1>3. Down => Down'
  BY DEF Down, Fewer
<1> HIDE DEF Home
<1>4. Roles'
  BY <1>0, <1>2 DEF Sup, Roles, StartLabels, Stop1, Stop2, Stop3, Stop4, Stop5, StopLabels
<1>5. Unstarted'
  BY <1>0, <1>2 DEF Unstarted, StartLabels, Stop1, Stop2, Stop3, Stop4, Stop5, StopLabels
<1>6. Stages'
  BY <1>0, <1>2 DEF Sup, Stages, Down, Fewer, Stop1, Stop2, Stop3, Stop4, Stop5, StopLabels
<1>7. Reports'
  BY <1>0, <1>2, <1>3 DEF Sup, Reports, Fewer, Stop1, Stop2, Stop3, Stop4, Stop5
<1>8. Sleep'
  BY <1>0, <1>2 DEF Sup, Sleep
<1>9. Upright'
  BY DEF Upright
<1> QED
  BY <1>4, <1>5, <1>6, <1>7, <1>8, <1>9 DEF Sup

(* A step of Start() that leaves its caller where what it has started so   *)
(* far is accounted for.                                                   *)
LEMMA StartMoves ==
    ASSUME Sup, pc[Main] \in StartLabels,
           pc'[Main] \in (StartLabels \ {"start"}) \cup {"home"}, pc'[Sig] = pc[Sig],
           \A s \in {Ws, Ipc} : pc'[s] \in ServeLabels,
           main' = main, op' = op, ~dead',
           \A s \in {Ws, Ipc} : threadOf'[s] => up'[s],
           pc'[Main] \in {"open", "start_failed", "start_ipc"} => Down',
           pc'[Main] = "start_ws" => ~threadOf'[Ws],
           pc'[Main] \in StartLabels => ~replayJoinable' /\ replay' = "off",
           pc'[Main] \in StartLabels => (sessionRunning' <=> pc'[Main] = "start_thread"),
           pc'[Main] = "home" => sessionRunning' \/ Down',
           status' # "Idle" \/ status' = status,
           announced' # "idle" \/ announced' = announced,
           replay' # "waiting"
    PROVE  Sup'
<1>0. main = "start" /\ pc[Sig] = "off"
  BY DEF Sup, Roles, StartLabels, Stop1, Stop2, Stop3, Stop4, Stop5, StopLabels
<1>1. Roles'
  BY <1>0 DEF Sup, Roles, StartLabels, Stop1, Stop2, Stop3, Stop4, Stop5, StopLabels
<1>2. Unstarted'
  BY <1>0 DEF Unstarted, StartLabels
<1>3. Stages'
  BY <1>0 DEF Stages, StartLabels, Stop1, Stop2, Stop3, Stop4, Stop5
<1>4. Reports'
  BY <1>0 DEF Sup, Reports, Stop1
<1>5. Sleep'
  BY DEF Sleep
<1>6. Upright'
  BY DEF Sup, Upright
<1> QED
  BY <1>1, <1>2, <1>3, <1>4, <1>5, <1>6 DEF Sup

(* A step of a server, of the replay thread or of the worker, which starts *)
(* and stops nothing.                                                      *)
LEMMA OtherMoves ==
    ASSUME Sup, \A d \in Drivers : pc'[d] = pc[d],
           \A s \in {Ws, Ipc} : pc'[s] \in ServeLabels,
           main' = main, op' = op, ~dead', sessionRunning' = sessionRunning,
           up' = up, replayJoinable' = replayJoinable, joinable' = joinable, threadOf' = threadOf,
           status' # "Idle" \/ status' = status,
           announced' # "idle" \/ announced' = announced,
           replay = "off" => replay' = "off",
           replay' = "waiting" => paused' /\ (replay = "waiting" \/ sessionRunning)
    PROVE  Sup'
<1>0. Down' = Down
  BY DEF Down
<1>1. Roles'
  BY DEF Sup, Roles
<1>2. Unstarted'
  BY <1>0 DEF Sup, Unstarted
<1>3. Stages'
  BY <1>0 DEF Sup, Stages
<1>4. Reports'
  BY <1>0 DEF Sup, Reports, Stop1
<1>5. Sleep'
  BY DEF Sup, Sleep, Stages, Stop1
<1>6. Upright'
  BY DEF Sup, Upright
<1> QED
  BY <1>1, <1>2, <1>3, <1>4, <1>5, <1>6 DEF Sup

-----------------------------------------------------------------------------
(* The steps of each thread.                                               *)

(* Start(): run by main(), before any server could call anything.  A      *)
(* server's thread handle is empty when its Start() assigns it, so is the  *)
(* replay thread's, and nobody else is in the pipeline.                    *)
LEMMA StartCalls ==
    ASSUME SInv, Sup, NEW c \in Callers, CallStep(c), pc[c] \in StartLabels
    PROVE  Sup'
<1> USE DEF At, Go, Return, Home, pipeVars, replayVars, serverVars, lockVars, sessionVars
<1>1. /\ c = Main /\ main = "start" /\ pc[Sig] = "off" /\ DOMAIN pc = Callers
      /\ \A s \in {Ws, Ipc} : pc[s] \in ServeLabels
      /\ ~replayJoinable /\ replay = "off" /\ ~dead
      /\ status # "Idle" /\ announced # "idle"
      /\ \A s \in {Ws, Ipc} : threadOf[s] => up[s]
  BY DEF SInv, Control, ServersPart, Sup, Roles, Unstarted, Reports, Upright, Joining,
     StartLabels, StopLabels, Stop1, Stop2, Stop3, Stop4, Stop5, ServeLabels
<1>2. Unstarted
  BY DEF Sup
<1>3. CASE StartBegin(c) \/ StartOpen(c) \/ StartFailed(c)
  <2>1. /\ pc[Main] \in {"start", "open", "start_failed"}
        /\ pc'[Main] \in {"home", "open", "start_failed", "start_ipc"}
        /\ \A d \in Callers : d # Main => pc'[d] = pc[d]
        /\ UNCHANGED <<replay, replayJoinable, up, threadOf, joinable, sessionRunning, op, main,
                       dead>>
        /\ status' # "Idle" /\ announced' # "idle"
    BY <1>1, <1>3 DEF StartBegin, StartOpen, StartFailed, Announce
  <2>2. Down'
    BY <1>2, <2>1 DEF Unstarted, Down
  <2>3. /\ pc'[Main] \in (StartLabels \ {"start"}) \cup {"home"}
        /\ pc'[Main] \notin {"start_ws", "start_thread"}
    BY <2>1 DEF StartLabels
  <2>4. /\ \A s \in {Ws, Ipc} : pc'[s] \in ServeLabels
        /\ pc'[Sig] = pc[Sig] /\ ~dead' /\ op' = op /\ main' = main
    BY <1>1, <2>1
  <2>5. ~sessionRunning' /\ ~replayJoinable' /\ replay' = "off"
    BY <1>1, <2>1, <2>2 DEF Down
  <2> QED
    BY <1>1, <2>1, <2>2, <2>3, <2>4, <2>5, StartMoves
<1>4. CASE StartServer(c, Ipc, "start_ipc", "start_ws")
           \/ StartServer(c, Ws, "start_ws", "start_pipe")
  <2>0. PICK s \in {Ws, Ipc} :
           /\ s = Ipc => pc[Main] = "start_ipc" /\ StartServer(c, s, "start_ipc", "start_ws")
           /\ s = Ws => pc[Main] = "start_ws" /\ StartServer(c, s, "start_ws", "start_pipe")
    BY <1>1, <1>4 DEF StartServer
  <2>1. ~threadOf[s] /\ ~threadOf[Ws] /\ ~sessionRunning
    BY <1>2, <2>0 DEF Unstarted, Down, StartLabels
  <2>2. /\ pc'[Main] = IF s = Ipc THEN "start_ws" ELSE "start_pipe"
        /\ pc'[Sig] = pc[Sig]
        /\ \A r \in {Ws, Ipc} : pc'[r] \in {pc[r], "loop"}
        /\ s = Ipc => threadOf'[Ws] = threadOf[Ws]
        /\ \A r \in {Ws, Ipc} : threadOf'[r] => up'[r]
        /\ dead' = dead
    <3>1. threadOf \in [{Ws, Ipc} -> BOOLEAN] /\ up \in [{Ws, Ipc} -> BOOLEAN]
      BY DEF SInv, Control, ServersPart
    <3>2. CASE s = Ipc
      BY <1>1, <2>0, <2>1, <3>1, <3>2 DEF StartServer
    <3>3. CASE s = Ws
      BY <1>1, <2>0, <2>1, <3>1, <3>3 DEF StartServer
    <3> QED
      BY <3>2, <3>3
  <2>3. UNCHANGED <<replayVars, sessionVars, op, main, announced>>
    BY <2>0 DEF StartServer
  <2>4. \A r \in {Ws, Ipc} : pc'[r] \in ServeLabels
    BY <1>1, <2>2 DEF ServeLabels
  <2>5. /\ pc'[Main] \in StartLabels
        /\ pc'[Main] \notin {"home", "start", "open", "start_failed", "start_ipc", "start_thread"}
    BY <2>2 DEF StartLabels
  <2>6. pc'[Main] = "start_ws" => ~threadOf'[Ws]
    BY <2>1, <2>2
  <2> QED
    BY <1>1, <2>1, <2>2, <2>3, <2>4, <2>5, <2>6, StartMoves
<1>5. CASE StartPipe(c)
  <2>1. pc[Main] = "start_pipe" => owner = "idle"
    BY <1>1 DEF SInv, Control, HandlesPart, OwnerLabels, ServeLabels
  <2>2. /\ pc[Main] \in {"start_pipe", "spawn_worker"}
        /\ pc'[Main] \in {"spawn_worker", "start_status"}
        /\ \A d \in Callers : d # Main => pc'[d] = pc[d]
        /\ dead' = dead
        /\ UNCHANGED <<replayVars, sessionVars, up, threadOf, op, main, announced>>
    BY <1>1, <1>5, <2>1 DEF StartPipe, HandleContended
  <2>3. ~sessionRunning /\ \A s \in {Ws, Ipc} : pc'[s] \in ServeLabels
    BY <1>1, <1>2, <2>2 DEF Unstarted, StartLabels
  <2>4. /\ pc'[Main] \in StartLabels
        /\ pc'[Main] \notin {"home", "start", "open", "start_failed", "start_ipc", "start_ws",
                             "start_thread"}
    BY <2>2 DEF StartLabels
  <2> QED
    BY <1>1, <2>2, <2>3, <2>4, StartMoves
<1>6. CASE StartStatus(c) \/ StartAnnounce(c) \/ StartRunning(c)
  <2>1. /\ pc[Main] \in {"start_status", "start_announce", "start_running"}
        /\ pc'[Main] \in {"start_announce", "start_running", "start_thread"}
        /\ IF pc'[Main] = "start_thread" THEN sessionRunning' ELSE sessionRunning' = sessionRunning
        /\ \A d \in Callers : d # Main => pc'[d] = pc[d]
        /\ UNCHANGED <<replayVars, up, threadOf, op, main, dead>>
        /\ status' # "Idle" /\ announced' # "idle"
    BY <1>1, <1>6 DEF StartStatus, StartAnnounce, StartRunning, Announce
  <2>2. ~sessionRunning /\ \A s \in {Ws, Ipc} : pc'[s] \in ServeLabels
    BY <1>1, <1>2, <2>1 DEF Unstarted, StartLabels
  <2>3. /\ pc'[Main] \in StartLabels
        /\ pc'[Main] \notin {"home", "start", "open", "start_failed", "start_ipc", "start_ws"}
    BY <2>1 DEF StartLabels
  <2> QED
    BY <1>1, <2>1, <2>2, <2>3, StartMoves
<1>7. CASE StartThread(c)
  <2>1. /\ pc[Main] = "start_thread" /\ pc'[Main] = "home" /\ replay' = "check"
        /\ \A d \in Callers : d # Main => pc'[d] = pc[d]
        /\ UNCHANGED <<sessionVars, up, threadOf, op, main, announced, dead>>
    BY <1>1, <1>7 DEF StartThread
  <2>2. sessionRunning' /\ \A s \in {Ws, Ipc} : pc'[s] \in ServeLabels
    BY <1>1, <1>2, <2>1 DEF Unstarted, StartLabels
  <2>3. pc'[Main] \notin StartLabels
    BY <2>1 DEF StartLabels
  <2> QED
    BY <1>1, <2>1, <2>2, <2>3, StartMoves
<1> QED
  BY <1>1, <1>3, <1>4, <1>5, <1>6, <1>7 DEF CallStep, StartLabels, StopBegin, StopUnpause,
     StopJoinReplay, StopPipe, StopClose, StopAnnounce, StopIpc, StopWs, StopStatus, PauseBegin,
     ResumeBegin, SetPaused, PauseStatus, PauseAnnounce, Reconfigure, DestroyPipe, ReplacePipe,
     ReplaceServers, Acknowledge, AnswerStatus

(* Stop(): run by main() or the signal handler, never by both, so that the *)
(* handle of every thread it joins is its own to join.                     *)
LEMMA StopCalls ==
    ASSUME SInv, Sup, NEW c \in Callers, CallStep(c), pc[c] \in StopLabels
    PROVE  Sup'
<1> USE DEF At, Go, Return, pipeVars, replayVars, serverVars, lockVars, sessionVars
<1>1. /\ c \in Drivers /\ DOMAIN pc = Callers /\ DOMAIN op = Callers /\ ~dead
      /\ \A d \in Drivers : d # c => pc[d] \in {"home", "off"}
      /\ \A s \in {Ws, Ipc} : pc[s] \in ServeLabels
      /\ threadOf \in [{Ws, Ipc} -> BOOLEAN] /\ up \in [{Ws, Ipc} -> BOOLEAN]
      /\ Home(c) \in {"home", "off"}
  BY DEF SInv, Control, ServersPart, Sup, Roles, StartLabels, StopLabels, Stop1, Stop2, Stop3,
     Stop4, Stop5, ServeLabels, Home
<1>2. /\ pc[c] \in Stop1 => ~sessionRunning
      /\ pc[c] \in Stop2 => ~replayJoinable
      /\ pc[c] \in Stop3 => ~joinable
      /\ pc[c] \in Stop4 => ~threadOf[Ipc]
      /\ pc[c] \in Stop5 => ~threadOf[Ws]
  BY <1>1 DEF Sup, Stages
<1>3. pc[c] = "stop" => sessionRunning \/ Down
  BY <1>1 DEF Sup, Stages, Roles, StartLabels, StopLabels, Stop1, Stop2, Stop3, Stop4, Stop5
<1>4. \A s \in {Ws, Ipc} : threadOf[s] => up[s] \/ pc[c] \in Joining(s)
  BY <1>1 DEF Sup, Upright, Joining
<1>0. /\ pc[c] \in Stop1 => status # "Idle"
      /\ status = "Idle" => Down
  BY <1>1 DEF Sup, Reports
<1> USE DEF Fewer
<1>5. CASE StopBegin(c)
  <2>1. /\ pc[c] = "stop" /\ ~sessionRunning'
        /\ pc'[c] = IF sessionRunning THEN "stop_unpause" ELSE Home(c)
        /\ \A d \in Callers : d # c => pc'[d] = pc[d]
        /\ UNCHANGED <<pipeVars, replayVars, serverVars, status, paused, op, main, announced,
                       dead>>
    BY <1>1, <1>5 DEF StopBegin
  <2>2. Fewer /\ \A s \in {Ws, Ipc} : threadOf'[s] => up'[s] \/ pc'[c] \in Joining(s)
    BY <1>4, <2>1 DEF Joining
  <2>3. pc'[c] \in Stop1 \cup {Home(c)}
    BY <1>1, <2>1 DEF Stop1
  <2>4. /\ pc'[c] = Home(c) => Down'
        /\ status' = "Idle" => pc'[c] = Home(c)
    BY <1>0, <1>1, <1>3, <2>1 DEF Down
  <2>5. pc'[c] \notin {"join_replay", "stop_pipe", "pipe_shutdown", "pipe_join"}
                      \cup Stop2 \cup Stop3 \cup Stop4 \cup Stop5
    BY <1>1, <2>1 DEF Stop2, Stop3, Stop4, Stop5
  <2> HIDE DEF Fewer
  <2> QED
    BY <1>1, <2>1, <2>2, <2>3, <2>4, <2>5, StopMoves
<1>6. CASE StopUnpause(c)
  <2>1. /\ pc[c] = "stop_unpause" /\ pc'[c] = "join_replay" /\ replay' # "waiting"
        /\ \A d \in Callers : d # c => pc'[d] = pc[d]
        /\ UNCHANGED <<pipeVars, replayJoinable, serverVars, status, sessionRunning, op, main,
                       announced, dead>>
    BY <1>1, <1>6 DEF StopUnpause, ReplayWoken
  <2>2. Fewer /\ \A s \in {Ws, Ipc} : threadOf'[s] => up'[s] \/ pc'[c] \in Joining(s)
    BY <1>4, <2>1 DEF Joining
  <2>3. pc[c] \in Stop1 /\ pc'[c] \in Stop1 /\ pc'[c] # Home(c)
    BY <1>1, <2>1 DEF Stop1
  <2>4. pc'[c] \notin {"stop_pipe", "pipe_shutdown", "pipe_join"}
                      \cup Stop2 \cup Stop3 \cup Stop4 \cup Stop5
    BY <1>1, <2>1 DEF Stop2, Stop3, Stop4, Stop5
  <2> HIDE DEF Fewer
  <2> QED
    BY <1>0, <1>1, <1>2, <2>1, <2>2, <2>3, <2>4, StopMoves
<1>7. CASE StopJoinReplay(c)
  <2>1. /\ pc[c] = "join_replay" /\ pc'[c] = "stop_pipe" /\ ~replayJoinable'
        /\ \A d \in Callers : d # c => pc'[d] = pc[d]
        /\ UNCHANGED <<pipeVars, replay, serverVars, sessionVars, op, main, announced, dead>>
    BY <1>1, <1>7 DEF StopJoinReplay
  <2>2. Fewer /\ \A s \in {Ws, Ipc} : threadOf'[s] => up'[s] \/ pc'[c] \in Joining(s)
    BY <1>4, <2>1 DEF Joining
  <2>3. pc[c] \in Stop1 /\ pc'[c] \in Stop1 /\ pc'[c] # Home(c)
    BY <1>1, <2>1 DEF Stop1, Stop2
  <2>4. pc'[c] \notin Stop3 \cup Stop4 \cup Stop5 \cup {"join_replay"}
    BY <1>1, <2>1 DEF Stop3, Stop4, Stop5
  <2>5. replay' = "waiting" => replay = "waiting" /\ paused' = paused
    BY <2>1
  <2> HIDE DEF Fewer
  <2> QED
    BY <1>0, <1>1, <1>2, <2>1, <2>2, <2>3, <2>4, <2>5, StopMoves
<1>8. CASE StopPipe(c)
  <2>1. pc[c] = "stop_pipe" => owner = "idle"
    <3>1. pc[c] = "stop_pipe" => \A d \in Callers : pc[d] \notin OwnerLabels
      BY <1>1 DEF OwnerLabels, ServeLabels
    <3> QED
      BY <3>1 DEF SInv, Control, HandlesPart
  <2>2. pc[c] = "stop_pipe" /\ ~running => ~joinable
    BY <2>1 DEF SInv, PipeProofs!IInv, PipeProofs!Phases
  <2>3. pc[c] \in {"stop_pipe", "pipe_shutdown", "pipe_join"}
    BY <1>1, <1>8 DEF StopPipe
  <2>4. /\ pc'[c] \in {"pipe_shutdown", "pipe_join", "stop_close"}
        /\ joinable' => joinable
        /\ pc'[c] = "stop_close" => ~joinable'
        /\ \A d \in Callers : d # c => pc'[d] = pc[d]
        /\ dead' = dead
        /\ UNCHANGED <<replayVars, serverVars, sessionVars, op, main, announced>>
    BY <1>1, <1>8, <2>1, <2>2, <2>3 DEF StopPipe, HandleContended, Pipe!StopExchange,
       Pipe!RequestShutdown, Pipe!Join
  <2>5. Fewer /\ \A s \in {Ws, Ipc} : threadOf'[s] => up'[s] \/ pc'[c] \in Joining(s)
    BY <1>4, <2>3, <2>4 DEF Joining
  <2>6. pc[c] \in Stop1 /\ pc'[c] \in Stop1 /\ pc[c] \in Stop2 /\ pc'[c] # Home(c)
    BY <1>1, <2>3, <2>4 DEF Stop1, Stop2, Stop3
  <2>7. /\ pc'[c] \notin Stop4 \cup Stop5 \cup {"join_replay"}
        /\ pc'[c] \in Stop3 => pc'[c] = "stop_close"
    BY <1>1, <2>4 DEF Stop3, Stop4, Stop5
  <2> HIDE DEF Fewer
  <2> QED
    BY <1>0, <1>1, <1>2, <2>4, <2>5, <2>6, <2>7, StopMoves
<1>9. CASE StopClose(c) \/ StopAnnounce(c)
  <2>1. /\ pc[c] \in {"stop_close", "stop_announce"} /\ pc'[c] \in {"stop_announce", "stop_ipc"}
        /\ \A d \in Callers : d # c => pc'[d] = pc[d]
        /\ UNCHANGED <<pipeVars, replay, replayJoinable, serverVars, sessionVars, op, main, dead>>
    BY <1>1, <1>9 DEF StopClose, StopAnnounce
  <2>2. Fewer /\ \A s \in {Ws, Ipc} : threadOf'[s] => up'[s] \/ pc'[c] \in Joining(s)
    BY <1>4, <2>1 DEF Joining
  <2>3. /\ pc[c] \in Stop1 /\ pc[c] \in Stop2 /\ pc[c] \in Stop3
        /\ pc'[c] \in Stop1 /\ pc'[c] # Home(c)
    BY <1>1, <2>1 DEF Stop1, Stop2, Stop3
  <2>4. pc'[c] \notin Stop4 \cup Stop5 \cup {"join_replay", "stop_pipe", "pipe_shutdown", "pipe_join"}
    BY <1>1, <2>1 DEF Stop3, Stop4, Stop5
  <2> HIDE DEF Fewer
  <2> QED
    BY <1>0, <1>1, <1>2, <2>1, <2>2, <2>3, <2>4, StopMoves
<1>10. CASE StopIpc(c)
  <2>1. /\ pc[c] \in {"stop_ipc", "ipc_clear", "ipc_join"}
        /\ pc'[c] \in {"ipc_clear", "ipc_join", "stop_ws"}
        /\ pc'[c] = "stop_ws" => ~threadOf'[Ipc]
        /\ threadOf'[Ipc] => threadOf[Ipc] /\ pc'[c] \in {"ipc_clear", "ipc_join"}
        /\ threadOf'[Ws] = threadOf[Ws] /\ up'[Ws] = up[Ws]
        /\ \A d \in Callers : d # c => pc'[d] = pc[d]
        /\ UNCHANGED <<pipeVars, replayVars, sessionVars, op, main, announced, dead>>
    BY <1>1, <1>4, <1>10 DEF StopIpc, Lowered, Joining, Sup, Roles
  <2>2. Fewer /\ \A s \in {Ws, Ipc} : threadOf'[s] => up'[s] \/ pc'[c] \in Joining(s)
    BY <1>4, <2>1 DEF Joining
  <2>3. /\ pc[c] \in Stop1 /\ pc[c] \in Stop2 /\ pc[c] \in Stop3
        /\ pc'[c] \in Stop1 /\ pc'[c] # Home(c)
    BY <1>1, <2>1 DEF Stop1, Stop2, Stop3, Stop4
  <2>4. /\ pc'[c] \notin Stop5 \cup {"join_replay", "stop_pipe", "pipe_shutdown", "pipe_join"}
        /\ pc'[c] \in Stop4 => pc'[c] = "stop_ws"
    BY <1>1, <2>1 DEF Stop4, Stop5
  <2> HIDE DEF Fewer
  <2> QED
    BY <1>0, <1>1, <1>2, <2>1, <2>2, <2>3, <2>4, StopMoves
<1>11. CASE StopWs(c)
  <2>1. /\ pc[c] \in {"stop_ws", "ws_join", "ws_clear"}
        /\ pc'[c] \in {"ws_join", "ws_clear", "stop_status"}
        /\ pc'[c] # "ws_join" => ~threadOf'[Ws]
        /\ threadOf'[Ws] => threadOf[Ws] /\ pc'[c] = "ws_join"
        /\ threadOf'[Ipc] = threadOf[Ipc]
        /\ \A d \in Callers : d # c => pc'[d] = pc[d]
        /\ UNCHANGED <<pipeVars, replayVars, sessionVars, op, main, announced, dead>>
    BY <1>1, <1>2, <1>4, <1>11 DEF StopWs, Lowered, Joining, Stop5
  <2>3. /\ pc[c] \in Stop1 /\ pc[c] \in Stop2 /\ pc[c] \in Stop3 /\ pc[c] \in Stop4
        /\ pc'[c] \in Stop1 /\ pc'[c] # Home(c)
    BY <1>1, <2>1 DEF Stop1, Stop2, Stop3, Stop4, Stop5
  <2>2. Fewer /\ \A s \in {Ws, Ipc} : threadOf'[s] => up'[s] \/ pc'[c] \in Joining(s)
    BY <1>2, <2>1, <2>3 DEF Joining
  <2>4. /\ pc'[c] \notin {"join_replay", "stop_pipe", "pipe_shutdown", "pipe_join"}
        /\ pc'[c] \in Stop5 => pc'[c] # "ws_join"
    BY <1>1, <2>1 DEF Stop5
  <2> HIDE DEF Fewer
  <2> QED
    BY <1>0, <1>1, <1>2, <2>1, <2>2, <2>3, <2>4, StopMoves
<1>12. CASE StopStatus(c)
  <2>1. /\ pc[c] = "stop_status" /\ pc'[c] = Home(c)
        /\ \A d \in Callers : d # c => pc'[d] = pc[d]
        /\ UNCHANGED <<pipeVars, replayVars, serverVars, sessionRunning, paused, op, main,
                       announced, dead>>
    BY <1>1, <1>12 DEF StopStatus
  <2>2. Fewer /\ \A s \in {Ws, Ipc} : threadOf'[s] => up'[s] \/ pc'[c] \in Joining(s)
    BY <1>4, <2>1 DEF Joining
  <2>3. pc[c] \in Stop1 /\ pc[c] \in Stop2 /\ pc[c] \in Stop3 /\ pc[c] \in Stop4 /\ pc[c] \in Stop5
    BY <2>1 DEF Stop1, Stop2, Stop3, Stop4, Stop5
  <2>4. Down'
    BY <1>2, <2>1, <2>3 DEF Down
  <2>5. pc'[c] \notin Stop1 \cup Stop2 \cup Stop3 \cup Stop4 \cup Stop5
                      \cup {"join_replay", "stop_pipe", "pipe_shutdown", "pipe_join"}
    BY <1>1, <2>1 DEF Stop1, Stop2, Stop3, Stop4, Stop5
  <2> HIDE DEF Fewer
  <2> QED
    BY <1>1, <2>1, <2>2, <2>4, <2>5, StopMoves
<1> QED
  BY <1>1, <1>5, <1>6, <1>7, <1>8, <1>9, <1>10, <1>11, <1>12 DEF CallStep, StartBegin,
     StartOpen, StartFailed, StartServer, StartPipe, StartStatus, StartAnnounce, StartRunning,
     StartThread, StopLabels, Stop1, Stop2, Stop3, Stop4, Stop5, PauseBegin, ResumeBegin,
     SetPaused, PauseStatus, PauseAnnounce, Reconfigure, DestroyPipe, ReplacePipe,
     ReplaceServers, Acknowledge, AnswerStatus

(* Handlers of pause, resume and the questions.                            *)
LEMMA ServedCalls ==
    ASSUME SInv, Sup, NEW c \in Callers, CallStep(c), pc[c] \in ServeLabels
    PROVE  Sup'
<1> USE DEF At, Go, Return, pipeVars, replayVars, serverVars, lockVars, sessionVars
<1>1. /\ c \in {Ws, Ipc} /\ DOMAIN pc = Callers /\ ~dead
      /\ \A s \in {Ws, Ipc} : pc[s] \in ServeLabels
      /\ replay = "waiting" => paused
      /\ Home(c) = "reply"
  <2>1. pc[c] # "off"
    BY DEF CallStep, StartBegin, StartOpen, StartFailed, StartServer, StartPipe, StartStatus,
       StartAnnounce, StartRunning, StartThread, StopBegin, StopUnpause, StopJoinReplay,
       StopPipe, StopClose, StopAnnounce, StopIpc, StopWs, StopStatus, PauseBegin, ResumeBegin,
       SetPaused, PauseStatus, PauseAnnounce, Reconfigure, DestroyPipe, ReplacePipe,
       ReplaceServers, Acknowledge, AnswerStatus
  <2> QED
    BY <2>1 DEF SInv, Control, ServersPart, Sup, Roles, Sleep, StartLabels, StopLabels, Stop1,
       Stop2, Stop3, Stop4, Stop5, ServeLabels, Home
<1>2. \/ PauseBegin(c) \/ ResumeBegin(c) \/ SetPaused(c) \/ PauseStatus(c) \/ PauseAnnounce(c)
      \/ AnswerStatus(c)
  BY DEF CallStep, StartBegin, StartOpen, StartFailed, StartServer, StartPipe, StartStatus,
     StartAnnounce, StartRunning, StartThread, StopBegin, StopUnpause, StopJoinReplay, StopPipe,
     StopClose, StopAnnounce, StopIpc, StopWs, StopStatus, Reconfigure, DestroyPipe,
     ReplacePipe, ReplaceServers, Acknowledge, ServeLabels
<1>3. /\ \A d \in Callers : d # c => pc'[d] = pc[d]
      /\ pc'[c] \in {"reply", "pause_set", "pause_status", "pause_announce",
                     "resume_set", "resume_status", "resume_announce"}
      /\ UNCHANGED <<pipeVars, replayJoinable, serverVars, sessionRunning, op, main, dead>>
      /\ replay' \in {replay, ReplayWoken}
  BY <1>1, <1>2 DEF PauseBegin, ResumeBegin, SetPaused, PauseStatus, PauseAnnounce, AnswerStatus
<1>4. /\ status' # "Idle" \/ status' = status
      /\ announced' # "idle" \/ announced' = announced
      /\ replay' = "waiting" => replay = "waiting" /\ paused'
  BY <1>1, <1>2 DEF PauseBegin, ResumeBegin, SetPaused, PauseStatus, PauseAnnounce, AnswerStatus,
     Announce, ReplayWoken
<1>5. \A s \in {Ws, Ipc} : pc'[s] \in ServeLabels
  BY <1>1, <1>3 DEF ServeLabels
<1> QED
  BY <1>1, <1>3, <1>4, <1>5, OtherMoves DEF ReplayWoken

(* The loops of the servers.                                               *)
LEMMA ServersKeepOn ==
    ASSUME Supervised, SInv, Sup, NEW s \in {Ws, Ipc}, ServerStep(s)
    PROVE  Sup'
<1> USE DEF Go, pipeVars, replayVars, serverVars, lockVars, sessionVars
<1>1. /\ DOMAIN pc = Callers /\ ~dead
      /\ \A r \in {Ws, Ipc} : pc[r] \in ServeLabels
      /\ replay = "waiting" => paused
  BY DEF SInv, Control, ServersPart, Sup, Roles, Sleep
<1>2. /\ \A d \in Callers : d # s => pc'[d] = pc[d]
      /\ pc'[s] \in {"off", "loop", "select"} \cup WsVerbs \cup IpcVerbs
      /\ UNCHANGED <<pipeVars, replayVars, sessionVars, up, threadOf, op, main, announced, dead>>
  BY <1>1 DEF ServerStep, ServerTest, SelectTimeout, ServerReply, ServerCommand
<1>3. WsVerbs \cup IpcVerbs \subseteq ServeLabels
  BY ConstantsAssumption DEF Supervised, Verbs, ServeLabels
<1>4. \A r \in {Ws, Ipc} : pc'[r] \in ServeLabels
  BY <1>1, <1>2, <1>3 DEF ServeLabels
<1> QED
  BY <1>1, <1>2, <1>4, OtherMoves

(* The replay thread and the worker.                                       *)
LEMMA ThreadsKeepOn ==
    ASSUME SInv, Sup, ReplayThread \/ EstimatorStep
    PROVE  Sup'
<1> USE DEF pipeVars, replayVars, serverVars, lockVars, sessionVars
<1>1. /\ ~dead
      /\ \A r \in {Ws, Ipc} : pc[r] \in ServeLabels
      /\ replay = "waiting" => paused
  BY DEF Sup, Roles, Sleep
<1>2. /\ UNCHANGED <<pc, serverVars, sessionRunning, paused, replayJoinable, op, main, dead>>
      /\ status' # "Idle" \/ status' = status
      /\ announced' # "idle" \/ announced' = announced
      /\ replay = "off" => replay' = "off"
      /\ replay' = "waiting" => paused /\ (replay = "waiting" \/ sessionRunning)
  BY <1>1 DEF ReplayThread, ReplayTest, ReplayPause, ReplayRead, ReplayPush, ReplayEnd,
     ReplayAnnounce, ReplayStep, Announce, EstimatorStep
<1>3. joinable' = joinable
  <2>1. CASE ReplayThread
    BY <2>1 DEF ReplayThread, ReplayTest, ReplayPause, ReplayRead, ReplayPush, ReplayEnd,
       ReplayAnnounce, Pipe!PushCheck, Pipe!QueuePush, Pipe!ownerVars
  <2>2. CASE EstimatorStep
    BY <2>2 DEF EstimatorStep, Pipe!Pop, Pipe!SpuriousWakeup, Pipe!Update, Pipe!NotifyObserver,
       Pipe!ownerVars
  <2> QED
    BY <2>1, <2>2
<1> QED
  BY <1>1, <1>2, <1>3, OtherMoves

(* main() between its calls, and the arrival of a signal.                  *)
LEMMA MainKeepsOn ==
    ASSUME Supervised, SInv, Sup, MainThread \/ Signal
    PROVE  Sup'
<1> USE DEF At, CanRun, Go, pipeVars, replayVars, serverVars, lockVars, sessionVars
<1>1. /\ DOMAIN pc = Callers /\ DOMAIN op = Callers /\ ~dead
      /\ \A s \in {Ws, Ipc} : pc[s] \in ServeLabels
      /\ \A s \in {Ws, Ipc} : pc[s] = "off" \/ threadOf[s]
      /\ pc[Sig] # "off" => main = "poll"
  BY DEF SInv, Control, ServersPart, Sup, Roles
<1>2. CASE MainExit
  <2>1. Down
    BY <1>2 DEF MainExit, Sup, Stages
  <2>2. MembersAtRest
    BY <1>1, <2>1 DEF MembersAtRest, Down, SInv, Control, ServersPart
  <2>3. /\ main' = "exited" /\ pc[Main] = "home" /\ pc[Sig] = "off" /\ main = "destroy"
        /\ UNCHANGED <<pipeVars, replayVars, serverVars, sessionVars, pc, op, announced, dead>>
    BY <1>2, <2>2 DEF MainExit
  <2>4. Down'
    BY <2>1, <2>3 DEF Down
  <2> QED
    BY <1>1, <2>1, <2>3, <2>4 DEF Sup, Upright, Roles, Unstarted, Stages, Reports, Sleep,
       StartLabels, StopLabels, Stop1, Stop2, Stop3, Stop4, Stop5
<1>3. CASE Signal
  <2>1. /\ main = "poll" /\ pc[Main] = "home" /\ pc'[Sig] = "stop"
        /\ \A d \in Callers : d # Sig => pc'[d] = pc[d]
        /\ op' = [op EXCEPT ![Sig] = "stop"]
        /\ UNCHANGED <<pipeVars, replayVars, serverVars, sessionVars, main, announced, dead>>
        /\ pc[Sig] = "off"
    BY <1>1, <1>3 DEF Signal, Supervised, Sup, Roles, StopLabels, StartLabels
  <2>2. Down' = Down
    BY <2>1 DEF Down
  <2> QED
    BY <1>1, <2>1, <2>2 DEF Sup, Upright, Joining, Roles, Unstarted, Stages, Reports, Sleep,
       StartLabels, StopLabels, Stop1, Stop2, Stop3, Stop4, Stop5
<1>4. CASE MainStart \/ MainStarted \/ MainPoll \/ MainDestroy
  <2>1. /\ pc[Main] = "home" /\ pc[Sig] = "off"
        /\ \/ main = "init" /\ main' = "start" /\ pc'[Main] = "start"
           \/ main = "start" /\ main' = "poll" /\ pc'[Main] = "home"
           \/ main = "poll" /\ main' = "stop" /\ pc'[Main] = "stop"
           \/ main = "stop" /\ main' = "destroy" /\ pc'[Main] = "stop"
        /\ \A d \in Callers : d # Main => pc'[d] = pc[d]
        /\ UNCHANGED <<pipeVars, replayVars, serverVars, sessionVars, op, announced, dead>>
    BY <1>1, <1>4 DEF MainStart, MainStarted, MainPoll, MainDestroy, MainCall
  <2>2. Down' = Down
    BY <2>1 DEF Down
  <2>3. main = "init" => Down /\ replay = "off"
    BY DEF Sup, Unstarted
  <2>4. Roles'
    BY <1>1, <2>1 DEF Sup, Roles, StartLabels, StopLabels, Stop1, Stop2, Stop3, Stop4, Stop5
  <2>5. Unstarted'
    BY <2>1, <2>2, <2>3 DEF Sup, Unstarted, Down, StartLabels
  <2>6. Stages'
    BY <1>1, <2>1, <2>2 DEF Sup, Stages, Stop1, Stop2, Stop3, Stop4, Stop5
  <2>7. Upright' /\ Reports' /\ Sleep'
    BY <1>1, <2>1, <2>2 DEF Sup, Upright, Joining, Reports, Sleep, Stop1, Stop2, Stop3, Stop4, Stop5
  <2> QED
    BY <1>1, <2>1, <2>4, <2>5, <2>6, <2>7 DEF Sup
<1> QED
  BY <1>2, <1>3, <1>4 DEF MainThread

-----------------------------------------------------------------------------
(* The constructed session is as a supervised one must be.                 *)
LEMMA SupInit == Init => Sup
  BY DEF Init, Pipe!Init, Sup, Upright, Roles, Unstarted, Stages, Reports, Sleep, Down,
     StartLabels, StopLabels, Stop1, Stop2, Stop3, Stop4, Stop5, ServeLabels

(* It stays so.                                                            *)
LEMMA SupStep ==
    ASSUME Supervised
    PROVE  SInv /\ Sup /\ [Next]_vars => Sup'
<1> SUFFICES ASSUME SInv, Sup, [Next]_vars PROVE Sup'
  OBVIOUS
<1>1. CASE UNCHANGED vars
  BY <1>1, OtherMoves DEF vars, pipeVars, replayVars, serverVars, sessionVars, Sup, Roles, Sleep
<1>2. ASSUME NEW c \in Callers, CallStep(c) PROVE Sup'
  <2>1. pc[c] \in StartLabels \cup StopLabels \cup ServeLabels \cup {"home"}
    BY DEF Sup, Roles, ServeLabels
  <2>2. pc[c] # "home"
    BY <1>2 DEF CallStep, At, StartBegin, StartOpen, StartFailed, StartServer, StartPipe,
       StartStatus, StartAnnounce, StartRunning, StartThread, StopBegin, StopUnpause,
       StopJoinReplay, StopPipe, StopClose, StopAnnounce, StopIpc, StopWs, StopStatus,
       PauseBegin, ResumeBegin, SetPaused, PauseStatus, PauseAnnounce, Reconfigure, DestroyPipe,
       ReplacePipe, ReplaceServers, Acknowledge, AnswerStatus
  <2> QED
    BY <1>2, <2>1, <2>2, StartCalls, StopCalls, ServedCalls
<1> QED
  BY <1>1, <1>2, ServersKeepOn, ThreadsKeepOn, MainKeepsOn DEF Next

(* In a session that only main() and its signal handler start and stop,    *)
(* Stop() leaves no stage behind with something of it still up, whatever   *)
(* clients pause, resume and ask meanwhile.                                *)
THEOREM SupervisedInvariance == ASSUME Supervised PROVE Spec => []Sup
<1>1. SInv /\ Sup /\ [Next]_vars => Sup'
  BY SupStep
<1> QED
  BY <1>1, SupInit, SessionInvariance, PTL DEF Spec

(* No std::thread of a supervised session is assigned or destroyed while   *)
(* joinable, and main() and the signal handler are never in Start() or     *)
(* Stop() of the pipeline at once: the process is not terminated.          *)
THEOREM NeverTerminated == ASSUME Supervised PROVE Spec => []NotTerminated
<1>1. Sup => NotTerminated
  BY DEF Sup, NotTerminated
<1> QED
  BY <1>1, SupervisedInvariance, PTL

(* A replay thread that sleeps in pause_cv_.wait() is one whose wake-up is *)
(* still to come: Pause() and Stop() may race in any order, on both        *)
(* servers, without Stop() joining a thread that nobody notifies again.    *)
THEOREM PausedIsAlwaysWakeable == ASSUME Supervised PROVE Spec => []PausedIsWakeable
<1>1. Sup => PausedIsWakeable
  BY DEF Sup, Sleep, Roles, ServeLabels, PausedIsWakeable
<1> QED
  BY <1>1, SupervisedInvariance, PTL

-----------------------------------------------------------------------------
(* The ranges of the session's variables, by kind.                         *)

Flags ==
    /\ sessionRunning \in BOOLEAN /\ paused \in BOOLEAN
    /\ replayJoinable \in BOOLEAN /\ dead \in BOOLEAN
StatusRange == status \in {"Idle", "Configured", "Running", "Paused", "Completed", "Error"}
ReplayRange == replay \in {"off", "check", "pause", "waiting", "test", "read", "push", "queue",
                           "end", "completed", "done"}
EventRange == announced \in {"none", "running", "paused", "idle", "completed", "error"}
MainRange ==
    /\ main \in {"init", "start", "poll", "stop", "destroy", "exited"}
    /\ navStep \in {"ipc", "ws"} /\ DOMAIN op = Callers
Counts == left \in {Closed} \cup 0..Records /\ commands \in [{Ws, Ipc} -> 0..MaxCommands]

Ranges == Flags /\ StatusRange /\ ReplayRange /\ EventRange /\ MainRange /\ Counts

(* The constructed session satisfies them.                                 *)
LEMMA RangesInit == Init => Ranges
<1>1. Init => Flags
  BY DEF Init, Flags
<1>2. Init => left \in {Closed} \cup 0..Records
  BY DEF Init
<1>3. Init => commands \in [{Ws, Ipc} -> 0..MaxCommands]
  BY ConstantsAssumption DEF Init
<1>4. Init => StatusRange /\ ReplayRange /\ EventRange /\ MainRange
  BY DEF Init, StatusRange, ReplayRange, EventRange, MainRange
<1> QED
  BY <1>1, <1>2, <1>3, <1>4 DEF Ranges, Counts

(* Every step keeps every variable in its range, whatever clients send.    *)
LEMMA RangesStep == Ranges /\ [Next]_vars => Ranges'
<1> SUFFICES ASSUME Ranges, [Next]_vars PROVE Ranges'
  OBVIOUS
<1> USE DEF Ranges, replayVars, serverVars, lockVars, sessionVars
<1>0. CASE UNCHANGED vars
  BY <1>0 DEF vars, Flags, StatusRange, ReplayRange, EventRange, MainRange, Counts
<1>Flags. Next => Flags'
  BY DEF Flags, Next, CallStep, StartBegin, StartOpen, StartFailed, StartServer, StartPipe,
     HandleContended, StartStatus, StartAnnounce, StartRunning, StartThread, StopBegin,
     StopUnpause, StopJoinReplay, StopPipe, StopClose, StopAnnounce, StopIpc, StopWs,
     StopStatus, PauseBegin, ResumeBegin, SetPaused, PauseStatus, PauseAnnounce, Reconfigure,
     DestroyPipe, ReplacePipe, ReplaceServers, Acknowledge, AnswerStatus, ServerStep,
     ServerTest, SelectTimeout, ServerReply, ServerCommand, ReplayThread, ReplayTest,
     ReplayPause, ReplayRead, ReplayPush, ReplayEnd, ReplayAnnounce, ReplayStep, EstimatorStep,
     MainThread, MainStart, MainStarted, MainPoll, MainDestroy, MainExit, MainCall, Signal
<1>StatusRange. Next => StatusRange'
  BY DEF StatusRange, Next, CallStep, StartBegin, StartOpen, StartFailed, StartServer,
     StartPipe, HandleContended, StartStatus, StartAnnounce, StartRunning, StartThread,
     StopBegin, StopUnpause, StopJoinReplay, StopPipe, StopClose, StopAnnounce, StopIpc, StopWs,
     StopStatus, PauseBegin, ResumeBegin, SetPaused, PauseStatus, PauseAnnounce, Reconfigure,
     DestroyPipe, ReplacePipe, ReplaceServers, Acknowledge, AnswerStatus, ServerStep,
     ServerTest, SelectTimeout, ServerReply, ServerCommand, ReplayThread, ReplayTest,
     ReplayPause, ReplayRead, ReplayPush, ReplayEnd, ReplayAnnounce, ReplayStep, EstimatorStep,
     MainThread, MainStart, MainStarted, MainPoll, MainDestroy, MainExit, MainCall, Signal
<1>ReplayRange. Next => ReplayRange'
  BY DEF ReplayRange, ReplayWoken, Next, CallStep, StartBegin, StartOpen, StartFailed,
     StartServer, StartPipe, HandleContended, StartStatus, StartAnnounce, StartRunning,
     StartThread, StopBegin, StopUnpause, StopJoinReplay, StopPipe, StopClose, StopAnnounce,
     StopIpc, StopWs, StopStatus, PauseBegin, ResumeBegin, SetPaused, PauseStatus,
     PauseAnnounce, Reconfigure, DestroyPipe, ReplacePipe, ReplaceServers, Acknowledge,
     AnswerStatus, ServerStep, ServerTest, SelectTimeout, ServerReply, ServerCommand,
     ReplayThread, ReplayTest, ReplayPause, ReplayRead, ReplayPush, ReplayEnd, ReplayAnnounce,
     ReplayStep, EstimatorStep, MainThread, MainStart, MainStarted, MainPoll, MainDestroy,
     MainExit, MainCall, Signal
<1>EventRange. Next => EventRange'
  BY DEF EventRange, Announce, Next, CallStep, StartBegin, StartOpen, StartFailed, StartServer,
     StartPipe, HandleContended, StartStatus, StartAnnounce, StartRunning, StartThread,
     StopBegin, StopUnpause, StopJoinReplay, StopPipe, StopClose, StopAnnounce, StopIpc, StopWs,
     StopStatus, PauseBegin, ResumeBegin, SetPaused, PauseStatus, PauseAnnounce, Reconfigure,
     DestroyPipe, ReplacePipe, ReplaceServers, Acknowledge, AnswerStatus, ServerStep,
     ServerTest, SelectTimeout, ServerReply, ServerCommand, ReplayThread, ReplayTest,
     ReplayPause, ReplayRead, ReplayPush, ReplayEnd, ReplayAnnounce, ReplayStep, EstimatorStep,
     MainThread, MainStart, MainStarted, MainPoll, MainDestroy, MainExit, MainCall, Signal
<1>MainRange. Next => MainRange'
  BY DEF MainRange, Next, CallStep, StartBegin, StartOpen, StartFailed, StartServer, StartPipe,
     HandleContended, StartStatus, StartAnnounce, StartRunning, StartThread, StopBegin,
     StopUnpause, StopJoinReplay, StopPipe, StopClose, StopAnnounce, StopIpc, StopWs,
     StopStatus, PauseBegin, ResumeBegin, SetPaused, PauseStatus, PauseAnnounce, Reconfigure,
     DestroyPipe, ReplacePipe, ReplaceServers, Acknowledge, AnswerStatus, ServerStep,
     ServerTest, SelectTimeout, ServerReply, ServerCommand, ReplayThread, ReplayTest,
     ReplayPause, ReplayRead, ReplayPush, ReplayEnd, ReplayAnnounce, ReplayStep, EstimatorStep,
     MainThread, MainStart, MainStarted, MainPoll, MainDestroy, MainExit, MainCall, Signal
<1>Counts. Next => Counts'
  <2>1. CASE ReplayThread
    <3>1. CASE ReplayRead
      BY <3>1, ConstantsAssumption DEF Counts, Closed, ReplayRead
    <3>2. CASE ReplayTest \/ ReplayPause \/ ReplayPush \/ ReplayEnd \/ ReplayAnnounce
      BY <3>2 DEF Counts, ReplayTest, ReplayPause, ReplayPush, ReplayEnd, ReplayAnnounce
    <3> QED
      BY <2>1, <3>1, <3>2 DEF ReplayThread
  <2>2. CASE EstimatorStep \/ MainThread \/ Signal
    BY <2>2 DEF Counts, EstimatorStep, MainThread, MainStart, MainStarted, MainPoll,
       MainDestroy, MainExit, MainCall, Signal
  <2>3. ASSUME NEW s \in {Ws, Ipc}, ServerStep(s) PROVE Counts'
    BY <2>3, ConstantsAssumption DEF Counts, ServerStep, ServerTest, SelectTimeout, ServerReply,
       ServerCommand
  <2>4. ASSUME NEW c \in Callers, CallStep(c) PROVE Counts'
    <3>1. UNCHANGED commands /\ left' \in {left, Closed, Records, 0}
      BY <2>4 DEF CallStep, StartBegin, StartOpen, StartFailed, StartServer, StartPipe,
         StartStatus, StartAnnounce, StartRunning, StartThread, StopBegin, StopUnpause,
         StopJoinReplay, StopPipe, StopClose, StopAnnounce, StopIpc, StopWs, StopStatus,
         PauseBegin, ResumeBegin, SetPaused, PauseStatus, PauseAnnounce, Reconfigure,
         DestroyPipe, ReplacePipe, ReplaceServers, Acknowledge, AnswerStatus
    <3> QED
      BY <3>1, ConstantsAssumption DEF Counts
  <2> QED
    BY <2>1, <2>2, <2>3, <2>4 DEF Next
<1> QED
  BY <1>0, <1>Flags, <1>StatusRange, <1>ReplayRange, <1>EventRange, <1>MainRange, <1>Counts

(* Every variable of the session and of its pipeline has its type, for all *)
(* commands and signals, restarts and replaced pipelines included.         *)
THEOREM SessionTypes == Spec => []TypeOK
<1>2. SInv /\ Ranges => TypeOK
  <2>1. PipeProofs!TypeOK => Pipe!TypeOK
    BY DEF PipeProofs!TypeOK, Pipe!TypeOK, PipeProofs!Observers, Pipe!Observers
  <2> QED
    BY <2>1 DEF SInv, PipeProofs!IInv, Control, ServersPart, LocksPart, Ranges, Flags,
       StatusRange, ReplayRange, EventRange, MainRange, Counts, TypeOK
<1> QED
  BY <1>2, RangesInit, RangesStep, SessionInvariance, PTL DEF Spec

-----------------------------------------------------------------------------
(* The bounds of the pipeline's instance hold nobody back.                 *)

BeforeOpen == {"start", "open"}
BeforePipe == BeforeOpen \cup {"start_ipc", "start_ws", "start_pipe"}

\* Calls of Start() that are, or may still come, where L says.
Due(L) ==
    (IF main = "init" THEN 1 ELSE 0) + commands[Ws] + commands[Ipc]
    + (IF pc[Main] \in L THEN 1 ELSE 0) + (IF pc[Sig] \in L THEN 1 ELSE 0)
    + (IF pc[Ws] \in L THEN 1 ELSE 0) + (IF pc[Ipc] \in L THEN 1 ELSE 0)

StartsLeft == starts + Due(BeforePipe) <= Starts

\* Measurements are used up in their order: those that the reader has still to
\* return, and the one about to be pushed, are left.
FreshLeft == \E k \in Nat :
    /\ fresh = (k + 1)..(Starts * Records)
    /\ k + (IF replay = "push" THEN 1 ELSE 0) + (IF left = Closed THEN 0 ELSE left)
          + Records * Due(BeforeOpen) <= Starts * Records

\* A producer is in one Push() at a time.
OnePush == replay # "queue" => pending[Replay] = 0

(* A caller that is about to start the pipeline finds a worker left in the *)
(* instance's bound, and the replay thread a measurement to push.          *)
Unhindered ==
    /\ (\E c \in Callers : pc[c] = "start_pipe") => starts < Starts
    /\ replay = "push" => fresh # {} /\ pending[Replay] = 0

(* Every command and main() may call Start() once: no step adds a call,    *)
(* and the one that opens the dataset, or starts the worker, uses one up.  *)
LEMMA DueStep ==
    ASSUME SInv, Ranges, [Next]_vars, NEW L \in {BeforeOpen, BeforePipe}
    PROVE  /\ Due(L) \in Nat /\ Due(L)' \in Nat /\ Due(L)' <= Due(L)
           /\ \A c \in Callers : L = BeforeOpen /\ StartOpen(c) => Due(L)' <= Due(L) - 1
           /\ \A c \in Callers :
                 L = BeforePipe /\ At(c, "start_pipe") /\ CallStep(c) /\ pc'[c] = "spawn_worker"
                    => Due(L)' <= Due(L) - 1
<1> USE DEF At, Go, Return, Starts
<1>1. /\ DOMAIN pc = Callers
      /\ commands[Ws] \in Nat /\ commands[Ipc] \in Nat
  BY ConstantsAssumption DEF SInv, Control, ServersPart, Ranges, Counts
<1>2. ASSUME NEW c \in Callers, CallStep(c)
      PROVE  /\ \A d \in Callers : d # c => pc'[d] \in {pc[d], "loop"}
             /\ pc'[c] \in L => pc[c] \in L
             /\ UNCHANGED <<commands, main>>
  <2>1. CASE \/ StartBegin(c) \/ StartOpen(c) \/ StartFailed(c) \/ StartPipe(c) \/ StartStatus(c)
             \/ StartAnnounce(c) \/ StartRunning(c) \/ StartThread(c)
             \/ StartServer(c, Ipc, "start_ipc", "start_ws")
             \/ StartServer(c, Ws, "start_ws", "start_pipe")
    BY <1>1, <2>1 DEF StartBegin, StartOpen, StartFailed, StartServer, StartPipe,
       HandleContended, StartStatus, StartAnnounce, StartRunning, StartThread, Home, BeforeOpen,
       BeforePipe, serverVars
  <2>2. CASE \/ StopBegin(c) \/ StopUnpause(c) \/ StopJoinReplay(c) \/ StopPipe(c) \/ StopClose(c)
             \/ StopAnnounce(c) \/ StopIpc(c) \/ StopWs(c) \/ StopStatus(c)
    BY <1>1, <2>2 DEF StopBegin, StopUnpause, StopJoinReplay, StopPipe, HandleContended, StopClose,
       StopAnnounce, StopIpc, StopWs, StopStatus, Home, BeforeOpen, BeforePipe, serverVars
  <2>3. CASE \/ PauseBegin(c) \/ ResumeBegin(c) \/ SetPaused(c) \/ PauseStatus(c) \/ PauseAnnounce(c)
             \/ Reconfigure(c) \/ DestroyPipe(c) \/ ReplaceServers(c) \/ Acknowledge(c) \/ AnswerStatus(c)
    BY <1>1, <2>3 DEF PauseBegin, ResumeBegin, SetPaused, PauseStatus, PauseAnnounce, Reconfigure,
       DestroyPipe, ReplacePipe, HandleContended, ReplaceServers, Acknowledge, AnswerStatus, Home,
       BeforeOpen, BeforePipe, serverVars
  <2> QED
    BY <1>2, <2>1, <2>2, <2>3 DEF CallStep
<1>3. "loop" \notin L /\ "home" \notin L
  BY DEF BeforeOpen, BeforePipe
<1>4. ASSUME NEW c \in Callers, CallStep(c)
      PROVE  /\ Due(L)' \in Nat /\ Due(L)' <= Due(L)
             /\ pc[c] \in L /\ pc'[c] \notin L => Due(L)' <= Due(L) - 1
  BY <1>1, <1>2, <1>3, <1>4 DEF Due
<1>5. ASSUME NEW s \in {Ws, Ipc}, ServerStep(s)
      PROVE  Due(L)' \in Nat /\ Due(L)' <= Due(L)
  <2>1. CASE ServerTest(s) \/ SelectTimeout(s) \/ ServerReply(s)
    <3>1. /\ pc'[s] \notin L /\ \A d \in Callers : d # s => pc'[d] = pc[d]
          /\ UNCHANGED <<commands, main>>
      BY <1>1, <2>1 DEF ServerTest, SelectTimeout, ServerReply, BeforeOpen, BeforePipe, serverVars
    <3> QED
      BY <1>1, <3>1 DEF Due
  <2>2. ASSUME NEW verb, ServerCommand(s, verb) PROVE Due(L)' \in Nat /\ Due(L)' <= Due(L)
    <3>1. /\ pc[s] \notin L /\ \A d \in Callers : d # s => pc'[d] = pc[d]
          /\ commands[s] > 0 /\ commands' = [commands EXCEPT ![s] = @ - 1] /\ main' = main
      BY <1>1, <2>2 DEF ServerCommand, BeforeOpen, BeforePipe
    <3>2. DOMAIN commands = {Ws, Ipc}
      BY DEF Ranges, Counts
    <3> QED
      BY <1>1, <3>1, <3>2 DEF Due
  <2> QED
    BY <1>5, <2>1, <2>2 DEF ServerStep
<1>6. ASSUME ReplayThread \/ EstimatorStep \/ UNCHANGED vars
      PROVE  Due(L)' \in Nat /\ Due(L)' <= Due(L)
  <2>1. UNCHANGED <<pc, commands, main>>
    BY <1>6 DEF ReplayThread, ReplayTest, ReplayPause, ReplayRead, ReplayPush, ReplayEnd,
       ReplayAnnounce, EstimatorStep, vars, serverVars
  <2> QED
    BY <1>1, <2>1 DEF Due
<1>7. ASSUME MainThread \/ Signal
      PROVE  Due(L)' \in Nat /\ Due(L)' <= Due(L)
  <2>1. /\ pc'[Sig] \in {pc[Sig], "stop"} /\ pc'[Ws] = pc[Ws] /\ pc'[Ipc] = pc[Ipc]
        /\ commands' = commands
        /\ \/ main' # "init" /\ pc'[Main] \in {pc[Main], "home", "stop"}
           \/ main' # "init" /\ main = "init" /\ pc[Main] = "home"
           \/ main' = main /\ pc'[Main] = pc[Main]
    BY <1>1, <1>7 DEF MainThread, MainStart, MainStarted, MainPoll, MainDestroy, MainExit, MainCall,
       Signal, serverVars
  <2>2. "stop" \notin L
    BY DEF BeforeOpen, BeforePipe
  <2> QED
    BY <1>1, <1>3, <2>1, <2>2 DEF Due
<1>8. Due(L) \in Nat /\ Due(L)' \in Nat /\ Due(L)' <= Due(L)
  <2>1. Due(L) \in Nat
    BY <1>1 DEF Due
  <2> QED
    BY <1>4, <1>5, <1>6, <1>7, <2>1 DEF Next
<1>9. ASSUME NEW c \in Callers, L = BeforeOpen, StartOpen(c) PROVE Due(L)' <= Due(L) - 1
  <2>1. CallStep(c)
    BY <1>9 DEF CallStep
  <2>2. pc[c] \in L /\ pc'[c] \notin L
    BY <1>1, <1>9 DEF StartOpen, BeforeOpen
  <2> QED
    BY <1>4, <2>1, <2>2
<1>10. ASSUME NEW c \in Callers, L = BeforePipe, At(c, "start_pipe"), CallStep(c),
              pc'[c] = "spawn_worker"
       PROVE  Due(L)' <= Due(L) - 1
  <2>1. pc[c] \in L /\ pc'[c] \notin L
    BY <1>10 DEF BeforeOpen, BeforePipe
  <2> QED
    BY <1>4, <1>10, <2>1
<1> QED
  BY <1>8, <1>9, <1>10

(* What is left of so many datasets, when their number decreases.          *)
LEMMA Product ==
    ASSUME NEW r \in Nat, NEW m \in Nat, NEW n \in Nat, m <= n
    PROVE  /\ r * m \in Nat /\ r * n \in Nat /\ r * m <= r * n
           /\ m <= n - 1 => r * m + r <= r * n
<1>1. ASSUME NEW k \in Nat PROVE r * k \in Nat
  BY <1>1
<1>2. n - m \in Nat /\ n = m + (n - m) /\ r * n = r * m + r * (n - m)
  OBVIOUS
<1>3. r * (n - m) \in Nat
  BY <1>1, <1>2
<1>4. ASSUME m <= n - 1 PROVE r * m + r <= r * n
  <2>1. n - m - 1 \in Nat /\ r * (n - m) = r * (n - m - 1) + r
    BY <1>4
  <2>2. r * (n - m - 1) \in Nat
    BY <1>1, <2>1
  <2> QED
    BY <1>1, <1>2, <2>1, <2>2
<1> QED
  BY <1>1, <1>2, <1>3, <1>4

(* So the bounds are never reached by somebody who needs one more.         *)
LEMMA BoundsStep ==
    SInv /\ Ranges /\ StartsLeft /\ FreshLeft /\ [Next]_vars => StartsLeft' /\ FreshLeft'
<1> SUFFICES ASSUME SInv, Ranges, StartsLeft, FreshLeft, [Next]_vars
             PROVE  StartsLeft' /\ FreshLeft'
  OBVIOUS
<1> DEFINE P == Due(BeforePipe)
           O == Due(BeforeOpen)
           R == Records * O
           N == Starts * Records
<1>1. /\ P \in Nat /\ P' \in Nat /\ P' <= P /\ O \in Nat /\ O' \in Nat /\ O' <= O
      /\ \A c \in Callers : StartOpen(c) => O' <= O - 1
      /\ \A c \in Callers : At(c, "start_pipe") /\ CallStep(c) /\ pc'[c] = "spawn_worker"
            => P' <= P - 1
  BY DueStep
<1>2. /\ starts \in Nat /\ Starts \in Nat /\ Records \in Nat /\ N \in Nat
      /\ left \in {Closed} \cup 0..Records
  <2>1. Starts \in Nat /\ Records \in Nat /\ N \in Nat
    BY ConstantsAssumption DEF Starts
  <2>2. starts \in Nat
    BY <2>1 DEF SInv, PipeProofs!IInv, PipeProofs!TypeOK
  <2> QED
    BY <2>1, <2>2 DEF Ranges, Counts
<1>3. R \in Nat /\ R' \in Nat /\ R' <= R
  BY <1>1, <1>2, Product
<1>4. \A c \in Callers : StartOpen(c) => R' + Records <= R
  BY <1>1, <1>2, Product
<1>5. StartsLeft'
  <2>1. ASSUME NEW c \in Callers, CallStep(c) PROVE starts' + P' <= Starts
    <3>1. CASE StartPipe(c)
      <4>1. \/ starts' = starts
            \/ starts' = starts + 1 /\ At(c, "start_pipe") /\ pc'[c] = "spawn_worker"
        BY <3>1 DEF StartPipe, HandleContended, pipeVars, Pipe!StartExchange, Pipe!SpawnWorker,
           Go, At, SInv, Control, ServersPart
      <4> QED
        BY <1>1, <1>2, <2>1, <4>1 DEF StartsLeft
    <3>2. CASE StopPipe(c) \/ DestroyPipe(c)
      <4>1. starts' \in {starts, 0}
        BY <3>2 DEF StopPipe, DestroyPipe, ReplacePipe, NewPipe, HandleContended, pipeVars,
           Pipe!StopExchange, Pipe!RequestShutdown, Pipe!Join
      <4> QED
        BY <1>1, <1>2, <4>1 DEF StartsLeft
    <3>3. CASE ~StartPipe(c) /\ ~StopPipe(c) /\ ~DestroyPipe(c)
      <4>1. starts' = starts
        BY <2>1, <3>3 DEF pipeVars, CallStep, StartBegin, StartOpen, StartFailed, StartServer,
           StartStatus, StartAnnounce, StartRunning, StartThread, StopBegin, StopUnpause,
           StopJoinReplay, StopClose, StopAnnounce, StopIpc, StopWs, StopStatus, PauseBegin,
           ResumeBegin, SetPaused, PauseStatus, PauseAnnounce, Reconfigure, ReplaceServers,
           Acknowledge, AnswerStatus
      <4> QED
        BY <1>1, <1>2, <4>1 DEF StartsLeft
    <3> QED
      BY <3>1, <3>2, <3>3
  <2>2. CASE ~\E c \in Callers : CallStep(c)
    <3>1. starts' = starts
      <4>1. CASE ReplayThread \/ EstimatorStep
        BY <4>1 DEF pipeVars, ReplayThread, ReplayTest, ReplayPause, ReplayRead, ReplayPush,
           ReplayEnd, ReplayAnnounce, EstimatorStep, Pipe!PushCheck, Pipe!QueuePush, Pipe!Pop,
           Pipe!SpuriousWakeup, Pipe!Update, Pipe!NotifyObserver, Pipe!ownerVars
      <4>2. CASE MainThread \/ Signal \/ UNCHANGED vars \/ \E s \in {Ws, Ipc} : ServerStep(s)
        BY <4>2 DEF vars, pipeVars, MainThread, MainStart, MainStarted, MainPoll, MainDestroy,
           MainExit, MainCall, Signal, ServerStep, ServerTest, SelectTimeout, ServerReply,
           ServerCommand
      <4> QED
        BY <2>2, <4>1, <4>2 DEF Next
    <3> QED
      BY <1>1, <1>2, <3>1 DEF StartsLeft
  <2> QED
    BY <2>1, <2>2 DEF StartsLeft
<1>6. FreshLeft'
  <2> DEFINE p == IF replay = "push" THEN 1 ELSE 0
             q == IF left = Closed THEN 0 ELSE left
  <2>1. PICK k \in Nat : fresh = (k + 1)..N /\ k + p + q + R <= N
    BY DEF FreshLeft
  <2>2. p \in 0..1 /\ p' \in 0..1
    OBVIOUS
  <2>3. q \in Nat /\ q' \in Nat
    <3>1. Ranges'
      BY RangesStep
    <3>2. left' \in {Closed} \cup 0..Records
      BY <3>1 DEF Ranges, Counts
    <3> QED
      BY <1>2, <3>2 DEF Closed
  <2>4. PICK u \in Nat : u = p
    BY <2>2
  <2>5. PICK u1 \in Nat : u1 = p'
    BY <2>2
  <2>6. PICK v \in Nat : v = q
    BY <2>3
  <2>7. PICK v1 \in Nat : v1 = q'
    BY <2>3
  <2>8. PICK w \in Nat : w = R
    BY <1>3
  <2>9. PICK w1 \in Nat : w1 = R'
    BY <1>3
  <2>10. /\ (replay' = "push" => replay = "push") => u1 <= u
         /\ replay = "push" /\ replay' # "push" => u = 1 /\ u1 = 0
         /\ replay # "push" => u = 0 /\ u1 <= 1
    BY <2>4, <2>5
  <2>11. left' \in {left, Closed, 0} => v1 <= v
    BY <1>2, <2>6, <2>7 DEF Closed
  <2>12. left = Closed /\ left' = Records => v = 0 /\ v1 = Records
    BY <1>2, <2>6, <2>7 DEF Closed
  <2>13. left > 0 /\ left' = left - 1 => v1 = v - 1
    BY <1>2, <2>6, <2>7 DEF Closed
  <2> HIDE DEF p, q, R, N
  <2>14. w1 <= w /\ k + u + v + w <= N /\ N \in Nat
    BY <1>2, <1>3, <2>1, <2>4, <2>6, <2>8, <2>9
  <2>15. ASSUME NEW l \in Nat, fresh' = (l + 1)..N, l + u1 + v1 + w1 <= N
        PROVE  FreshLeft'
    <3>1. l + p' + q' + R' <= N
      BY <2>5, <2>7, <2>9, <2>15
    <3> QED
      BY <2>15, <3>1 DEF FreshLeft, p, q, R, N
  <2>16. ASSUME fresh' = fresh, replay' = "push" => replay = "push", left' \in {left, Closed, 0}
        PROVE  FreshLeft'
    <3>1. u1 <= u /\ v1 <= v
      BY <2>10, <2>11, <2>16
    <3>2. k + u1 + v1 + w1 <= N
      BY <2>14, <3>1
    <3> QED
      BY <2>1, <2>15, <2>16, <3>2
  <2>17. ASSUME NEW c \in Callers, CallStep(c)
        PROVE  FreshLeft'
    <3>1. CASE StartOpen(c)
      <4>1. /\ fresh' = fresh /\ replay' = replay
            /\ left' = left \/ (left = Closed /\ left' = Records) \/ left' = 0
        BY <3>1 DEF StartOpen, pipeVars
      <4>2. w1 + Records <= w
        BY <1>4, <2>8, <2>9, <3>1
      <4>3. CASE left = Closed /\ left' = Records
        <5>1. u1 <= u /\ v = 0 /\ v1 = Records
          BY <2>10, <2>12, <4>1, <4>3
        <5>2. k + u1 + v1 + w1 <= N
          BY <2>14, <4>2, <5>1
        <5> QED
          BY <2>1, <2>15, <4>1, <5>2
      <4> QED
        BY <2>16, <4>1, <4>3
    <3>2. CASE DestroyPipe(c)
      <4>1. fresh' = fresh \/ fresh' = 1..N
        BY <3>2 DEF N, DestroyPipe, ReplacePipe, NewPipe, HandleContended, pipeVars,
           Pipe!StopExchange, Pipe!RequestShutdown, Pipe!producerVars
      <4>2. replay' = replay /\ left' \in {left, Closed}
        BY <3>2 DEF DestroyPipe, ReplacePipe
      <4>3. CASE fresh' = 1..N
        <5>1. u1 <= u /\ v1 <= v
          BY <2>10, <2>11, <4>2
        <5>2. 0 + u1 + v1 + w1 <= N
          BY <2>14, <5>1
        <5>3. fresh' = (0 + 1)..N
          BY <4>3
        <5> QED
          BY <2>15, <5>2, <5>3
      <4> QED
        BY <2>16, <4>1, <4>2, <4>3
    <3>3. CASE StartPipe(c) \/ StopPipe(c)
      <4>1. fresh' = fresh /\ replay' = replay /\ left' = left
        BY <3>3 DEF StartPipe, StopPipe, HandleContended, pipeVars, replayVars, Pipe!StartExchange,
           Pipe!SpawnWorker, Pipe!StopExchange, Pipe!RequestShutdown, Pipe!Join, Pipe!producerVars
      <4> QED
        BY <2>16, <4>1
    <3>4. CASE ~StartOpen(c) /\ ~DestroyPipe(c) /\ ~StartPipe(c) /\ ~StopPipe(c)
      <4>1. fresh' = fresh /\ replay' \in {replay, "pause", "check"} /\ left' \in {left, Closed}
        BY <2>17, <3>4 DEF pipeVars, replayVars, CallStep, StartBegin, StartFailed, StartServer,
           StartStatus, StartAnnounce, StartRunning, StartThread, StopBegin, StopUnpause,
           ReplayWoken, StopJoinReplay, StopClose, StopAnnounce, StopIpc, StopWs, StopStatus,
           PauseBegin, ResumeBegin, SetPaused, PauseStatus, PauseAnnounce, Reconfigure,
           ReplaceServers, Acknowledge, AnswerStatus
      <4> QED
        BY <2>16, <4>1
    <3> QED
      BY <3>1, <3>2, <3>3, <3>4
  <2>18. CASE ReplayThread
    <3>1. CASE ReplayRead
      <4>1. fresh' = fresh /\ replay # "push"
            /\ \/ left > 0 /\ left' = left - 1
               \/ left' = left /\ replay' # "push"
        BY <3>1 DEF ReplayRead, ReplayStep, pipeVars
      <4>2. CASE left > 0 /\ left' = left - 1
        <5>1. u = 0 /\ u1 <= 1 /\ v1 = v - 1
          BY <2>10, <2>13, <4>1, <4>2
        <5>2. k + u1 + v1 + w1 <= N
          BY <2>14, <5>1
        <5> QED
          BY <2>1, <2>15, <4>1, <5>2
      <4> QED
        BY <2>16, <4>1, <4>2
    <3>2. CASE ReplayPush
      <4>1. left' = left /\ replay' # "push"
        BY <3>2 DEF ReplayPush, ReplayStep
      <4>2. CASE replay = "push"
        <5>1. PICK m \in fresh : (\A n \in fresh : m <= n) /\ fresh' = fresh \ {m}
          BY <3>2, <4>2 DEF ReplayPush, ReplayStep, Pipe!PushCheck
        <5>2. k + 1 \in fresh /\ m = k + 1
          BY <1>2, <2>1, <5>1
        <5>3. fresh' = ((k + 1) + 1)..N
          BY <1>2, <2>1, <5>1, <5>2
        <5>4. u = 1 /\ u1 = 0 /\ v1 <= v
          BY <2>10, <2>11, <4>1, <4>2
        <5>5. (k + 1) \in Nat /\ (k + 1) + u1 + v1 + w1 <= N
          BY <2>14, <5>4
        <5> QED
          BY <2>15, <5>3, <5>5
      <4>3. CASE replay # "push"
        <5>1. fresh' = fresh
          BY <3>2, <4>3 DEF ReplayPush, ReplayStep, Pipe!QueuePush, pipeVars
        <5> QED
          BY <2>16, <4>1, <5>1
      <4> QED
        BY <4>2, <4>3
    <3>3. CASE ReplayTest \/ ReplayPause \/ ReplayEnd \/ ReplayAnnounce
      <4>1. fresh' = fresh /\ left' = left /\ replay' # "push"
        BY <3>3 DEF ReplayTest, ReplayPause, ReplayEnd, ReplayAnnounce, ReplayStep, pipeVars
      <4> QED
        BY <2>16, <4>1
    <3> QED
      BY <2>18, <3>1, <3>2, <3>3 DEF ReplayThread
  <2>19. CASE EstimatorStep
    <3>1. fresh' = fresh /\ left' = left /\ replay' = replay
      BY <2>19 DEF EstimatorStep, pipeVars, replayVars, Pipe!Pop, Pipe!SpuriousWakeup, Pipe!Update,
         Pipe!NotifyObserver, Pipe!producerVars
    <3> QED
      BY <2>16, <3>1
  <2>20. CASE MainThread \/ Signal \/ UNCHANGED vars \/ \E s \in {Ws, Ipc} : ServerStep(s)
    <3>1. fresh' = fresh /\ left' = left /\ replay' = replay
      BY <2>20 DEF vars, pipeVars, replayVars, MainThread, MainStart, MainStarted, MainPoll,
         MainDestroy, MainExit, MainCall, Signal, ServerStep, ServerTest, SelectTimeout,
         ServerReply, ServerCommand
    <3> QED
      BY <2>16, <3>1
  <2> QED
    BY <2>17, <2>18, <2>19, <2>20 DEF Next
<1> QED
  BY <1>5, <1>6

(* The replay thread is in no Push() when it comes to its next.            *)
LEMMA OnePushStep == SInv /\ OnePush /\ [Next]_vars => OnePush'
<1> SUFFICES ASSUME SInv, OnePush, [Next]_vars PROVE OnePush'
  OBVIOUS
<1> USE DEF OnePush, pipeVars, replayVars
<1>1. DOMAIN pending = {Replay}
  BY DEF SInv, PipeProofs!IInv, PipeProofs!TypeOK
<1>2. ASSUME NEW c \in Callers, CallStep(c) PROVE OnePush'
  <2>1. CASE StartThread(c)
    <3>1. replay # "queue" \/ replay' = replay
      BY <2>1 DEF StartThread, SInv, Control, HandlesPart, ReplayEnded
    <3> QED
      BY <2>1, <3>1 DEF StartThread
  <2>2. CASE StartPipe(c) \/ StopPipe(c)
    BY <2>2 DEF StartPipe, StopPipe, HandleContended, Pipe!StartExchange, Pipe!SpawnWorker,
       Pipe!StopExchange, Pipe!RequestShutdown, Pipe!Join, Pipe!producerVars
  <2>3. CASE DestroyPipe(c)
    BY <2>3 DEF DestroyPipe, ReplacePipe, NewPipe, HandleContended, Pipe!StopExchange,
       Pipe!RequestShutdown, Pipe!producerVars
  <2>4. CASE ~StartThread(c) /\ ~StartPipe(c) /\ ~StopPipe(c) /\ ~DestroyPipe(c)
    <3>1. pending' = pending /\ replay' \in {replay, ReplayWoken}
      BY <1>2, <2>4 DEF CallStep, StartBegin, StartOpen, StartFailed, StartServer, StartStatus,
         StartAnnounce, StartRunning, StopBegin, StopUnpause, StopJoinReplay, StopClose,
         StopAnnounce, StopIpc, StopWs, StopStatus, PauseBegin, ResumeBegin, SetPaused,
         PauseStatus, PauseAnnounce, Reconfigure, ReplaceServers, Acknowledge, AnswerStatus
    <3> QED
      BY <3>1 DEF ReplayWoken
  <2> QED
    BY <2>1, <2>2, <2>3, <2>4
<1>3. CASE ReplayThread
  <2>1. CASE ReplayPush
    BY <1>1, <2>1 DEF ReplayPush, ReplayStep, Pipe!PushCheck, Pipe!QueuePush
  <2>2. CASE ReplayTest \/ ReplayPause \/ ReplayRead \/ ReplayEnd \/ ReplayAnnounce
    BY <2>2 DEF ReplayTest, ReplayPause, ReplayRead, ReplayEnd, ReplayAnnounce, ReplayStep
  <2> QED
    BY <1>3, <2>1, <2>2 DEF ReplayThread
<1>4. CASE EstimatorStep
  BY <1>4 DEF EstimatorStep, Pipe!Pop, Pipe!SpuriousWakeup, Pipe!Update, Pipe!NotifyObserver,
     Pipe!producerVars
<1>5. CASE MainThread \/ Signal \/ UNCHANGED vars \/ \E s \in {Ws, Ipc} : ServerStep(s)
  BY <1>5 DEF vars, MainThread, MainStart, MainStarted, MainPoll, MainDestroy, MainExit, MainCall,
     Signal, ServerStep, ServerTest, SelectTimeout, ServerReply, ServerCommand
<1> QED
  BY <1>2, <1>3, <1>4, <1>5 DEF Next

(* The bounds of the model cut no behaviour of the session away: whoever   *)
(* calls Start(), as often as commands allow, and however often the        *)
(* pipeline is replaced, the pipeline can be started whenever it does not  *)
(* run, and every record that is read can be pushed.                       *)
THEOREM BoundsDoNotBind == Spec => []Unhindered
<1>1. Init => StartsLeft /\ FreshLeft /\ OnePush
  <2> SUFFICES ASSUME Init PROVE StartsLeft /\ FreshLeft /\ OnePush
    OBVIOUS
  <2>1. Starts \in Nat /\ Records \in Nat /\ Starts * Records \in Nat /\ MaxCommands \in Nat
    BY ConstantsAssumption DEF Starts
  <2>2. Due(BeforePipe) = Starts /\ Due(BeforeOpen) = Starts
    BY <2>1 DEF Init, Due, BeforePipe, BeforeOpen, Starts
  <2>3. StartsLeft
    BY <2>1, <2>2 DEF Init, Pipe!Init, StartsLeft
  <2>4. /\ fresh = (0 + 1)..(Starts * Records)
        /\ 0 + (IF replay = "push" THEN 1 ELSE 0) + (IF left = Closed THEN 0 ELSE left)
              + Records * Due(BeforeOpen) <= Starts * Records
    BY <2>1, <2>2 DEF Init, Pipe!Init
  <2>5. OnePush
    BY DEF Init, Pipe!Init, OnePush
  <2> QED
    BY <2>3, <2>4, <2>5 DEF FreshLeft
<1>2. SInv /\ Ranges /\ StartsLeft /\ FreshLeft /\ OnePush => Unhindered
  <2> SUFFICES ASSUME SInv, Ranges, StartsLeft, FreshLeft, OnePush PROVE Unhindered
    OBVIOUS
  <2>1. /\ commands[Ws] \in Nat /\ commands[Ipc] \in Nat
        /\ Starts \in Nat /\ Records \in Nat /\ starts \in Nat /\ left \in {Closed} \cup 0..Records
    BY ConstantsAssumption DEF Ranges, Counts, Starts, SInv, PipeProofs!IInv, PipeProofs!TypeOK
  <2>2. (\E c \in Callers : pc[c] = "start_pipe") => starts < Starts
    BY <2>1 DEF StartsLeft, Due, BeforePipe
  <2>3. Due(BeforeOpen) \in Nat
    BY <2>1 DEF Due
  <2>4. Starts * Records \in Nat /\ Records * Due(BeforeOpen) \in Nat
    BY <2>1, <2>3
  <2>5. replay = "push" => fresh # {}
    <3> SUFFICES ASSUME replay = "push" PROVE fresh # {}
      OBVIOUS
    <3>1. PICK k \in Nat :
            /\ fresh = (k + 1)..(Starts * Records)
            /\ k + 1 + (IF left = Closed THEN 0 ELSE left) + Records * Due(BeforeOpen)
                  <= Starts * Records
      BY DEF FreshLeft
    <3>2. k + 1 <= Starts * Records
      BY <2>1, <2>4, <3>1 DEF Closed
    <3> QED
      BY <2>4, <3>1, <3>2
  <2> QED
    BY <2>2, <2>5 DEF Unhindered, OnePush
<1>3. SInv /\ Ranges /\ StartsLeft /\ FreshLeft /\ [Next]_vars => StartsLeft' /\ FreshLeft'
  BY BoundsStep
<1>4. SInv /\ OnePush /\ [Next]_vars => OnePush'
  BY OnePushStep
<1> QED
  BY <1>1, <1>2, <1>3, <1>4, RangesInit, RangesStep, SessionInvariance, PTL DEF Spec

-----------------------------------------------------------------------------
(* The end of Stop().                                                      *)

(* "Gracefully stops replay, pipeline, and IPC" (session.hpp:68): when the *)
(* status of a supervised session is Idle, every thread has ended, every   *)
(* accepted measurement has been processed, and behind the "idle" event no *)
(* state is sent.                                                          *)
THEOREM IdleIsStopped == ASSUME Supervised PROVE Spec => []IdleMeansStopped
<1>1. ASSUME SInv, ~joinable, \A c \in Callers : pc[c] \notin OwnerLabels
      PROVE  worker = "gone" /\ delivered = accepted
  BY <1>1, PipelineConstants, PipeProofs!Rested DEF SInv, Control, HandlesPart
<1>2. ASSUME SInv, ~joinable
      PROVE  worker = "gone"
  BY <1>2 DEF SInv, PipeProofs!IInv, PipeProofs!Phases
<1>3. ASSUME SInv, Sup, status = "Idle"
      PROVE  /\ replay \in {"off", "done"} /\ ~replayJoinable
             /\ worker = "gone" /\ delivered = accepted
             /\ \A s \in {Ws, Ipc} : pc[s] = "off" /\ ~up[s]
             /\ clientsMutex = Free /\ wsMutex = Free
  <2>1. Down /\ main \notin {"init", "start"}
    BY <1>3 DEF Sup, Reports
  <2>2. /\ replay \in {"off", "done"}
        /\ \A s \in {Ws, Ipc} : pc[s] = "off" /\ ~up[s]
    BY <1>3, <2>1 DEF SInv, Control, ServersPart, HandlesPart, Down, ReplayEnded
  <2>3. clientsMutex = Free /\ wsMutex = Free
    BY <1>3, <2>2 DEF SInv, Control, LocksPart
  <2>5. \A c \in Callers : pc[c] \notin OwnerLabels
    BY <1>3, <2>1, <2>2 DEF Sup, Reports, Roles, StartLabels, StopLabels, Stop1, Stop2, OwnerLabels
  <2> QED
    BY <1>1, <1>3, <2>1, <2>2, <2>3, <2>5 DEF Down
<1>4. SInv /\ Sup /\ announced = "idle" => worker # "notify"
  BY <1>2 DEF Sup, Reports
<1>5. TypeOK /\ SInv /\ Sup => IdleMeansStopped
  BY <1>3, <1>4 DEF IdleMeansStopped
<1> QED
  BY <1>5, SessionTypes, SessionInvariance, SupervisedInvariance, PTL

-----------------------------------------------------------------------------
(* Locks and joins.                                                        *)

(* A handler runs under its server's mutex.  Start() may be run by a       *)
(* WebSocket client, and main() and the signal handler may do whatever     *)
(* they do; a handler that stops the session, which joins the thread it is *)
(* run by, and one of IpcServer that sends, which locks the mutex it is    *)
(* run under, are excluded: they wait for themselves.                      *)
Unentangled ==
    /\ WsVerbs \cap {"stop", "configure"} = {}
    /\ IpcVerbs \subseteq {"set_speed"}

\* What a server's thread may be executing then.
Handlers ==
    /\ pc[Ws] \in StartLabels \cup ServeLabels
    /\ pc[Ipc] \in {"off", "loop", "select", "reply", "set_speed"}

(* Its thread comes to execute nothing else.                               *)
LEMMA HandlersStep ==
    ASSUME Unentangled
    PROVE  SInv /\ Handlers /\ [Next]_vars => Handlers'
<1> SUFFICES ASSUME SInv, Handlers, [Next]_vars PROVE Handlers'
  OBVIOUS
<1> USE DEF At, Go, Return
<1>1. DOMAIN pc = Callers
  BY DEF SInv, Control, ServersPart
<1>2. CASE pc'[Ws] = pc[Ws] /\ pc'[Ipc] = pc[Ipc]
  BY <1>2 DEF Handlers
<1>3. ASSUME NEW c \in Callers, CallStep(c) PROVE Handlers'
  <2>1. CASE c = Ipc
    <3>1. AnswerStatus(c) /\ pc[c] = "set_speed"
      BY <1>3, <2>1 DEF Handlers, CallStep, StartBegin, StartOpen, StartFailed, StartServer,
         StartPipe, StartStatus, StartAnnounce, StartRunning, StartThread, StopBegin,
         StopUnpause, StopJoinReplay, StopPipe, StopClose, StopAnnounce, StopIpc, StopWs,
         StopStatus, PauseBegin, ResumeBegin, SetPaused, PauseStatus, PauseAnnounce,
         Reconfigure, DestroyPipe, ReplacePipe, ReplaceServers, Acknowledge, AnswerStatus
    <3> QED
      BY <1>1, <2>1, <3>1 DEF AnswerStatus, Home, Handlers
  <2>2. CASE c # Ipc
    <3>1. pc'[Ipc] \in {pc[Ipc], "loop"}
      BY <1>1, <1>3, <2>2 DEF CallStep, StartBegin, StartOpen, StartFailed, StartServer,
         StartPipe, HandleContended, StartStatus, StartAnnounce, StartRunning, StartThread,
         StopBegin, StopUnpause, StopJoinReplay, StopPipe, StopClose, StopAnnounce, StopIpc,
         StopWs, StopStatus, PauseBegin, ResumeBegin, SetPaused, PauseStatus, PauseAnnounce,
         Reconfigure, DestroyPipe, ReplacePipe, ReplaceServers, Acknowledge, AnswerStatus
    <3>2. CASE c = Ws
      <4>1. pc'[Ws] \in StartLabels \cup ServeLabels
        BY <1>1, <1>3, <3>2 DEF Handlers, StartLabels, ServeLabels, Home, CallStep, StartBegin,
           StartOpen, StartFailed, StartServer, StartPipe, HandleContended, StartStatus,
           StartAnnounce, StartRunning, StartThread, StopBegin, StopUnpause, StopJoinReplay,
           StopPipe, StopClose, StopAnnounce, StopIpc, StopWs, StopStatus, PauseBegin,
           ResumeBegin, SetPaused, PauseStatus, PauseAnnounce, Reconfigure, DestroyPipe,
           ReplacePipe, ReplaceServers, Acknowledge, AnswerStatus
      <4> QED
        BY <3>1, <4>1 DEF Handlers
    <3>3. CASE c # Ws
      <4>1. pc'[Ws] \in {pc[Ws], "loop"}
        BY <1>1, <1>3, <3>3 DEF CallStep, StartBegin, StartOpen, StartFailed, StartServer,
           StartPipe, HandleContended, StartStatus, StartAnnounce, StartRunning, StartThread,
           StopBegin, StopUnpause, StopJoinReplay, StopPipe, StopClose, StopAnnounce, StopIpc,
           StopWs, StopStatus, PauseBegin, ResumeBegin, SetPaused, PauseStatus, PauseAnnounce,
           Reconfigure, DestroyPipe, ReplacePipe, ReplaceServers, Acknowledge, AnswerStatus
      <4> QED
        BY <3>1, <4>1 DEF Handlers, ServeLabels
    <3> QED
      BY <3>2, <3>3
  <2> QED
    BY <2>1, <2>2
<1>4. ASSUME NEW s \in {Ws, Ipc}, ServerStep(s) PROVE Handlers'
  <2>1. WsVerbs \subseteq StartLabels \cup ServeLabels
    BY ConstantsAssumption DEF Unentangled, Verbs, StartLabels, ServeLabels
  <2>2. /\ \A d \in Callers : d # s => pc'[d] = pc[d]
        /\ pc'[s] \in {"off", "loop", "select"} \cup (IF s = Ws THEN WsVerbs ELSE IpcVerbs)
    BY <1>1, <1>4 DEF ServerStep, ServerTest, SelectTimeout, ServerReply, ServerCommand
  <2> QED
    BY <2>1, <2>2 DEF Handlers, Unentangled, ServeLabels
<1>5. ReplayThread \/ EstimatorStep => pc' = pc
  BY DEF ReplayThread, ReplayTest, ReplayPause, ReplayRead, ReplayPush, ReplayEnd, ReplayAnnounce,
     EstimatorStep
<1>6. MainThread \/ Signal => pc'[Ws] = pc[Ws] /\ pc'[Ipc] = pc[Ipc]
  BY <1>1 DEF MainThread, MainStart, MainStarted, MainPoll, MainDestroy, MainExit, MainCall, Signal
<1>7. UNCHANGED vars => pc' = pc
  BY DEF vars
<1> QED
  BY <1>2, <1>3, <1>4, <1>5, <1>6, <1>7 DEF Next

\* No IPC thread has been left to itself.
Attended == DOMAIN op = Callers /\ op[Ipc] = "none"

(* That takes a "configure" of an IPC client.                              *)
LEMMA AttendedStep == Handlers /\ Attended /\ [Next]_vars => Attended'
<1>1. CASE UNCHANGED vars
  BY <1>1 DEF vars, Attended
<1>2. CASE Signal
  BY <1>2 DEF Signal, Attended
<1>3. ASSUME NEW c \in Callers, CallStep(c), Handlers PROVE op' = op
  BY <1>3 DEF Handlers, At, CallStep, StartBegin, StartOpen, StartFailed, StartServer,
     StartPipe, StartStatus, StartAnnounce, StartRunning, StartThread, StopBegin, StopUnpause,
     StopJoinReplay, StopPipe, StopClose, StopAnnounce, StopIpc, StopWs, StopStatus,
     PauseBegin, ResumeBegin, SetPaused, PauseStatus, PauseAnnounce, Reconfigure, DestroyPipe,
     ReplaceServers, Acknowledge, AnswerStatus
<1>4. CASE (\E s \in {Ws, Ipc} : ServerStep(s)) \/ ReplayThread \/ EstimatorStep \/ MainThread
  <2>1. op' = op
    BY <1>4 DEF ServerStep, ServerTest, SelectTimeout, ServerReply, ServerCommand, ReplayThread,
       ReplayTest, ReplayPause, ReplayRead, ReplayPush, ReplayEnd, ReplayAnnounce, EstimatorStep,
       MainThread, MainStart, MainStarted, MainPoll, MainDestroy, MainExit, MainCall
  <2> QED
    BY <2>1 DEF Attended
<1> QED
  BY <1>1, <1>2, <1>3, <1>4 DEF Next, Attended

(* Who waits for whom follows the order Ipc, {Ws, Replay}, Estimator, Sig, *)
(* Main: a thread only waits for ones before it.                           *)
LEMMA WaitsInOrder ==
    ASSUME SInv, Handlers, Attended
    PROVE  /\ WaitsFor(Ipc) = {}
           /\ WaitsFor(Ws) \subseteq {Ipc}
           /\ WaitsFor(Replay) \subseteq {Ipc}
           /\ WaitsFor(Estimator) \subseteq {Ipc, Ws}
           /\ WaitsFor(Sig) \subseteq {Ipc, Ws, Replay, Estimator}
           /\ WaitsFor(Main) \subseteq {Ipc, Ws, Replay, Estimator, Sig}
<1> USE DEF WaitsFor, Replay, Estimator, NeedsClients, IpcNeedsClients, Free
<1>1. {clientsMutex} \ {Free} \subseteq {Ipc} /\ {wsMutex} \ {Free} \subseteq {Ws}
  BY DEF SInv, Control, LocksPart
<1>2. WaitsFor(Ipc) = {}
  BY DEF Handlers, Attended
<1>3. WaitsFor(Ws) \subseteq {Ipc}
  BY <1>1 DEF Handlers, StartLabels, ServeLabels
<1>4. WaitsFor(Replay) \subseteq {Ipc}
  BY <1>1
<1>5. WaitsFor(Estimator) \subseteq {Ipc, Ws}
  BY <1>1
<1>6. WaitsFor(Sig) \subseteq {Ipc, Ws, Replay, Estimator}
  BY <1>1
<1>7. WaitsFor(Main) \subseteq {Ipc, Ws, Replay, Estimator, Sig}
  BY <1>1
<1> QED
  BY <1>2, <1>3, <1>4, <1>5, <1>6, <1>7

(* No circle of mutexes and joins closes, in whatever phase a signal       *)
(* arrives, while main() and the signal handler start and stop the session *)
(* and WebSocket clients start it, again and again.                        *)
THEOREM DeadlockFree == ASSUME Unentangled PROVE Spec => []NoDeadlock
<1>1. Init => Handlers /\ Attended
  BY DEF Init, Handlers, Attended, StartLabels, ServeLabels
<1>2. SInv /\ Handlers /\ Attended => NoDeadlock
  <2> SUFFICES ASSUME SInv, Handlers, Attended, NEW S \in (SUBSET Threads) \ {{}},
                      \A t \in S : WaitsFor(t) \cap S # {}
               PROVE  FALSE
    BY Zenon DEF NoDeadlock
  <2>1. Ipc \notin S
    BY WaitsInOrder
  <2>2. Ws \notin S /\ Replay \notin S
    BY <2>1, WaitsInOrder
  <2>3. Estimator \notin S
    BY <2>1, <2>2, WaitsInOrder
  <2>4. Sig \notin S
    BY <2>1, <2>2, <2>3, WaitsInOrder
  <2>5. Main \notin S
    BY <2>1, <2>2, <2>3, <2>4, WaitsInOrder
  <2>6. PICK t \in S : t \in Threads
    BY Zenon
  <2> QED
    BY <2>1, <2>2, <2>3, <2>4, <2>5, <2>6 DEF Threads
<1>3. SInv /\ Handlers /\ Attended /\ [Next]_vars => Handlers' /\ Attended'
  BY HandlersStep, AttendedStep
<1> QED
  BY <1>1, <1>2, <1>3, SessionInvariance, PTL DEF Spec

-----------------------------------------------------------------------------
(* The status.                                                             *)

(* No client pauses.  Pause() reads the status, and stores it later: the   *)
(* replay may end in between (session.cpp).                                *)
Unpaused == "pause" \notin WsVerbs \cup IpcVerbs

\* In Start(), before it stores the status.
NotYet == {"start", "open", "start_failed", "start_ipc", "start_ws", "start_pipe",
           "spawn_worker", "start_status"}

\* The status stays what it is in a handler.
NeverPaused ==
    /\ status # "Paused"
    /\ \A s \in {Ws, Ipc} : pc[s] \in ServeLabels \ {"pause", "pause_set", "pause_status", "pause_announce",
                                                     "resume_set", "resume_status", "resume_announce"}

\* The replay thread leaves its loop by itself only behind the last record.
ReadToTheEnd ==
    /\ replay = "end" /\ sessionRunning => left = 0
    /\ status = "Completed" => left \in {0, Closed}

\* Running is stored by Start() alone; a Stop() that finds the session running
\* replaces it before it returns.
RunningReplays ==
    /\ main = "init" \/ pc[Main] \in NotYet => status \notin {"Running", "Completed"}
    /\ main \in {"start", "poll"} /\ pc[Main] = "home" /\ pc[Sig] \in {"off", "stop"} /\ status = "Running"
       => sessionRunning /\ replay \notin {"off", "completed", "done"}

Truth == NeverPaused /\ ReadToTheEnd /\ RunningReplays

(* A caller that is in no call takes no step of one.                       *)
LEMMA CallLabels == \A c \in Callers : CallStep(c) => pc[c] \notin {"off", "home", "loop", "select", "reply"}
  BY DEF CallStep, At, StartBegin, StartOpen, StartFailed, StartServer, StartPipe, StartStatus,
     StartAnnounce, StartRunning, StartThread, StopBegin, StopUnpause, StopJoinReplay, StopPipe,
     StopClose, StopAnnounce, StopIpc, StopWs, StopStatus, PauseBegin, ResumeBegin, SetPaused,
     PauseStatus, PauseAnnounce, Reconfigure, DestroyPipe, ReplaceServers, Acknowledge, AnswerStatus

(* Every step keeps the status true.                                       *)
LEMMA TruthStep ==
    ASSUME Supervised, Unpaused
    PROVE  SInv /\ Sup /\ Ranges /\ Truth /\ [Next]_vars => Truth'
<1> SUFFICES ASSUME SInv, Sup, Ranges, Truth, [Next]_vars PROVE Truth'
  OBVIOUS
<1> USE DEF At, Go, Return, replayVars, serverVars, lockVars, sessionVars
<1>0. /\ DOMAIN pc = Callers
      /\ \A s \in {Ws, Ipc} : pc[s] \in ServeLabels
      /\ pc[Main] \in {"home"} \cup StartLabels \cup StopLabels
      /\ pc[Sig] \in {"off"} \cup StopLabels
      /\ pc[Sig] # "off" => main = "poll"
      /\ pc[Main] \in StartLabels => main = "start" /\ replay = "off"
      /\ pc[Main] \in StartLabels => (sessionRunning <=> pc[Main] = "start_thread")
      /\ pc[Main] \in StopLabels => main \in {"stop", "destroy"}
      /\ main = "init" => ~sessionRunning /\ replay = "off"
      /\ left \in {Closed} \cup 0..Records
      /\ \A c \in Drivers : pc[c] \in Stop1 => ~sessionRunning
      /\ NeverPaused /\ ReadToTheEnd /\ RunningReplays
  BY DEF SInv, Control, ServersPart, Sup, Roles, Unstarted, Stages, Down, Ranges, Counts, Truth
<1>1. CASE UNCHANGED vars
  BY <1>0, <1>1 DEF vars, Truth, NeverPaused, ReadToTheEnd, RunningReplays
<1>2. ASSUME NEW c \in Callers, CallStep(c), pc[c] \in StartLabels PROVE Truth'
  <2>1. c = Main /\ main = "start" /\ replay = "off"
    BY <1>0, <1>2 DEF StartLabels, StopLabels, Stop1, Stop2, Stop3, Stop4, Stop5, ServeLabels
  <2>2. \/ StartBegin(c) \/ StartOpen(c) \/ StartFailed(c) \/ StartStatus(c) \/ StartAnnounce(c)
        \/ StartRunning(c) \/ StartThread(c)
        \/ StartPipe(c)
        \/ StartServer(c, Ipc, "start_ipc", "start_ws") \/ StartServer(c, Ws, "start_ws", "start_pipe")
    BY <1>2 DEF StartLabels, CallStep, StopBegin, StopUnpause, StopJoinReplay, StopPipe,
       StopClose, StopAnnounce, StopIpc, StopWs, StopStatus, PauseBegin, ResumeBegin, SetPaused,
       PauseStatus, PauseAnnounce, Reconfigure, DestroyPipe, ReplacePipe, ReplaceServers,
       Acknowledge, AnswerStatus
  <2>3. main' = main /\ pc'[Sig] = pc[Sig] /\ replay' \in {"off", "check"}
    BY <1>0, <2>1, <2>2 DEF StartBegin, StartOpen, StartFailed, StartServer, StartPipe,
       HandleContended, StartStatus, StartAnnounce, StartRunning, StartThread
  <2>4. \A s \in {Ws, Ipc} : pc'[s] \in {pc[s], "loop"}
    BY <1>0, <2>1, <2>2 DEF StartBegin, StartOpen, StartFailed, StartServer, StartPipe,
       HandleContended, StartStatus, StartAnnounce, StartRunning, StartThread
  <2>5. /\ status' \in {status, "Error", "Running"}
        /\ pc'[Main] \in NotYet => status' \notin {"Running", "Completed"}
        /\ status' = "Completed" => left' = left
        /\ pc'[Main] = "home" /\ status' = "Running" => sessionRunning' /\ replay' = "check"
    BY <1>0, <2>1, <2>2 DEF StartBegin, StartOpen, StartFailed, StartServer, StartPipe,
       HandleContended, StartStatus, StartAnnounce, StartRunning, StartThread, NotYet,
       RunningReplays, NeverPaused, Home
  <2> QED
    BY <1>0, <2>1, <2>3, <2>4, <2>5 DEF Truth, NeverPaused, ReadToTheEnd, RunningReplays,
       ServeLabels
<1>3. ASSUME NEW c \in Callers, CallStep(c), pc[c] \in StopLabels PROVE Truth'
  <2>1. c \in Drivers
    BY <1>0, <1>3 DEF StopLabels, Stop1, Stop2, Stop3, Stop4, Stop5, ServeLabels
  <2>2. /\ main' = main /\ \A d \in Callers : d # c => pc'[d] = pc[d]
        /\ left' # left => left' = Closed /\ pc[c] \in Stop1 /\ UNCHANGED sessionRunning
        /\ status' \in {status, "Idle"}
        /\ replay' \in {replay, "pause"}
        /\ replay' = "end" => replay = "end"
        /\ pc'[c] \notin NotYet
        /\ sessionRunning' => sessionRunning
        /\ pc'[c] \in {"off", "home", "stop"} /\ status' # "Idle" => ~sessionRunning /\ replay' = replay
        /\ pc[c] # "stop" => pc'[c] # "stop" /\ (pc'[c] \in {"off", "home"} => status' = "Idle")
        /\ pc[c] = "stop" => status' = status
    <3>1. c # Ws
      BY <2>1 DEF Sup, Roles
    <3>2. CASE StopClose(c)
      BY <1>0, <2>1, <3>2 DEF StopClose, StopLabels, Stop1, Stop2, Stop3, NotYet
    <3>3. CASE StopIpc(c)
      BY <1>0, <2>1, <3>1, <3>3 DEF StopIpc, NotYet
    <3>4. CASE StopWs(c)
      BY <1>0, <2>1, <3>1, <3>4 DEF StopWs, NotYet
    <3>5. CASE StopBegin(c)
      BY <1>0, <2>1, <3>5 DEF StopBegin, Home, NotYet
    <3>6. CASE StopUnpause(c)
      BY <1>0, <2>1, <3>6 DEF StopUnpause, ReplayWoken, NotYet
    <3>7. CASE StopJoinReplay(c) \/ StopAnnounce(c)
      BY <1>0, <2>1, <3>7 DEF StopJoinReplay, StopAnnounce, NotYet
    <3>8. CASE StopPipe(c)
      BY <1>0, <2>1, <3>8 DEF StopPipe, HandleContended, NotYet
    <3>9. CASE StopStatus(c)
      BY <1>0, <2>1, <3>9 DEF StopStatus, Home, NotYet
    <3> QED
      BY <1>3, <3>2, <3>3, <3>4, <3>5, <3>6, <3>7, <3>8, <3>9 DEF CallStep, StartBegin,
         StartOpen, StartFailed, StartServer, StartPipe, StartStatus, StartAnnounce,
         StartRunning, StartThread, PauseBegin, ResumeBegin, SetPaused, PauseStatus,
         PauseAnnounce, Reconfigure, DestroyPipe, ReplaceServers, Acknowledge, AnswerStatus,
         StopLabels, Stop1, Stop2, Stop3, Stop4, Stop5
  <2> QED
    BY <1>0, <1>3, <2>1, <2>2 DEF Truth, NeverPaused, ReadToTheEnd, RunningReplays
<1>4. ASSUME NEW c \in Callers, CallStep(c), pc[c] \in ServeLabels PROVE Truth'
  <2>1. c \in {Ws, Ipc}
    BY <1>0, <1>4, CallLabels DEF ServeLabels, StartLabels, StopLabels, Stop1, Stop2, Stop3,
       Stop4, Stop5
  <2>2. ResumeBegin(c) \/ AnswerStatus(c)
    BY <1>0, <1>4, <2>1 DEF NeverPaused, CallStep, StartBegin, StartOpen, StartFailed,
       StartServer, StartPipe, StartStatus, StartAnnounce, StartRunning, StartThread, StopBegin,
       StopUnpause, StopJoinReplay, StopPipe, StopClose, StopAnnounce, StopIpc, StopWs,
       StopStatus, PauseBegin, SetPaused, PauseStatus, PauseAnnounce, Reconfigure, DestroyPipe,
       ReplacePipe, ReplaceServers, Acknowledge, ServeLabels
  <2>3. /\ pc'[c] = "reply" /\ \A d \in Callers : d # c => pc'[d] = pc[d]
        /\ UNCHANGED <<status, sessionRunning, replay, left, main>>
    BY <1>0, <2>1, <2>2 DEF ResumeBegin, AnswerStatus, NeverPaused, Home
  <2> QED
    BY <1>0, <2>1, <2>3 DEF Truth, NeverPaused, ReadToTheEnd, RunningReplays, ServeLabels
<1>5. ASSUME NEW s \in {Ws, Ipc}, ServerStep(s) PROVE Truth'
  <2>1. /\ pc'[s] \in {"off", "loop", "select"} \cup WsVerbs \cup IpcVerbs
        /\ \A d \in Callers : d # s => pc'[d] = pc[d]
        /\ UNCHANGED <<status, sessionRunning, replay, left, main>>
    BY <1>0, <1>5 DEF ServerStep, ServerTest, SelectTimeout, ServerReply, ServerCommand
  <2>2. WsVerbs \cup IpcVerbs \subseteq {"resume", "set_speed", "get_status", "get_schema", "unknown"}
    BY ConstantsAssumption DEF Supervised, Unpaused, Verbs
  <2> QED
    BY <1>0, <2>1, <2>2 DEF Truth, NeverPaused, ReadToTheEnd, RunningReplays, ServeLabels
<1>6. CASE ReplayThread
  <2>1. /\ UNCHANGED <<pc, sessionRunning, main>>
        /\ replay # "off" /\ replay' # "off"
        /\ status' \in {status, "Completed"}
        /\ left \in {0, Closed} => left' = left
    BY <1>0, <1>6 DEF ReplayThread, ReplayTest, ReplayPause, ReplayRead, ReplayPush, ReplayEnd,
       ReplayAnnounce, ReplayStep, Closed
  <2>2. /\ replay' = "end" /\ sessionRunning => left' = 0
        /\ status' = "Completed" => left' \in {0, Closed}
        /\ status' = "Running" /\ sessionRunning /\ replay \notin {"off", "completed", "done"}
             => replay' \notin {"completed", "done"}
    <3>1. CASE ReplayEnd
      BY <1>0, <3>1 DEF ReplayEnd, ReplayStep, EndedNaturally, ReadToTheEnd
    <3>2. CASE ReplayRead
      BY <1>0, <3>2 DEF ReplayRead, ReplayStep, ReadToTheEnd, Closed
    <3>3. CASE ReplayTest \/ ReplayPause \/ ReplayPush \/ ReplayAnnounce
      BY <1>0, <3>3 DEF ReplayTest, ReplayPause, ReplayPush, ReplayAnnounce, ReplayStep,
         ReadToTheEnd
    <3> QED
      BY <1>6, <3>1, <3>2, <3>3 DEF ReplayThread
  <2>3. main # "init" /\ pc[Main] \notin NotYet
    BY <1>0, <2>1 DEF NotYet, StartLabels
  <2> QED
    BY <1>0, <2>1, <2>2, <2>3 DEF Truth, NeverPaused, ReadToTheEnd, RunningReplays
<1>7. CASE EstimatorStep
  BY <1>0, <1>7 DEF EstimatorStep, Truth, NeverPaused, ReadToTheEnd, RunningReplays
<1>8. CASE MainThread \/ Signal
  <2>1. /\ UNCHANGED <<status, sessionRunning, replay, left>>
        /\ pc'[Ws] = pc[Ws] /\ pc'[Ipc] = pc[Ipc]
        /\ main' # "init"
        /\ pc'[Main] \in NotYet => main = "init" \/ pc[Main] \in NotYet
        /\ main' \in {"start", "poll"} /\ pc'[Main] = "home" /\ pc'[Sig] \in {"off", "stop"}
             => main \in {"start", "poll"} /\ pc[Main] = "home" /\ pc[Sig] \in {"off", "stop"}
    BY <1>0, <1>8 DEF MainThread, MainStart, MainStarted, MainPoll, MainDestroy, MainExit, MainCall,
       Signal, NotYet, Supervised
  <2> QED
    BY <1>0, <2>1 DEF Truth, NeverPaused, ReadToTheEnd, RunningReplays
<1>9. \A c \in Callers : CallStep(c) => pc[c] \in StartLabels \cup StopLabels \cup ServeLabels
  BY <1>0, CallLabels
<1> QED
  BY <1>1, <1>2, <1>3, <1>4, <1>5, <1>6, <1>7, <1>8, <1>9 DEF Next

(* "Running: replay and pipeline are active" (session.hpp:51): seen by a   *)
(* supervised main() while no call is in progress, Running means that the  *)
(* replay has not ended; Completed means that every record was read.       *)
THEOREM StatusIsTruthful == ASSUME Supervised, Unpaused PROVE Spec => []StatusTruthful
<1>1. Init => Truth
  BY DEF Init, Truth, NeverPaused, ReadToTheEnd, RunningReplays, ServeLabels, NotYet
<1>2. SInv /\ Sup /\ Truth => StatusTruthful
  <2> SUFFICES ASSUME SInv, Sup, Truth PROVE StatusTruthful
    OBVIOUS
  <2>1. main = "poll" /\ (\A c \in Callers : ~InCall(c)) => pc[Main] = "home" /\ pc[Sig] = "off"
    BY DEF InCall, Sup, Roles, StartLabels, StopLabels, Stop1, Stop2, Stop3, Stop4, Stop5
  <2> QED
    BY <2>1 DEF StatusTruthful, Truth, NeverPaused, ReadToTheEnd, RunningReplays
<1>3. SInv /\ Sup /\ Ranges /\ Truth /\ [Next]_vars => Truth'
  BY TruthStep
<1> QED
  BY <1>1, <1>2, <1>3, RangesInit, RangesStep, SupervisedInvariance, SessionInvariance, PTL DEF Spec

=============================================================================
