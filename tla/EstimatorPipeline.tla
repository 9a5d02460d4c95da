-------------------------- MODULE EstimatorPipeline --------------------------
(***************************************************************************)
(* EstimatorPipeline and the MeasurementQueue it owns.  Sensor threads     *)
(* (Producers) call Push(), one worker thread runs RunLoop(), and one      *)
(* owner thread calls Start(), Stop() and Reset().                         *)
(*                                                                         *)
(* One action is one atomic section: an atomic exchange or load of         *)
(* running_, a critical section of the queue's mutex, one call of the      *)
(* estimator, one call of one observer, or a join that succeeds.           *)
(***************************************************************************)
EXTENDS Naturals, Sequences

CONSTANTS
    Producers,          \* the threads that call Push()
    Measurement,        \* the measurements they push, each at most once
    QueueCapacity,      \* MeasurementQueue::capacity_
    NumObservers,       \* observers_.size(), fixed before Start()
    NoMeasurement,      \* "the thread holds no measurement"
    EstimatorReset,     \* what an observer records for OnEstimatorReset()
    MaxStarts,          \* bound: calls of Start() that spawn a worker
    MaxResets           \* bound: calls of Reset()

ASSUME ConstantsAssumption ==
    /\ QueueCapacity \in Nat \ {0}
    /\ NumObservers \in Nat
    /\ NoMeasurement \notin Measurement
    /\ EstimatorReset \notin Measurement
    /\ MaxStarts \in Nat
    /\ MaxResets \in Nat

Observers == 1..NumObservers

VARIABLES
    running,    \* running_
    shutdown,   \* queue_.shutdown_, which nothing ever clears
    queue,      \* queue_.queue_
    joinable,   \* thread_.joinable()
    worker,     \* where RunLoop() is; "gone" when none runs
    current,    \* the measurement RunLoop() has popped
    turn,       \* the observer NotifyObservers() calls next
    hasState,   \* whether estimator_->LatestState() holds a value
    owner,      \* where the owner's Start() or Stop() is
    pending,    \* per producer: past the running_ test, before the queue
    fresh,      \* measurements nobody has pushed yet
    starts,     \* workers started so far (bounded by MaxStarts)
    resets,     \* Reset() calls so far (bounded by MaxResets)
    accepted,   \* history: measurements whose Push() returned true
    delivered,  \* history: measurements AddMeasurement() has processed
    observed    \* history: per observer, the callbacks it received

queueVars == <<queue, shutdown>>
workerVars == <<worker, current, turn, hasState>>
ownerVars == <<running, joinable, owner, starts, resets>>
producerVars == <<pending, fresh>>
histories == <<accepted, delivered, observed>>
vars == <<queueVars, workerVars, ownerVars, producerVars, histories>>

Init ==
    /\ running = FALSE
    /\ shutdown = FALSE
    /\ queue = <<>>
    /\ joinable = FALSE
    /\ worker = "gone"
    /\ current = NoMeasurement
    /\ turn = 1
    /\ hasState = FALSE
    /\ owner = "idle"
    /\ pending = [p \in Producers |-> NoMeasurement]
    /\ fresh = Measurement
    /\ starts = 0
    /\ resets = 0
    /\ accepted = <<>>
    /\ delivered = <<>>
    /\ observed = [o \in Observers |-> <<>>]

-----------------------------------------------------------------------------
(* Producers.  Push() reads running_ without the queue's mutex, so Stop()  *)
(* may run to its end between the two actions.                             *)

PushCheck(p, m) ==
    /\ pending[p] = NoMeasurement
    /\ m \in fresh
    /\ fresh' = fresh \ {m}
    /\ pending' = [pending EXCEPT ![p] = IF running THEN m ELSE @]
    /\ UNCHANGED <<queueVars, workerVars, ownerVars, histories>>

\* A mutant: nobody is notified.
WakeNobody(w) == w
\* notify_one(): the one consumer, if it waits, is to test its predicate again.
Wake(w) == IF w = "waiting" THEN "pop" ELSE w

\* MeasurementQueue::Push() refuses when shutting down or full.
QueueAcceptsUntilFull == Len(queue) < QueueCapacity     \* a mutant
QueueAccepts == ~shutdown /\ Len(queue) < QueueCapacity

\* Where push_back() puts the measurement.
PushedInFront(m) == <<m>> \o queue                     \* a mutant
Pushed(m) == Append(queue, m)

QueuePush(p) ==
    /\ pending[p] # NoMeasurement
    /\ \/ /\ QueueAccepts
          /\ queue' = Pushed(pending[p])
          /\ accepted' = Append(accepted, pending[p])
          /\ worker' = Wake(worker)
       \/ /\ ~QueueAccepts
          /\ UNCHANGED <<queue, accepted, worker>>
    /\ pending' = [pending EXCEPT ![p] = NoMeasurement]
    /\ UNCHANGED <<shutdown, current, turn, hasState, ownerVars, fresh,
                   delivered, observed>>

-----------------------------------------------------------------------------
(* The worker thread: RunLoop() and the queue's blocking Pop().            *)

\* The queue's wait ends without a measurement: the loop is to exit.  The
\* mutant is a loop `while (!shutdown_)`, which leaves the rest undelivered.
ExitsAtShutdown == shutdown
Exits == queue = <<>> /\ shutdown

Pop ==
    /\ worker = "pop"
    /\ \/ /\ queue # <<>> /\ ~Exits
          /\ current' = Head(queue)
          /\ queue' = Tail(queue)
          /\ worker' = "update"
       \/ /\ Exits
          /\ worker' = "gone"
          /\ UNCHANGED <<queue, current>>
       \/ /\ queue = <<>> /\ ~Exits
          /\ worker' = "waiting"
          /\ UNCHANGED <<queue, current>>
    /\ UNCHANGED <<shutdown, turn, hasState, ownerVars, producerVars, histories>>

\* A wake-up nobody asked for: cv_.wait() tests its predicate again.
SpuriousWakeup ==
    /\ worker = "waiting"
    /\ worker' = "pop"
    /\ UNCHANGED <<queueVars, current, turn, hasState, ownerVars, producerVars,
                   histories>>

\* AddMeasurement() and, when it reports Accepted, LatestState().  The
\* estimator is any that, once it has a state, keeps one until Reset().
Update ==
    /\ worker = "update"
    /\ delivered' = Append(delivered, current)
    /\ \E report \in {"Accepted", "Other"} :
         /\ hasState' \in {hasState, TRUE}
         /\ IF report = "Accepted" /\ hasState' /\ NumObservers > 0
            THEN worker' = "notify" /\ turn' = 1 /\ UNCHANGED current
            ELSE worker' = "pop" /\ current' = NoMeasurement /\ UNCHANGED turn
    /\ UNCHANGED <<queueVars, ownerVars, producerVars, accepted, observed>>

\* for (auto* observer : observers_)
MoreObservers == turn < NumObservers

NotifyObserver ==
    /\ worker = "notify"
    /\ observed' = [observed EXCEPT ![turn] = Append(@, current)]
    /\ IF MoreObservers
       THEN turn' = turn + 1 /\ UNCHANGED <<worker, current>>
       ELSE worker' = "pop" /\ current' = NoMeasurement /\ UNCHANGED turn
    /\ UNCHANGED <<queueVars, hasState, ownerVars, producerVars, accepted,
                   delivered>>

-----------------------------------------------------------------------------
(* The owner thread: Start(), Stop() (also run by the destructor), Reset() *)

\* running_.exchange(true).  A second Start() on a running pipeline returns
\* at once and changes nothing.
StartExchange ==
    /\ owner = "idle" /\ ~running
    /\ starts < MaxStarts
    /\ running' = TRUE
    /\ starts' = starts + 1
    /\ owner' = "starting"
    /\ UNCHANGED <<joinable, resets, queueVars, workerVars, producerVars,
                   histories>>

SpawnWorker ==
    /\ owner = "starting"
    /\ joinable' = TRUE
    /\ worker' = "pop"
    /\ owner' = "idle"
    /\ UNCHANGED <<running, starts, resets, queueVars, current, turn, hasState,
                   producerVars, histories>>

\* running_.exchange(false).  Stop() on a stopped pipeline returns at once.
StopExchange ==
    /\ owner = "idle" /\ running
    /\ running' = FALSE
    /\ owner' = "stopping"
    /\ UNCHANGED <<joinable, starts, resets, queueVars, workerVars, producerVars,
                   histories>>

RequestShutdown ==
    /\ owner = "stopping"
    /\ shutdown' = TRUE
    /\ worker' = Wake(worker)
    /\ owner' = "joining"
    /\ UNCHANGED <<running, joinable, starts, resets, queue, current, turn,
                   hasState, producerVars, histories>>

\* thread_.join() returns when RunLoop() has; the mutant does not wait for it.
WorkerDetached == TRUE
WorkerEnded == worker = "gone"

Join ==
    /\ owner = "joining"
    /\ WorkerEnded
    /\ joinable' = FALSE
    /\ owner' = "idle"
    /\ UNCHANGED <<running, starts, resets, queueVars, workerVars, producerVars,
                   histories>>

\* "Must only be called when the pipeline is stopped": no thread runs, so
\* the estimator's Reset() and the calls of all observers are one step.
Reset ==
    /\ owner = "idle" /\ ~running
    /\ resets < MaxResets
    /\ resets' = resets + 1
    /\ hasState' = FALSE
    /\ observed' = [o \in Observers |-> Append(observed[o], EstimatorReset)]
    /\ UNCHANGED <<running, joinable, owner, starts, queueVars, worker, current,
                   turn, producerVars, accepted, delivered>>

-----------------------------------------------------------------------------
Worker == Pop \/ SpuriousWakeup \/ Update \/ NotifyObserver

Owner ==
    \/ StartExchange \/ SpawnWorker
    \/ StopExchange \/ RequestShutdown \/ Join
    \/ Reset

Producer == \E p \in Producers :
    \/ \E m \in Measurement : PushCheck(p, m)
    \/ QueuePush(p)

Next == Producer \/ Worker \/ Owner

(* Threads that can run are scheduled.  Nothing obliges a producer to push,*)
(* the owner to call Start() or Stop(), or a wake-up to be spurious.       *)
Fairness ==
    /\ WF_vars(Pop)
    /\ WF_vars(Update)
    /\ WF_vars(NotifyObserver)
    /\ WF_vars(SpawnWorker)
    /\ WF_vars(RequestShutdown)
    /\ WF_vars(Join)
    /\ \A p \in Producers : WF_vars(QueuePush(p))

Spec == Init /\ [][Next]_vars /\ Fairness

-----------------------------------------------------------------------------
(* Properties.                                                             *)

(* The range of every variable. *)
TypeOK ==
    /\ running \in BOOLEAN
    /\ shutdown \in BOOLEAN
    /\ queue \in Seq(Measurement) /\ Len(queue) <= QueueCapacity
    /\ joinable \in BOOLEAN
    /\ worker \in {"gone", "pop", "waiting", "update", "notify"}
    /\ current \in Measurement \cup {NoMeasurement}
    /\ (worker \in {"update", "notify"}) <=> (current # NoMeasurement)
    /\ turn \in Nat
    /\ worker = "notify" => turn \in Observers
    /\ hasState \in BOOLEAN
    /\ owner \in {"idle", "starting", "stopping", "joining"}
    /\ pending \in [Producers -> Measurement \cup {NoMeasurement}]
    /\ fresh \subseteq Measurement
    /\ starts \in 0..MaxStarts
    /\ resets \in 0..MaxResets
    /\ accepted \in Seq(Measurement)
    /\ delivered \in Seq(Measurement)
    /\ observed \in [Observers -> Seq(Measurement \cup {EstimatorReset})]

InFlight == IF worker = "update" THEN <<current>> ELSE <<>>

(* Every measurement whose Push() returned true is in exactly one place,   *)
(* and the places taken in order are the order of the pushes: nothing is   *)
(* lost, duplicated or reordered between Push() and AddMeasurement(),      *)
(* whatever Start(), Stop() and the producers do in the meantime.          *)
HandoffIntact == accepted = delivered \o InFlight \o queue

(* The condition variable loses no notification: a worker asleep in Pop()  *)
(* has nothing to take and has not been told to exit.                      *)
NoLostWakeup == worker = "waiting" => queue = <<>> /\ ~shutdown

(* Stop() "drains the queue and joins the thread": once it has returned,   *)
(* everything ever accepted has been processed, the queue stays empty and  *)
(* no worker is left that could touch the estimator, even if a producer    *)
(* had passed the running_ test of Push() before Stop() began.             *)
StopDrains ==
    shutdown /\ owner # "joining" =>
        /\ delivered = accepted
        /\ queue = <<>>
        /\ ~joinable => worker = "gone"

(* NotifyObservers() reaches all observers, in registration order, before  *)
(* the next measurement: whoever is registered later has seen the same     *)
(* callbacks, short of the one being distributed.                          *)
ObserversAgree ==
    \A i, j \in Observers : i < j =>
        observed[i] = IF worker = "notify" /\ i < turn /\ turn <= j
                      THEN Append(observed[j], current)
                      ELSE observed[j]

(* Every observer sees the states in the order in which the measurements   *)
(* behind them were pushed, and none twice.                                *)
ObservedInOrder ==
    \A o \in Observers :
        LET Place(m) == CHOOSE i \in 1..Len(accepted) : accepted[i] = m
        IN  \A i, j \in 1..Len(observed[o]) :
                i < j /\ EstimatorReset \notin {observed[o][i], observed[o][j]}
                => Place(observed[o][i]) < Place(observed[o][j])

\* While thread_ is not joinable observers are told of resets only.
QuietWhenStopped == ~joinable =>
    \A o \in Observers :
        observed'[o] \in {observed[o], Append(observed[o], EstimatorReset)}

(* An observer may be destroyed once the pipeline's Stop() has returned:   *)
(* no navigation state arrives while thread_ is not joinable, only the     *)
(* reset notification of the owner's own Reset() call.                     *)
NoLateNotification == [][QuietWhenStopped]_vars

(* A measurement that Push() accepted reaches the estimator even if Stop() *)
(* is called right after and even if no other push wakes the worker.       *)
AcceptedIsDelivered ==
    \A m \in Measurement :
        (\E i \in 1..Len(accepted) : accepted[i] = m)
            ~> (\E i \in 1..Len(delivered) : delivered[i] = m)

(* The pipeline implements the abstract hand-off.                          *)
Handoff == INSTANCE MeasurementHandoff WITH
    Capacity <- QueueCapacity + 1,
    closed <- shutdown,
    stopped <- shutdown /\ (owner # "joining" \/ starts > 1)

ImplementsHandoff == Handoff!Spec
=============================================================================
