----------------------- MODULE EstimatorPipelineProofs -----------------------
(***************************************************************************)
(* Theorems about EstimatorPipeline for any number of producers, any set   *)
(* of measurements, any queue capacity, any number of observers and any    *)
(* number of restarts.  The inductive invariant IInv adds to the           *)
(* properties of EstimatorPipeline how the owner's place in Start() and    *)
(* Stop() relates to the flags and to the worker.                          *)
(***************************************************************************)
EXTENDS EstimatorPipeline, SequenceTheorems, TLAPS

USE DEF queueVars, workerVars, ownerVars, producerVars, histories, Observers

(* Where the owner is determines running_ and thread_.joinable(); a worker *)
(* that ended by itself was told to, and left the queue empty; shutdown_   *)
(* is set by the first Stop() and every later worker finds it set.         *)
Phases ==
    /\ owner = "idle" => (running <=> joinable)
    /\ owner = "starting" => running /\ ~joinable
    /\ owner = "stopping" => ~running /\ joinable
    /\ owner = "joining" => ~running /\ joinable /\ shutdown
    /\ ~joinable => worker = "gone"
    /\ joinable /\ worker = "gone" => shutdown /\ queue = <<>>
    /\ shutdown => starts >= 1
    /\ ~shutdown => starts = IF running \/ joinable THEN 1 ELSE 0
    /\ shutdown /\ (running \/ joinable) /\ owner # "joining" => starts > 1
    /\ shutdown /\ owner # "joining" => worker \in {"gone", "pop"}

IInv == TypeOK /\ HandoffIntact /\ NoLostWakeup /\ Phases /\ StopDrains

-----------------------------------------------------------------------------
(* Facts about sequences the hand-off rests on.                            *)

(* A queue splits into its head and its tail. *)
LEMMA HeadAndTail ==
    ASSUME NEW S, NEW s \in Seq(S), s # <<>>
    PROVE  s = <<Head(s)>> \o Tail(s)
<1> DEFINE t == <<Head(s)>> \o Tail(s)
<1>1. /\ Head(s) \in S
      /\ Tail(s) \in Seq(S)
      /\ Len(Tail(s)) = Len(s) - 1
      /\ \A i \in 1..Len(Tail(s)) : Tail(s)[i] = s[i + 1]
  BY HeadTailProperties
<1>2. <<Head(s)>> \in Seq(S) /\ Len(<<Head(s)>>) = 1 /\ <<Head(s)>>[1] = Head(s)
  BY <1>1
<1>3. /\ t \in Seq(S)
      /\ Len(t) = 1 + Len(Tail(s))
      /\ \A i \in 1..(1 + Len(Tail(s))) :
            t[i] = IF i <= 1 THEN <<Head(s)>>[i] ELSE Tail(s)[i - 1]
  BY <1>1, <1>2, ConcatProperties
<1>4. Len(s) \in Nat /\ Len(t) = Len(s) /\ Head(s) = s[1]
  BY <1>1, <1>3, LenProperties
<1>5. ASSUME NEW i \in 1..Len(s) PROVE s[i] = t[i]
  <2>1. CASE i = 1
    BY <2>1, <1>2, <1>3, <1>4
  <2>2. CASE i # 1
    <3>1. i - 1 \in 1..Len(Tail(s))
      BY <2>2, <1>1, <1>4
    <3>2. Tail(s)[i - 1] = s[(i - 1) + 1]
      BY <3>1, <1>1
    <3> QED BY <2>2, <3>1, <3>2, <1>3, <1>4
  <2> QED BY <2>1, <2>2
<1> HIDE DEF t
<1>6. s = t
  BY <1>3, <1>4, <1>5, SeqEqual
<1> QED BY <1>6 DEF t

(* An element added behind d \o f \o q is added behind q. *)
LEMMA AppendBehind ==
    ASSUME NEW S, NEW d \in Seq(S), NEW f \in Seq(S), NEW q \in Seq(S), NEW e \in S
    PROVE  Append(d \o f \o q, e) = d \o f \o Append(q, e)
<1>1. d \o f \in Seq(S) /\ d \o f \o q \in Seq(S) /\ <<e>> \in Seq(S)
  BY ConcatProperties
<1>2. Append(d \o f \o q, e) = (d \o f \o q) \o <<e>>
  BY <1>1, AppendIsConcat
<1>3. (d \o f \o q) \o <<e>> = d \o f \o (q \o <<e>>)
  BY <1>1, ConcatAssociative
<1>4. Append(q, e) = q \o <<e>>
  BY AppendIsConcat
<1> QED BY <1>2, <1>3, <1>4

-----------------------------------------------------------------------------
(* Types.                                                                  *)

(* Every step keeps every variable of the pipeline in its range: the queue *)
(* never exceeds capacity_, the worker holds a measurement exactly while   *)
(* it processes or distributes one, and only a registered observer's turn  *)
(* comes.                                                                  *)
LEMMA TypeStep == TypeOK /\ Phases /\ [Next]_vars => TypeOK'
<1> SUFFICES ASSUME TypeOK, Phases, [Next]_vars PROVE TypeOK'
  OBVIOUS
<1> USE ConstantsAssumption DEF TypeOK
<1>1. ASSUME NEW p \in Producers, NEW m \in Measurement, PushCheck(p, m) PROVE TypeOK'
  BY <1>1 DEF PushCheck
<1>2. ASSUME NEW p \in Producers, QueuePush(p) PROVE TypeOK'
  <2>1. pending[p] \in Measurement /\ pending' \in [Producers -> Measurement \cup {NoMeasurement}]
    BY <1>2 DEF QueuePush
  <2>2. CASE QueueAccepts /\ queue' = Pushed(pending[p])
             /\ accepted' = Append(accepted, pending[p]) /\ worker' = Wake(worker)
    <3>1. queue' \in Seq(Measurement) /\ Len(queue') = Len(queue) + 1
          /\ accepted' \in Seq(Measurement)
      BY <2>1, <2>2, AppendProperties DEF Pushed
    <3>2. Len(queue') <= QueueCapacity
      BY <2>2, <3>1, LenProperties DEF QueueAccepts
    <3> QED BY <1>2, <2>1, <2>2, <3>1, <3>2 DEF QueuePush, Wake
  <2>3. CASE UNCHANGED <<queue, accepted, worker>>
    BY <1>2, <2>1, <2>3 DEF QueuePush
  <2> QED BY <1>2, <2>2, <2>3 DEF QueuePush
<1>3. CASE Pop
  <2>1. CASE queue # <<>>
    <3>1. Head(queue) \in Measurement /\ Tail(queue) \in Seq(Measurement)
          /\ Len(Tail(queue)) = Len(queue) - 1
      BY <2>1, HeadTailProperties
    <3>2. Len(Tail(queue)) <= QueueCapacity
      BY <3>1, LenProperties
    <3> QED BY <1>3, <2>1, <3>1, <3>2 DEF Pop, Exits
  <2>2. CASE queue = <<>>
    BY <1>3, <2>2 DEF Pop
  <2> QED BY <2>1, <2>2
<1>4. CASE SpuriousWakeup
  BY <1>4 DEF SpuriousWakeup
<1>5. CASE Update
  <2>1. delivered' \in Seq(Measurement)
    BY <1>5, AppendProperties DEF Update
  <2>2. UNCHANGED <<queueVars, ownerVars, producerVars, accepted, observed>>
    BY <1>5 DEF Update
  <2>3. /\ hasState' \in BOOLEAN
        /\ \/ worker' = "notify" /\ turn' = 1 /\ current' = current /\ NumObservers > 0
           \/ worker' = "pop" /\ current' = NoMeasurement /\ turn' = turn
    BY <1>5 DEF Update
  <2>4. current # NoMeasurement
    BY <1>5 DEF Update
  <2> QED BY <2>1, <2>2, <2>3, <2>4
<1>6. CASE NotifyObserver
  <2>1. turn \in Observers /\ current \in Measurement
    BY <1>6 DEF NotifyObserver
  <2>2. observed' \in [Observers -> Seq(Measurement \cup {EstimatorReset})]
    <3>1. Append(observed[turn], current) \in Seq(Measurement \cup {EstimatorReset})
      BY <2>1, AppendProperties
    <3> QED BY <1>6, <2>1, <3>1 DEF NotifyObserver
  <2> QED BY <1>6, <2>1, <2>2 DEF NotifyObserver, MoreObservers
<1>7. CASE StartExchange
  BY <1>7 DEF StartExchange
<1>8. CASE SpawnWorker
  BY <1>8 DEF SpawnWorker, Phases
<1>9. CASE StopExchange
  BY <1>9 DEF StopExchange
<1>10. CASE RequestShutdown
  BY <1>10 DEF RequestShutdown, Wake
<1>11. CASE Join
  BY <1>11 DEF Join
<1>12. CASE Reset
  <2>1. \A o \in Observers : Append(observed[o], EstimatorReset)
                                \in Seq(Measurement \cup {EstimatorReset})
    BY AppendProperties
  <2>2. observed' \in [Observers -> Seq(Measurement \cup {EstimatorReset})]
    BY <1>12, <2>1 DEF Reset
  <2>3. resets' \in 0..MaxResets
    BY <1>12 DEF Reset
  <2>4. UNCHANGED <<running, joinable, owner, starts, queueVars, worker, current,
                    turn, producerVars, accepted, delivered>> /\ hasState' = FALSE
    BY <1>12 DEF Reset
  <2> QED BY <2>2, <2>3, <2>4
<1>13. CASE UNCHANGED vars
  BY <1>13 DEF vars
<1> QED
  BY <1>1, <1>2, <1>3, <1>4, <1>5, <1>6, <1>7, <1>8, <1>9, <1>10, <1>11,
     <1>12, <1>13 DEF Next, Producer, Worker, Owner

-----------------------------------------------------------------------------
(* The hand-off.                                                           *)

(* A push adds behind the queue, Pop() moves the head of the queue into    *)
(* the worker's hands, and AddMeasurement() moves it to the estimator: the *)
(* three places in order stay the sequence of accepted pushes.             *)
LEMMA HandoffStep == TypeOK /\ Phases /\ HandoffIntact /\ [Next]_vars => HandoffIntact'
<1> SUFFICES ASSUME TypeOK, Phases, HandoffIntact, [Next]_vars PROVE HandoffIntact'
  OBVIOUS
<1> USE ConstantsAssumption
<1>a. /\ queue \in Seq(Measurement)
      /\ delivered \in Seq(Measurement)
      /\ current \in Measurement \cup {NoMeasurement}
      /\ worker \in {"update", "notify"} <=> current # NoMeasurement
      /\ pending \in [Producers -> Measurement \cup {NoMeasurement}]
  BY DEF TypeOK
<1>b. InFlight \in Seq(Measurement)
  BY <1>a, EmptySeq DEF InFlight
<1>c. accepted = delivered \o InFlight \o queue
  BY DEF HandoffIntact
<1>1. ASSUME NEW p \in Producers, NEW m \in Measurement, PushCheck(p, m) PROVE HandoffIntact'
  BY <1>1, <1>c DEF PushCheck, HandoffIntact, InFlight
<1>2. ASSUME NEW p \in Producers, QueuePush(p) PROVE HandoffIntact'
  <2>1. UNCHANGED <<delivered, current>> /\ pending[p] \in Measurement
    BY <1>2, <1>a DEF QueuePush
  <2>2. CASE queue' = Pushed(pending[p])
             /\ accepted' = Append(accepted, pending[p]) /\ worker' = Wake(worker)
    <3>1. InFlight' = InFlight
      BY <2>1, <2>2 DEF InFlight, Wake
    <3>2. accepted' = delivered \o InFlight \o Append(queue, pending[p])
      <4>1. accepted' = Append(delivered \o InFlight \o queue, pending[p])
        BY <1>c, <2>2
      <4> DEFINE Behind(d, f, q, e) == Append(d \o f \o q, e) = d \o f \o Append(q, e)
      <4>2. \A S : \A d, f, q \in Seq(S), e \in S : Behind(d, f, q, e)
        BY AppendBehind
      <4> HIDE DEF Behind
      <4>3. Behind(delivered, InFlight, queue, pending[p])
        BY <1>a, <1>b, <2>1, <4>2
      <4> QED BY <4>1, <4>3 DEF Behind
    <3> QED BY <2>1, <2>2, <3>1, <3>2 DEF HandoffIntact, Pushed
  <2>3. CASE UNCHANGED <<queue, accepted, worker>>
    BY <2>1, <2>3, <1>c DEF HandoffIntact, InFlight
  <2> QED BY <1>2, <2>2, <2>3 DEF QueuePush
<1>3. CASE Pop
  <2>1. UNCHANGED <<delivered, accepted>> /\ InFlight = <<>>
    BY <1>3 DEF Pop, InFlight
  <2>2. CASE queue # <<>>
    <3>1. queue' = Tail(queue) /\ InFlight' = <<Head(queue)>>
      BY <1>3, <2>2 DEF Pop, Exits, InFlight
    <3>2. /\ queue = <<Head(queue)>> \o Tail(queue)
          /\ Head(queue) \in Measurement /\ Tail(queue) \in Seq(Measurement)
      BY <1>a, <2>2, HeadAndTail, HeadTailProperties
    <3>3. accepted = delivered \o queue
      BY <1>a, <1>c, <2>1, ConcatEmptySeq
    <3>4. <<Head(queue)>> \in Seq(Measurement)
      BY <3>2
    <3>5. delivered \o (<<Head(queue)>> \o Tail(queue))
             = (delivered \o <<Head(queue)>>) \o Tail(queue)
      BY <1>a, <3>2, <3>4, ConcatAssociative
    <3> QED BY <2>1, <3>1, <3>2, <3>3, <3>5 DEF HandoffIntact
  <2>3. CASE queue = <<>>
    <3>1. UNCHANGED queue /\ InFlight' = InFlight
      BY <1>3, <2>1, <2>3 DEF Pop, InFlight
    <3> QED BY <2>1, <3>1, <1>c DEF HandoffIntact
  <2> QED BY <2>2, <2>3
<1>4. CASE SpuriousWakeup
  BY <1>4, <1>c DEF SpuriousWakeup, HandoffIntact, InFlight
<1>5. CASE Update
  <2>1. /\ UNCHANGED <<queue, accepted>>
        /\ current \in Measurement
        /\ InFlight = <<current>> /\ InFlight' = <<>>
        /\ delivered' = Append(delivered, current)
    BY <1>5, <1>a DEF Update, InFlight
  <2>2. delivered' = delivered \o <<current>> /\ delivered' \in Seq(Measurement)
    BY <1>a, <2>1, AppendIsConcat, AppendProperties
  <2>3. delivered' \o <<>> = delivered'
    BY <2>2, ConcatEmptySeq
  <2> QED BY <1>c, <2>1, <2>2, <2>3 DEF HandoffIntact
<1>6. CASE NotifyObserver
  BY <1>6, <1>c DEF NotifyObserver, HandoffIntact, InFlight
<1>7. CASE StartExchange
  BY <1>7, <1>c DEF StartExchange, HandoffIntact, InFlight
<1>8. CASE SpawnWorker
  BY <1>8, <1>c DEF SpawnWorker, HandoffIntact, InFlight, Phases
<1>9. CASE StopExchange
  BY <1>9, <1>c DEF StopExchange, HandoffIntact, InFlight
<1>10. CASE RequestShutdown
  BY <1>10, <1>c DEF RequestShutdown, HandoffIntact, InFlight, Wake
<1>11. CASE Join
  BY <1>11, <1>c DEF Join, HandoffIntact, InFlight
<1>12. CASE Reset
  BY <1>12, <1>c DEF Reset, HandoffIntact, InFlight
<1>13. CASE UNCHANGED vars
  BY <1>13, <1>c DEF vars, HandoffIntact, InFlight
<1> QED
  BY <1>1, <1>2, <1>3, <1>4, <1>5, <1>6, <1>7, <1>8, <1>9, <1>10, <1>11,
     <1>12, <1>13 DEF Next, Producer, Worker, Owner

-----------------------------------------------------------------------------
(* Who runs when: flags, joins and wake-ups.                               *)

(* The owner's calls and the worker's loop keep the flags, the thread      *)
(* handle and the places of both threads consistent.                       *)
LEMMA PhasesStep == TypeOK /\ Phases /\ StopDrains /\ [Next]_vars => Phases'
<1> SUFFICES ASSUME TypeOK, Phases, StopDrains, [Next]_vars PROVE Phases'
  OBVIOUS
<1> USE DEF Phases
<1>a. /\ starts \in Nat
      /\ owner \in {"idle", "starting", "stopping", "joining"}
      /\ worker \in {"gone", "pop", "waiting", "update", "notify"}
      /\ running \in BOOLEAN /\ joinable \in BOOLEAN /\ shutdown \in BOOLEAN
  BY ConstantsAssumption DEF TypeOK
<1>1. ASSUME NEW p \in Producers, NEW m \in Measurement, PushCheck(p, m) PROVE Phases'
  BY <1>1 DEF PushCheck
<1>2. ASSUME NEW p \in Producers, QueuePush(p) PROVE Phases'
  BY <1>2, <1>a DEF QueuePush, QueueAccepts, Wake
<1>3. CASE Pop
  BY <1>3, <1>a DEF Pop, Exits, StopDrains
<1>4. CASE SpuriousWakeup
  BY <1>4, <1>a DEF SpuriousWakeup
<1>5. CASE Update
  BY <1>5, <1>a DEF Update
<1>6. CASE NotifyObserver
  BY <1>6, <1>a DEF NotifyObserver
<1>7. CASE StartExchange
  BY <1>7, <1>a DEF StartExchange
<1>8. CASE SpawnWorker
  BY <1>8, <1>a DEF SpawnWorker
<1>9. CASE StopExchange
  BY <1>9, <1>a DEF StopExchange
<1>10. CASE RequestShutdown
  BY <1>10, <1>a DEF RequestShutdown, Wake
<1>11. CASE Join
  BY <1>11, <1>a DEF Join, WorkerEnded
<1>12. CASE Reset
  BY <1>12 DEF Reset
<1>13. CASE UNCHANGED vars
  BY <1>13 DEF vars
<1> QED
  BY <1>1, <1>2, <1>3, <1>4, <1>5, <1>6, <1>7, <1>8, <1>9, <1>10, <1>11,
     <1>12, <1>13 DEF Next, Producer, Worker, Owner

(* Whoever makes the predicate of the wait true notifies the worker.       *)
LEMMA WakeupStep == TypeOK /\ NoLostWakeup /\ [Next]_vars => NoLostWakeup'
<1> SUFFICES ASSUME TypeOK, NoLostWakeup, [Next]_vars PROVE NoLostWakeup'
  OBVIOUS
<1> USE DEF NoLostWakeup
<1>1. ASSUME NEW p \in Producers, NEW m \in Measurement, PushCheck(p, m) PROVE NoLostWakeup'
  BY <1>1 DEF PushCheck
<1>2. ASSUME NEW p \in Producers, QueuePush(p) PROVE NoLostWakeup'
  BY <1>2 DEF QueuePush, Wake
<1>3. CASE Worker
  BY <1>3 DEF Worker, Pop, Exits, SpuriousWakeup, Update, NotifyObserver
<1>4. CASE Owner
  BY <1>4 DEF Owner, StartExchange, SpawnWorker, StopExchange, RequestShutdown, Wake,
               Join, Reset
<1>5. CASE UNCHANGED vars
  BY <1>5 DEF vars
<1> QED
  BY <1>1, <1>2, <1>3, <1>4, <1>5 DEF Next, Producer

(* Stop() returns at its join only, the worker ends only when the queue is *)
(* empty, and from shutdown_ on nothing enters the queue.                  *)
LEMMA DrainStep ==
    TypeOK /\ Phases /\ StopDrains /\ HandoffIntact' /\ TypeOK' /\ [Next]_vars => StopDrains'
<1> SUFFICES ASSUME TypeOK, Phases, StopDrains, HandoffIntact', TypeOK', [Next]_vars
             PROVE  StopDrains'
  OBVIOUS
<1> USE DEF StopDrains
<1>1. ASSUME NEW p \in Producers, NEW m \in Measurement, PushCheck(p, m) PROVE StopDrains'
  BY <1>1 DEF PushCheck
<1>2. ASSUME NEW p \in Producers, QueuePush(p) PROVE StopDrains'
  BY <1>2 DEF QueuePush, QueueAccepts, Wake
<1>3. CASE Pop
  BY <1>3 DEF Pop, Exits
<1>4. CASE SpuriousWakeup \/ Update \/ NotifyObserver
  BY <1>4 DEF SpuriousWakeup, Update, NotifyObserver, Phases
<1>5. CASE StartExchange \/ SpawnWorker \/ StopExchange \/ RequestShutdown \/ Reset
  BY <1>5 DEF StartExchange, SpawnWorker, StopExchange, RequestShutdown, Reset, Phases
<1>6. CASE Join
  <2>1. queue' = <<>> /\ worker' = "gone" /\ UNCHANGED <<accepted, delivered>>
    BY <1>6 DEF Join, WorkerEnded, Phases
  <2>2. accepted' = delivered' \o <<>> \o <<>>
    BY <2>1 DEF HandoffIntact, InFlight
  <2>3. delivered' \in Seq(Measurement)
    BY DEF TypeOK
  <2>4. delivered' \o <<>> = delivered'
    BY <2>3, ConcatEmptySeq
  <2>5. accepted' = delivered'
    BY <2>2, <2>4
  <2> QED BY <2>1, <2>5
<1>7. CASE UNCHANGED vars
  BY <1>7 DEF vars
<1> QED
  BY <1>1, <1>2, <1>3, <1>4, <1>5, <1>6, <1>7 DEF Next, Producer, Worker, Owner

-----------------------------------------------------------------------------
(* The invariant and what follows from it.                                 *)

(* The initial state of a constructed pipeline satisfies the invariant.    *)
LEMMA InitIInv == Init => IInv
<1> SUFFICES ASSUME Init PROVE IInv
  OBVIOUS
<1> USE ConstantsAssumption DEF Init
<1>1. TypeOK
  <2>1. /\ <<>> \in Seq(Measurement) /\ Len(<<>>) = 0
        /\ <<>> \in Seq(Measurement \cup {EstimatorReset})
    BY EmptySeq
  <2>2. observed \in [Observers -> Seq(Measurement \cup {EstimatorReset})]
    BY <2>1
  <2>3. pending \in [Producers -> Measurement \cup {NoMeasurement}]
    OBVIOUS
  <2>4. /\ queue \in Seq(Measurement) /\ Len(queue) <= QueueCapacity
        /\ accepted \in Seq(Measurement) /\ delivered \in Seq(Measurement)
    BY <2>1
  <2>5. turn \in Nat /\ starts \in 0..MaxStarts /\ resets \in 0..MaxResets
    OBVIOUS
  <2>6. /\ running \in BOOLEAN /\ shutdown \in BOOLEAN
        /\ joinable \in BOOLEAN /\ hasState \in BOOLEAN
        /\ worker \in {"gone", "pop", "waiting", "update", "notify"}
        /\ owner \in {"idle", "starting", "stopping", "joining"}
        /\ current \in Measurement \cup {NoMeasurement}
        /\ fresh \subseteq Measurement
        /\ worker \in {"update", "notify"} <=> current # NoMeasurement
        /\ worker = "notify" => turn \in Observers
    OBVIOUS
  <2> QED BY <2>2, <2>3, <2>4, <2>5, <2>6 DEF TypeOK
<1>2. HandoffIntact
  <2>1. <<>> \o <<>> = <<>>
    BY EmptySeq, ConcatEmptySeq
  <2> QED BY <2>1 DEF HandoffIntact, InFlight
<1>3. NoLostWakeup /\ Phases /\ StopDrains
  BY DEF NoLostWakeup, Phases, StopDrains
<1> QED BY <1>1, <1>2, <1>3 DEF IInv

(* Every step preserves the invariant.                                     *)
LEMMA InvariantStep == IInv /\ [Next]_vars => IInv'
  BY TypeStep, HandoffStep, PhasesStep, WakeupStep, DrainStep DEF IInv

(* A pipeline that was never started holds nothing: what a producer has    *)
(* passed on was let through by running_.                                  *)
Untouched == starts = 0 => queue = <<>> /\ \A p \in Producers : pending[p] = NoMeasurement

LEMMA UntouchedStep == IInv /\ Untouched /\ [Next]_vars => Untouched'
<1> SUFFICES ASSUME IInv, Untouched, [Next]_vars, starts' = 0
             PROVE  queue' = <<>> /\ \A p \in Producers : pending'[p] = NoMeasurement
  BY DEF Untouched
<1>1. starts = 0 /\ ~running /\ worker = "gone"
  <2>1. starts \in Nat
    BY ConstantsAssumption DEF IInv, TypeOK
  <2>2. starts' = starts \/ starts' = starts + 1
    BY DEF Next, Producer, PushCheck, QueuePush, Worker, Pop, SpuriousWakeup, Update,
       NotifyObserver, Owner, StartExchange, SpawnWorker, StopExchange, RequestShutdown,
       Join, Reset, vars, ownerVars
  <2>3. starts = 0
    BY <2>1, <2>2
  <2> QED
    BY <2>3 DEF IInv, Phases, TypeOK
<1>2. CASE Producer
  BY <1>1, <1>2 DEF Producer, PushCheck, QueuePush, Untouched, IInv, TypeOK
<1>3. CASE Worker
  BY <1>1, <1>3 DEF Worker, Pop, SpuriousWakeup, Update, NotifyObserver
<1>4. CASE Owner
  BY <1>1, <1>4 DEF Owner, StartExchange, SpawnWorker, StopExchange, RequestShutdown, Join,
     Reset, Untouched
<1>5. CASE UNCHANGED vars
  BY <1>1, <1>5 DEF vars, Untouched
<1> QED BY <1>2, <1>3, <1>4, <1>5 DEF Next

(* Between a Stop() that returned and the next Start(), and before any, the *)
(* worker has ended and every accepted measurement was processed.          *)
LEMMA Rested ==
    IInv /\ Untouched /\ owner = "idle" /\ ~joinable => worker = "gone" /\ delivered = accepted
<1> SUFFICES ASSUME IInv, Untouched, owner = "idle", ~joinable
             PROVE  worker = "gone" /\ delivered = accepted
  OBVIOUS
<1>1. worker = "gone" /\ ~running
  BY DEF IInv, Phases
<1>2. CASE shutdown
  BY <1>1, <1>2 DEF IInv, StopDrains
<1>3. CASE ~shutdown
  <2>1. queue = <<>> /\ InFlight = <<>>
    BY <1>1, <1>3 DEF IInv, Phases, TypeOK, Untouched, InFlight
  <2>2. delivered \in Seq(Measurement)
    BY DEF IInv, TypeOK
  <2>3. accepted = delivered \o <<>> \o <<>>
    BY <2>1 DEF IInv, HandoffIntact
  <2> QED BY <1>1, <2>2, <2>3, ConcatEmptySeq
<1> QED BY <1>2, <1>3

(* The invariant holds in every reachable state.                           *)
THEOREM Invariance == Spec => []IInv
  BY InitIInv, InvariantStep, PTL DEF Spec

(* Type correctness of the pipeline, the bound of its queue included.      *)
THEOREM TypeCorrect == Spec => []TypeOK
<1>1. IInv => TypeOK
  BY DEF IInv
<1> QED BY Invariance, <1>1, PTL

(* Between Push() and AddMeasurement() nothing is lost, duplicated or      *)
(* reordered.                                                              *)
THEOREM HandoffCorrect == Spec => []HandoffIntact
<1>1. IInv => HandoffIntact
  BY DEF IInv
<1> QED BY Invariance, <1>1, PTL

(* The worker never sleeps on a queue it should be serving.                *)
THEOREM NoWakeupIsLost == Spec => []NoLostWakeup
<1>1. IInv => NoLostWakeup
  BY DEF IInv
<1> QED BY Invariance, <1>1, PTL

(* When Stop() has returned, every accepted measurement was processed.     *)
THEOREM StopDrainsTheQueue == Spec => []StopDrains
<1>1. IInv => StopDrains
  BY DEF IInv
<1> QED BY Invariance, <1>1, PTL

(* Once Stop() has joined the worker no navigation state is published, so  *)
(* the owner may destroy the observers.                                    *)
THEOREM NoLateNotifications == Spec => NoLateNotification
<1>1. IInv /\ [Next]_vars => [QuietWhenStopped]_vars
  <2> SUFFICES ASSUME IInv, [Next]_vars, ~joinable PROVE QuietWhenStopped
    BY DEF QuietWhenStopped
  <2>1. worker = "gone"
    BY DEF IInv, Phases
  <2>2. CASE Reset
    BY <2>2 DEF Reset, QuietWhenStopped
  <2>3. CASE ~Reset
    <3>1. UNCHANGED observed
      BY <2>1, <2>3 DEF Next, Producer, PushCheck, QueuePush, Worker, Pop, SpuriousWakeup,
        Update, NotifyObserver, Owner, StartExchange, SpawnWorker, StopExchange,
        RequestShutdown, Join, vars
    <3> QED BY <3>1 DEF QuietWhenStopped
  <2> QED BY <2>2, <2>3
<1> QED BY Invariance, <1>1, PTL DEF Spec, NoLateNotification

(* All observers receive the same callbacks in the same order.             *)
THEOREM ObserversCorrect == Spec => []ObserversAgree
<1>1. Init => ObserversAgree
  BY DEF Init, ObserversAgree
<1>2. IInv /\ ObserversAgree /\ [Next]_vars => ObserversAgree'
  <2> SUFFICES ASSUME IInv, ObserversAgree, [Next]_vars PROVE ObserversAgree'
    OBVIOUS
  <2>a. TypeOK /\ Phases
    BY DEF IInv
  <2>1. CASE NotifyObserver
    <3>1. /\ turn \in Observers /\ worker = "notify"
          /\ observed \in [Observers -> Seq(Measurement \cup {EstimatorReset})]
          /\ observed' = [observed EXCEPT ![turn] = Append(@, current)]
          /\ \/ turn < NumObservers /\ turn' = turn + 1 /\ UNCHANGED <<worker, current>>
             \/ turn = NumObservers /\ worker' = "pop"
      BY <2>1, <2>a, ConstantsAssumption DEF NotifyObserver, MoreObservers, TypeOK
    <3>2. ASSUME NEW i \in Observers, NEW j \in Observers, i < j
          PROVE  observed'[i] = IF worker' = "notify" /\ i < turn' /\ turn' <= j
                                THEN Append(observed'[j], current')
                                ELSE observed'[j]
      <4>1. CASE j = turn
        <5>1. observed[i] = Append(observed[j], current)
          BY <4>1, <3>1, <3>2, ConstantsAssumption DEF ObserversAgree
        <5>2. observed'[i] = observed[i] /\ observed'[j] = Append(observed[j], current)
          BY <4>1, <3>1, <3>2
        <5>3. ~(worker' = "notify" /\ i < turn' /\ turn' <= j)
          BY <4>1, <3>1, ConstantsAssumption
        <5> QED BY <5>1, <5>2, <5>3
      <4>2. CASE i = turn
        BY <4>2, <3>1, <3>2, ConstantsAssumption DEF ObserversAgree
      <4>3. CASE i # turn /\ j # turn
        BY <4>3, <3>1, <3>2, ConstantsAssumption DEF ObserversAgree
      <4> QED BY <4>1, <4>2, <4>3
    <3> QED BY <3>2 DEF ObserversAgree
  <2>2. CASE Reset
    <3>1. worker # "notify" /\ worker' = worker
      BY <2>2, <2>a DEF Reset, Phases
    <3>2. observed' = [o \in Observers |-> Append(observed[o], EstimatorReset)]
      BY <2>2 DEF Reset
    <3> QED BY <3>1, <3>2 DEF ObserversAgree
  <2>3. CASE ~Reset /\ ~NotifyObserver
    <3>1. UNCHANGED observed
      BY <2>3 DEF Next, Producer, PushCheck, QueuePush, Worker, Pop, SpuriousWakeup,
        Update, Owner, StartExchange, SpawnWorker, StopExchange, RequestShutdown, Join, vars
    <3>2. worker = "notify" => UNCHANGED <<worker, turn, current>>
      BY <2>3, <2>a DEF Next, Producer, PushCheck, QueuePush, Wake, Worker, Pop,
        SpuriousWakeup, Update, Owner, StartExchange, SpawnWorker, StopExchange,
        RequestShutdown, Join, WorkerEnded, Phases, vars
    <3>3. worker # "notify" /\ worker' = "notify" => turn' = 1
      BY <2>3 DEF Next, Producer, PushCheck, QueuePush, Wake, Worker, Pop,
        SpuriousWakeup, Update, Owner, StartExchange, SpawnWorker, StopExchange,
        RequestShutdown, Join, vars
    <3>4. CASE worker = "notify"
      BY <3>1, <3>2, <3>4 DEF ObserversAgree
    <3>5. CASE worker # "notify"
      BY <3>1, <3>3, <3>5, ConstantsAssumption DEF ObserversAgree
    <3> QED BY <3>4, <3>5
  <2> QED BY <2>1, <2>2, <2>3
<1> QED BY Invariance, <1>1, <1>2, PTL DEF Spec

-----------------------------------------------------------------------------
(* The pipeline implements MeasurementHandoff (its safety part; liveness   *)
(* is checked by TLC).                                                     *)

(* Every step of the pipeline is a step of the abstract hand-off or leaves *)
(* it unchanged.                                                           *)
LEMMA HandoffSimulation == IInv /\ IInv' /\ [Next]_vars => [Handoff!Next]_(Handoff!vars)
<1> SUFFICES ASSUME IInv, IInv', [Next]_vars PROVE [Handoff!Next]_(Handoff!vars)
  OBVIOUS
<1> DEFINE stoppedBar == shutdown /\ (owner # "joining" \/ starts > 1)
<1>a. TypeOK /\ HandoffIntact /\ Phases /\ StopDrains /\ HandoffIntact' /\ StopDrains'
  BY DEF IInv
<1>b. /\ delivered \in Seq(Measurement) /\ queue \in Seq(Measurement)
      /\ InFlight \in Seq(Measurement) /\ Len(InFlight) \in {0, 1}
  BY <1>a, EmptySeq DEF TypeOK, InFlight
<1>c. /\ Len(accepted) = Len(delivered) + Len(InFlight) + Len(queue)
      /\ \A i \in 1..Len(InFlight) : accepted[Len(delivered) + i] = InFlight[i]
  <2> HIDE DEF InFlight
  <2>1. accepted = (delivered \o InFlight) \o queue
    BY <1>a DEF HandoffIntact
  <2>2. delivered \o InFlight \in Seq(Measurement)
        /\ Len(delivered \o InFlight) = Len(delivered) + Len(InFlight)
        /\ \A i \in 1..(Len(delivered) + Len(InFlight)) : (delivered \o InFlight)[i] =
                IF i <= Len(delivered) THEN delivered[i] ELSE InFlight[i - Len(delivered)]
    BY <1>b, ConcatProperties
  <2> DEFINE front == delivered \o InFlight
  <2> HIDE DEF front
  <2>3. front \in Seq(Measurement) /\ accepted = front \o queue
    BY <2>1, <2>2 DEF front
  <2>4. /\ Len(accepted) = Len(front) + Len(queue)
        /\ \A i \in 1..(Len(front) + Len(queue)) : accepted[i] =
                IF i <= Len(front) THEN front[i] ELSE queue[i - Len(front)]
    BY <1>b, <2>3, ConcatProperties
  <2>5. Len(delivered) \in Nat /\ Len(queue) \in Nat
    BY <1>b, LenProperties
  <2>6. Len(front) = Len(delivered) + Len(InFlight)
    BY <2>2 DEF front
  <2>7. ASSUME NEW i \in 1..Len(InFlight) PROVE accepted[Len(delivered) + i] = InFlight[i]
    <3>1. front[Len(delivered) + i] = InFlight[i]
      BY <1>b, <2>2, <2>5 DEF front
    <3> QED BY <1>b, <2>4, <2>5, <2>6, <3>1
  <2> QED BY <2>4, <2>6, <2>7
<1>1. ASSUME NEW p \in Producers, QueuePush(p) PROVE [Handoff!Next]_(Handoff!vars)
  <2>1. CASE QueueAccepts /\ queue' = Pushed(pending[p]) /\ accepted' = Append(accepted, pending[p])
    <3>1. pending[p] \in Measurement /\ ~shutdown
      BY <1>1, <2>1, <1>a DEF QueuePush, QueueAccepts, TypeOK
    <3>2. Len(accepted) - Len(delivered) < QueueCapacity + 1
      BY <1>b, <1>c, <2>1, LenProperties, ConstantsAssumption DEF QueueAccepts
    <3>3. UNCHANGED <<delivered, shutdown, owner, starts>>
      BY <1>1 DEF QueuePush
    <3>4. Handoff!Accept(pending[p])
      BY <2>1, <3>1, <3>2, <3>3 DEF Handoff!Accept
    <3> QED BY <3>1, <3>4 DEF Handoff!Next
  <2>2. CASE UNCHANGED <<queue, accepted, worker>>
    BY <1>1, <2>2 DEF QueuePush, Handoff!vars
  <2> QED BY <1>1, <2>1, <2>2 DEF QueuePush
<1>2. CASE Update
  <2>1. InFlight = <<current>> /\ delivered' = Append(delivered, current)
        /\ UNCHANGED <<accepted, shutdown, owner, starts>>
    BY <1>2 DEF Update, InFlight
  <2>2. Len(<<current>>) = 1 /\ <<current>>[1] = current
    OBVIOUS
  <2>3. accepted[Len(delivered) + 1] = current /\ Len(delivered) < Len(accepted)
    <3>1. Len(InFlight) = 1 /\ InFlight[1] = current
      BY <2>1, <2>2
    <3>2. Len(delivered) \in Nat /\ Len(queue) \in Nat
      BY <1>b, LenProperties
    <3> HIDE DEF InFlight
    <3> QED BY <1>c, <3>1, <3>2
  <2>4. Handoff!Deliver
    BY <2>1, <2>3 DEF Handoff!Deliver
  <2> QED BY <2>4 DEF Handoff!Next
<1>3. CASE RequestShutdown
  <2>1. /\ shutdown' = TRUE /\ owner = "stopping" /\ owner' = "joining"
        /\ UNCHANGED <<accepted, delivered, starts>>
    BY <1>3 DEF RequestShutdown
  <2>2. CASE shutdown
    BY <1>a, <2>1, <2>2 DEF Phases, Handoff!vars
  <2>3. CASE ~shutdown
    <3>1. starts = 1
      BY <1>a, <2>1, <2>3 DEF Phases
    <3>2. Handoff!Close
      BY <2>1, <2>3, <3>1 DEF Handoff!Close
    <3> QED BY <3>2 DEF Handoff!Next
  <2> QED BY <2>2, <2>3
<1>4. CASE Join
  <2>1. /\ shutdown /\ shutdown' /\ owner = "joining" /\ owner' = "idle"
        /\ UNCHANGED <<accepted, delivered, starts, shutdown>>
    BY <1>4, <1>a DEF Join, Phases
  <2>2. CASE starts > 1
    BY <2>1, <2>2 DEF Handoff!vars
  <2>3. CASE ~(starts > 1)
    <3>1. delivered = accepted
      BY <1>a, <2>1 DEF StopDrains
    <3>2. Handoff!StopReturns
      BY <2>1, <2>3, <3>1 DEF Handoff!StopReturns
    <3> QED BY <3>2 DEF Handoff!Next
  <2> QED BY <2>2, <2>3
<1>5. CASE StartExchange
  <2>1. UNCHANGED <<accepted, delivered, shutdown>> /\ starts' = starts + 1
        /\ owner = "idle" /\ owner' = "starting"
    BY <1>5 DEF StartExchange
  <2> QED BY <2>1 DEF Handoff!vars
<1>6. CASE SpawnWorker \/ StopExchange
  BY <1>6, <1>a DEF SpawnWorker, StopExchange, Handoff!vars
<1>7. CASE Pop \/ SpuriousWakeup \/ NotifyObserver
  BY <1>7 DEF Pop, SpuriousWakeup, NotifyObserver, Handoff!vars
<1>8. CASE Reset
  BY <1>8 DEF Reset, Handoff!vars
<1>9. ASSUME NEW p \in Producers, NEW m \in Measurement, PushCheck(p, m)
      PROVE [Handoff!Next]_(Handoff!vars)
  BY <1>9 DEF PushCheck, Handoff!vars
<1>10. CASE UNCHANGED vars
  BY <1>10 DEF vars, Handoff!vars
<1> QED
  BY <1>1, <1>2, <1>3, <1>4, <1>5, <1>6, <1>7, <1>8, <1>9, <1>10
     DEF Next, Producer, Worker, Owner

(* The promise of the pipeline, without its queue and its threads.         *)
THEOREM Implementation == Spec => Handoff!Safety
<1>1. Init => Handoff!Init
  BY DEF Init, Handoff!Init
<1> QED BY Invariance, HandoffSimulation, <1>1, PTL DEF Spec, Handoff!Safety

-----------------------------------------------------------------------------
(* The order in which observers see the states.                            *)

\* A measurement is pushed once: it is fresh, or in Push(), or accepted.
Distinct ==
    /\ \A i, j \in 1..Len(accepted) : accepted[i] = accepted[j] => i = j
    /\ \A i \in 1..Len(accepted) : accepted[i] \notin fresh
    /\ \A i \in 1..Len(accepted) : \A p \in Producers : pending[p] # accepted[i]
    /\ \A p \in Producers : pending[p] \notin fresh
    /\ \A p, q \in Producers : pending[p] = pending[q] /\ pending[p] # NoMeasurement => p = q

(* Push() accepts a measurement once.                                      *)
LEMMA DistinctStep == TypeOK /\ Distinct /\ [Next]_vars => Distinct'
<1> SUFFICES ASSUME TypeOK, Distinct, [Next]_vars PROVE Distinct'
  OBVIOUS
<1> USE ConstantsAssumption
<1>1. ASSUME NEW p \in Producers, NEW m \in Measurement, PushCheck(p, m) PROVE Distinct'
  <2>1. accepted' = accepted /\ fresh' = fresh \ {m} /\ m \in fresh
        /\ pending' = [pending EXCEPT ![p] = IF running THEN m ELSE @]
    BY <1>1 DEF PushCheck
  <2> QED
    BY <2>1 DEF Distinct, TypeOK
<1>2. ASSUME NEW p \in Producers, QueuePush(p) PROVE Distinct'
  <2>1. /\ pending' = [pending EXCEPT ![p] = NoMeasurement] /\ fresh' = fresh
        /\ pending[p] \in Measurement
        /\ accepted' = accepted \/ accepted' = Append(accepted, pending[p])
    BY <1>2 DEF QueuePush, TypeOK
  <2>2. \A i \in 1..Len(accepted) : accepted[i] \in Measurement
    BY DEF TypeOK
  <2>3. CASE accepted' = accepted
    BY <2>1, <2>2, <2>3 DEF Distinct, TypeOK
  <2>4. CASE accepted' = Append(accepted, pending[p])
    <3>1. /\ Len(accepted') = Len(accepted) + 1 /\ Len(accepted) \in Nat
          /\ accepted'[Len(accepted) + 1] = pending[p]
          /\ \A i \in 1..Len(accepted) : accepted'[i] = accepted[i]
      BY <2>1, <2>4, AppendProperties DEF TypeOK
    <3>2. \A i \in 1..Len(accepted') : i \in 1..Len(accepted) \/ i = Len(accepted) + 1
      BY <3>1
    <3>3. \A q \in Producers : pending'[q] = IF q = p THEN NoMeasurement ELSE pending[q]
      BY <2>1 DEF TypeOK
    <3>4. \A i \in 1..Len(accepted') : accepted'[i] \in Measurement /\ accepted'[i] \notin fresh
      BY <2>1, <2>2, <3>1, <3>2 DEF Distinct
    <3>5. \A i, j \in 1..Len(accepted') : accepted'[i] = accepted'[j] => i = j
      BY <3>1, <3>2 DEF Distinct
    <3>6. \A i \in 1..Len(accepted') : \A q \in Producers : pending'[q] # accepted'[i]
      BY <2>1, <3>1, <3>2, <3>3, <3>4 DEF Distinct
    <3>7. \A q \in Producers : pending'[q] \notin fresh'
      BY <2>1, <3>3 DEF Distinct, TypeOK
    <3>8. \A q, r \in Producers : pending'[q] = pending'[r] /\ pending'[q] # NoMeasurement => q = r
      BY <3>3 DEF Distinct
    <3> QED
      BY <2>1, <3>4, <3>5, <3>6, <3>7, <3>8 DEF Distinct
  <2> QED
    BY <2>1, <2>3, <2>4
<1>3. Worker \/ Owner \/ UNCHANGED vars => UNCHANGED <<accepted, pending, fresh>>
  BY DEF Worker, Pop, SpuriousWakeup, Update, NotifyObserver, Owner, StartExchange, SpawnWorker,
     StopExchange, RequestShutdown, Join, Reset, vars
<1>4. UNCHANGED <<accepted, pending, fresh>> => Distinct'
  BY DEF Distinct
<1> QED
  BY <1>1, <1>2, <1>3, <1>4 DEF Next, Producer

(* What has been processed is the beginning of what was accepted.          *)
LEMMA DeliveredFirst ==
    ASSUME TypeOK, HandoffIntact
    PROVE  /\ Len(delivered) \in Nat /\ Len(accepted) \in Nat /\ Len(delivered) <= Len(accepted)
           /\ \A k \in 1..Len(delivered) : accepted[k] = delivered[k]
           /\ worker = "update" => Len(delivered) < Len(accepted)
<1>1. /\ delivered \in Seq(Measurement) /\ queue \in Seq(Measurement) /\ InFlight \in Seq(Measurement)
      /\ Len(delivered) \in Nat /\ Len(queue) \in Nat
      /\ worker = "update" => Len(InFlight) = 1
      /\ Len(InFlight) \in Nat
  BY DEF TypeOK, InFlight
<1>2. /\ delivered \o InFlight \in Seq(Measurement)
      /\ Len(delivered \o InFlight) = Len(delivered) + Len(InFlight)
      /\ \A k \in 1..Len(delivered) : (delivered \o InFlight)[k] = delivered[k]
  BY <1>1, ConcatProperties
<1>3. /\ Len(accepted) = Len(delivered) + Len(InFlight) + Len(queue)
      /\ \A k \in 1..Len(delivered) : accepted[k] = delivered[k]
  BY <1>1, <1>2, ConcatProperties DEF HandoffIntact
<1>4. ASSUME NEW d \in Nat, NEW f \in Nat, NEW q \in Nat
      PROVE  d + f + q \in Nat /\ d <= d + f + q /\ (f = 1 => d < d + f + q)
  OBVIOUS
<1>5. /\ Len(accepted) \in Nat /\ Len(delivered) <= Len(accepted)
      /\ Len(InFlight) = 1 => Len(delivered) < Len(accepted)
  BY <1>1, <1>3, <1>4
<1> QED
  BY <1>1, <1>3, <1>5

\* Observers are sent what has been processed, and the latest of it only when
\* their turn has come.
SentAfter ==
    /\ worker = "notify" => Len(delivered) > 0 /\ delivered[Len(delivered)] = current
    /\ \A o \in Observers : \A i \in 1..Len(observed[o]) :
          observed[o][i] = EstimatorReset
          \/ \E k \in 1..Len(delivered) :
                delivered[k] = observed[o][i] /\ (worker = "notify" /\ o >= turn => k < Len(delivered))

(* RunLoop() calls the observers between one AddMeasurement() and the next. *)
LEMMA SentAfterStep == TypeOK /\ Phases /\ SentAfter /\ [Next]_vars => SentAfter'
<1> SUFFICES ASSUME TypeOK, Phases, SentAfter, [Next]_vars PROVE SentAfter'
  OBVIOUS
<1> USE ConstantsAssumption
<1>0. Len(delivered) \in Nat /\ NumObservers \in Nat
      /\ \A o \in Observers : observed[o] \in Seq(Measurement \cup {EstimatorReset}) /\ Len(observed[o]) \in Nat
  BY DEF TypeOK
<1>1. CASE Update
  <2>1. /\ delivered' = Append(delivered, current) /\ observed' = observed
        /\ current \in Measurement
        /\ worker' = "notify" => turn' = 1 /\ current' = current
    BY <1>1 DEF Update, TypeOK
  <2>2. /\ Len(delivered') = Len(delivered) + 1 /\ delivered'[Len(delivered) + 1] = current
        /\ \A k \in 1..Len(delivered) : delivered'[k] = delivered[k]
    BY <2>1, AppendProperties DEF TypeOK
  <2>3. ASSUME NEW o \in Observers, NEW i \in 1..Len(observed[o]), observed[o][i] # EstimatorReset
        PROVE  \E k \in 1..Len(delivered') : delivered'[k] = observed[o][i] /\ k < Len(delivered')
    BY <1>0, <2>2, <2>3 DEF SentAfter
  <2>4. worker' = "notify" => Len(delivered') > 0 /\ delivered'[Len(delivered')] = current'
    BY <1>0, <2>1, <2>2
  <2> QED
    BY <2>1, <2>3, <2>4 DEF SentAfter
<1>2. CASE NotifyObserver
  <2>1. /\ worker = "notify" /\ turn \in Observers /\ delivered' = delivered
        /\ observed' = [observed EXCEPT ![turn] = Append(@, current)]
        /\ worker' = "notify" => turn' = turn + 1 /\ current' = current
        /\ current \in Measurement
    BY <1>2 DEF NotifyObserver, TypeOK
  <2>2. /\ \A o \in Observers : o # turn => observed'[o] = observed[o]
        /\ Len(observed'[turn]) = Len(observed[turn]) + 1
        /\ observed'[turn][Len(observed[turn]) + 1] = current
        /\ \A i \in 1..Len(observed[turn]) : observed'[turn][i] = observed[turn][i]
    BY <1>0, <2>1, AppendProperties DEF TypeOK
  <2>3. Len(delivered) > 0 /\ delivered[Len(delivered)] = current
    BY <2>1 DEF SentAfter
  <2>4. ASSUME NEW o \in Observers, NEW i \in 1..Len(observed'[o]), observed'[o][i] # EstimatorReset
        PROVE  \E k \in 1..Len(delivered') :
                  delivered'[k] = observed'[o][i] /\ (worker' = "notify" /\ o >= turn' => k < Len(delivered'))
    <3>1. CASE o = turn /\ i = Len(observed[turn]) + 1
      BY <1>0, <2>1, <2>2, <2>3, <3>1
    <3>2. CASE ~(o = turn /\ i = Len(observed[turn]) + 1)
      <4>1. i \in 1..Len(observed[o]) /\ observed'[o][i] = observed[o][i]
        BY <1>0, <2>1, <2>2, <3>2
      <4>2. PICK k \in 1..Len(delivered) :
              delivered[k] = observed[o][i] /\ (worker = "notify" /\ o >= turn => k < Len(delivered))
        BY <2>4, <4>1 DEF SentAfter
      <4> QED
        BY <1>0, <2>1, <4>1, <4>2
    <3> QED
      BY <3>1, <3>2
  <2> QED
    BY <2>1, <2>3, <2>4 DEF SentAfter
<1>3. CASE Reset
  <2>1. /\ delivered' = delivered /\ worker' = worker /\ turn' = turn /\ current' = current
        /\ observed' = [o \in Observers |-> Append(observed[o], EstimatorReset)]
    BY <1>3 DEF Reset
  <2>2. ASSUME NEW o \in Observers, NEW i \in 1..Len(observed'[o]), observed'[o][i] # EstimatorReset
        PROVE  i \in 1..Len(observed[o]) /\ observed'[o][i] = observed[o][i]
    <3>1. /\ Len(observed'[o]) = Len(observed[o]) + 1
          /\ observed'[o][Len(observed[o]) + 1] = EstimatorReset
          /\ \A j \in 1..Len(observed[o]) : observed'[o][j] = observed[o][j]
      BY <1>0, <2>1, AppendProperties
    <3> QED
      BY <1>0, <2>2, <3>1
  <2> QED
    BY <2>1, <2>2 DEF SentAfter
<1>4. CASE Producer \/ Pop \/ SpuriousWakeup \/ StartExchange \/ SpawnWorker \/ StopExchange
           \/ RequestShutdown \/ Join \/ UNCHANGED vars
  <2>1. /\ UNCHANGED <<delivered, observed, turn>>
        /\ worker' = "notify" => worker = "notify" /\ current' = current
    BY <1>4 DEF Producer, PushCheck, QueuePush, Wake, Pop, SpuriousWakeup, StartExchange, SpawnWorker,
       StopExchange, RequestShutdown, Join, vars
  <2> QED
    BY <2>1 DEF SentAfter
<1> QED
  BY <1>1, <1>2, <1>3, <1>4 DEF Next, Worker, Owner

\* ObservedInOrder without the choice of a place.
OrderOf(seen, pushed) ==
    \A i, j \in 1..Len(seen) :
        i < j /\ seen[i] # EstimatorReset /\ seen[j] # EstimatorReset
        => \A k, l \in 1..Len(pushed) : pushed[k] = seen[i] /\ pushed[l] = seen[j] => k < l

InOrder == \A o \in Observers : OrderOf(observed[o], accepted)

(* A state is sent behind those of measurements accepted before it, and    *)
(* what is accepted later was not sent.                                    *)
LEMMA InOrderStep ==
    IInv /\ Distinct /\ SentAfter /\ InOrder /\ [Next]_vars => InOrder'
<1> SUFFICES ASSUME IInv, Distinct, SentAfter, InOrder, [Next]_vars PROVE InOrder'
  OBVIOUS
<1> USE ConstantsAssumption
<1>0. /\ Len(delivered) \in Nat /\ Len(accepted) \in Nat /\ Len(delivered) <= Len(accepted)
      /\ \A k \in 1..Len(delivered) : accepted[k] = delivered[k]
      /\ \A o \in Observers : observed[o] \in Seq(Measurement \cup {EstimatorReset}) /\ Len(observed[o]) \in Nat
  BY DeliveredFirst DEF IInv, TypeOK
<1>1. ASSUME NEW p \in Producers, QueuePush(p) PROVE InOrder'
  <2>1. /\ observed' = observed /\ pending[p] \in Measurement
        /\ accepted' = accepted \/ accepted' = Append(accepted, pending[p])
    BY <1>1 DEF QueuePush, IInv, TypeOK
  <2>2. CASE accepted' = Append(accepted, pending[p])
    <3>1. /\ Len(accepted') = Len(accepted) + 1 /\ accepted'[Len(accepted) + 1] = pending[p]
          /\ \A i \in 1..Len(accepted) : accepted'[i] = accepted[i]
      BY <2>1, <2>2, AppendProperties DEF IInv, TypeOK
    <3>2. ASSUME NEW o \in Observers, NEW i \in 1..Len(observed[o]), observed[o][i] # EstimatorReset
          PROVE  observed[o][i] # pending[p]
      BY <1>0, <3>2 DEF SentAfter, Distinct
    <3>3. ASSUME NEW o \in Observers, NEW i \in 1..Len(observed[o]), observed[o][i] # EstimatorReset,
                 NEW k \in 1..Len(accepted'), accepted'[k] = observed[o][i]
          PROVE  k \in 1..Len(accepted) /\ accepted[k] = observed[o][i]
      BY <1>0, <3>1, <3>2, <3>3
    <3> QED
      BY <2>1, <3>3 DEF InOrder, OrderOf
  <2> QED
    BY <2>1, <2>2 DEF InOrder, OrderOf
<1>2. CASE NotifyObserver
  <2>1. /\ worker = "notify" /\ turn \in Observers /\ accepted' = accepted
        /\ observed' = [observed EXCEPT ![turn] = Append(@, current)]
        /\ current \in Measurement
    BY <1>2 DEF NotifyObserver, IInv, TypeOK
  <2>2. /\ \A o \in Observers : o # turn => observed'[o] = observed[o]
        /\ Len(observed'[turn]) = Len(observed[turn]) + 1
        /\ observed'[turn][Len(observed[turn]) + 1] = current
        /\ \A i \in 1..Len(observed[turn]) : observed'[turn][i] = observed[turn][i]
    BY <1>0, <2>1, AppendProperties DEF IInv, TypeOK
  <2>3. Len(delivered) > 0 /\ delivered[Len(delivered)] = current
    BY <2>1 DEF SentAfter
  <2>4. ASSUME NEW i \in 1..Len(observed[turn]), observed[turn][i] # EstimatorReset,
               NEW k \in 1..Len(accepted), NEW l \in 1..Len(accepted),
               accepted[k] = observed[turn][i], accepted[l] = current
        PROVE  k < l
    <3>1. PICK m \in 1..Len(delivered) : delivered[m] = observed[turn][i] /\ m < Len(delivered)
      BY <2>1, <2>4 DEF SentAfter
    <3>2. m \in 1..Len(accepted) /\ accepted[m] = accepted[k]
      BY <1>0, <2>4, <3>1
    <3>3. Len(delivered) \in 1..Len(accepted) /\ accepted[Len(delivered)] = accepted[l]
      BY <1>0, <2>3, <2>4
    <3>4. k = m /\ l = Len(delivered)
      BY <3>2, <3>3 DEF Distinct
    <3> QED
      BY <3>1, <3>4
  <2>5. ASSUME NEW o \in Observers, NEW i \in 1..Len(observed'[o]), NEW j \in 1..Len(observed'[o]), i < j,
               observed'[o][i] # EstimatorReset, observed'[o][j] # EstimatorReset,
               NEW k \in 1..Len(accepted), NEW l \in 1..Len(accepted),
               accepted[k] = observed'[o][i], accepted[l] = observed'[o][j]
        PROVE  k < l
    <3>1. i \in 1..Len(observed[o]) /\ observed'[o][i] = observed[o][i]
      BY <1>0, <2>1, <2>2, <2>5
    <3>2. CASE o = turn /\ j = Len(observed[turn]) + 1
      BY <2>2, <2>4, <2>5, <3>1, <3>2
    <3>3. CASE ~(o = turn /\ j = Len(observed[turn]) + 1)
      <4>1. j \in 1..Len(observed[o]) /\ observed'[o][j] = observed[o][j]
        BY <1>0, <2>1, <2>2, <3>3
      <4> QED
        BY <2>5, <3>1, <4>1 DEF InOrder, OrderOf
    <3> QED
      BY <3>2, <3>3
  <2>6. \A o \in Observers : OrderOf(observed'[o], accepted)
    BY <2>5 DEF OrderOf
  <2> QED
    BY <2>1, <2>6 DEF InOrder
<1>3. CASE Reset
  <2>1. accepted' = accepted /\ observed' = [o \in Observers |-> Append(observed[o], EstimatorReset)]
    BY <1>3 DEF Reset
  <2>2. ASSUME NEW o \in Observers, NEW i \in 1..Len(observed'[o]), observed'[o][i] # EstimatorReset
        PROVE  i \in 1..Len(observed[o]) /\ observed'[o][i] = observed[o][i]
    <3>1. /\ Len(observed'[o]) = Len(observed[o]) + 1
          /\ observed'[o][Len(observed[o]) + 1] = EstimatorReset
          /\ \A j \in 1..Len(observed[o]) : observed'[o][j] = observed[o][j]
      BY <1>0, <2>1, AppendProperties
    <3> QED
      BY <1>0, <2>2, <3>1
  <2> QED
    BY <2>1, <2>2 DEF InOrder, OrderOf
<1>4. CASE UNCHANGED <<accepted, observed>>
  BY <1>4 DEF InOrder, OrderOf
<1> QED
  BY <1>1, <1>2, <1>3, <1>4 DEF Next, Producer, PushCheck, Worker, Pop, SpuriousWakeup, Update,
     Owner, StartExchange, SpawnWorker, StopExchange, RequestShutdown, Join, vars

(* Every observer sees the states in the order in which the measurements   *)
(* behind them were pushed and none twice, across Reset() and restarts, by *)
(* however many producers.                                                 *)
THEOREM ObservedStatesInOrder == Spec => []ObservedInOrder
<1>1. Init => Distinct /\ SentAfter /\ InOrder
  BY ConstantsAssumption DEF Init, Distinct, SentAfter, InOrder, OrderOf
<1>2. IInv /\ Distinct /\ [Next]_vars => Distinct'
  BY DistinctStep DEF IInv
<1>3. IInv /\ SentAfter /\ [Next]_vars => SentAfter'
  BY SentAfterStep DEF IInv
<1>4. IInv /\ SentAfter /\ InOrder => ObservedInOrder
  <2> SUFFICES ASSUME IInv, SentAfter, InOrder PROVE ObservedInOrder
    OBVIOUS
  <2> DEFINE Place(m) == CHOOSE i \in 1..Len(accepted) : accepted[i] = m
  <2>1. ASSUME NEW o \in Observers, NEW i \in 1..Len(observed[o]), observed[o][i] # EstimatorReset
        PROVE  Place(observed[o][i]) \in 1..Len(accepted) /\ accepted[Place(observed[o][i])] = observed[o][i]
    <3>1. \E k \in 1..Len(accepted) : accepted[k] = observed[o][i]
      BY <2>1, DeliveredFirst DEF SentAfter, IInv
    <3> QED
      BY <3>1
  <2>2. ASSUME NEW o \in Observers, NEW i \in 1..Len(observed[o]), NEW j \in 1..Len(observed[o]), i < j,
               observed[o][i] # EstimatorReset, observed[o][j] # EstimatorReset
        PROVE  Place(observed[o][i]) < Place(observed[o][j])
    <3> HIDE DEF Place
    <3> QED
      BY <2>1, <2>2 DEF InOrder, OrderOf
  <2> HIDE DEF Place
  <2>3. \A o \in Observers : \A i, j \in 1..Len(observed[o]) :
            i < j /\ EstimatorReset \notin {observed[o][i], observed[o][j]}
            => Place(observed[o][i]) < Place(observed[o][j])
    BY <2>2
  <2> QED
    BY <2>3 DEF ObservedInOrder, Place
<1>5. IInv /\ Distinct /\ SentAfter /\ InOrder /\ [Next]_vars => InOrder'
  BY InOrderStep
<1> QED
  BY <1>1, <1>2, <1>3, <1>4, <1>5, Invariance, PTL DEF Spec

=============================================================================
