---------------------------- MODULE UiClientProofs ----------------------------
(***************************************************************************)
(* StopSession() leaves nothing of the client behind, for any number of    *)
(* sessions, connections and events.  UiApp and Loop() write running_,     *)
(* connected_ and socket_fd_ without a lock; the argument ties each of     *)
(* them, and the client's descriptor, to the statements of Loop() at which *)
(* it may be set, so that a loop that has ended has none of them.          *)
(* And samples_ are the newest samples of the session: frames that were    *)
(* broadcast, those on the way and those seen are in the order of their    *)
(* time stamps, whatever connection they came over.                        *)
(***************************************************************************)
EXTENDS UiClient, SequenceTheorems, TLAPS

\* The statements of Loop() at which its socket is open, and those at which the
\* number is in socket_fd_.
Holding == {"assign", "handshake", "online", "receive", "offline", "close"}
Assigned == {"handshake", "online", "receive", "offline", "close", "forget"}

Places ==
    /\ loop \in Holding \cup {"off", "check", "connect", "forget"}
    /\ socket \in Fds \cup {None}
    /\ holder \in [Fds -> {Free, Ours, Foreign}]
    /\ loop \in Holding => fd \in Fds

\* A descriptor of the client is the one Loop() has.
Held == \A n \in Fds : holder[n] = Ours => fd = n /\ loop \in Holding

Shared ==
    /\ connected => loop \in {"receive", "offline"}
    /\ socket # None => loop \in Assigned
    /\ running => ui \in {"main", "send"}

\* From the join to the next Connect() there is no loop.
Joined == ui \in {"stop", "clear", "setup", "connect"} => loop = "off"

Shown == ui = "setup" => samples = <<>> /\ t0 = None /\ status = "idle"

UiInv == Places /\ Held /\ Shared /\ Joined /\ Shown

-----------------------------------------------------------------------------
LEMMA InitInv == Init => UiInv
  BY DEF Init, UiInv, Places, Held, Shared, Joined, Shown, Holding, Assigned,
         Fds, None, Free, Ours, Foreign

\* The steps of the UI thread.
LEMMA UiStepInv == UiInv /\ UiStep => UiInv'
<1> SUFFICES ASSUME UiInv, UiStep PROVE UiInv'
  OBVIOUS
<1> USE DEF UiInv, Places, Held, Shared, Joined, Shown, Holding, Assigned, clientVars, envVars, appVars
<1>1. CASE StartSession
  BY <1>1 DEF StartSession
<1>2. CASE Connect
  BY <1>2 DEF Connect
<1>3. CASE SendCmd
  BY <1>3 DEF SendCmd
<1>4. CASE SendFrame
  BY <1>4 DEF SendFrame
<1>5. CASE StopSession
  BY <1>5 DEF StopSession
<1>6. CASE Disconnect
  BY <1>6 DEF Disconnect
<1>7. CASE DisconnectClose
  BY <1>7 DEF DisconnectClose, Release, Fds, None, Free, Ours, Foreign
<1>8. CASE DisconnectJoin
  BY <1>8 DEF DisconnectJoin
<1>9. CASE StopServing
  BY <1>9 DEF StopServing
<1>10. CASE Clear
  BY <1>10 DEF Clear
<1> QED
  BY <1>1, <1>2, <1>3, <1>4, <1>5, <1>6, <1>7, <1>8, <1>9, <1>10 DEF UiStep, StopStep

\* The steps of Loop(): each is taken at a statement other than "off", which
\* by Joined excludes a UI thread that has joined it.
LEMMA LoopStepInv == UiInv /\ LoopStep => UiInv'
<1> SUFFICES ASSUME UiInv, LoopStep PROVE UiInv'
  OBVIOUS
<1> USE DEF UiInv, Places, Held, Shared, Joined, Shown, Holding, Assigned, envVars, appVars
<1>1. CASE Check
  BY <1>1 DEF Check
<1>2. CASE SockConnect
  <2>1. CASE serving /\ connects < MaxConnects
    <3>1. PICK n \in Fds : /\ holder[n] = Free
                           /\ holder' = [holder EXCEPT ![n] = Ours] /\ fd' = n /\ loop' = "assign"
      BY <1>2, <2>1 DEF SockConnect
    <3>2. Held'
      BY <1>2, <3>1 DEF SockConnect, Ours, Free
    <3> QED
      BY <1>2, <3>1, <3>2 DEF SockConnect, Ours
  <2>2. CASE ~(serving /\ connects < MaxConnects)
    BY <1>2, <2>2 DEF SockConnect
  <2> QED
    BY <2>1, <2>2
<1>3. CASE Assign
  BY <1>3 DEF Assign
<1>4. CASE Handshake
  BY <1>4 DEF Handshake
<1>5. CASE Online
  BY <1>5 DEF Online
<1>6. CASE Receive
  <2>1. ui \notin {"stop", "clear", "setup", "connect"} /\ ui' = ui
    BY <1>6 DEF Receive
  <2> QED
    BY <1>6, <2>1 DEF Receive
<1>7. CASE Offline
  BY <1>7 DEF Offline
<1>8. CASE CloseFd
  BY <1>8 DEF CloseFd, Release, Fds, None, Free, Ours, Foreign
<1>9. CASE Forget
  BY <1>9 DEF Forget, None
<1> QED
  BY <1>1, <1>2, <1>3, <1>4, <1>5, <1>6, <1>7, <1>8, <1>9 DEF LoopStep

\* The server and the rest of the process touch none of the client's fields but
\* the table of descriptors, in which they take what is free.
LEMMA OtherStepInv == UiInv /\ (Publish \/ Drop \/ OpenElsewhere) => UiInv'
<1> SUFFICES ASSUME UiInv, Publish \/ Drop \/ OpenElsewhere PROVE UiInv'
  OBVIOUS
<1> USE DEF UiInv, Places, Held, Shared, Joined, Shown, clientVars, envVars, appVars
<1>1. CASE Publish
  BY <1>1 DEF Publish
<1>2. CASE Drop
  BY <1>2 DEF Drop
<1>3. CASE OpenElsewhere
  BY <1>3 DEF OpenElsewhere, Free, Ours, Foreign
<1> QED
  BY <1>1, <1>2, <1>3

\* The inductive invariant of the client and its owner.
THEOREM UiInvariance == Spec => []UiInv
<1>1. UiInv /\ [Next]_vars => UiInv'
  <2> SUFFICES ASSUME UiInv, [Next]_vars PROVE UiInv'
    OBVIOUS
  <2>1. CASE UNCHANGED vars
    BY <2>1 DEF vars, clientVars, envVars, appVars, UiInv, Places, Held, Shared, Joined, Shown
  <2> QED
    BY <2>1, UiStepInv, LoopStepInv, OtherStepInv DEF Next
<1> QED
  BY InitInv, <1>1, PTL DEF Spec

\* Once StopSession() has joined the client nothing of the session is left: no
\* thread, no socket, no connected_, and after it no sample and no status.
THEOREM QuietAfterStopping == Spec => []QuietAfterStop
<1>1. UiInv => QuietAfterStop
  BY DEF UiInv, Places, Held, Shared, Joined, Shown, Holding, Assigned, QuietAfterStop
<1> QED
  BY <1>1, UiInvariance, PTL

-----------------------------------------------------------------------------
\* The parts of TypeOK.
Flow ==
    /\ ui \in {"setup", "connect", "main", "send", "disconnect", "close", "join", "stop", "clear"}
    /\ loop \in {"off", "check", "connect", "assign", "handshake", "online", "receive",
                 "offline", "close", "forget"}
Flags == serving \in BOOLEAN /\ running \in BOOLEAN /\ connected \in BOOLEAN /\ linkOpen \in BOOLEAN
Numbers ==
    /\ session \in 0..MaxSessions /\ sessions \in 0..MaxSessions
    /\ connects \in Nat /\ events \in Nat /\ commands \in Nat
Table ==
    /\ socket \in Fds \cup {None} /\ fd \in Fds \cup {None} /\ target \in Fds \cup {None}
    /\ holder \in [Fds -> {Free, Ours, Foreign}]
Sent == link \in Seq(Frame)
Got == samples \in Seq(Int) /\ Len(samples) <= MaxSamples /\ t0 \in Nat \cup {None} /\ arrived \in Seq(Nat)

\* OnMessage() never keeps more than kMaxSamples samples.
LEMMA NewestSamples ==
    ASSUME NEW s \in Seq(Int), Len(s) <= MaxSamples, NEW e \in Int
    PROVE  Newest(Append(s, e)) \in Seq(Int) /\ Len(Newest(Append(s, e))) <= MaxSamples
<1> DEFINE longer == Append(s, e)
<1>1. longer \in Seq(Int) /\ Len(longer) = Len(s) + 1 /\ longer # <<>> /\ Len(s) \in Nat
  BY AppendProperties
<1>2. Tail(longer) \in Seq(Int) /\ Len(Tail(longer)) = Len(s)
  BY <1>1, HeadTailProperties
<1> HIDE DEF longer
<1>3. CASE Len(longer) > MaxSamples
  BY <1>1, <1>2, <1>3 DEF Newest, longer
<1>4. CASE ~(Len(longer) > MaxSamples)
  BY <1>1, <1>4, UiAssumption DEF Newest, longer
<1> QED
  BY <1>3, <1>4

\* One step per part of TypeOK.
LEMMA TypeStep == TypeOK /\ [Next]_vars => TypeOK'
<1> SUFFICES ASSUME TypeOK, [Next]_vars PROVE TypeOK'
  OBVIOUS
<1> USE DEF clientVars, envVars, appVars
<1>0. Flow /\ Flags /\ Numbers /\ Table /\ Sent /\ Got
  BY DEF TypeOK, Flow, Flags, Numbers, Table, Sent, Got
<1>1. CASE UNCHANGED vars
  BY <1>1 DEF vars, TypeOK
<1>2. CASE Next
  <2> USE <1>0, <1>2
  <2>1. Flow'
    BY DEF Flow, Next, UiStep, StopStep, LoopStep, StartSession, Connect, SendCmd, SendFrame, StopSession,
       Disconnect, DisconnectClose, DisconnectJoin, StopServing, Clear, Check, SockConnect, Assign,
       Handshake, Online, Receive, Offline, CloseFd, Forget, Publish, Drop, OpenElsewhere
  <2>6. Flags'
    BY DEF Flags, Next, UiStep, StopStep, LoopStep, StartSession, Connect, SendCmd, SendFrame, StopSession,
       Disconnect, DisconnectClose, DisconnectJoin, StopServing, Clear, Check, SockConnect, Assign,
       Handshake, Online, Receive, Offline, CloseFd, Forget, Publish, Drop, OpenElsewhere
  <2>2. Numbers'
    BY UiAssumption DEF Numbers, Next, UiStep, StopStep, LoopStep, StartSession, Connect,
       SendCmd, SendFrame, StopSession, Disconnect, DisconnectClose, DisconnectJoin, StopServing, Clear, Check, SockConnect, Assign,
       Handshake, Online, Receive, Offline, CloseFd, Forget, Publish, Drop, OpenElsewhere
  <2>3. Table'
    BY DEF Table, Release, Fds, None, Free, Ours, Foreign, Next, UiStep, StopStep, LoopStep,
       StartSession, Connect, SendCmd, SendFrame, StopSession,
       Disconnect, DisconnectClose, DisconnectJoin, StopServing, Clear, Check, SockConnect, Assign,
       Handshake, Online, Receive, Offline, CloseFd, Forget, Publish, Drop, OpenElsewhere
  <2>4. Sent'
    <3>1. CASE Publish
      <4>1. PICK frame \in Frame : link' \in {link, Append(link, frame)}
        BY <3>1 DEF Publish, Frame, Numbers
      <4> QED
        BY <4>1, AppendProperties DEF Sent
    <3>2. CASE Receive
      <4>1. link' = link \/ (link # <<>> /\ link' = Tail(link))
        BY <3>2 DEF Receive
      <4> QED
        BY <4>1, HeadTailProperties DEF Sent
    <3>3. CASE ~Publish /\ ~Receive
      <4>1. link' = link \/ link' = <<>>
        BY <3>3 DEF Next, UiStep, StopStep, LoopStep, StartSession, Connect, SendCmd, SendFrame, StopSession,
           Disconnect, DisconnectClose, DisconnectJoin, StopServing, Clear, Check, SockConnect, Assign,
           Handshake, Online, Offline, CloseFd, Forget, Drop, OpenElsewhere
      <4>2. <<>> \in Seq(Frame)
        BY EmptySeq
      <4> HIDE <1>2
      <4>3. link \in Seq(Frame)
        BY DEF Sent
      <4> QED
        BY <4>1, <4>2, <4>3 DEF Sent
    <3> QED
      BY <3>1, <3>2, <3>3
  <2>5. Got'
    <3>1. CASE Receive
      <4>1. CASE UNCHANGED <<samples, t0, arrived>>
        BY <4>1 DEF Got
      <4>2. CASE link # <<>> /\ Head(link).event = "nav_state" /\ t0' = OriginOf(Head(link).stamp)
               /\ samples' = Newest(Append(samples, Head(link).stamp - t0'))
               /\ arrived' = Append(arrived, Head(link).stamp)
        <5>1. Head(link) \in Frame
          BY <4>2, HeadTailProperties DEF Sent
        <5>2. Head(link).stamp \in Nat
          BY <4>2, <5>1 DEF Frame
        <5>3. t0' \in Nat
          BY <4>2, <5>2 DEF OriginOf, Got, None
        <5> HIDE <1>2
        <5>4. arrived' \in Seq(Nat)
          BY <4>2, <5>2, AppendProperties DEF Got
        <5>5. Head(link).stamp - t0' \in Int
          BY <5>2, <5>3
        <5>6. samples' \in Seq(Int) /\ Len(samples') <= MaxSamples
          BY <4>2, <5>5, NewestSamples DEF Got
        <5> QED
          BY <5>3, <5>4, <5>6 DEF Got
      <4> QED
        BY <3>1, <4>1, <4>2 DEF Receive, OnMessage
    <3>2. CASE ~Receive
      <4>1. \/ UNCHANGED <<samples, t0, arrived>>
            \/ samples' = <<>> /\ t0' = None /\ arrived' = <<>>
        BY <3>2 DEF Next, UiStep, StopStep, LoopStep, StartSession, Connect, SendCmd, SendFrame, StopSession,
           Disconnect, DisconnectClose, DisconnectJoin, StopServing, Clear, Check, SockConnect, Assign,
           Handshake, Online, Offline, CloseFd, Forget, Publish, Drop, OpenElsewhere
      <4> HIDE <1>2
      <4>2. CASE UNCHANGED <<samples, t0, arrived>>
        BY <4>2 DEF Got
      <4>3. CASE samples' = <<>> /\ t0' = None /\ arrived' = <<>>
        <5>1. <<>> \in Seq(Int) /\ <<>> \in Seq(Nat) /\ Len(<<>>) = 0
          BY EmptySeq
        <5> QED
          BY <4>3, <5>1, UiAssumption DEF Got
      <4> QED
        BY <4>1, <4>2, <4>3
    <3> QED
      BY <3>1, <3>2
  <2> QED
    BY <2>1, <2>2, <2>3, <2>4, <2>5, <2>6 DEF TypeOK, Flow, Flags, Numbers, Table, Sent, Got
<1> QED
  BY <1>1, <1>2

-----------------------------------------------------------------------------
\* What is shown.  The statements of Loop() at which link is its own connection.
Linked == {"assign", "handshake", "online", "receive"}

IsState(frame) == frame.event = "nav_state"

\* The time stamps seen so far rise, and are older than the next event.
Rising(seen, limit) ==
    /\ \A i \in 1..Len(seen) : seen[i] < limit
    /\ \A i, j \in 1..Len(seen) : i < j => seen[i] < seen[j]

\* The nav_state frames still on their way rise, and are newer than those seen.
Later(frames, seen, limit) ==
    /\ \A i \in 1..Len(frames) : IsState(frames[i]) => frames[i].stamp \in Nat /\ frames[i].stamp < limit
    /\ \A i \in 1..Len(frames) : IsState(frames[i]) =>
          \A k \in 1..Len(seen) : seen[k] < frames[i].stamp
    /\ \A i, j \in 1..Len(frames) :
          i < j /\ IsState(frames[i]) /\ IsState(frames[j]) => frames[i].stamp < frames[j].stamp

\* The samples shown are the last MaxSamples of those seen, less the first of all.
WindowOf(shown, seen, origin) ==
    /\ seen = <<>> => origin = None
    /\ seen # <<>> => origin = seen[1]
    /\ Len(shown) = IF Len(seen) > MaxSamples THEN MaxSamples ELSE Len(seen)
    /\ \A i \in 1..Len(shown) : shown[i] = seen[Len(seen) - Len(shown) + i] - origin

\* A newer time stamp may be added to those seen.
LEMMA RisingAppend ==
    ASSUME NEW seen \in Seq(Nat), NEW limit \in Nat, NEW m \in Nat,
           Rising(seen, limit), m < limit, \A k \in 1..Len(seen) : seen[k] < m
    PROVE  Rising(Append(seen, m), limit)
<1>1. /\ Len(Append(seen, m)) = Len(seen) + 1 /\ Len(seen) \in Nat
      /\ Append(seen, m)[Len(seen) + 1] = m
      /\ \A i \in 1..Len(seen) : Append(seen, m)[i] = seen[i]
  BY AppendProperties
<1> QED
  BY <1>1 DEF Rising

\* Another event leaves what was seen in its past.
LEMMA RisingOn ==
    ASSUME NEW seen \in Seq(Nat), NEW limit \in Nat, Rising(seen, limit)
    PROVE  Rising(seen, limit + 1)
  BY DEF Rising

\* Taking the oldest frame off the connection.
LEMMA LaterTail ==
    ASSUME NEW frames \in Seq(Frame), frames # <<>>, NEW seen, NEW limit, Later(frames, seen, limit)
    PROVE  /\ Later(Tail(frames), seen, limit)
           /\ IsState(Head(frames)) =>
                /\ Head(frames).stamp \in Nat /\ Head(frames).stamp < limit
                /\ \A k \in 1..Len(seen) : seen[k] < Head(frames).stamp
                /\ \A i \in 1..Len(Tail(frames)) :
                      IsState(Tail(frames)[i]) => Head(frames).stamp < Tail(frames)[i].stamp
<1>1. /\ Len(frames) \in Nat /\ Len(frames) >= 1 /\ Head(frames) = frames[1]
      /\ Len(Tail(frames)) = Len(frames) - 1
      /\ \A i \in 1..Len(Tail(frames)) : Tail(frames)[i] = frames[i + 1]
  BY HeadTailProperties
<1>2. \A i \in 1..Len(Tail(frames)) : i + 1 \in 1..Len(frames) /\ 1 < i + 1
  BY <1>1
<1> QED
  BY <1>1, <1>2 DEF Later

\* The frame taken is older than those that stay.
LEMMA LaterSeen ==
    ASSUME NEW frames, NEW seen \in Seq(Nat), NEW limit, NEW m \in Nat, Later(frames, seen, limit),
           \A i \in 1..Len(frames) : IsState(frames[i]) => m < frames[i].stamp
    PROVE  Later(frames, Append(seen, m), limit)
<1>1. /\ Len(Append(seen, m)) = Len(seen) + 1 /\ Len(seen) \in Nat
      /\ Append(seen, m)[Len(seen) + 1] = m
      /\ \A i \in 1..Len(seen) : Append(seen, m)[i] = seen[i]
  BY AppendProperties
<1>2. ASSUME NEW i \in 1..Len(frames), IsState(frames[i]), NEW k \in 1..(Len(seen) + 1)
      PROVE  Append(seen, m)[k] < frames[i].stamp
  <2>1. CASE k = Len(seen) + 1
    BY <1>1, <1>2, <2>1
  <2>2. CASE k # Len(seen) + 1
    <3>1. k \in 1..Len(seen)
      BY <1>1, <2>2
    <3> QED
      BY <1>1, <1>2, <3>1 DEF Later
  <2> QED
    BY <2>1, <2>2
<1> QED
  BY <1>1, <1>2 DEF Later

\* Another event is newer than all of them.
LEMMA LaterOn ==
    ASSUME NEW frames, NEW seen, NEW limit \in Nat, Later(frames, seen, limit)
    PROVE  Later(frames, seen, limit + 1)
<1>1. \A i \in 1..Len(frames) : IsState(frames[i]) =>
          frames[i].stamp \in Nat /\ frames[i].stamp < limit + 1
  BY DEF Later
<1> QED
  BY <1>1 DEF Later

\* An event the session broadcasts, whether the client gets it or not.
LEMMA LaterPublished ==
    ASSUME NEW frames \in Seq(Frame), NEW seen \in Seq(Nat), NEW limit \in Nat, NEW frame \in Frame,
           Later(frames, seen, limit), Rising(seen, limit), IsState(frame) => frame.stamp = limit
    PROVE  Later(frames, seen, limit + 1) /\ Later(Append(frames, frame), seen, limit + 1)
<1>1. /\ Len(Append(frames, frame)) = Len(frames) + 1 /\ Len(frames) \in Nat
      /\ Append(frames, frame)[Len(frames) + 1] = frame
      /\ \A i \in 1..Len(frames) : Append(frames, frame)[i] = frames[i]
  BY AppendProperties
<1> DEFINE more == Append(frames, frame)
<1>2. Later(frames, seen, limit + 1)
  BY LaterOn
<1>3. \A k \in 1..Len(seen) : seen[k] < limit
  BY DEF Rising
<1> HIDE DEF more
<1>4. \A i \in 1..Len(more) :
          \/ i = Len(frames) + 1 /\ more[i] = frame
          \/ i \in 1..Len(frames) /\ more[i] = frames[i]
  BY <1>1 DEF more
<1>5. \A i \in 1..Len(more) : IsState(more[i]) => more[i].stamp \in Nat /\ more[i].stamp < limit + 1
  BY <1>2, <1>4 DEF Later
<1>6. ASSUME NEW i \in 1..Len(more), IsState(more[i]), NEW k \in 1..Len(seen) PROVE seen[k] < more[i].stamp
  BY <1>2, <1>3, <1>4, <1>6 DEF Later
<1>7. ASSUME NEW i \in 1..Len(more), NEW j \in 1..Len(more), i < j, IsState(more[i]), IsState(more[j])
      PROVE  more[i].stamp < more[j].stamp
  <2>1. i \in 1..Len(frames) /\ more[i] = frames[i] /\ IsState(frames[i])
    BY <1>1, <1>4, <1>7
  <2>2. CASE j \in 1..Len(frames) /\ more[j] = frames[j]
    BY <1>7, <2>1, <2>2 DEF Later
  <2>3. CASE more[j] = frame
    BY <1>7, <2>1, <2>3 DEF Later
  <2> QED
    BY <1>4, <2>2, <2>3
<1>8. Later(more, seen, limit + 1)
  BY <1>5, <1>6, <1>7 DEF Later
<1> QED
  BY <1>2, <1>8 DEF more

\* Places in a sequence whose first element was dropped.
LEMMA NextPlace ==
    ASSUME NEW a \in Int, NEW b \in Int, NEW c \in Int, c = b - 1, NEW i \in 1..c
    PROVE  i + 1 \in 1..b /\ a - b + (i + 1) = a - c + i
  OBVIOUS

\* Newest() makes of one sample too many the window of all the time stamps.
LEMMA WindowNewest ==
    ASSUME NEW longer \in Seq(Int), longer # <<>>, NEW met, met # <<>>, Len(met) \in Nat,
           NEW start, start = met[1],
           Len(longer) = IF Len(met) > MaxSamples + 1 THEN MaxSamples + 1 ELSE Len(met),
           \A i \in 1..Len(longer) : longer[i] = met[Len(met) - Len(longer) + i] - start
    PROVE  WindowOf(Newest(longer), met, start)
<1> USE UiAssumption
<1>1. CASE Len(longer) > MaxSamples
  <2>1. /\ Newest(longer) = Tail(longer) /\ Len(longer) \in Nat
        /\ Len(Tail(longer)) = Len(longer) - 1
        /\ \A i \in 1..Len(Tail(longer)) : Tail(longer)[i] = longer[i + 1]
    BY <1>1, HeadTailProperties DEF Newest
  <2> DEFINE rest == Tail(longer)
  <2>2. /\ Newest(longer) = rest /\ Len(longer) \in Int /\ Len(met) \in Int /\ Len(rest) \in Int
        /\ Len(rest) = Len(longer) - 1
        /\ \A i \in 1..Len(rest) : rest[i] = longer[i + 1]
    BY <2>1
  <2> HIDE DEF rest
  <2>3. Len(rest) = IF Len(met) > MaxSamples THEN MaxSamples ELSE Len(met)
    BY <1>1, <2>2
  <2>4. \A i \in 1..Len(rest) : rest[i] = met[Len(met) - Len(rest) + i] - start
    <3> SUFFICES ASSUME NEW i \in 1..Len(rest) PROVE rest[i] = met[Len(met) - Len(rest) + i] - start
      OBVIOUS
    <3>1. i + 1 \in 1..Len(longer) /\ Len(met) - Len(longer) + (i + 1) = Len(met) - Len(rest) + i
      BY <2>2, NextPlace
    <3> QED
      BY <2>2, <3>1
  <2> QED
    BY <2>2, <2>3, <2>4 DEF WindowOf
<1>2. CASE ~(Len(longer) > MaxSamples)
  <2>1. Newest(longer) = longer /\ Len(longer) \in Nat
    BY <1>2 DEF Newest
  <2>2. Len(longer) = IF Len(met) > MaxSamples THEN MaxSamples ELSE Len(met)
    BY <1>2, <2>1
  <2>3. WindowOf(longer, met, start)
    BY <2>2 DEF WindowOf
  <2> QED
    BY <2>1, <2>3
<1> QED
  BY <1>1, <1>2

\* A sample added to a window.
LEMMA WindowAppend ==
    ASSUME NEW shown \in Seq(Int), NEW seen \in Seq(Nat), NEW origin, NEW m \in Nat,
           WindowOf(shown, seen, origin), NEW start, start = IF origin < 0 THEN m ELSE origin
    PROVE  WindowOf(Newest(Append(shown, m - start)), Append(seen, m), start)
<1> USE UiAssumption
<1> DEFINE longer == Append(shown, m - start)
<1> DEFINE met == Append(seen, m)
<1>1. /\ Len(met) = Len(seen) + 1 /\ Len(seen) \in Nat /\ met[Len(seen) + 1] = m
      /\ \A i \in 1..Len(seen) : met[i] = seen[i]
      /\ met # <<>> /\ Len(shown) \in Nat
  BY AppendProperties
<1>2. start = met[1] /\ start \in Nat /\ (seen # <<>> => start = origin)
  <2>1. CASE seen = <<>>
    BY <1>1, <2>1 DEF WindowOf, None
  <2>2. CASE seen # <<>>
    <3>1. Len(seen) >= 1 /\ seen[1] \in Nat /\ origin = seen[1]
      BY <2>2 DEF WindowOf
    <3> QED
      BY <1>1, <3>1
  <2> QED
    BY <2>1, <2>2
<1>3. /\ longer \in Seq(Int) /\ longer # <<>> /\ Len(longer) = Len(shown) + 1
      /\ longer[Len(shown) + 1] = m - start
      /\ \A i \in 1..Len(shown) : longer[i] = shown[i]
  <2>1. m - start \in Int
    BY <1>2
  <2> QED
    BY <2>1, AppendProperties
<1>4. /\ Len(Tail(longer)) = Len(shown)
      /\ \A i \in 1..Len(shown) : Tail(longer)[i] = longer[i + 1]
  BY <1>1, <1>3, HeadTailProperties
<1> HIDE DEF longer, met
<1>5. \A i \in 1..Len(shown) : shown[i] = seen[Len(seen) - Len(shown) + i] - start
  <2>1. CASE seen = <<>>
    BY <1>1, <2>1 DEF WindowOf
  <2>2. CASE seen # <<>>
    BY <1>2, <2>2 DEF WindowOf
  <2> QED
    BY <2>1, <2>2
<1>6. Len(shown) = IF Len(seen) > MaxSamples THEN MaxSamples ELSE Len(seen)
  BY DEF WindowOf
<1>7. ASSUME NEW i \in 1..(Len(shown) + 1)
      PROVE  longer[i] = met[Len(seen) - Len(shown) + i] - start
  <2>1. CASE i = Len(shown) + 1
    <3>1. Len(seen) - Len(shown) + i = Len(seen) + 1
      BY <1>1, <2>1
    <3> QED
      BY <1>1, <1>3, <2>1, <3>1
  <2>2. CASE i # Len(shown) + 1
    <3>1. i \in 1..Len(shown) /\ Len(seen) - Len(shown) + i \in 1..Len(seen)
      BY <1>1, <1>6, <1>7, <2>2
    <3> QED
      BY <1>1, <1>3, <1>5, <3>1
  <2> QED
    BY <2>1, <2>2
<1>8. Len(met) = Len(seen) + 1 /\ Len(longer) = Len(shown) + 1
  BY <1>1, <1>3
<1>9. \A i \in 1..Len(longer) : longer[i] = met[Len(met) - Len(longer) + i] - start
  <2> SUFFICES ASSUME NEW i \in 1..Len(longer)
               PROVE  longer[i] = met[Len(met) - Len(longer) + i] - start
    OBVIOUS
  <2>1. i \in 1..(Len(shown) + 1) /\ Len(seen) - Len(shown) + i = Len(met) - Len(longer) + i
    BY <1>1, <1>8
  <2> QED
    BY <1>7, <2>1
<1>10. Len(longer) = IF Len(met) > MaxSamples + 1 THEN MaxSamples + 1 ELSE Len(met)
  BY <1>1, <1>6, <1>8
<1>11. Len(met) \in Nat /\ met # <<>> /\ longer \in Seq(Int) /\ longer # <<>> /\ start = met[1]
  BY <1>1, <1>2, <1>3
<1>12. WindowOf(Newest(longer), met, start)
  BY <1>9, <1>10, <1>11, WindowNewest
<1> QED
  BY <1>12 DEF longer, met

-----------------------------------------------------------------------------
\* The three facts about connection, history and samples that are inductive.
Stamps == Rising(arrived, events) /\ (ui = "setup" => arrived = <<>>)
OnTheWay == loop \in Linked => Later(link, arrived, events)
Window == WindowOf(samples, arrived, t0)

\* One frame, or none, is received and handled by OnMessage().
LEMMA ReceiveShown ==
    ASSUME TypeOK, UiInv, Stamps, OnTheWay, Window, Receive
    PROVE  Stamps' /\ OnTheWay' /\ Window'
<1>1. /\ ui' = ui /\ events' = events /\ ui # "setup" /\ Later(link, arrived, events)
      /\ link \in Seq(Frame) /\ arrived \in Seq(Nat) /\ samples \in Seq(Int) /\ events \in Nat
  BY DEF Receive, UiInv, Joined, TypeOK, OnTheWay, Linked
<1>2. CASE UNCHANGED <<appVars, link>>
  BY <1>1, <1>2 DEF appVars, Stamps, OnTheWay, Window
<1>3. CASE link # <<>> /\ OnMessage(Head(link)) /\ link' = Tail(link)
  <2>1. /\ Later(link', arrived, events)
        /\ IsState(Head(link)) =>
             /\ Head(link).stamp \in Nat /\ Head(link).stamp < events
             /\ \A k \in 1..Len(arrived) : arrived[k] < Head(link).stamp
             /\ \A i \in 1..Len(link') : IsState(link'[i]) => Head(link).stamp < link'[i].stamp
    BY <1>1, <1>3, LaterTail
  <2>2. CASE UNCHANGED <<samples, t0, arrived>>
    BY <1>1, <2>1, <2>2 DEF OnTheWay, Stamps, Window
  <2>3. CASE Head(link).event = "nav_state" /\ t0' = OriginOf(Head(link).stamp)
             /\ samples' = Newest(Append(samples, Head(link).stamp - t0'))
             /\ arrived' = Append(arrived, Head(link).stamp)
    <3>1. IsState(Head(link))
      BY <2>3 DEF IsState
    <3>2. Rising(arrived', events)
      BY <1>1, <2>1, <2>3, <3>1, RisingAppend DEF Stamps
    <3>3. Later(link', arrived', events)
      BY <1>1, <2>1, <2>3, <3>1, LaterSeen
    <3>4. WindowOf(samples', arrived', t0')
      BY <1>1, <2>1, <2>3, <3>1, WindowAppend DEF Window, OriginOf
    <3> QED
      BY <1>1, <3>2, <3>3, <3>4 DEF Stamps, OnTheWay, Window
  <2> QED
    BY <1>3, <2>2, <2>3 DEF OnMessage, appVars
<1> QED
  BY <1>2, <1>3 DEF Receive

\* A new connection starts empty; only StartSession() restarts the events, when
\* there is no connection and nothing was seen.
LEMMA ShownStep ==
    TypeOK /\ UiInv /\ Stamps /\ OnTheWay /\ Window /\ [Next]_vars => Stamps' /\ OnTheWay' /\ Window'
<1> SUFFICES ASSUME TypeOK, UiInv, Stamps, OnTheWay, Window, [Next]_vars PROVE Stamps' /\ OnTheWay' /\ Window'
  OBVIOUS
<1> USE DEF clientVars, envVars, appVars
<1>1. CASE StartSession
  <2>1. /\ ui = "setup" /\ loop = "off" /\ arrived = <<>> /\ events' = 0
        /\ UNCHANGED <<loop, appVars>>
    BY <1>1 DEF StartSession, UiInv, Joined, Stamps
  <2> QED
    BY <2>1 DEF Stamps, OnTheWay, Window, Linked, Rising
<1>2. CASE Clear
  <2>1. /\ samples' = <<>> /\ arrived' = <<>> /\ t0' = None /\ loop' = loop /\ loop = "off"
    BY <1>2 DEF Clear, UiInv, Joined
  <2> QED
    BY <2>1, UiAssumption DEF Stamps, OnTheWay, Window, Linked, Rising, WindowOf
<1>3. CASE SockConnect
  <2>1. /\ UNCHANGED <<ui, events, appVars>>
        /\ link' = <<>> \/ loop' = "check"
    BY <1>3 DEF SockConnect
  <2> QED
    BY <2>1 DEF Stamps, OnTheWay, Window, Linked, Later
<1>4. CASE Publish
  <2>1. /\ UNCHANGED <<ui, loop, appVars>> /\ events' = events + 1 /\ events \in Nat
        /\ link \in Seq(Frame) /\ arrived \in Seq(Nat)
    BY <1>4 DEF Publish, TypeOK
  <2>2. PICK frame \in Frame :
          /\ frame.event = "nav_state" => frame.stamp = events
          /\ link' = IF linkOpen /\ loop \in {"online", "receive"} THEN Append(link, frame) ELSE link
    BY <1>4, <2>1 DEF Publish, Frame
  <2>3. Stamps' /\ Window'
    BY <2>1, RisingOn DEF Stamps, Window
  <2>4. OnTheWay'
    BY <2>1, <2>2, LaterPublished DEF OnTheWay, Stamps, IsState
  <2> QED
    BY <2>3, <2>4
<1>5. CASE Connect \/ SendCmd \/ SendFrame \/ StopSession \/ Disconnect \/ DisconnectClose
           \/ DisconnectJoin \/ StopServing \/ Check \/ Assign \/ Handshake \/ Online \/ Offline
           \/ CloseFd \/ Forget \/ Drop \/ OpenElsewhere \/ UNCHANGED vars
  <2>1. /\ UNCHANGED <<link, events, appVars>> /\ (ui' = "setup" => ui = "setup")
        /\ loop' \in Linked => loop \in Linked
    BY <1>5 DEF Connect, SendCmd, SendFrame, StopSession, Disconnect, DisconnectClose,
       DisconnectJoin, StopServing, Check, Assign, Handshake, Online, Offline,
       CloseFd, Forget, Drop, OpenElsewhere, vars, Linked
  <2> QED
    BY <2>1 DEF Stamps, OnTheWay, Window
<1> QED
  BY <1>1, <1>2, <1>3, <1>4, <1>5, ReceiveShown DEF Next, UiStep, StopStep, LoopStep

-----------------------------------------------------------------------------
\* Every variable of the UI thread, the client and its connection keeps its range,
\* samples_ its bound kMaxSamples.
THEOREM UiTypes == Spec => []TypeOK
<1>1. Init => TypeOK
  BY UiAssumption DEF Init, TypeOK, Fds, None, Free
<1>2. TypeOK /\ [Next]_vars => TypeOK'
  BY TypeStep
<1> QED
  BY <1>1, <1>2, PTL DEF Spec

\* What UiApp shows are the newest samples of this session, each once and in
\* order, over any number of reconnections and lost frames, relative to the first.
THEOREM SamplesAreOfSession == Spec => []SamplesOfSession
<1>1. Init => Stamps /\ OnTheWay /\ Window
  BY UiAssumption DEF Init, Stamps, OnTheWay, Window, None, Rising, Later, WindowOf, Linked
<1>2. TypeOK /\ Stamps /\ Window => SamplesOfSession
  <2> SUFFICES ASSUME TypeOK, Stamps, Window PROVE SamplesOfSession
    OBVIOUS
  <2> DEFINE shown == [i \in DOMAIN arrived |-> arrived[i] - arrived[1]]
  <2>1. /\ arrived \in Seq(Nat) /\ Len(arrived) \in Nat /\ DOMAIN arrived = 1..Len(arrived)
        /\ samples \in Seq(Int) /\ Len(samples) \in Nat /\ MaxSamples \in Nat \ {0}
    BY UiAssumption DEF TypeOK
  <2>2. arrived = <<>> => samples = <<>>
    BY <2>1, EmptySeq DEF Window, WindowOf
  <2>3. /\ shown \in Seq(Int) /\ Len(shown) = Len(arrived)
        /\ \A i \in 1..Len(arrived) : shown[i] = arrived[i] - arrived[1]
    BY <2>1
  <2> HIDE DEF shown
  <2>4. \A i \in 1..Len(samples) : samples[i] = shown[Len(arrived) - Len(samples) + i]
    <3> SUFFICES ASSUME NEW i \in 1..Len(samples)
                 PROVE  samples[i] = shown[Len(arrived) - Len(samples) + i]
      OBVIOUS
    <3>1. Len(arrived) - Len(samples) + i \in 1..Len(arrived)
      BY <2>1 DEF Window, WindowOf
    <3>2. arrived # <<>>
      BY <2>1, <2>2
    <3> QED
      BY <2>3, <3>1, <3>2 DEF Window, WindowOf
  <2>5. CASE Len(shown) > MaxSamples
    <3> DEFINE first == Len(shown) - MaxSamples + 1
    <3> DEFINE last == SubSeq(shown, first, Len(shown))
    <3>1. first \in Int /\ Len(shown) \in Int /\ first >= 1 /\ first <= Len(shown)
          /\ \A i \in first..Len(shown) : shown[i] \in Int
      BY <2>1, <2>3, <2>5
    <3>2. /\ last \in Seq(Int) /\ Len(last) = Len(shown) - first + 1
          /\ \A i \in 1..(Len(shown) - first + 1) : last[i] = shown[first + i - 1]
      BY <3>1, SubSeqProperties
    <3>3. Len(samples) = MaxSamples /\ Len(last) = MaxSamples
      BY <2>1, <2>3, <2>5, <3>2 DEF Window, WindowOf
    <3>4. ASSUME NEW i \in 1..Len(samples) PROVE samples[i] = last[i]
      <4>1. i \in 1..(Len(shown) - first + 1) /\ first + i - 1 = Len(arrived) - Len(samples) + i
        BY <2>1, <2>3, <3>3
      <4> QED
        BY <2>4, <3>2, <4>1
    <3> HIDE DEF last
    <3>5. samples = last
      BY <2>1, <3>2, <3>3, <3>4, SeqEqual
    <3>6. samples = SubSeq(shown, Len(shown) - MaxSamples + 1, Len(shown))
      BY <3>5 DEF last
    <3> QED
      BY <2>1, <2>2, <2>5, <3>6 DEF SamplesOfSession, Stamps, Rising, shown
  <2>6. CASE ~(Len(shown) > MaxSamples)
    <3>1. Len(samples) = Len(shown)
      BY <2>1, <2>3, <2>6 DEF Window, WindowOf
    <3>2. ASSUME NEW i \in 1..Len(samples) PROVE samples[i] = shown[i]
      <4>1. Len(arrived) - Len(samples) + i = i
        BY <2>1, <2>3, <3>1
      <4> QED
        BY <2>4, <4>1
    <3>3. samples = shown
      BY <2>1, <2>3, <3>1, <3>2, SeqEqual
    <3> QED
      BY <2>1, <2>2, <2>6, <3>3 DEF SamplesOfSession, Stamps, Rising, shown
  <2> QED
    BY <2>5, <2>6
<1>3. TypeOK /\ UiInv /\ Stamps /\ OnTheWay /\ Window /\ [Next]_vars => Stamps' /\ OnTheWay' /\ Window'
  BY ShownStep
<1> QED
  BY <1>1, <1>2, <1>3, UiTypes, UiInvariance, PTL DEF Spec

=============================================================================
