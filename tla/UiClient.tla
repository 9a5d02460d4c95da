------------------------------- MODULE UiClient -------------------------------
(***************************************************************************)
(* The desktop program: UiApp on the UI thread, its WsClient with the      *)
(* thread that runs Loop(), and the WsServer of the session UiApp owns,    *)
(* as far as the client sees it.  All of them are one process, with one    *)
(* table of descriptors: the client's socket is a number that others may   *)
(* be given once it is closed.                                             *)
(*                                                                         *)
(* running_, connected_ and socket_fd_ are shared by two threads without a *)
(* lock: every access is a step.  OnMessage() and the drawing code run     *)
(* under UiApp::mu_ and are one step each.  A nav_state event is its time  *)
(* stamp; widgets and what is drawn are left out.                          *)
(***************************************************************************)
EXTENDS Integers, Sequences, SequencesExt

CONSTANTS
    MaxSamples,     \* kMaxSamples
    MaxSessions,    \* bound: sessions started
    MaxEvents,      \* bound: events a session broadcasts
    MaxConnects,    \* bound: connections made in a session
    MaxCommands     \* bound: buttons pressed

ASSUME UiAssumption ==
    /\ MaxSamples \in Nat \ {0}
    /\ MaxSessions \in Nat /\ MaxEvents \in Nat /\ MaxConnects \in Nat /\ MaxCommands \in Nat

VARIABLES
    ui,             \* the statement of the UI thread
    session,        \* which session_ this is; 0 if it is null
    sessions,       \* sessions started so far
    serving,        \* the session's WsServer is up
    running,        \* running_
    connected,      \* connected_
    socket,         \* socket_fd_
    loop,           \* the statement Loop() executes next
    fd,             \* Loop()'s local fd
    holder,         \* what each number refers to
    link,           \* frames on the way to the client
    linkOpen,       \* the server's end of the connection is open
    connects, events, commands,
    target,         \* the number Send() read, before it writes
    samples,        \* samples_: times relative to t0_
    t0,             \* t0_
    status,         \* status_
    arrived         \* history: time stamps OnMessage() got in this session

appVars == <<samples, t0, status, arrived>>
envVars == <<link, linkOpen, connects, events>>
clientVars == <<running, connected, socket, loop, fd, holder>>
vars == <<ui, session, sessions, serving, clientVars, envVars, commands, target, appVars>>

Fds == {0, 1}
Free == "free"
Ours == "client"
Foreign == "foreign"
None == -1

Frame == [event : {"nav_state"}, stamp : Nat] \cup [event : {"status", "bad"}]

Init ==
    /\ ui = "setup" /\ session = 0 /\ sessions = 0 /\ serving = FALSE
    /\ running = FALSE /\ connected = FALSE /\ socket = None /\ loop = "off" /\ fd = None
    /\ holder = [n \in Fds |-> Free]
    /\ link = <<>> /\ linkOpen = FALSE /\ connects = 0 /\ events = 0
    /\ commands = 0 /\ target = None
    /\ samples = <<>> /\ t0 = None /\ status = "idle" /\ arrived = <<>>

Release(n) == [holder EXCEPT ![n] = Free]

-----------------------------------------------------------------------------
\* StartSession() begins with StopSession(), which has nothing to stop when the
\* button is shown.  The constructor or Start() may throw; Start() may also
\* return FALSE, with a session that serves nobody.
StartSession ==
    /\ ui = "setup" /\ sessions < MaxSessions
    /\ sessions' = sessions + 1
    /\ \/ UNCHANGED <<ui, session, serving>>
       \/ session' = sessions' /\ serving' \in BOOLEAN /\ ui' = "connect"
    /\ connects' = 0 /\ events' = 0
    /\ UNCHANGED <<clientVars, link, linkOpen, commands, target, appVars>>

\* Connect()
Connect ==
    /\ ui = "connect"
    /\ ui' = "main"
    /\ IF running THEN UNCHANGED <<running, loop>> ELSE running' = TRUE /\ loop' = "check"
    /\ UNCHANGED <<session, sessions, serving, connected, socket, fd, holder, envVars, commands,
                   target, appVars>>

\* Send(): the test, and the write, which goes wherever the number leads by
\* then; what the server does with a command is Session's.
SendCmd ==
    /\ ui = "main" /\ commands < MaxCommands
    /\ commands' = commands + 1
    /\ IF connected /\ socket # None
       THEN target' = socket /\ ui' = "send"
       ELSE UNCHANGED <<target, ui>>
    /\ UNCHANGED <<session, sessions, serving, clientVars, envVars, appVars>>

SendFrame ==
    /\ ui = "send"
    /\ ui' = "main" /\ target' = None
    /\ UNCHANGED <<session, sessions, serving, clientVars, envVars, commands, appVars>>

\* StopSession(): Disconnect(), then the session, then what is shown.
StopSession ==
    /\ ui = "main"
    /\ running' = FALSE /\ ui' = "disconnect"
    /\ UNCHANGED <<session, sessions, serving, connected, socket, loop, fd, holder, envVars,
                   commands, target, appVars>>

Disconnect ==
    /\ ui = "disconnect"
    /\ connected' = FALSE /\ ui' = "close"
    /\ UNCHANGED <<session, sessions, serving, running, socket, loop, fd, holder, envVars,
                   commands, target, appVars>>

DisconnectClose ==
    /\ ui = "close"
    /\ ui' = "join" /\ socket' = None
    /\ IF socket # None
       THEN /\ holder' = Release(socket)
            /\ linkOpen' = (linkOpen /\ holder[socket] # Ours)
       ELSE UNCHANGED <<holder, linkOpen>>
    /\ UNCHANGED <<session, sessions, serving, running, connected, loop, fd, link, connects, events,
                   commands, target, appVars>>

DisconnectDetach ==     \* mutant: the thread is not waited for
    /\ ui = "join"
    /\ ui' = "stop"
    /\ UNCHANGED <<session, sessions, serving, clientVars, envVars, commands, target, appVars>>

DisconnectJoin ==
    /\ ui = "join" /\ loop = "off"
    /\ ui' = "stop"
    /\ UNCHANGED <<session, sessions, serving, clientVars, envVars, commands, target, appVars>>

\* session_->Stop() and reset(): its server closes every connection.
StopServing ==
    /\ ui = "stop"
    /\ ui' = "clear" /\ session' = 0 /\ serving' = FALSE /\ linkOpen' = FALSE
    /\ UNCHANGED <<sessions, clientVars, link, connects, events, commands, target, appVars>>

OriginKept ==       \* mutant: t0_ is not reset
    /\ ui = "clear"
    /\ ui' = "setup"
    /\ samples' = <<>> /\ status' = "idle" /\ arrived' = <<>>
    /\ UNCHANGED <<session, sessions, serving, clientVars, envVars, commands, target, t0>>

Clear ==
    /\ ui = "clear"
    /\ ui' = "setup"
    /\ samples' = <<>> /\ t0' = None /\ status' = "idle" /\ arrived' = <<>>
    /\ UNCHANGED <<session, sessions, serving, clientVars, envVars, commands, target>>

-----------------------------------------------------------------------------
\* Loop().
CheckNothing ==     \* mutant: running_ is not read
    /\ loop = "check"
    /\ loop' = "connect"
    /\ UNCHANGED <<ui, session, sessions, serving, running, connected, socket, fd, holder, envVars,
                   commands, target, appVars>>

Check ==
    /\ loop = "check"
    /\ loop' = IF running THEN "connect" ELSE "off"
    /\ UNCHANGED <<ui, session, sessions, serving, running, connected, socket, fd, holder, envVars,
                   commands, target, appVars>>

\* sock_connect() gives the lowest free number; without a server it fails and
\* the loop sleeps.
SockConnect ==
    /\ loop = "connect"
    /\ IF serving /\ connects < MaxConnects
       THEN \E n \in Fds :
              /\ holder[n] = Free /\ \A k \in Fds : k < n => holder[k] # Free
              /\ holder' = [holder EXCEPT ![n] = Ours] /\ fd' = n
              /\ link' = <<>> /\ linkOpen' = TRUE /\ connects' = connects + 1
              /\ loop' = "assign"
       ELSE loop' = "check" /\ UNCHANGED <<holder, fd, link, linkOpen, connects>>
    /\ UNCHANGED <<ui, session, sessions, serving, running, connected, socket, events,
                   commands, target, appVars>>

Assign ==
    /\ loop = "assign"
    /\ socket' = fd /\ loop' = "handshake"
    /\ UNCHANGED <<ui, session, sessions, serving, running, connected, fd, holder, envVars,
                   commands, target, appVars>>

\* Handshake() succeeds only on a socket that is still the client's and open at
\* the other end; a server at max_clients, or none, makes it fail.
Handshake ==
    /\ loop = "handshake"
    /\ \/ holder[fd] = Ours /\ linkOpen /\ loop' = "online"
       \/ loop' = "close"
    /\ UNCHANGED <<ui, session, sessions, serving, running, connected, socket, fd, holder, envVars,
                   commands, target, appVars>>

Online ==
    /\ loop = "online"
    /\ connected' = TRUE /\ loop' = "receive"
    /\ UNCHANGED <<ui, session, sessions, serving, running, socket, fd, holder, envVars,
                   commands, target, appVars>>

\* OnMessage() of one frame.  A frame that is no JSON, or lacks the types it
\* should have, throws before anything was stored.
Newest(seq) == IF Len(seq) > MaxSamples THEN Tail(seq) ELSE seq

OriginOf(stamp) == IF t0 < 0 THEN stamp ELSE t0

OnMessage(frame) ==
    \/ /\ frame.event = "nav_state"
       /\ t0' = OriginOf(frame.stamp)
       /\ samples' = Newest(Append(samples, frame.stamp - t0'))
       /\ arrived' = Append(arrived, frame.stamp)
       /\ UNCHANGED status
    \/ /\ frame.event = "status"
       /\ status' = "running"
       /\ UNCHANGED <<samples, t0, arrived>>
    \/ /\ frame.event = "bad"
       /\ UNCHANGED appVars

\* RecvFrame() returns a frame, or FALSE: the connection ended, five seconds
\* without a byte, a close frame, or a number that is not the client's any more.
\* From somebody else's descriptor it reads what is no frame.  running_ is
\* tested between frames.
Receive ==
    /\ loop = "receive"
    /\ \/ /\ holder[fd] = Ours /\ link # <<>>
          /\ OnMessage(Head(link)) /\ link' = Tail(link)
          /\ loop' = IF running THEN "receive" ELSE "offline"
       \/ /\ ~running \/ link = <<>> \/ holder[fd] # Ours
          /\ loop' = "offline"
          /\ UNCHANGED <<appVars, link>>
    /\ UNCHANGED <<ui, session, sessions, serving, running, connected, socket, fd, holder, linkOpen,
                   connects, events, commands, target>>

Offline ==
    /\ loop = "offline"
    /\ connected' = FALSE /\ loop' = "close"
    /\ UNCHANGED <<ui, session, sessions, serving, running, socket, fd, holder, envVars,
                   commands, target, appVars>>

\* sock_close(fd), whoever has the number by now.
CloseFd ==
    /\ loop = "close"
    /\ holder' = Release(fd) /\ loop' = "forget"
    /\ linkOpen' = (linkOpen /\ holder[fd] # Ours)
    /\ UNCHANGED <<ui, session, sessions, serving, running, connected, socket, fd, link, connects,
                   events, commands, target, appVars>>

GiveUp ==       \* mutant: the thread ends with its connection
    /\ loop = "forget"
    /\ socket' = None /\ fd' = None /\ loop' = "off"
    /\ UNCHANGED <<ui, session, sessions, serving, running, connected, holder, envVars,
                   commands, target, appVars>>

\* socket_fd_ = -1, and the pause before the next attempt.
Forget ==
    /\ loop = "forget"
    /\ socket' = None /\ fd' = None /\ loop' = "check"
    /\ UNCHANGED <<ui, session, sessions, serving, running, connected, holder, envVars,
                   commands, target, appVars>>

-----------------------------------------------------------------------------
\* The session broadcasts; a client that was upgraded gets the event.
Publish ==
    /\ serving /\ events < MaxEvents
    /\ events' = events + 1
    /\ \E frame \in {[event |-> "nav_state", stamp |-> events], [event |-> "status"], [event |-> "bad"]} :
         link' = IF linkOpen /\ loop \in {"online", "receive"} THEN Append(link, frame) ELSE link
    /\ UNCHANGED <<ui, session, sessions, serving, clientVars, linkOpen, connects,
                   commands, target, appVars>>

\* The server drops the connection.
Drop ==
    /\ linkOpen
    /\ linkOpen' = FALSE
    /\ UNCHANGED <<ui, session, sessions, serving, clientVars, link, connects, events,
                   commands, target, appVars>>

\* Another part of the process opens a file or socket and keeps it.
OpenElsewhere ==
    /\ \A n \in Fds : holder[n] # Foreign
    /\ \E n \in Fds :
         /\ holder[n] = Free /\ \A k \in Fds : k < n => holder[k] # Free
         /\ holder' = [holder EXCEPT ![n] = Foreign]
    /\ UNCHANGED <<ui, session, sessions, serving, running, connected, socket, loop, fd, envVars,
                   commands, target, appVars>>

-----------------------------------------------------------------------------
StopStep == Disconnect \/ DisconnectClose \/ DisconnectJoin \/ StopServing \/ Clear
UiStep == StartSession \/ Connect \/ SendCmd \/ SendFrame \/ StopSession \/ StopStep
LoopStep ==
    \/ Check \/ SockConnect \/ Assign \/ Handshake \/ Online \/ Receive
    \/ Offline \/ CloseFd \/ Forget

Next == UiStep \/ LoopStep \/ Publish \/ Drop \/ OpenElsewhere

\* The operating system runs both threads; the UI thread completes a call.
Fairness == WF_vars(LoopStep) /\ WF_vars(Connect \/ SendFrame \/ StopStep)

Spec == Init /\ [][Next]_vars /\ Fairness

-----------------------------------------------------------------------------
TypeOK ==
    /\ ui \in {"setup", "connect", "main", "send", "disconnect", "close", "join", "stop", "clear"}
    /\ session \in 0..MaxSessions /\ sessions \in 0..MaxSessions /\ serving \in BOOLEAN
    /\ running \in BOOLEAN /\ connected \in BOOLEAN
    /\ socket \in Fds \cup {None} /\ fd \in Fds \cup {None} /\ target \in Fds \cup {None}
    /\ loop \in {"off", "check", "connect", "assign", "handshake", "online", "receive",
                 "offline", "close", "forget"}
    /\ holder \in [Fds -> {Free, Ours, Foreign}]
    /\ link \in Seq(Frame) /\ linkOpen \in BOOLEAN
    /\ connects \in Nat /\ events \in Nat /\ commands \in Nat
    /\ samples \in Seq(Int) /\ Len(samples) <= MaxSamples
    /\ t0 \in Nat \cup {None} /\ arrived \in Seq(Nat)

\* Once StopSession() has returned nothing of the session is left: the client's
\* thread has ended, it says it is not connected, it holds no socket, and no
\* sample or status is shown, although Disconnect() and Loop() write the same
\* three fields and a handshake may have been under way.
QuietAfterStop ==
    /\ ui \in {"stop", "clear", "setup"} =>
        /\ loop = "off" /\ ~running /\ ~connected /\ socket = None
        /\ \A n \in Fds : holder[n] # Ours
    /\ ui = "setup" => samples = <<>> /\ t0 = None /\ status = "idle"

\* The ranges of the variables; and what is shown are the newest samples of this
\* session, each once, in their order over all reconnections, with the session's first sample at time 0.
SamplesOfSession ==
    /\ TypeOK
    /\ \A i, j \in DOMAIN arrived : i < j => arrived[i] < arrived[j]
    /\ arrived = <<>> => samples = <<>>
    /\ LET shown == [i \in DOMAIN arrived |-> arrived[i] - arrived[1]]
       IN  samples = IF Len(shown) > MaxSamples
                     THEN SubSeq(shown, Len(shown) - MaxSamples + 1, Len(shown)) ELSE shown

\* While a session serves, a client that lost its connection makes another.
Reconnects ==
    ui = "main" /\ serving /\ ~connected
        ~> connected \/ ui # "main" \/ connects = MaxConnects

\* StopSession() returns to the setup screen, wherever Loop() is.
StopReturns == ui = "disconnect" ~> ui = "setup"

=============================================================================
