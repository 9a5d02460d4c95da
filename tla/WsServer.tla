------------------------------- MODULE WsServer -------------------------------
(***************************************************************************)
(* WsServer: the server thread, its owner's Start() and Stop(), threads    *)
(* that Broadcast(), and clients that ask for the page or upgrade and then *)
(* send frames.                                                            *)
(*                                                                         *)
(* A request or frame travels as two pieces, head and tail, and read()     *)
(* returns any number of the pieces that are there.  It is complete when   *)
(* its tail is.  A client speaks WebSocket only after it has read the 101. *)
(* A section under mu_ is one step; deadlocks over mu_ are Session's.      *)
(***************************************************************************)
EXTENDS ServerState, SequencesExt

CONSTANTS
    Requests,       \* requests clients open with
    Frames,         \* kinds of frames clients send
    MaxMessages     \* bound: requests and frames sent by all clients

ASSUME WsAssumption ==
    /\ MaxClients \in Nat \ {0}
    /\ Requests \subseteq {"upgrade", "keyless", "page"}
    /\ Frames \subseteq {"text", "control", "close"}
    /\ MaxMessages \in Nat /\ MaxBroadcasts \in Nat /\ MaxStarts \in Nat

\* accepted is a set here, of one client or none, and sent holds sequences of
\* pieces.  The loop is "reading" while it holds mu_ in a round of reads.
VARIABLES
    watched,        \* rfds, as select() left it: clients to read
    upgraded,       \* Client::upgraded
    dead,           \* Client::dead
    buf,            \* Client::buf
    open,           \* clients whose descriptor the server has not closed
    wire,           \* pieces sent and not read
    out,            \* what the server has written to each client
    handled         \* history: the texts handler_ was called with

serverVars == <<running, listening, owner, starts>>
loopVars == <<loop, watched, toAccept, accepted>>
clientVars == <<clients, upgraded, dead, buf, open>>
peerVars == <<conn, backlog, wire, sent>>
vars == <<serverVars, loopVars, clientVars, peerVars, out, handled, broadcasts, killed>>

Piece == [kind : {"upgrade", "keyless", "page", "text", "control", "close"},
          number : Nat, last : BOOLEAN]
Line == {"101", "page", "answer", "event", "close"} \X Nat

Init ==
    /\ running = FALSE /\ listening = FALSE /\ owner = "down" /\ starts = 0
    /\ loop = "off" /\ watched = {} /\ toAccept = FALSE /\ accepted = {}
    /\ clients = {} /\ upgraded = {} /\ dead = {} /\ open = {}
    /\ buf = [c \in Clients |-> <<>>]
    /\ conn = [c \in Clients |-> "away"] /\ backlog = {}
    /\ wire = [c \in Clients |-> <<>>] /\ sent = [c \in Clients |-> <<>>]
    /\ out = [c \in Clients |-> <<>>] /\ handled = [c \in Clients |-> <<>>]
    /\ broadcasts = 0 /\ killed = FALSE

-----------------------------------------------------------------------------
\* The owner's thread.  Start() throws if it cannot bind: nothing changes then.
Start ==
    /\ owner = "down" /\ starts < MaxStarts
    /\ running' = TRUE /\ listening' = TRUE /\ owner' = "up" /\ starts' = starts + 1
    /\ loop' = "check"
    /\ UNCHANGED <<watched, toAccept, accepted, clientVars, peerVars, out, handled, broadcasts, killed>>

StopBegin ==
    /\ owner = "up"
    /\ running' = FALSE /\ owner' = "close"
    /\ UNCHANGED <<listening, starts, loopVars, clientVars, peerVars, out, handled, broadcasts, killed>>

\* close(server_fd_): connections not accepted are reset.
StopListening ==
    /\ owner = "close"
    /\ listening' = FALSE /\ owner' = "join"
    /\ conn' = [c \in Clients |-> IF c \in backlog /\ conn[c] = "open" THEN "cut" ELSE conn[c]]
    /\ backlog' = {}
    /\ UNCHANGED <<running, starts, loopVars, clientVars, wire, sent, out, handled, broadcasts, killed>>

StopClear ==
    /\ owner = "join" /\ loop = "off"
    /\ owner' = "down"
    /\ open' = open \ clients /\ clients' = {}
    /\ conn' = [c \in Clients |-> IF c \in clients /\ conn[c] = "open" THEN "cut" ELSE conn[c]]
    /\ UNCHANGED <<running, listening, starts, loopVars, upgraded, dead, buf, backlog, wire, sent,
                   out, handled, broadcasts, killed>>

-----------------------------------------------------------------------------
\* Loop().
Check ==
    /\ loop = "check"
    /\ loop' = IF running THEN "watch" ELSE "off"
    /\ UNCHANGED <<serverVars, watched, toAccept, accepted, clientVars, peerVars, out, handled, broadcasts, killed>>

Readable(c) == wire[c] # <<>> \/ conn[c] # "open"

\* FD_SET(server_fd_) after Stop() made it -1 is undefined: it aborts in a build
\* that checks and has no effect otherwise.  select() waits for 50 ms at most.
Watch ==
    /\ loop = "watch"
    /\ \/ /\ ~listening
          /\ killed' = TRUE
          /\ UNCHANGED loopVars
       \/ /\ watched' = {c \in clients : Readable(c)}
          /\ toAccept' = (listening /\ backlog # {})
          /\ loop' = IF watched' # {} \/ toAccept' THEN "accept" ELSE "check"
          /\ UNCHANGED <<accepted, killed>>
    /\ UNCHANGED <<serverVars, clientVars, peerVars, out, handled, broadcasts>>

Accept ==
    /\ loop = "accept"
    /\ IF toAccept /\ listening
       THEN \E c \in backlog :
              /\ accepted' = {c} /\ open' = open \cup {c}
              /\ backlog' = backlog \ {c} /\ loop' = "admit"
       ELSE loop' = "read" /\ UNCHANGED <<accepted, open, backlog>>
    /\ UNCHANGED <<serverVars, watched, toAccept, clients, upgraded, dead, buf, conn, wire, sent,
                   out, handled, broadcasts, killed>>

RoomForOneMore == Cardinality(clients) <= MaxClients     \* mutant

HasRoom == Cardinality(clients) < MaxClients

Admit ==
    /\ loop = "admit"
    /\ loop' = "read" /\ accepted' = {}
    /\ IF HasRoom
       THEN clients' = clients \cup accepted /\ UNCHANGED <<open, conn>>
       ELSE /\ open' = open \ accepted /\ UNCHANGED clients
            /\ conn' = [c \in Clients |-> IF c \in accepted /\ conn[c] = "open" THEN "cut" ELSE conn[c]]
    /\ UNCHANGED <<serverVars, watched, toAccept, upgraded, dead, buf, backlog, wire, sent,
                   out, handled, broadcasts, killed>>

-----------------------------------------------------------------------------
\* HandleRead(), of which a round calls one per client that is ready.
Close(c) ==
    /\ open' = open \ {c} /\ dead' = dead \cup {c}
    /\ conn' = [conn EXCEPT ![c] = IF @ = "open" THEN "cut" ELSE @]

Said(what) == <<what, 0>>       \* what the server writes besides answers

Write(c, answers) ==
    /\ out' = [out EXCEPT ![c] = @ \o answers]
    /\ killed' \in {FALSE, answers # <<>> /\ conn[c] = "left"}

\* read() returns nothing: the client has left.
HangUp(c) ==
    /\ wire[c] = <<>>
    /\ Close(c)
    /\ UNCHANGED <<upgraded, buf, wire, out, handled, killed>>

\* DoUpgrade(), with a key and without.
DoUpgrade(c) ==
    /\ Write(c, <<Said("101")>>)
    /\ upgraded' = upgraded \cup {c} /\ buf' = [buf EXCEPT ![c] = <<>>]
    /\ UNCHANGED <<dead, open, conn>>

Refuse(c) ==
    /\ Close(c)
    /\ UNCHANGED <<upgraded, buf, out, killed>>

ServeHttp(c) ==
    /\ Write(c, <<Said("page")>>) /\ Close(c)
    /\ UNCHANGED <<upgraded, buf>>

Request(c, received) ==
    /\ IF \E i \in DOMAIN received : received[i].last
       THEN \/ received[1].kind = "upgrade" /\ DoUpgrade(c)
            \/ received[1].kind = "keyless" /\ Refuse(c)
            \/ received[1].kind = "page" /\ ServeHttp(c)
       ELSE /\ buf' = [buf EXCEPT ![c] = received]
            /\ UNCHANGED <<upgraded, dead, open, conn, out, killed>>
    /\ UNCHANGED handled

AtMostOneText(frames) ==        \* mutant: one frame per read
    IF frames # <<>> /\ frames[1].kind = "text" THEN 1 ELSE 0

\* RecvFrame() returns FALSE at a control frame and at a close frame, both of
\* which it removes, and at an incomplete one: the texts before are handled.
TextsAhead(frames) ==
    Max({k \in 0..Len(frames) : \A i \in 1..k : frames[i].kind = "text"})

LastKept(frames) ==     \* mutant: the last frame stays in the buffer
    IF frames = <<>> THEN 0 ELSE Len(frames) - 1

Taken(frames) ==
    IF TextsAhead(frames) < Len(frames) THEN TextsAhead(frames) + 1 ELSE Len(frames)

\* Every text is answered, by its response or an error; handlers that return
\* null answer nothing.
Drain(c, received) ==
    LET frames == [i \in 1..Len(received) \div 2 |-> received[2 * i]]    \* the complete ones
        texts == SubSeq(frames, 1, TextsAhead(frames))
        closes == \E i \in 1..Taken(frames) : frames[i].kind = "close"
    IN  /\ handled' = [handled EXCEPT ![c] = @ \o [i \in DOMAIN texts |-> texts[i].number]]
        /\ buf' = [buf EXCEPT ![c] = SubSeq(received, 2 * Taken(frames) + 1, Len(received))]
        /\ \E answered \in {texts, <<>>} :
              Write(c, [i \in DOMAIN answered |-> <<"answer", answered[i].number>>]
                       \o (IF closes THEN <<Said("close")>> ELSE <<>>))
        /\ dead' = IF closes THEN dead \cup {c} ELSE dead
        /\ UNCHANGED <<upgraded, open, conn>>

Receive(c) ==
    \E k \in 1..Len(wire[c]) :
       LET received == buf[c] \o SubSeq(wire[c], 1, k)
       IN  /\ wire' = [wire EXCEPT ![c] = SubSeq(@, k + 1, Len(@))]
           /\ IF c \in upgraded THEN Drain(c, received) ELSE Request(c, received)

HandleRead ==
    /\ loop \in {"read", "reading"}
    /\ \E c \in watched :
         /\ watched' = watched \ {c} /\ loop' = "reading"
         /\ HangUp(c) \/ Receive(c)
    /\ UNCHANGED <<serverVars, toAccept, accepted, clients, backlog, sent, broadcasts>>

\* The dead are erased in the section that read them.
NextRound ==
    /\ loop \in {"read", "reading"} /\ watched = {}
    /\ loop' = "check" /\ toAccept' = FALSE
    /\ clients' = clients \ dead /\ dead' = {}
    /\ UNCHANGED <<serverVars, watched, accepted, upgraded, buf, open, peerVars, out, handled, broadcasts, killed>>

-----------------------------------------------------------------------------
\* Broadcast() by any thread, to everyone upgraded.
Everybody == clients        \* mutant

Listeners == {c \in clients : c \in upgraded}

Broadcast ==
    /\ loop # "reading" /\ broadcasts < MaxBroadcasts
    /\ broadcasts' = broadcasts + 1
    /\ out' = [c \in Clients |-> IF c \in Listeners THEN Append(out[c], Said("event")) ELSE out[c]]
    /\ killed' \in {FALSE, \E c \in Listeners : conn[c] = "left"}
    /\ UNCHANGED <<serverVars, loopVars, clientVars, peerVars, handled>>

-----------------------------------------------------------------------------
\* Clients.
Connect(c) ==
    /\ listening /\ conn[c] = "away"
    /\ conn' = [conn EXCEPT ![c] = "open"] /\ backlog' = backlog \cup {c}
    /\ UNCHANGED <<wire, sent>>

\* The head of the next request or frame.
Begin(c) ==
    /\ conn[c] = "open" /\ (sent[c] # <<>> => Last(sent[c]).last)
    /\ MapThenSumSet(LAMBDA d : (Len(sent[d]) + 1) \div 2, Clients) < MaxMessages
    /\ \E kind \in (IF sent[c] = <<>> THEN Requests
                     ELSE IF Said("101") \in ToSet(out[c]) THEN Frames
                     ELSE {}) :
         LET piece == [kind |-> kind, number |-> Len(sent[c]) \div 2, last |-> FALSE]
         IN  wire' = [wire EXCEPT ![c] = Append(@, piece)] /\ sent' = [sent EXCEPT ![c] = Append(@, piece)]
    /\ UNCHANGED <<conn, backlog>>

Complete(c) ==
    /\ conn[c] = "open" /\ sent[c] # <<>> /\ ~Last(sent[c]).last
    /\ LET piece == [Last(sent[c]) EXCEPT !.last = TRUE]
       IN  wire' = [wire EXCEPT ![c] = Append(@, piece)] /\ sent' = [sent EXCEPT ![c] = Append(@, piece)]
    /\ UNCHANGED <<conn, backlog>>

Leave(c) ==
    /\ conn[c] = "open"
    /\ conn' = [conn EXCEPT ![c] = "left"]
    /\ UNCHANGED <<backlog, wire, sent>>

ClientStep ==
    /\ \E c \in Clients : Connect(c) \/ Begin(c) \/ Complete(c) \/ Leave(c)
    /\ UNCHANGED <<serverVars, loopVars, clientVars, out, handled, broadcasts, killed>>

-----------------------------------------------------------------------------
LoopStep == Check \/ Watch \/ Accept \/ Admit \/ HandleRead \/ NextRound

Next ==
    /\ ~killed
    /\ \/ Start \/ StopBegin \/ StopListening \/ StopClear
       \/ LoopStep \/ Broadcast \/ ClientStep

Fairness ==
    /\ WF_vars(~killed /\ LoopStep)
    /\ WF_vars(~killed /\ (StopListening \/ StopClear))

Spec == Init /\ [][Next]_vars /\ Fairness

-----------------------------------------------------------------------------
TypeOK ==
    /\ running \in BOOLEAN /\ listening \in BOOLEAN /\ starts \in Nat
    /\ owner \in {"down", "up", "close", "join"}
    /\ loop \in {"off", "check", "watch", "accept", "admit", "read", "reading"}
    /\ watched \subseteq Clients /\ toAccept \in BOOLEAN /\ accepted \subseteq Clients
    /\ clients \subseteq Clients /\ upgraded \subseteq Clients
    /\ dead \subseteq clients /\ open \subseteq Clients
    /\ conn \in [Clients -> {"away", "open", "left", "cut"}] /\ backlog \subseteq Clients
    /\ \A pieces \in {buf, wire, sent} : pieces \in [Clients -> Seq(Piece)]
    /\ out \in [Clients -> Seq(Line)] /\ handled \in [Clients -> Seq(Nat)]
    /\ broadcasts \in Nat /\ killed \in BOOLEAN

\* Nothing but the page is written to a client before the 101, and the answers
\* it gets are to texts of its own, each at most once and in their order, with
\* events anywhere between ("sent back to the requesting client only").
AnswersMatch ==
    \A c \in Clients :
        /\ \A i \in DOMAIN out[c] : out[c][i][1] \in {"101", "page"} <=> i = 1
        /\ \A i \in DOMAIN out[c] : out[c][i][1] = "answer" =>
              /\ out[c][i][2] \in ToSet(handled[c])
              /\ \A j \in 1..(i - 1) : out[c][j][1] = "answer" => out[c][j][2] < out[c][i][2]

\* The numbers of the texts a client has sent whole.
TextsSent(c) == {p.number : p \in {q \in ToSet(sent[c]) : q.last /\ q.kind = "text"}}

\* Texts reach the handler whole, once, and in the order they were sent, with
\* none left out, however the pieces arrive.
HandledInOrder ==
    \A c \in Clients :
        /\ ToSet(handled[c]) \subseteq TextsSent(c)
        /\ \A i \in DOMAIN handled[c] : \A n \in TextsSent(c) :
              n < handled[c][i] <=> \E j \in 1..(i - 1) : handled[c][j] = n

\* The ranges of the variables; and the server keeps a descriptor for every
\* client in clients_, at most max_clients, and none besides but the one just accepted and those of
\* clients that said goodbye by a close frame, which are never closed.
OpenIsServed ==
    /\ TypeOK
    /\ Cardinality(clients) <= MaxClients
    /\ clients \ dead \subseteq open
    /\ \A c \in open \ (clients \cup accepted) : Said("close") \in ToSet(out[c])
    /\ owner = "down" => clients = {}

\* A text that has arrived is handled while its client sends nothing but texts
\* and stays, and the server is neither stopped nor killed: nothing else needs
\* to arrive.
TextIsHandled ==
    \A c \in Clients :
        (c \in clients /\ TextsSent(c) # {})
            ~> \/ Len(handled[c]) = Cardinality(TextsSent(c))
               \/ \E i \in DOMAIN sent[c] : sent[c][i].kind \in {"control", "close"}
               \/ conn[c] # "open" \/ owner # "up" \/ killed

=============================================================================
