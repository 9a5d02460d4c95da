------------------------------ MODULE IpcServer ------------------------------
(***************************************************************************)
(* IpcServer: the server thread, the thread that calls Start() and Stop(), *)
(* threads that Broadcast(), the clients, and the table of descriptors,    *)
(* where a closed number is given to whoever opens next.                   *)
(*                                                                         *)
(* A descriptor is held by the client at its other end.  What a client     *)
(* sent is a sequence of pieces: a "part" has no newline, an "end" is the  *)
(* rest of a line with its newline.  Of a buffer the model keeps whose     *)
(* bytes are in it.  The order of clients_ has no effect: it is a set.     *)
(* A section under clients_mutex_ is one step.                             *)
(***************************************************************************)
EXTENDS IpcTable

loopVars == <<loop, ready, toAccept, accepted, toRemove, buffers>>
peerVars == <<conn, backlog, inbox, sent, unread>>
vars == <<running, listening, loopVars, owner, clients, holder, peerVars,
          broadcasts, starts, killed, orphans>>

-----------------------------------------------------------------------------
\* The descriptors of a set are closed, whoever holds them.
Closed(fds) == [fd \in Fds |-> IF fd \in fds THEN Free ELSE holder[fd]]

\* Clients that lose their connection when these descriptors are closed.
Cut(fds) ==
    [c \in Clients |-> IF conn[c] = "open" /\ \E fd \in fds : holder[fd] = c
                       THEN "cut" ELSE conn[c]]

\* open() and accept() return the lowest free number.
LowestFree(fd) == holder[fd] = Free /\ \A g \in Fds : g < fd => holder[g] # Free

ReadableAtEnd(fd) == holder[fd] \in Clients /\ conn[holder[fd]] # "open"     \* mutant

\* read() returns something, or that nothing will come.
Readable(fd) ==
    holder[fd] \in Clients /\ (inbox[holder[fd]] # <<>> \/ conn[holder[fd]] # "open")

-----------------------------------------------------------------------------
Init ==
    /\ running = FALSE /\ listening = FALSE /\ loop = "off" /\ owner = "down"
    /\ clients = {} /\ buffers = [fd \in Fds |-> {}]
    /\ ready = {} /\ toAccept = FALSE /\ accepted = 0 /\ toRemove = {}
    /\ holder = [fd \in Fds |-> Free]
    /\ conn = [c \in Clients |-> "away"] /\ backlog = {}
    /\ inbox = [c \in Clients |-> <<>>] /\ sent = [c \in Clients |-> 0]
    /\ unread = {} /\ broadcasts = 0 /\ starts = 0 /\ killed = FALSE
    /\ orphans = [fd \in Fds |-> {}]

-----------------------------------------------------------------------------
\* The owner's thread.  A Start() that cannot bind, or that finds the server
\* running, and a Stop() of a server that is not running change nothing.
Start ==
    /\ owner = "down" /\ starts < MaxStarts
    /\ starts' = starts + 1
    /\ running' = TRUE /\ listening' = TRUE /\ owner' = "up"
    /\ loop' = "check" /\ buffers' = [fd \in Fds |-> {}]
    /\ orphans' = [fd \in Fds |-> {}]
    /\ UNCHANGED <<ready, toAccept, accepted, toRemove, clients, holder, peerVars,
                   broadcasts, killed>>

\* running_.exchange(false)
StopBegin ==
    /\ owner = "up"
    /\ running' = FALSE /\ owner' = "close"
    /\ UNCHANGED <<listening, loopVars, clients, holder, peerVars, broadcasts,
                   starts, killed, orphans>>

\* shutdown() and close() of listen_fd_: connections not accepted are reset.
StopListening ==
    /\ owner = "close"
    /\ listening' = FALSE /\ owner' = "clear"
    /\ conn' = [c \in Clients |-> IF c \in backlog /\ conn[c] = "open" THEN "cut" ELSE conn[c]]
    /\ backlog' = {}
    /\ UNCHANGED <<running, loopVars, clients, holder, inbox, sent, unread,
                   broadcasts, starts, killed, orphans>>

StopClear ==
    /\ owner = "clear"
    /\ owner' = "join"
    /\ holder' = Closed(clients) /\ conn' = Cut(clients)
    /\ clients' = {}
    /\ UNCHANGED <<running, listening, loopVars, backlog, inbox, sent, unread,
                   broadcasts, starts, killed, orphans>>

StopJoin ==
    /\ owner = "join" /\ loop = "off"
    /\ owner' = "down"
    /\ UNCHANGED <<running, listening, loopVars, clients, holder, peerVars,
                   broadcasts, starts, killed, orphans>>

-----------------------------------------------------------------------------
CheckNothing ==     \* mutant: running_ is not read
    /\ loop = "check"
    /\ loop' = "watch"
    /\ UNCHANGED <<running, listening, owner, buffers, ready, toAccept, accepted,
                   toRemove, clients, holder, peerVars, broadcasts, starts, killed, orphans>>

\* ServerLoop().  Its local variables, buffers among them, end with it.
Check ==
    /\ loop = "check"
    /\ loop' = IF running THEN "watch" ELSE "off"
    /\ UNCHANGED <<running, listening, owner, buffers, ready, toAccept, accepted,
                   toRemove, clients, holder, peerVars, broadcasts, starts, killed, orphans>>

\* FD_SET(listen_fd_) after Stop() made it -1 is undefined: it aborts in a build
\* that checks and has no effect otherwise.  Then rfds is filled from clients_
\* and select() waits for 50 ms at most; a number closed in between makes it
\* fail, which is the same as no news.
Watch ==
    /\ loop = "watch"
    /\ \/ /\ ~listening
          /\ killed' = TRUE
          /\ UNCHANGED <<loop, ready, toAccept>>
       \/ /\ ready' = {fd \in clients : Readable(fd)}
          /\ toAccept' = (listening /\ backlog # {})
          /\ loop' = IF ready' # {} \/ toAccept' THEN "accept" ELSE "check"
          /\ UNCHANGED killed
    /\ UNCHANGED <<running, listening, owner, buffers, accepted, toRemove, clients,
                   holder, peerVars, broadcasts, starts, orphans>>

\* accept() fails when Stop() closed the socket, and when no number is left.
Accept ==
    /\ loop = "accept"
    /\ IF toAccept /\ listening /\ backlog # {} /\ \E fd \in Fds : holder[fd] = Free
       THEN \E c \in backlog, fd \in Fds :
              /\ LowestFree(fd)
              /\ accepted' = fd /\ holder' = [holder EXCEPT ![fd] = c]
              /\ backlog' = backlog \ {c} /\ loop' = "admit"
       ELSE loop' = "read" /\ UNCHANGED <<accepted, holder, backlog>>
    /\ UNCHANGED <<running, listening, owner, buffers, ready, toAccept, toRemove,
                   clients, conn, inbox, sent, unread, broadcasts, starts, killed, orphans>>

\* buffers[cfd]; leaves the bytes that are already there.
Admitted(fd) == buffers

HasRoom == Cardinality(clients) < MaxClients

Admit ==
    /\ loop = "admit"
    /\ loop' = "read" /\ accepted' = 0
    /\ IF HasRoom
       THEN clients' = clients \cup {accepted} /\ buffers' = Admitted(accepted)
            /\ UNCHANGED <<holder, conn>>
       ELSE holder' = Closed({accepted}) /\ conn' = Cut({accepted})
            /\ UNCHANGED <<clients, buffers>>
    /\ UNCHANGED <<running, listening, owner, ready, toAccept, toRemove, backlog, inbox,
                   sent, unread, broadcasts, starts, killed, orphans>>

\* A client's buffer after everything it sent was appended and every complete
\* line handled: what follows the last newline.
Buffered(fd) ==
    LET c == holder[fd]
    IN  IF \A i \in DOMAIN inbox[c] : inbox[c][i] = "part" THEN buffers[fd] \cup {c}
        ELSE IF inbox[c][Len(inbox[c])] = "part" THEN {c} ELSE {}

\* HandleData() answers a line that is no JSON, or whose command throws, and
\* the answer to a client that has left raises SIGPIPE.
AnswersNobody(fds) ==
    \E fd \in fds : conn[holder[fd]] = "left" /\ "end" \in {inbox[holder[fd]][i] : i \in DOMAIN inbox[holder[fd]]}

\* One pass over clients_ under the mutex.  read() returning nothing means that
\* the client has left, or that the number is another client's since select().
ReadClients ==
    /\ loop = "read"
    /\ LET watched == clients \cap ready
           heard == {fd \in watched : holder[fd] \in Clients /\ inbox[holder[fd]] # <<>>}
       IN  /\ buffers' = [fd \in Fds |-> IF fd \in heard THEN Buffered(fd) ELSE buffers[fd]]
           /\ inbox' = [c \in Clients |-> IF \E fd \in heard : holder[fd] = c THEN <<>> ELSE inbox[c]]
           /\ toRemove' = watched \ heard
           /\ killed' \in {FALSE, AnswersNobody(heard)}
    /\ loop' = "remove" /\ ready' = {} /\ toAccept' = FALSE
    /\ UNCHANGED <<running, listening, owner, accepted, clients, holder, conn, backlog,
                   sent, unread, broadcasts, starts, orphans>>

KeptBuffer(fd) == buffers       \* mutant

\* buffers.erase(fd) and RemoveClient(fd), which closes the number even if it
\* is not in clients_ any more.
Erased(fd) == [buffers EXCEPT ![fd] = {}]

RemoveClient ==
    /\ loop = "remove" /\ toRemove # {}
    /\ \E fd \in toRemove :
         /\ buffers' = Erased(fd) /\ orphans' = [orphans EXCEPT ![fd] = {}]
         /\ clients' = clients \ {fd}
         /\ holder' = Closed({fd}) /\ conn' = Cut({fd})
         /\ toRemove' = toRemove \ {fd}
    /\ UNCHANGED <<running, listening, loop, owner, ready, toAccept, accepted, backlog,
                   inbox, sent, unread, broadcasts, starts, killed>>

NextRound ==
    /\ loop = "remove" /\ toRemove = {}
    /\ loop' = "check"
    /\ UNCHANGED <<running, listening, owner, buffers, ready, toAccept, accepted, toRemove,
                   clients, holder, peerVars, broadcasts, starts, killed, orphans>>

-----------------------------------------------------------------------------
\* Broadcast() by any thread.  A full receive buffer makes write() fail with
\* EAGAIN, and the client is dropped; a client that has left raises SIGPIPE.
\* A write may fill the receive buffer of a slow client.
ClosedOnly(fds) == clients      \* mutant: closed, and left in clients_

Kept(fds) == clients \ fds

Broadcast ==
    /\ broadcasts < MaxBroadcasts
    /\ broadcasts' = broadcasts + 1
    /\ LET deaf == {fd \in clients : holder[fd] \in unread}
       IN  /\ killed' = \E fd \in clients : holder[fd] \in Clients /\ conn[holder[fd]] = "left"
           /\ clients' = Kept(deaf)
           /\ holder' = Closed(deaf) /\ conn' = Cut(deaf)
           /\ orphans' = [fd \in Fds |-> IF fd \in deaf THEN buffers[fd] ELSE orphans[fd]]
    /\ \E filled \in SUBSET {c \in Slow : \E fd \in clients : holder[fd] = c} :
         unread' = unread \cup filled
    /\ UNCHANGED <<running, listening, loopVars, owner, backlog, inbox, sent, starts>>

\* Another part of the process opens a file or a socket and keeps it.
OpenElsewhere ==
    /\ \A fd \in Fds : holder[fd] # Foreign
    /\ \E fd \in Fds : LowestFree(fd) /\ holder' = [holder EXCEPT ![fd] = Foreign]
    /\ UNCHANGED <<running, listening, loopVars, owner, clients, peerVars, broadcasts,
                   starts, killed, orphans>>

-----------------------------------------------------------------------------
\* Clients.
Connect(c) ==
    /\ listening /\ conn[c] = "away" /\ Cardinality(backlog) < MaxClients
    /\ conn' = [conn EXCEPT ![c] = "open"] /\ backlog' = backlog \cup {c}
    /\ UNCHANGED <<inbox, sent, unread>>

Send(c) ==
    /\ conn[c] = "open" /\ sent[c] < MaxPieces
    /\ \E p \in Pieces : inbox' = [inbox EXCEPT ![c] = Append(@, p)]
    /\ sent' = [sent EXCEPT ![c] = @ + 1]
    /\ UNCHANGED <<conn, backlog, unread>>

Leave(c) ==
    /\ conn[c] = "open"
    /\ conn' = [conn EXCEPT ![c] = "left"]
    /\ UNCHANGED <<backlog, inbox, sent, unread>>

ReadEvents(c) ==
    /\ conn[c] = "open" /\ c \in unread
    /\ unread' = unread \ {c}
    /\ UNCHANGED <<conn, backlog, inbox, sent>>

ClientStep ==
    /\ \E c \in Clients : Connect(c) \/ Send(c) \/ Leave(c) \/ ReadEvents(c)
    /\ UNCHANGED <<running, listening, loopVars, owner, clients, holder, broadcasts,
                   starts, killed, orphans>>

-----------------------------------------------------------------------------
LoopStep == Check \/ Watch \/ Accept \/ Admit \/ ReadClients \/ RemoveClient \/ NextRound
StopStep == StopBegin \/ StopListening \/ StopClear \/ StopJoin

\* Nothing happens in a process that was ended.
Next ==
    /\ ~killed
    /\ \/ Start \/ StopStep \/ LoopStep \/ Broadcast \/ OpenElsewhere \/ ClientStep

\* The operating system runs the server thread, and a Stop() that was begun.
Fairness ==
    /\ WF_vars(~killed /\ LoopStep)
    /\ WF_vars(~killed /\ (StopListening \/ StopClear \/ StopJoin))

Spec == Init /\ [][Next]_vars /\ Fairness

-----------------------------------------------------------------------------
\* A client is served or dropped: what it sent is read, if it stays connected
\* and the server is neither stopped nor killed.
SentIsRead ==
    \A c \in Clients :
        (\E fd \in clients : holder[fd] = c) /\ inbox[c] # <<>>
            ~> inbox[c] = <<>> \/ (\A fd \in clients : holder[fd] # c) \/ owner # "up" \/ killed

\* Stop() returns, wherever the server thread is and whoever is connected,
\* unless the process is ended: it is never left waiting for select().
StopReturns == owner = "close" ~> owner = "down" \/ killed

=============================================================================
