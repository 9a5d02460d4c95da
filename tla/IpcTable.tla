------------------------------ MODULE IpcTable -------------------------------
(***************************************************************************)
(* The table of descriptors, the list of clients and the line buffers of   *)
(* IpcServer, and what must hold of them.                                  *)
(***************************************************************************)
EXTENDS ServerState

CONSTANTS
    Slow,           \* clients that may leave what they receive unread
    NumFds,         \* descriptors the process may have open
    MaxPieces       \* bound: pieces a client sends

ASSUME IpcAssumption ==
    /\ Slow \subseteq Clients
    /\ NumFds \in Nat \ {0} /\ MaxClients \in Nat \ {0}
    /\ MaxPieces \in Nat /\ MaxBroadcasts \in Nat /\ MaxStarts \in Nat

VARIABLES
    buffers,        \* buffers: whose bytes are in each incomplete line
    ready,          \* rfds, as select() left it: descriptors to read
    toRemove,       \* to_remove
    holder,         \* what each descriptor refers to
    inbox,          \* pieces sent and not read
    unread,         \* clients whose receive buffer is full
    orphans         \* history: bytes Broadcast() left in the buffer of a number

Fds == 1..NumFds
Free == "free"
Foreign == "foreign"    \* another part of the process has the number
Pieces == {"part", "end"}

ASSUME ClientsAssumption == Free \notin Clients /\ Foreign \notin Clients

-----------------------------------------------------------------------------
\* accepted is a descriptor here, 0 if there is none, and sent a number.
TableTypeOK ==
    /\ running \in BOOLEAN /\ listening \in BOOLEAN
    /\ loop \in {"off", "check", "watch", "accept", "admit", "read", "remove"}
    /\ owner \in {"down", "up", "close", "clear", "join"}
    /\ clients \in SUBSET Fds /\ ready \in SUBSET Fds /\ toRemove \in SUBSET Fds
    /\ buffers \in [Fds -> SUBSET Clients] /\ orphans \in [Fds -> SUBSET Clients]
    /\ toAccept \in BOOLEAN /\ accepted \in Fds \cup {0}
    /\ holder \in [Fds -> Clients \cup {Free, Foreign}]
    /\ conn \in [Clients -> {"away", "open", "left", "cut"}]
    /\ backlog \in SUBSET Clients /\ unread \in SUBSET Clients
    /\ inbox \in [Clients -> Seq(Pieces)] /\ sent \in [Clients -> Nat]
    /\ broadcasts \in Nat /\ starts \in Nat /\ killed \in BOOLEAN

\* The ranges of the variables; and every descriptor in clients_ is open, refers
\* to a client that is not in the list under another number and whose
\* connection the server has not closed, and there are at most max_clients of
\* them, although Broadcast(), Stop() and the loop each close and remove.
ServedAreOpen ==
    /\ TableTypeOK
    /\ Cardinality(clients) <= MaxClients
    /\ \A fd \in clients : holder[fd] \in Clients /\ conn[holder[fd]] # "cut"
    /\ \A fd, g \in clients : holder[fd] = holder[g] => fd = g

\* "Per-client incomplete line buffer": bytes of anybody but the client in
\* front are in a client's buffer only if Broadcast() dropped who wrote them,
\* which is the one way out of clients_ that leaves the buffer behind.
OnlyDroppedLeaveBytes ==
    \A fd \in clients : buffers[fd] \subseteq {holder[fd]} \cup orphans[fd]

=============================================================================
