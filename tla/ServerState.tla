----------------------------- MODULE ServerState -----------------------------
(***************************************************************************)
(* What IpcServer and WsServer both keep.  Each server uses it in a module *)
(* of its own.                                                             *)
(***************************************************************************)
EXTENDS Integers, Sequences, FiniteSets

CONSTANTS
    Clients,
    MaxClients,     \* max_clients
    MaxBroadcasts,  \* bound: events broadcast
    MaxStarts       \* bound: successful calls of Start()

VARIABLES
    running,        \* running_
    listening,      \* listen_fd_ >= 0, server_fd_ >= 0
    owner,          \* the statement the thread of Start() and Stop() is at
    loop,           \* the statement the server's thread executes next
    toAccept,       \* FD_ISSET of the listening socket, after select()
    accepted,       \* what accept() returned, before the lock of the list
    clients,        \* clients_
    conn,           \* each client's end of its connection
    backlog,        \* connections not accepted yet
    sent,           \* what each client has sent
    broadcasts,     \* events broadcast so far
    starts,         \* successful calls of Start()
    killed          \* the process was ended by SIGPIPE or an abort

=============================================================================
