------------------------------- MODULE Server -------------------------------
(***************************************************************************)
(* The TCP server that sends the reports to its clients.  Two threads use  *)
(* it: the main thread calls run, send (once a second) and stop; the       *)
(* server's own thread runs the io_service of NetworkInterfaceImplBoost    *)
(* and in it the accept handler attemptConnection, which reschedules       *)
(* itself.  m_mutex guards the connections, but not what asio does on the  *)
(* server's thread before it calls the handler.                            *)
(*                                                                         *)
(* One asynchronous accept exists at a time, and one socket, m_socket, is  *)
(* its target.  As in the Boost release of the repository's Dockerfile     *)
(* (1.66), asio moves an accepted peer into m_socket when it completes the *)
(* operation on the server's thread, just before the handler.              *)
(***************************************************************************)
EXTENDS Naturals, FiniteSets

CONSTANTS Addresses,        \* IP addresses of clients
          NoPeer,           \* a null connection, a closed socket, a failed accept
          S_MAX_CLIENTS,    \* length of the array m_connections
          COUNTER_MOD       \* 2^8: m_activeConnections is a uint8_t

ASSUME ServerAssumption ==
    /\ NoPeer \notin Addresses
    /\ S_MAX_CLIENTS \in Nat \ {0}
    /\ COUNTER_MOD \in Nat \ {0, 1}

VARIABLES
    serverRunning,        \* m_running: set by run, reset by stop
    m_connections,        \* slot -> address of its connection, or NoPeer
    m_activeConnections,  \* how many there are, a uint8_t
    m_socket,             \* peer of the socket to accept into, NoPeer if closed
    acceptorOpen,         \* m_acceptor.is_open()
    accept,               \* the accept operation: none, waiting or ready
    peer,                 \* whom a ready or dequeued operation has accepted
    ioStopped,            \* m_ioService.stopped()
    mutex,                \* m_mutex: free, or held across steps by main
    mainPc,               \* control of the main thread
    slot,                 \* position of the loop in send
    ioPc                  \* control of the server's thread

connections == <<m_connections, m_activeConnections>>
net == <<m_socket, acceptorOpen, accept, peer, ioStopped>>
serverControl == <<serverRunning, mutex, mainPc, slot, ioPc>>
serverVars == <<connections, net, serverControl>>

Slots == 1 .. S_MAX_CLIENTS
Peers == Addresses \cup {NoPeer}

ServerTypeOK ==
    /\ serverRunning \in BOOLEAN
    /\ m_connections \in [Slots -> Peers]
    /\ m_activeConnections \in 0 .. COUNTER_MOD - 1
    /\ m_socket \in Peers
    /\ acceptorOpen \in BOOLEAN
    /\ accept \in {"none", "waiting", "ready"}
    /\ peer \in Peers
    /\ ioStopped \in BOOLEAN
    /\ mutex \in {"free", "main"}
    /\ mainPc \in {"setup", "serve", "send", "closeAcceptor", "stopIo",
                   "closeSocket", "join", "stopped", "aborted"}
    /\ slot \in 1 .. S_MAX_CLIENTS + 1
    /\ ioPc \in {"none", "accept", "lock", "run", "assign", "attempt",
                 "reaccept", "done", "aborted"}

ServerInit ==
    /\ serverRunning = FALSE
    /\ m_connections = [s \in Slots |-> NoPeer]
    /\ m_activeConnections = 0
    /\ m_socket = NoPeer
    /\ acceptorOpen = TRUE
    /\ accept = "none"
    /\ peer = NoPeer
    /\ ioStopped = FALSE
    /\ mutex = "free"
    /\ mainPc = "setup"
    /\ slot = 1
    /\ ioPc = "none"
-----------------------------------------------------------------------------
(***************************************************************************)
(* The main thread.                                                        *)
(***************************************************************************)
\* run: starts the server's thread.
RunServer ==
    /\ mainPc = "setup"
    /\ serverRunning' = TRUE
    /\ mainPc' = "serve"
    /\ ioPc' = "accept"
    /\ UNCHANGED <<connections, net, mutex, slot>>

\* send of a message that is not empty; without connections it returns at once.
BeginSend ==
    /\ mainPc = "serve"
    /\ mutex = "free"
    /\ m_activeConnections # 0
    /\ mutex' = "main"
    /\ mainPc' = "send"
    /\ slot' = 1
    /\ UNCHANGED <<connections, net, serverRunning, ioPc>>

\* One iteration of send's loop.  A write returns when the peer has taken the
\* message or is known to be lost; a lost connection is reset.
WriteTo(s, written) ==
    IF m_connections[s] = NoPeer \/ written
    THEN UNCHANGED connections
    ELSE /\ m_connections' = [m_connections EXCEPT ![s] = NoPeer]
         /\ m_activeConnections' = (m_activeConnections + COUNTER_MOD - 1) % COUNTER_MOD

Write ==
    /\ mainPc = "send"
    /\ slot <= S_MAX_CLIENTS
    /\ \E written \in BOOLEAN : WriteTo(slot, written)
    /\ slot' = slot + 1
    /\ UNCHANGED <<net, serverRunning, mutex, mainPc, ioPc>>

EndSend ==
    /\ mainPc = "send"
    /\ slot > S_MAX_CLIENTS
    /\ slot' = 1
    /\ mutex' = "free"
    /\ mainPc' = "serve"
    /\ UNCHANGED <<connections, net, serverRunning, ioPc>>

\* Mutant: the connections are not reset.
StopKeepConnections ==
    /\ mainPc = "serve"
    /\ mutex = "free"
    /\ serverRunning
    /\ serverRunning' = FALSE
    /\ mutex' = "main"
    /\ mainPc' = "closeAcceptor"
    /\ UNCHANGED <<connections, net, slot, ioPc>>

\* Mutant: the counter is not reset.
StopKeepCount ==
    /\ mainPc = "serve"
    /\ mutex = "free"
    /\ serverRunning
    /\ serverRunning' = FALSE
    /\ m_connections' = [s \in Slots |-> NoPeer]
    /\ mutex' = "main"
    /\ mainPc' = "closeAcceptor"
    /\ UNCHANGED <<m_activeConnections, net, slot, ioPc>>

\* stop, with the mutex held from here to StopSocket: drop all connections,
Stop ==
    /\ mainPc = "serve"
    /\ mutex = "free"
    /\ serverRunning
    /\ serverRunning' = FALSE
    /\ m_connections' = [s \in Slots |-> NoPeer]
    /\ m_activeConnections' = 0
    /\ mutex' = "main"
    /\ mainPc' = "closeAcceptor"
    /\ UNCHANGED <<net, slot, ioPc>>

\* close the acceptor, which cancels an accept that still waits,
StopAcceptor ==
    /\ mainPc = "closeAcceptor"
    /\ acceptorOpen' = FALSE
    /\ accept' = IF accept = "waiting" THEN "ready" ELSE accept
    /\ peer' = IF accept = "waiting" THEN NoPeer ELSE peer
    /\ mainPc' = "stopIo"
    /\ UNCHANGED <<connections, m_socket, ioStopped, serverRunning, mutex, slot, ioPc>>

\* stop the io_service,
StopIo ==
    /\ mainPc = "stopIo"
    /\ ioStopped' = TRUE
    /\ mainPc' = "closeSocket"
    /\ UNCHANGED <<connections, m_socket, acceptorOpen, accept, peer, serverRunning,
                   mutex, slot, ioPc>>

\* Mutant: stop joins the thread without unlock.
StopSocketLocked ==
    /\ mainPc = "closeSocket"
    /\ m_socket' = NoPeer
    /\ mainPc' = "join"
    /\ UNCHANGED <<connections, acceptorOpen, accept, peer, ioStopped, serverRunning,
                   mutex, slot, ioPc>>

\* close the socket and unlock;
StopSocket ==
    /\ mainPc = "closeSocket"
    /\ m_socket' = NoPeer
    /\ mutex' = "free"
    /\ mainPc' = "join"
    /\ UNCHANGED <<connections, acceptorOpen, accept, peer, ioStopped, serverRunning,
                   slot, ioPc>>

\* at last wait for the server's thread.
Join ==
    /\ mainPc = "join"
    /\ ioPc = "done"
    /\ mainPc' = "stopped"
    /\ UNCHANGED <<connections, net, serverRunning, mutex, slot, ioPc>>
-----------------------------------------------------------------------------
(***************************************************************************)
(* The server's thread.                                                    *)
(***************************************************************************)
\* Server::accept and onAccept.  An accept into an open socket fails at once.
OnAccept ==
    IF ~acceptorOpen THEN UNCHANGED <<accept, peer>>
    ELSE /\ accept' = IF m_socket = NoPeer THEN "waiting" ELSE "ready"
         /\ peer' = NoPeer

\* The first accept of the thread, and the one at the end of the handler.
Accept ==
    /\ ioPc \in {"accept", "reaccept"}
    /\ mutex = "free"
    /\ OnAccept
    /\ ioPc' = IF ioPc = "accept" THEN "lock" ELSE "run"
    /\ UNCHANGED <<connections, m_socket, acceptorOpen, ioStopped, serverRunning,
                   mutex, mainPc, slot>>

\* NetworkInterface::run, up to m_ioService.run().
EnterRun ==
    /\ ioPc = "lock"
    /\ mutex = "free"
    /\ ioPc' = IF acceptorOpen THEN "run" ELSE "done"
    /\ UNCHANGED <<connections, net, serverRunning, mutex, mainPc, slot>>

\* m_ioService.run() takes the completed operation off its queue.
Dequeue ==
    /\ ioPc = "run"
    /\ ~ioStopped
    /\ accept = "ready"
    /\ accept' = "none"
    /\ ioPc' = "assign"
    /\ UNCHANGED <<connections, m_socket, acceptorOpen, peer, ioStopped,
                   serverRunning, mutex, mainPc, slot>>

\* It returns when it is stopped, or when no work is left.
ReturnFromRun ==
    /\ ioPc = "run"
    /\ ioStopped \/ accept = "none"
    /\ ioPc' = "done"
    /\ UNCHANGED <<connections, net, serverRunning, mutex, mainPc, slot>>

\* asio moves the accepted peer into m_socket, without the mutex.
AssignPeer ==
    /\ ioPc = "assign"
    /\ m_socket' = IF peer = NoPeer THEN m_socket ELSE peer
    /\ ioPc' = "attempt"
    /\ UNCHANGED <<connections, acceptorOpen, accept, peer, ioStopped, serverRunning,
                   mutex, mainPc, slot>>

isConnected(address) == \E s \in Slots : m_connections[s] = address

\* Mutant: the handler returns early, without the next accept.
AttemptErrorReturn ==
    /\ ioPc = "attempt"
    /\ peer = NoPeer
    /\ ioPc' = "run"
    /\ UNCHANGED <<connections, net, serverRunning, mutex, mainPc, slot>>

\* attemptConnection after a failed accept.
AttemptError ==
    /\ ioPc = "attempt"
    /\ peer = NoPeer
    /\ ioPc' = "reaccept"
    /\ UNCHANGED <<connections, net, serverRunning, mutex, mainPc, slot>>

Attempting == ioPc = "attempt" /\ peer # NoPeer /\ mutex = "free"

Attempted ==
    /\ ioPc' = "reaccept"
    /\ UNCHANGED <<acceptorOpen, accept, peer, ioStopped, serverRunning, mutex,
                   mainPc, slot>>

Admissible ==
    /\ m_activeConnections < S_MAX_CLIENTS
    /\ ~isConnected(m_socket)

\* attemptConnection when the peer may stay: it gets the first null slot.  With
\* no null slot the loop ends and the socket stays open.
StartConnection ==
    /\ Attempting
    /\ m_socket # NoPeer
    /\ Admissible
    /\ IF \E s \in Slots : m_connections[s] = NoPeer
       THEN LET free == CHOOSE s \in Slots :
                           /\ m_connections[s] = NoPeer
                           /\ \A t \in Slots : t < s => m_connections[t] # NoPeer
            IN  /\ m_connections' = [m_connections EXCEPT ![free] = m_socket]
                /\ m_activeConnections' = (m_activeConnections + 1) % COUNTER_MOD
                /\ m_socket' = NoPeer
       ELSE UNCHANGED <<connections, m_socket>>
    /\ Attempted

\* Mutant: the refused socket is not closed.
RefuseLeaveOpen ==
    /\ Attempting
    /\ m_socket = NoPeer \/ ~Admissible
    /\ UNCHANGED <<connections, m_socket>>
    /\ Attempted

\* attemptConnection when the peer is refused, or when stop has closed the
\* socket meanwhile and get_address throws a SocketException.
Refuse ==
    /\ Attempting
    /\ m_socket = NoPeer \/ ~Admissible
    /\ m_socket' = NoPeer
    /\ UNCHANGED connections
    /\ Attempted

\* The peer has reset the connection already: remote_endpoint throws an error
\* that is no SocketException, and attemptConnection is noexcept.
Abort ==
    /\ Attempting
    /\ m_socket # NoPeer
    /\ mainPc' = "aborted"
    /\ ioPc' = "aborted"
    /\ UNCHANGED <<connections, net, serverRunning, mutex, slot>>
-----------------------------------------------------------------------------
(***************************************************************************)
(* The network.                                                            *)
(***************************************************************************)
\* A client connects from an address, or accepting it fails (NoPeer).
Arrive(from) ==
    /\ accept = "waiting"
    /\ ioPc # "aborted"
    /\ accept' = "ready"
    /\ peer' = from
    /\ UNCHANGED <<connections, m_socket, acceptorOpen, ioStopped, serverControl>>

Terminated ==
    /\ mainPc \in {"stopped", "aborted"}
    /\ UNCHANGED serverVars

ServerNext ==
    \/ RunServer \/ BeginSend \/ Write \/ EndSend
    \/ Stop \/ StopAcceptor \/ StopIo \/ StopSocket \/ Join
    \/ Accept \/ EnterRun \/ Dequeue \/ ReturnFromRun \/ AssignPeer
    \/ AttemptError \/ StartConnection \/ Refuse \/ Abort
    \/ \E from \in Peers : Arrive(from)
    \/ Terminated

ServerSpec == ServerInit /\ [][ServerNext]_serverVars

\* The threads run, a write returns, and a thread that waits for the mutex gets
\* it in the end: the main thread holds it only to send, about once a second.
\* Nobody has to call send or stop, and no client has to come.
ServerFairness ==
    /\ WF_serverVars(Write) /\ WF_serverVars(EndSend)
    /\ WF_serverVars(StopAcceptor) /\ WF_serverVars(StopIo) /\ WF_serverVars(StopSocket)
    /\ WF_serverVars(Join)
    /\ WF_serverVars(Dequeue) /\ WF_serverVars(ReturnFromRun) /\ WF_serverVars(AssignPeer)
    /\ WF_serverVars(AttemptError)
    /\ SF_serverVars(Accept) /\ SF_serverVars(EnterRun)
    /\ SF_serverVars(StartConnection \/ Refuse \/ Abort)

FairServerSpec == ServerSpec /\ ServerFairness
-----------------------------------------------------------------------------
Occupied == {s \in Slots : m_connections[s] # NoPeer}

\* m_activeConnections is the number of connections: send skips its loop and
\* attemptConnection refuses clients on the counter alone, which is adjusted
\* apart from the array in send, stop and attemptConnection.
CountsConnections == m_activeConnections = Cardinality(Occupied)

\* No two connections have one address (isConnected in attemptConnection).
OneConnectionPerAddress ==
    \A s, t \in Occupied : m_connections[s] = m_connections[t] => s = t

\* The socket is open only while the handler decides on the peer in it: every
\* path of attemptConnection moves or closes m_socket before it accepts again,
\* also the loop over m_connections, which always finds a null slot.  An accept
\* into an open socket would fail, and the handler accept again, without end.
AcceptsIntoClosedSocket ==
    m_socket # NoPeer => ioPc \in {"attempt", "aborted"} /\ peer # NoPeer

\* The server's thread does not run out of work while the server runs: between
\* run and stop an accept is pending, or the thread is on its way to the next.
KeepsListening ==
    serverRunning /\ ioPc # "aborted" =>
        /\ ioPc # "done"
        /\ ioPc = "run" => accept # "none"

\* stop clears the slots before it stops the thread, and the handler may run
\* once more after that: at most one connection survives stop.
StopLeavesAtMostOne == mainPc = "stopped" => Cardinality(Occupied) <= 1

\* What ties the program counters of the two threads to the state of the
\* network, as the proofs need it.
ControlInv ==
    /\ ioPc = "none" <=> mainPc = "setup"
    /\ serverRunning => acceptorOpen /\ ~ioStopped
    /\ serverRunning /\ ioPc # "aborted" => mainPc \in {"serve", "send"}
    /\ mainPc \in {"setup", "serve", "send"} => acceptorOpen /\ ~ioStopped
    /\ ioPc \in {"none", "accept", "assign", "attempt", "reaccept"} => accept = "none"
    /\ serverRunning /\ ioPc = "lock" => accept # "none"
    /\ ioPc = "aborted" <=> mainPc = "aborted"

\* The inductive invariant of the server.
SInv ==
    /\ ServerTypeOK
    /\ ControlInv
    /\ CountsConnections
    /\ OneConnectionPerAddress
    /\ AcceptsIntoClosedSocket
    /\ KeepsListening

\* stop returns: the thread it joins leaves m_ioService.run(), whatever the
\* handler was doing, unless the program is terminated.
StopReturns == mainPc = "closeAcceptor" ~> mainPc \in {"stopped", "aborted"}

\* While the server runs it accepts again and again: after each client,
\* refused or not, an accept waits for the next one.
AcceptsForever ==
    [](ioPc = "reaccept" => <>(accept = "waiting" \/ ~serverRunning \/ ioPc = "aborted"))

\* "Stop all connections." (doc of Server::stop): none is left once it returned.
StopsAllConnections == mainPc = "stopped" => Occupied = {}
=============================================================================
