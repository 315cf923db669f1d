--------------------------- MODULE ClientManager ---------------------------
(***************************************************************************)
(* ClientManager with several clients: subscribe shares a client among the *)
(* feeds whose clients compare equal, run starts a thread per client, a    *)
(* thread erases its client when Client::run returns, and stop schedules   *)
(* the stop of every client and joins the threads.  The destructor calls   *)
(* stop once more.                                                         *)
(*                                                                         *)
(* A client is named by the position of the feed it was created for.  Of   *)
(* the clients' handlers only the changes of Client::m_state remain; they  *)
(* are the subject of module Client.                                       *)
(***************************************************************************)
EXTENDS Naturals, Sequences, FiniteSets

CONSTANTS FeedKinds,   \* feeds: [protocol, endpoint, login]
          MAX_FEEDS    \* bound: feeds

ASSUME ManagerAssumption ==
    /\ \A f \in FeedKinds : f.protocol \in {"APRS", "SBS", "GPS", "SENSOR"}
    /\ MAX_FEEDS \in Nat \ {0}

VARIABLES feeds,       \* the feeds, in the order of their subscription
          groundMode,  \* a good GPS position stops the feed
          n,           \* the next feed to subscribe
          m_clients,   \* the set of clients
          m_feeds,     \* the feeds subscribed to each client
          m_states,    \* Client::m_state of each client
          thread,      \* the thread of each client
          m_mutex,     \* free, or held by main across steps
          toVisit,     \* the clients main's loop has not come to
          managerPc,   \* control of main
          missed       \* history: clients whose stop came before their start

threads == <<m_clients, m_states, thread>>
mainVars == <<n, m_feeds, m_mutex, toVisit, managerPc, missed>>
managerVars == <<feeds, groundMode, threads, mainVars>>

Positions == 1 .. MAX_FEEDS

\* ClientFactory::createClientFor: the class of the client made for a feed, and
\* the members that its equals and hash look at.
createClientFor(f) ==
    [class |-> IF f.protocol = "APRS" THEN "AprscClient" ELSE "Client",
     endpoint |-> f.endpoint,
     m_login |-> IF f.protocol = "APRS" THEN {f.login} ELSE {}]

\* Client::hash and AprscClient::hash, without collisions.
hash(c) == <<c.endpoint, c.m_login>>

\* AprscClient::equals, and Client::equals for the other classes.
equals(c, d) ==
    /\ c.endpoint = d.endpoint
    /\ c.class = "AprscClient" => d.class = "AprscClient" /\ c.m_login = d.m_login

\* ClientSet finds the client of feed f for that of feed g.
SameClient(f, g) ==
    LET c == createClientFor(f)
        d == createClientFor(g)
    IN  hash(c) = hash(d) /\ equals(c, d)

ManagerTypeOK ==
    /\ Len(feeds) \in Positions
    /\ groundMode \in BOOLEAN
    /\ n \in Nat \ {0}
    /\ m_clients \subseteq Positions
    /\ DOMAIN m_feeds = Positions
    /\ m_states \in [Positions -> {"NONE", "CONNECTING", "RUNNING", "STOPPING"}]
    /\ thread \in [Positions -> {"none", "start", "run", "erase", "done"}]
    /\ m_mutex \in {"free", "main"}
    /\ toVisit \subseteq Positions /\ missed \subseteq Positions
    /\ managerPc \in {"subscribe", "create", "serve", "stop", "join",
               "destroy", "stopAgain", "joinAgain", "ended"}

ManagerInit ==
    /\ feeds \in UNION {[1 .. k -> FeedKinds] : k \in Positions}
    /\ groundMode \in BOOLEAN
    /\ n = 1
    /\ m_clients = {}
    /\ m_feeds = [c \in Positions |-> << >>]
    /\ m_states = [c \in Positions |-> "NONE"]
    /\ thread = [c \in Positions |-> "none"]
    /\ m_mutex = "free" /\ toVisit = {} /\ managerPc = "subscribe" /\ missed = {}

-----------------------------------------------------------------------------
\* Mutant: the feed goes to the client made for it, inserted or not.
subscribeToNew ==
    /\ managerPc = "subscribe" /\ n <= Len(feeds)
    /\ m_clients' = IF \E c \in m_clients : SameClient(feeds[c], feeds[n])
                    THEN m_clients ELSE m_clients \cup {n}
    /\ m_feeds' = [m_feeds EXCEPT ![n] = Append(@, n)]
    /\ n' = n + 1
    /\ UNCHANGED <<feeds, groundMode, m_states, thread, m_mutex, toVisit, managerPc, missed>>

\* ClientManager::subscribe: insert returns the equal client if there is one.
subscribe ==
    /\ managerPc = "subscribe" /\ n <= Len(feeds)
    /\ IF \E c \in m_clients : SameClient(feeds[c], feeds[n])
       THEN \E c \in m_clients :
                /\ SameClient(feeds[c], feeds[n])
                /\ m_feeds' = [m_feeds EXCEPT ![c] = Append(@, n)]
                /\ UNCHANGED m_clients
       ELSE /\ m_clients' = m_clients \cup {n}
            /\ m_feeds' = [m_feeds EXCEPT ![n] = <<n>>]
    /\ n' = n + 1
    /\ UNCHANGED <<feeds, groundMode, m_states, thread, m_mutex, toVisit, managerPc, missed>>

\* A loop over m_clients with m_mutex locked.
BeginLoop(from, to) ==
    /\ managerPc = from /\ m_mutex = "free"
    /\ m_mutex' = "main" /\ toVisit' = m_clients /\ managerPc' = to
    /\ UNCHANGED <<feeds, groundMode, threads, n, m_feeds, missed>>

EndLoop(from, to) ==
    /\ managerPc = from /\ toVisit = {}
    /\ m_mutex' = "free" /\ managerPc' = to
    /\ UNCHANGED <<feeds, groundMode, threads, n, m_feeds, toVisit, missed>>

\* ClientManager::run
BeginRun == n > Len(feeds) /\ BeginLoop("subscribe", "create")

CreateThread(c) ==
    /\ managerPc = "create" /\ c \in toVisit
    /\ thread' = [thread EXCEPT ![c] = "start"]
    /\ toVisit' = toVisit \ {c}
    /\ UNCHANGED <<feeds, groundMode, m_clients, m_states, n, m_feeds, m_mutex, managerPc, missed>>

EndRun == EndLoop("create", "serve")

\* ClientManager::stop, when serve has returned and again in the destructor.
BeginStop == BeginLoop("serve", "stop")
StopAgain == BeginLoop("destroy", "stopAgain")

\* Mutant: a client that is not connected is passed over.
scheduleStopRunning(c) ==
    /\ managerPc \in {"stop", "stopAgain"} /\ c \in toVisit
    /\ m_states' = IF m_states[c] = "RUNNING"
                   THEN [m_states EXCEPT ![c] = "STOPPING"] ELSE m_states
    /\ toVisit' = toVisit \ {c}
    /\ missed' = IF thread[c] = "start" THEN missed \cup {c} ELSE missed
    /\ UNCHANGED <<feeds, groundMode, m_clients, thread, n, m_feeds, m_mutex, managerPc>>

\* Client::scheduleStop on one client.  It waits up to 100 ms for m_state to
\* leave NONE and then stops the client, or does nothing if it is NONE still.
scheduleStop(c) ==
    /\ managerPc \in {"stop", "stopAgain"} /\ c \in toVisit
    /\ m_states' = IF m_states[c] \in {"RUNNING", "CONNECTING"}
                   THEN [m_states EXCEPT ![c] = "STOPPING"] ELSE m_states
    /\ toVisit' = toVisit \ {c}
    /\ missed' = IF thread[c] = "start" THEN missed \cup {c} ELSE missed
    /\ UNCHANGED <<feeds, groundMode, m_clients, thread, n, m_feeds, m_mutex, managerPc>>

EndStop == EndLoop("stop", "join") \/ EndLoop("stopAgain", "joinAgain")

\* thread_group::join_all
JoinAll ==
    /\ managerPc \in {"join", "joinAgain"}
    /\ \A c \in Positions : thread[c] \in {"none", "done"}
    /\ managerPc' = IF managerPc = "join" THEN "destroy" ELSE "ended"
    /\ UNCHANGED <<feeds, groundMode, threads, n, m_feeds, m_mutex, toVisit, missed>>

-----------------------------------------------------------------------------
BecomeAt(c, state) ==
    /\ m_states' = [m_states EXCEPT ![c] = state]
    /\ UNCHANGED <<feeds, groundMode, m_clients, mainVars>>

\* Client::run up to the io_service's loop.
RunClient(c) ==
    /\ thread[c] = "start"
    /\ thread' = [thread EXCEPT ![c] = "run"]
    /\ BecomeAt(c, "CONNECTING")

\* The connection is established, and lost (Client::reconnect).
Connect(c) == thread[c] = "run" /\ m_states[c] = "CONNECTING" /\ BecomeAt(c, "RUNNING")
              /\ UNCHANGED thread
Reconnect(c) == thread[c] = "run" /\ m_states[c] = "RUNNING" /\ BecomeAt(c, "CONNECTING")
                /\ UNCHANGED thread

\* Client::handleRead: GpsFeed::process returns false on a good position in
\* ground mode, and the client stops.
ProcessGoodPosition(c) ==
    /\ thread[c] = "run" /\ m_states[c] = "RUNNING"
    /\ groundMode
    /\ \E k \in 1 .. Len(m_feeds[c]) : feeds[m_feeds[c][k]].protocol = "GPS"
    /\ BecomeAt(c, "STOPPING")
    /\ UNCHANGED thread

\* The connector's run returns, and Client::run with it.
ReturnClient(c) ==
    /\ thread[c] = "run" /\ m_states[c] = "STOPPING"
    /\ thread' = [thread EXCEPT ![c] = "erase"]
    /\ BecomeAt(c, "NONE")

\* Mutant: the thread ends without erasing its client.
EraseNothing(c) ==
    /\ thread[c] = "erase" /\ m_mutex = "free"
    /\ thread' = [thread EXCEPT ![c] = "done"]
    /\ UNCHANGED <<feeds, groundMode, m_clients, m_states, mainVars>>

\* The end of the thread's function in ClientManager::run.
EraseClient(c) ==
    /\ thread[c] = "erase" /\ m_mutex = "free"
    /\ m_clients' = m_clients \ {c}
    /\ thread' = [thread EXCEPT ![c] = "done"]
    /\ UNCHANGED <<feeds, groundMode, m_states, mainVars>>

MainThread == \/ subscribe \/ BeginRun \/ EndRun \/ EndStop \/ JoinAll \/ StopAgain
        \/ \E c \in Positions : CreateThread(c) \/ scheduleStop(c)

Thread(c) == RunClient(c) \/ ReturnClient(c) \/ EraseClient(c)

Network(c) == Connect(c) \/ Reconnect(c) \/ ProcessGoodPosition(c)

ManagerNext == MainThread \/ BeginStop \/ \E c \in Positions : Thread(c) \/ Network(c)

\* The main thread and the clients' threads are scheduled; nothing is assumed
\* of the network, nor that the program is ever stopped.
ManagerSpec == /\ ManagerInit /\ [][ManagerNext]_managerVars
        /\ WF_managerVars(MainThread)
        /\ \A c \in Positions : WF_managerVars(Thread(c))

-----------------------------------------------------------------------------
Serves(c, f) == \E k \in 1 .. Len(m_feeds[c]) : m_feeds[c][k] = f

\* After the subscriptions every feed is served by exactly one client, once,
\* which connects to the feed's endpoint and, for APRS, with its login.  Feeds of
\* one type, endpoint and login share the client; AprscClient::equals tells
\* APRS feeds of one endpoint apart by their logins.
ServedOnce ==
    managerPc = "create" =>
        \A f \in 1 .. Len(feeds) :
            /\ Cardinality({p \in m_clients \X Positions :
                                p[2] <= Len(m_feeds[p[1]]) /\ m_feeds[p[1]][p[2]] = f}) = 1
            /\ \A c \in m_clients : Serves(c, f) =>
                   /\ feeds[c].endpoint = feeds[f].endpoint
                   /\ feeds[f].protocol = "APRS" =>
                          feeds[c].protocol = "APRS" /\ feeds[c].login = feeds[f].login
                   /\ \A g \in 1 .. Len(feeds) :
                          /\ feeds[g].protocol = feeds[f].protocol
                          /\ feeds[g].endpoint = feeds[f].endpoint
                          /\ feeds[f].protocol = "APRS" => feeds[g].login = feeds[f].login
                          => Serves(c, g)

\* While main iterates over m_clients no thread changes the set: the threads
\* of clients that end by themselves wait for m_mutex.
StableIteration ==
    [][m_mutex = "main" => m_clients' = m_clients]_managerVars

\* ClientManager.h, stop: "Blocks until all clients have stopped."  After the
\* destructor no client is left in the set, none is active.
NothingLeft ==
    managerPc = "ended" => m_clients = {} /\ \A c \in Positions : m_states[c] = "NONE"

\* stop returns, in whatever state it meets the clients, unless it came before
\* a client's thread had called Client::run.
ManagerStopReturns == (managerPc = "stop") ~> (managerPc = "ended" \/ missed # {})
=============================================================================
