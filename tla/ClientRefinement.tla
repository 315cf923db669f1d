-------------------------- MODULE ClientRefinement --------------------------
(***************************************************************************)
(* Client implements the client that ClientManager supposes: with one feed *)
(* subscribed to it in ground mode, every step of the client's thread, of  *)
(* its handlers and of the stop is a step of ClientManager or changes      *)
(* nothing there.  The manager is past run: it serves, stops and joins.    *)
(***************************************************************************)
EXTENDS Client

One(x) == [c \in {1} |-> x]

FeedOf(k) == [protocol |-> k, endpoint |-> 1, login |-> ""]

\* A timeout that waited for the mutex while main stopped the client sets
\* STOPPING back to CONNECTING.  Nobody reads it: the io_service is stopped.
SeenState ==
    IF m_state = "CONNECTING" /\ m_connector.stopped THEN "STOPPING" ELSE m_state

SeenThread == IF clientPc \in {"returned", "aborted"} THEN "run" ELSE clientPc

SeenPc == CASE mainPc = "serve"  -> "serve"
            [] mainPc = "join"   -> "join"
            [] mainPc = "joined" -> "destroy"
            [] OTHER             -> "stop"

Manager == INSTANCE ClientManager
           WITH FeedKinds  <- {FeedOf(k) : k \in Kinds},
                MAX_FEEDS  <- 1,
                feeds      <- <<FeedOf(kind)>>,
                groundMode <- TRUE,
                n          <- 2,
                m_clients  <- IF clientPc = "done" THEN {} ELSE {1},
                m_feeds    <- One(<<1>>),
                m_states   <- One(SeenState),
                thread     <- One(SeenThread),
                m_mutex    <- IF SeenPc = "stop" THEN "main" ELSE "free",
                toVisit    <- IF mainPc \in {"scheduleStop", "unwatch"} THEN {1} ELSE {},
                managerPc  <- SeenPc,
                missed     <- IF early THEN {1} ELSE {}

\* What ClientManager takes for granted of a client is what the handlers, the
\* connector and the two threads do: it connects and reconnects, stops by itself
\* only on a GPS position, leaves STOPPING only for NONE when run returns, and
\* its thread erases it once, never while stop goes through the set.
ImplementsManager == [][Manager!ManagerNext]_(Manager!managerVars)
=============================================================================
