------------------------------- MODULE Client -------------------------------
(***************************************************************************)
(* One client of each kind (AprscClient, SbsClient, GpsdClient,            *)
(* SensorClient), from ClientManager::run, which starts its thread, to     *)
(* ClientManager::stop, which schedules its stop and joins the thread.     *)
(*                                                                         *)
(* The client's thread calls Client::run and in it the handlers, one at a  *)
(* time; the main thread stops the client.  A handler that holds m_mutex   *)
(* from its first to its last statement is one step; a handler that has    *)
(* been taken off the queue and waits for m_mutex is `current`.            *)
(***************************************************************************)
EXTENDS Connector

CONSTANTS Kinds,        \* the subclasses of Client considered
          MAX_BEACONS   \* bound: beacons under way when the next is due

ASSUME ClientAssumption ==
    /\ Kinds \subseteq {"APRS", "SBS", "GPS", "SENSOR"}
    /\ MAX_BEACONS \in Nat \ {0}

VARIABLES kind,         \* the subclass of this client
          m_state,      \* Client::m_state
          m_connector,  \* see Connector
          mutex,        \* m_mutex: free, or held by main across steps
          current,      \* the handlers called: << >> or <<completion>>
          clientPc,     \* control of the client's thread
          mainPc,       \* control of ClientManager::stop
          early         \* history: scheduleStop came before the thread's start

vars == <<kind, m_state, m_connector, mutex, current, clientPc, mainPc, early>>
main == <<kind, mutex, mainPc, early>>

States == {"NONE", "CONNECTING", "RUNNING", "STOPPING"}

\* async_connect has succeeded and the socket option is set: "connected" is
\* the call of handleConnect(SUCCESS).
Completed(ops) == [op : ops, ok : BOOLEAN]
Completions == Completed(Ops \cup {"connected"})

TypeOK ==
    /\ kind \in Kinds
    /\ m_state \in States
    /\ m_connector \in [pending : Seq(Ops), queue : Seq(Completions),
                        open : BOOLEAN, armed : BOOLEAN, stopped : BOOLEAN]
    /\ mutex \in {"free", "main"}
    /\ current \in {<< >>} \cup {<<c>> : c \in Completions}
    /\ clientPc \in {"start", "run", "returned", "erase", "done", "aborted"}
    /\ mainPc \in {"serve", "scheduleStop", "unwatch", "stopIo", "endStop",
                   "join", "joined"}
    /\ early \in BOOLEAN

Init ==
    /\ kind \in Kinds
    /\ m_state = "NONE"
    /\ m_connector = IdleConnector
    /\ mutex = "free"
    /\ current = << >>
    /\ clientPc = "start"
    /\ mainPc = "serve"
    /\ early = FALSE
-----------------------------------------------------------------------------
(***************************************************************************)
(* What the handlers have in common: they set m_state and the connector.   *)
(***************************************************************************)
Become(state, connector) == m_state' = state /\ m_connector' = connector

Ignore == UNCHANGED <<m_state, m_connector>>

connect == Become("CONNECTING", onConnect(m_connector))

\* Mutant: the old connection is not closed.
reconnectKeepOpen ==
    IF m_state = "STOPPING" THEN Ignore
    ELSE Become("CONNECTING", onTimeout(m_connector, "timedConnect"))

\* reconnect with timedConnect
reconnect ==
    IF m_state = "STOPPING" THEN Ignore
    ELSE Become("CONNECTING", onTimeout(close(m_connector), "timedConnect"))

\* stop as the client's own thread calls it.  GpsdClient::stop waits in vain
\* for its callback, which only this thread could call, and goes on.
StopSelf ==
    IF m_state \notin {"RUNNING", "CONNECTING"} THEN Ignore
    ELSE Become("STOPPING",
                stop(IF kind = "GPS" /\ m_state = "RUNNING"
                     THEN onWrite(m_connector, "unwatch") ELSE m_connector))

\* Client::read and SensorClient::read
ReadOn(c) == IF kind = "SENSOR" THEN onRead(resetTimer(c)) ELSE onRead(c)
-----------------------------------------------------------------------------
(***************************************************************************)
(* The client's thread.                                                    *)
(***************************************************************************)
\* Client::run up to m_connector->run().
Run ==
    /\ clientPc = "start"
    /\ mutex = "free"
    /\ connect
    /\ clientPc' = "run"
    /\ UNCHANGED <<current, main>>

\* m_ioService.run() takes a completed operation and calls its handler; before
\* that, async_connect turns into a failure if the socket has been closed.
Called(c) ==
    LET head == Head(c.queue)
    IN  IF head.op = "connect" /\ ~c.open THEN Completion("connect", FALSE) ELSE head

Dispatch ==
    /\ clientPc = "run"
    /\ current = << >>
    /\ ~m_connector.stopped
    /\ m_connector.queue # << >>
    /\ current' = <<Called(m_connector)>>
    /\ m_connector' = [m_connector EXCEPT !.queue = Tail(@)]
    /\ UNCHANGED <<m_state, clientPc, main>>

\* It returns when it is stopped, or when no work is left.
ReturnFromRun ==
    /\ clientPc = "run"
    /\ current = << >>
    /\ \/ m_connector.stopped
       \/ m_connector.pending = << >> /\ m_connector.queue = << >>
    /\ clientPc' = "returned"
    /\ UNCHANGED <<m_state, m_connector, current, main>>

\* The last statement of Client::run, without the mutex.
ResetState ==
    /\ clientPc = "returned"
    /\ m_state' = "NONE"
    /\ clientPc' = "erase"
    /\ UNCHANGED <<m_connector, current, main>>

\* Mutant: the thread does not lock the mutex of the ClientManager.
EraseUnlocked ==
    /\ clientPc = "erase"
    /\ clientPc' = "done"
    /\ UNCHANGED <<m_state, m_connector, current, main>>

\* The thread erases the client, with the mutex of the ClientManager.
Erase ==
    /\ clientPc = "erase"
    /\ mainPc \notin {"scheduleStop", "unwatch", "stopIo", "endStop"}
    /\ clientPc' = "done"
    /\ UNCHANGED <<m_state, m_connector, current, main>>

Calling(op, ok) == clientPc = "run" /\ current = <<Completion(op, ok)>>

\* A handler that runs with m_mutex, and returns.
Handle(op, ok) ==
    /\ Calling(op, ok)
    /\ mutex = "free"
    /\ current' = << >>
    /\ UNCHANGED <<clientPc, main>>

\* ConnectorImplBoost::handleResolve, without m_mutex.
HandleResolve ==
    /\ Calling("resolve", TRUE)
    /\ m_connector' = startConnect(m_connector)
    /\ current' = << >>
    /\ UNCHANGED <<m_state, clientPc, main>>

\* ConnectorImplBoost::handleConnect, without m_mutex: set_option throws when
\* the socket has been closed, and the handler is noexcept.
SetOption ==
    /\ Calling("connect", TRUE)
    /\ IF m_connector.open
       THEN current' = <<Completion("connected", TRUE)>> /\ UNCHANGED clientPc
       ELSE clientPc' = "aborted" /\ UNCHANGED current
    /\ UNCHANGED <<m_state, m_connector, main>>

\* handleConnect of the four kinds, after success in state CONNECTING
AprscConnected  == Become("CONNECTING", onWrite(m_connector, "login"))
GpsdConnected   == Become("CONNECTING", onWrite(m_connector, "watch"))
SbsConnected    == Become("RUNNING", ReadOn(m_connector))
SensorConnected == Become("RUNNING", ReadOn(onTimeout(m_connector, "deadline")))

Connected ==
    \/ kind = "APRS"   /\ AprscConnected
    \/ kind = "GPS"    /\ GpsdConnected
    \/ kind = "SBS"    /\ SbsConnected
    \/ kind = "SENSOR" /\ SensorConnected

\* Mutant: after a failure nothing is scheduled.
HandleConnectGiveUp ==
    \/ /\ Handle("connected", TRUE)
       /\ IF m_state = "CONNECTING" THEN Connected ELSE Ignore
    \/ /\ \E op \in {"resolve", "connect"} : Handle(op, FALSE)
       /\ Ignore

HandleConnect ==
    \/ /\ Handle("connected", TRUE)
       /\ IF m_state = "CONNECTING" THEN Connected ELSE Ignore
    \/ /\ \E op \in {"resolve", "connect"} : Handle(op, FALSE)
       /\ IF m_state = "CONNECTING" THEN reconnect ELSE Ignore

\* AprscClient::handleLogin, with sendKeepAlive
HandleLogin ==
    \/ /\ Handle("login", TRUE)
       /\ IF m_state = "CONNECTING"
          THEN Become("RUNNING", ReadOn(onTimeout(m_connector, "keepAlive")))
          ELSE Ignore
    \/ /\ Handle("login", FALSE)
       /\ IF m_state = "CONNECTING" THEN reconnect ELSE Ignore

\* GpsdClient::handleWatch
HandleWatch ==
    \/ /\ Handle("watch", TRUE)
       /\ IF m_state = "CONNECTING"
          THEN Become("RUNNING", ReadOn(m_connector))
          ELSE Ignore
    \/ /\ Handle("watch", FALSE)
       /\ IF m_state = "CONNECTING" THEN reconnect ELSE Ignore

\* Client::handleRead; a GPS feed ends its client with a good position.
HandleRead ==
    \/ /\ Handle("read", TRUE)
       /\ IF m_state # "RUNNING" THEN Ignore
          ELSE \/ Become("RUNNING", ReadOn(m_connector))
               \/ kind = "GPS" /\ StopSelf
    \/ /\ Handle("read", FALSE)
       /\ IF m_state = "RUNNING" THEN reconnect ELSE Ignore

HandleSendKeepAlive ==
    \/ /\ Handle("keepAlive", TRUE)
       /\ IF m_state = "RUNNING"
          THEN Become("RUNNING",
                      onTimeout(onWrite(m_connector, "beacon"), "keepAlive"))
          ELSE Ignore
    \/ /\ Handle("keepAlive", FALSE)
       /\ IF m_state = "RUNNING"
          THEN Become("RUNNING", onTimeout(m_connector, "keepAlive"))
          ELSE Ignore

\* The callback of the beacon's write.
HandleBeacon ==
    \E ok \in BOOLEAN :
        /\ Handle("beacon", ok)
        /\ IF m_state = "RUNNING" /\ ~ok THEN reconnect ELSE Ignore

\* Mutant: a cancelled wait is not renewed.
CheckDeadlineOnce ==
    \/ /\ Handle("deadline", TRUE)
       /\ IF m_state = "RUNNING" THEN reconnect ELSE Ignore
    \/ Handle("deadline", FALSE) /\ Ignore

\* SensorClient::checkDeadline
CheckDeadline ==
    \/ /\ Handle("deadline", TRUE)
       /\ IF m_state = "RUNNING" THEN reconnect ELSE Ignore
    \/ /\ Handle("deadline", FALSE)
       /\ IF m_state = "RUNNING"
          THEN Become("RUNNING", onTimeoutAgain(m_connector, "deadline"))
          ELSE Ignore

\* Mutant: the timeout has no effect.
HandleTimedConnectNever ==
    \/ Handle("timedConnect", TRUE) /\ Ignore
    \/ Handle("timedConnect", FALSE) /\ StopSelf

\* Client::handleTimedConnect; after a failure it calls scheduleStop, which
\* does not wait, as m_state is not NONE before run returns.
HandleTimedConnect ==
    \/ Handle("timedConnect", TRUE) /\ connect
    \/ Handle("timedConnect", FALSE) /\ StopSelf

\* The callback in GpsdClient::stop takes no mutex.
HandleUnwatch ==
    /\ \E ok \in BOOLEAN : Calling("unwatch", ok)
    /\ current' = << >>
    /\ UNCHANGED <<m_state, m_connector, clientPc, main>>
-----------------------------------------------------------------------------
(***************************************************************************)
(* The main thread: ClientManager::stop.                                   *)
(***************************************************************************)
\* With the mutex of the ClientManager, which it keeps until endStop, it stops
\* the clients that have not been erased.
ManagerStop ==
    /\ mainPc = "serve"
    /\ mainPc' = IF clientPc = "done" THEN "endStop" ELSE "scheduleStop"
    /\ UNCHANGED <<kind, m_state, m_connector, mutex, current, clientPc, early>>

\* Mutant: the connection is closed before the wait.
ScheduleStopClosing ==
    /\ mainPc = "scheduleStop"
    /\ mutex = "free"
    /\ m_state \in {"RUNNING", "CONNECTING"}
    /\ Become(m_state, close(m_connector))
    /\ mutex' = "main" /\ mainPc' = "unwatch"
    /\ UNCHANGED <<kind, current, clientPc, early>>

\* scheduleStop after its wait, which ends at once if m_state is not NONE, and
\* else after 100 ms whatever m_state is then: nobody notifies cond_ready.
\* GpsdClient::stop first writes, and waits with the mutex held.
ScheduleStop ==
    /\ mainPc = "scheduleStop"
    /\ mutex = "free"
    /\ CASE kind = "GPS" /\ m_state = "RUNNING" ->
              /\ Become(m_state, onWrite(m_connector, "unwatch"))
              /\ mutex' = "main"
              /\ mainPc' = "unwatch"
         [] ~(kind = "GPS" /\ m_state = "RUNNING")
            /\ m_state \in {"RUNNING", "CONNECTING"} ->
              /\ Become("STOPPING", close(m_connector))
              /\ mutex' = "main"
              /\ mainPc' = "stopIo"
         [] m_state \in {"NONE", "STOPPING"} ->
              /\ Ignore
              /\ mainPc' = "endStop"
              /\ UNCHANGED mutex
    /\ early' = (clientPc = "start")
    /\ UNCHANGED <<kind, current, clientPc>>

\* GpsdClient::stop after its callback was called or 500 ms have passed.
StopUnwatched ==
    /\ mainPc = "unwatch"
    /\ Become("STOPPING", close(m_connector))
    /\ mainPc' = "stopIo"
    /\ UNCHANGED <<kind, mutex, current, clientPc, early>>

\* Mutant: the connection is closed, the io_service is not stopped.
StopIoNever ==
    /\ mainPc = "stopIo"
    /\ mutex' = "free"
    /\ mainPc' = "endStop"
    /\ UNCHANGED <<kind, m_state, m_connector, current, clientPc, early>>

\* The second half of ConnectorImplBoost::stop; the client's thread may have
\* called a handler of a cancelled operation in between.
StopIo ==
    /\ mainPc = "stopIo"
    /\ m_connector' = [m_connector EXCEPT !.stopped = TRUE]
    /\ mutex' = "free"
    /\ mainPc' = "endStop"
    /\ UNCHANGED <<kind, m_state, current, clientPc, early>>

\* The mutex of the ClientManager is unlocked.
UnlockManager ==
    /\ mainPc = "endStop"
    /\ mainPc' = "join"
    /\ UNCHANGED <<kind, m_state, m_connector, mutex, current, clientPc, early>>

\* join_all
Join ==
    /\ mainPc = "join"
    /\ clientPc = "done"
    /\ mainPc' = "joined"
    /\ UNCHANGED <<kind, m_state, m_connector, mutex, current, clientPc, early>>
-----------------------------------------------------------------------------
\* The network, the resolver and the clock complete an operation.  Beacons are
\* sent every AC_BEACON_INT, whether or not the last one's write has completed.
CompleteOp(k, ok) ==
    /\ clientPc = "run"
    /\ MayComplete(m_connector, k, ok)
    /\ m_connector.pending[k] = "keepAlive" =>
          Count(m_connector.pending, {"beacon"}) < MAX_BEACONS
    /\ m_connector' = Complete(m_connector, k, ok)
    /\ UNCHANGED <<m_state, current, clientPc, main>>

Terminated ==
    /\ mainPc = "joined" \/ clientPc = "aborted"
    /\ UNCHANGED vars

Live == clientPc # "aborted"

Next ==
    \/ Run
    \/ Dispatch
    \/ ReturnFromRun
    \/ ResetState
    \/ Erase
    \/ HandleResolve
    \/ SetOption
    \/ HandleConnect
    \/ HandleLogin
    \/ HandleWatch
    \/ HandleRead
    \/ HandleSendKeepAlive
    \/ HandleBeacon
    \/ CheckDeadline
    \/ HandleTimedConnect
    \/ HandleUnwatch
    \/ Live /\ ManagerStop
    \/ Live /\ ScheduleStop
    \/ Live /\ StopUnwatched
    \/ Live /\ StopIo
    \/ Live /\ UnlockManager
    \/ Live /\ Join
    \/ \E k \in DOMAIN m_connector.pending, ok \in BOOLEAN : CompleteOp(k, ok)
    \/ Terminated

Spec == Init /\ [][Next]_vars

CompleteKind(op) ==
    \E k \in DOMAIN m_connector.pending, ok \in BOOLEAN :
        m_connector.pending[k] = op /\ CompleteOp(k, ok)

\* Both threads run.  Resolving, connecting and writing succeed or fail in the
\* end, and an armed timer expires; nothing has to be received.  Nobody has to
\* stop the client.
Fairness ==
    /\ WF_vars(Run) /\ WF_vars(Dispatch) /\ WF_vars(ReturnFromRun)
    /\ WF_vars(ResetState) /\ WF_vars(Erase)
    /\ WF_vars(HandleResolve) /\ WF_vars(SetOption) /\ WF_vars(HandleConnect)
    /\ WF_vars(HandleLogin) /\ WF_vars(HandleWatch)
    /\ WF_vars(HandleRead) /\ WF_vars(HandleSendKeepAlive)
    /\ WF_vars(HandleBeacon) /\ WF_vars(CheckDeadline)
    /\ WF_vars(HandleTimedConnect) /\ WF_vars(HandleUnwatch)
    /\ WF_vars(Live /\ ScheduleStop) /\ WF_vars(Live /\ StopUnwatched)
    /\ WF_vars(Live /\ StopIo) /\ WF_vars(Live /\ UnlockManager) /\ WF_vars(Live /\ Join)
    /\ \A op \in Ops \ {"read"} : WF_vars(CompleteKind(op))

FairSpec == Spec /\ Fairness
-----------------------------------------------------------------------------
\* How many operations of ops are under way, completed or being handled.
InFlight(ops) ==
    Count(m_connector.pending, ops) + Count(m_connector.queue, Completed(ops))
        + Count(current, Completed(ops))

ConnectOps == {"resolve", "connect", "connected", "login", "watch", "timedConnect"}

\* Between run and stop a client that is CONNECTING has exactly one operation
\* that leads on to the next attempt or to RUNNING, and a client that is RUNNING
\* has none of these and exactly one read.  So it neither dies silently nor has
\* two connection attempts, or two reads of one buffer, at a time, although
\* reconnect leaves cancelled operations behind whose handlers are still to be
\* called.
OneActivity ==
    clientPc = "run" =>
        /\ m_state = "CONNECTING" /\ ~m_connector.stopped => InFlight(ConnectOps) = 1
        /\ m_state = "RUNNING" => InFlight(ConnectOps) = 0 /\ InFlight({"read"}) = 1

\* A RUNNING AprscClient has exactly one keep-alive timer and a RUNNING
\* SensorClient exactly one deadline under way, although every read of the
\* SensorClient cancels the wait and checkDeadline has to renew it.
OneTimerLoop ==
    m_state = "RUNNING" /\ clientPc = "run" =>
        InFlight(TimerOps) = IF kind \in {"APRS", "SENSOR"} THEN 1 ELSE 0

\* m_connector->run() returns only because it was stopped, not for lack of work.
ReturnsOnlyWhenStopped == clientPc = "returned" => m_connector.stopped

\* handleConnect of the connector finds the socket closed, and its exception ends
\* the program, only if ClientManager::stop has closed it: never because of a
\* reconnect.
AbortsOnlyInStop == clientPc = "aborted" => mainPc \in {"stopIo", "endStop", "join"}

\* A failed attempt to connect is followed by another one.
RetriesConnect ==
    (\E op \in {"resolve", "connect"} : Calling(op, FALSE)) /\ mainPc = "serve"
        ~> \/ \E k \in DOMAIN m_connector.pending : m_connector.pending[k] = "resolve"
           \/ mainPc # "serve"

\* A SensorClient does not wait for a silent sensor for ever: the read it waits
\* for ends, with data or because checkDeadline reconnects.
DetectsSilence ==
    kind = "SENSOR" =>
        []<>(\A k \in DOMAIN m_connector.pending : m_connector.pending[k] # "read")

\* Once its thread has locked the mutex in run, a client can be stopped in any
\* state: ClientManager::stop joins its thread.
StopJoins ==
    mainPc = "scheduleStop" /\ clientPc # "start"
        ~> mainPc = "joined" \/ clientPc = "aborted"

\* "Stop after client has been started.", "Wait until run has been called."
\* (doc of scheduleStop): a client is stopped also if its thread is late.
StopWaitsForRun ==
    mainPc = "scheduleStop" ~> mainPc = "joined" \/ clientPc = "aborted"
=============================================================================
