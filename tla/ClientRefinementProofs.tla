----------------------- MODULE ClientRefinementProofs -----------------------
(***************************************************************************)
(* Client implements ClientManager: the proof, step by step, from the      *)
(* inductive invariant of Client.                                          *)
(***************************************************************************)
EXTENDS ClientRefinement, ClientProofs

\* The variables behind the main thread that ClientManager sees.
SeenMain == <<kind, mainPc, early>>

\* A step of which ClientManager sees nothing.
LEMMA Unseen ==
    ASSUME UNCHANGED <<kind, SeenPc, early, SeenState, SeenThread>>,
           (clientPc' = "done") <=> (clientPc = "done"),
           (mainPc' \in {"scheduleStop", "unwatch"})
             <=> (mainPc \in {"scheduleStop", "unwatch"})
    PROVE  UNCHANGED Manager!managerVars
BY DEF Manager!managerVars, Manager!threads, Manager!mainVars, One, FeedOf

\* The steps of the clients' threads.
LEMMA SeenRun ==
    ASSUME UNCHANGED SeenMain, SeenThread = "start", SeenThread' = "run",
           SeenState' = "CONNECTING", clientPc # "done", clientPc' # "done"
    PROVE  Manager!ManagerNext
<1>1. SeenPc' = SeenPc
  BY DEF SeenPc, SeenMain
<1>2. Manager!RunClient(1)
  BY <1>1 DEF SeenMain, Manager!RunClient, Manager!BecomeAt, Manager!mainVars, One, FeedOf
<1>3. QED
  BY <1>2 DEF Manager!ManagerNext, Manager!Thread, Manager!Positions

\* A handler's steps, as they appear in m_state.
StateStep ==
    \/ SeenState' = SeenState
    \/ SeenState = "CONNECTING" /\ SeenState' = "RUNNING"
    \/ SeenState = "RUNNING" /\ SeenState' = "CONNECTING"
    \/ SeenState = "RUNNING" /\ SeenState' = "STOPPING" /\ kind = "GPS"

\* A handler on the client's thread is a step of Network, or unseen.
LEMMA SeenNetwork ==
    ASSUME UNCHANGED SeenMain, clientPc = "run", clientPc' \in {"run", "returned", "aborted"},
           StateStep
    PROVE  Manager!ManagerNext \/ UNCHANGED Manager!managerVars
<1>1. /\ SeenThread = "run" /\ SeenThread' = "run" /\ SeenPc' = SeenPc
      /\ clientPc # "done" /\ clientPc' # "done"
      /\ kind' = kind /\ mainPc' = mainPc /\ early' = early
  BY DEF SeenThread, SeenPc, SeenMain
<1>2. ASSUME \E c \in Manager!Positions : Manager!Network(c)
      PROVE  Manager!ManagerNext
  BY <1>2, Zenon DEF Manager!ManagerNext
<1>3. 1 \in Manager!Positions
  BY DEF Manager!Positions
<1>4. CASE SeenState' = SeenState
  BY <1>1, <1>4, Unseen
<1>5. CASE SeenState = "CONNECTING" /\ SeenState' = "RUNNING"
  <2>1. Manager!Connect(1)
    BY <1>1, <1>5 DEF Manager!Connect, Manager!BecomeAt, Manager!mainVars, One, FeedOf
  <2>2. QED
    BY <1>2, <1>3, <2>1 DEF Manager!Network
<1>6. CASE SeenState = "RUNNING" /\ SeenState' = "CONNECTING"
  <2>1. Manager!Reconnect(1)
    BY <1>1, <1>6 DEF Manager!Reconnect, Manager!BecomeAt, Manager!mainVars, One, FeedOf
  <2>2. QED
    BY <1>2, <1>3, <2>1 DEF Manager!Network
<1>7. CASE SeenState = "RUNNING" /\ SeenState' = "STOPPING" /\ kind = "GPS"
  <2>1. Manager!BecomeAt(1, "STOPPING") /\ UNCHANGED One(SeenThread)
    BY <1>1, <1>7 DEF Manager!BecomeAt, Manager!mainVars, One, FeedOf
  <2>2. One(SeenThread)[1] = "run" /\ One(SeenState)[1] = "RUNNING" /\ One(<<1>>)[1] = <<1>>
    BY <1>1, <1>7 DEF One
  <2>3. 1 \in 1 .. Len(<<1>>) /\ <<FeedOf(kind)>>[<<1>>[1]].protocol = "GPS"
    <3>1. Len(<<1>>) = 1 /\ <<1>>[1] = 1 /\ <<FeedOf(kind)>>[1] = FeedOf(kind)
      OBVIOUS
    <3>2. FeedOf(kind).protocol = "GPS"
      BY <1>7, Zenon DEF FeedOf
    <3>3. 1 \in 1 .. Len(<<1>>)
      BY <3>1
    <3>4. QED
      BY <3>1, <3>2, <3>3, Zenon
  <2>4. \E k \in 1 .. Len(One(<<1>>)[1]) : <<FeedOf(kind)>>[One(<<1>>)[1][k]].protocol = "GPS"
    BY <2>2, <2>3, Zenon
  <2>5. Manager!ProcessGoodPosition(1)
    BY <2>1, <2>2, <2>4, Zenon DEF Manager!ProcessGoodPosition
  <2>6. QED
    BY <1>2, <1>3, <2>5 DEF Manager!Network
<1>8. QED
  BY <1>4, <1>5, <1>6, <1>7 DEF StateStep

\* io_service::run returning is ReturnClient.
LEMMA SeenReturn ==
    ASSUME UNCHANGED SeenMain, clientPc = "returned", clientPc' = "erase",
           SeenState = "STOPPING", SeenState' = "NONE"
    PROVE  Manager!ManagerNext
<1>1. /\ SeenThread = "run" /\ SeenThread' = "erase" /\ SeenPc' = SeenPc
      /\ kind' = kind /\ mainPc' = mainPc /\ early' = early
  BY DEF SeenThread, SeenPc, SeenMain
<1>2. Manager!ReturnClient(1)
  BY <1>1 DEF Manager!ReturnClient, Manager!BecomeAt, Manager!mainVars, One, FeedOf
<1>3. QED
  BY <1>2 DEF Manager!ManagerNext, Manager!Thread, Manager!Positions

\* The thread erasing its client is the manager's erase.
LEMMA SeenErase ==
    ASSUME UNCHANGED SeenMain, clientPc = "erase", clientPc' = "done",
           SeenPc # "stop", SeenState' = SeenState
    PROVE  Manager!ManagerNext
<1>1. /\ SeenThread = "erase" /\ SeenThread' = "done" /\ SeenPc' = SeenPc
      /\ kind' = kind /\ mainPc' = mainPc /\ early' = early
  BY DEF SeenThread, SeenPc, SeenMain
<1>2. Manager!EraseClient(1)
  BY <1>1 DEF Manager!EraseClient, Manager!mainVars, One, FeedOf
<1>3. QED
  BY <1>2 DEF Manager!ManagerNext, Manager!Thread, Manager!Positions

\* The steps of main.
LEMMA SeenBegin ==
    ASSUME UNCHANGED <<kind, early, clientPc, SeenState>>,
           mainPc = "serve",
           mainPc' = IF clientPc = "done" THEN "endStop" ELSE "scheduleStop"
    PROVE  Manager!ManagerNext
<1>1. SeenPc = "serve" /\ SeenPc' = "stop" /\ SeenThread' = SeenThread
  BY DEF SeenPc, SeenThread
<1>2. (IF mainPc' \in {"scheduleStop", "unwatch"} THEN {1} ELSE {})
          = IF clientPc = "done" THEN {} ELSE {1}
  OBVIOUS
<1>3. Manager!BeginStop
  BY <1>1, <1>2 DEF Manager!BeginStop, Manager!BeginLoop, Manager!threads, One, FeedOf
<1>4. QED
  BY <1>3 DEF Manager!ManagerNext

\* The body of Client::stop is the iteration of stop over the one client.
LEMMA SeenSchedule ==
    ASSUME UNCHANGED <<kind, clientPc>>,
           mainPc \in {"scheduleStop", "unwatch"}, mainPc' \in {"stopIo", "endStop"},
           SeenState' = IF SeenState \in {"RUNNING", "CONNECTING"}
                        THEN "STOPPING" ELSE SeenState,
           ~early, early' \in BOOLEAN, early' <=> clientPc = "start"
    PROVE  Manager!ManagerNext
<1>1. /\ SeenPc = "stop" /\ SeenPc' = "stop" /\ SeenThread' = SeenThread
      /\ SeenThread = "start" <=> clientPc = "start"
  BY DEF SeenPc, SeenThread
<1>2. One(SeenState)' = IF One(SeenState)[1] \in {"RUNNING", "CONNECTING"}
                        THEN [One(SeenState) EXCEPT ![1] = "STOPPING"] ELSE One(SeenState)
  BY DEF One
<1>3. (IF early' THEN {1} ELSE {})
          = IF One(SeenThread)[1] = "start"
            THEN (IF early THEN {1} ELSE {}) \cup {1} ELSE (IF early THEN {1} ELSE {})
  BY <1>1 DEF One
<1>4. Manager!scheduleStop(1)
  BY <1>1, <1>2, <1>3 DEF Manager!scheduleStop, One, FeedOf
<1>5. QED
  BY <1>4 DEF Manager!ManagerNext, Manager!MainThread, Manager!Positions

\* Leaving Client::stop ends the loop of stop.
LEMMA SeenEnd ==
    ASSUME UNCHANGED <<kind, early, clientPc, SeenState>>,
           mainPc = "endStop", mainPc' = "join"
    PROVE  Manager!ManagerNext
<1>1. SeenPc = "stop" /\ SeenPc' = "join" /\ SeenThread' = SeenThread
  BY DEF SeenPc, SeenThread
<1>2. Manager!EndLoop("stop", "join")
  BY <1>1 DEF Manager!EndLoop, Manager!threads, One, FeedOf
<1>3. QED
  BY <1>2 DEF Manager!ManagerNext, Manager!MainThread, Manager!EndStop

\* Joining the thread is the manager's join.
LEMMA SeenJoin ==
    ASSUME UNCHANGED <<kind, early, clientPc, SeenState>>,
           mainPc = "join", mainPc' = "joined", clientPc = "done"
    PROVE  Manager!ManagerNext
<1>1. SeenPc = "join" /\ SeenPc' = "destroy" /\ SeenThread' = SeenThread /\ SeenThread = "done"
  BY DEF SeenPc, SeenThread
<1>2. \A c \in Manager!Positions : One(SeenThread)[c] = "done"
  BY <1>1 DEF Manager!Positions, One
<1>3. Manager!JoinAll
  BY <1>1, <1>2 DEF Manager!JoinAll, Manager!threads, One, FeedOf
<1>4. QED
  BY <1>3 DEF Manager!ManagerNext, Manager!MainThread

\* reconnect and stop, as they appear in m_state.
LEMMA SeenReconnect ==
    ASSUME CInv, NEW op, NEW ok, Handle(op, ok), reconnect,
           m_state \in {"CONNECTING", "RUNNING"}
    PROVE  SeenState = m_state /\ SeenState' = "CONNECTING"
<1> DEFINE d == close(m_connector)
           e == onTimeout(d, "timedConnect")
<1>1. TypeOK /\ Control /\ OpenFit(m_connector) /\ m_connector \in Connectors
  BY TypeOKConnector DEF CInv, Fit
<1>2. clientPc = "run" /\ current # << >> /\ mutex = "free"
  BY DEF Handle, Calling
<1>3. ~m_connector.stopped
  BY <1>1, <1>2, HandlerState
<1>4. d \in Connectors /\ d.stopped = m_connector.stopped
  BY <1>1, CloseEffect
<1>5. e.stopped = d.stopped
  BY <1>4, TimeoutEffect, Zenon DEF TimerOps
<1>6. m_state' = "CONNECTING" /\ m_connector' = e
  BY DEF reconnect, Become
<1> HIDE DEF d, e
<1>7. QED
  BY <1>3, <1>4, <1>5, <1>6 DEF SeenState

\* A handler has returned.
LEMMA SeenHandled ==
    ASSUME CInv, NEW op, NEW ok, Handle(op, ok),
           \/ Ignore
           \/ m_state \in {"CONNECTING", "RUNNING"} /\ reconnect
           \/ m_state \in {"CONNECTING", "RUNNING"} /\ m_state' = "RUNNING"
           \/ m_state' = "CONNECTING" /\ m_connector'.stopped = m_connector.stopped
           \/ kind = "GPS" /\ m_state = "RUNNING" /\ m_state' = "STOPPING"
    PROVE  Manager!ManagerNext \/ UNCHANGED Manager!managerVars
<1>1. clientPc = "run" /\ clientPc' = "run" /\ current # << >> /\ mutex = "free"
  BY DEF Handle, Calling
<1>2. UNCHANGED SeenMain
  BY DEF Handle, main, SeenMain
<1>3. \/ m_state \in {"CONNECTING", "RUNNING"} /\ ~m_connector.stopped
      \/ m_state = "STOPPING" /\ m_connector.stopped
  BY <1>1, HandlerState DEF CInv
<1>4. StateStep
  <2>1. CASE Ignore
    BY <2>1 DEF StateStep, SeenState, Ignore
  <2>2. CASE m_state \in {"CONNECTING", "RUNNING"} /\ reconnect
    <3>1. SeenState = m_state /\ SeenState' = "CONNECTING"
      BY <2>2, SeenReconnect
    <3>2. QED
      BY <2>2, <3>1 DEF StateStep
  <2>3. CASE m_state \in {"CONNECTING", "RUNNING"} /\ m_state' = "RUNNING"
    BY <1>3, <2>3 DEF StateStep, SeenState
  <2>4. CASE m_state' = "CONNECTING" /\ m_connector'.stopped = m_connector.stopped
    BY <1>3, <2>4 DEF StateStep, SeenState
  <2>5. CASE kind = "GPS" /\ m_state = "RUNNING" /\ m_state' = "STOPPING"
    BY <2>5 DEF StateStep, SeenState
  <2>6. QED
    BY <2>1, <2>2, <2>3, <2>4, <2>5
<1>5. QED
  BY <1>1, <1>2, <1>4, SeenNetwork

\* The handlers.
Handler == \/ HandleConnect \/ HandleLogin \/ HandleWatch \/ HandleRead
           \/ HandleSendKeepAlive \/ HandleBeacon \/ CheckDeadline \/ HandleTimedConnect

\* Every handler is a step of ClientManager, or unseen.
LEMMA SeenHandler ==
    ASSUME CInv, Handler
    PROVE  Manager!ManagerNext \/ UNCHANGED Manager!managerVars
<1> DEFINE Seen == Manager!ManagerNext \/ UNCHANGED Manager!managerVars
<1>1. CASE HandleConnect
  <2>1. ASSUME Handle("connected", TRUE), m_state = "CONNECTING", Connected PROVE Seen
    <3>1. m_connector \in Connectors /\ "login" \in Ops /\ "watch" \in Ops
      BY TypeOKConnector DEF CInv, Ops, SocketOps, WriteOps
    <3>2. \A op \in Ops : onWrite(m_connector, op).stopped = m_connector.stopped
      BY <3>1, StartEffect, Zenon DEF onWrite
    <3>3. \/ m_state' = "RUNNING"
          \/ m_state' = "CONNECTING" /\ \E op \in Ops : m_connector' = onWrite(m_connector, op)
      BY <2>1, <3>1
      DEF Connected, AprscConnected, GpsdConnected, SbsConnected, SensorConnected, Become
    <3>4. QED
      BY <2>1, <3>2, <3>3, SeenHandled, Zenon
  <2>2. QED
    BY <1>1, <2>1, SeenHandled, Zenon DEF HandleConnect
<1>2. CASE HandleLogin
  BY <1>2, SeenHandled, Zenon DEF HandleLogin, Become
<1>3. CASE HandleWatch
  BY <1>3, SeenHandled, Zenon DEF HandleWatch, Become
<1>4. CASE HandleRead
  <2>1. ASSUME m_state = "RUNNING", kind = "GPS", StopSelf PROVE m_state' = "STOPPING"
    BY <2>1 DEF StopSelf, Become
  <2>2. QED
    BY <1>4, <2>1, SeenHandled, Zenon DEF HandleRead, Become
<1>5. CASE HandleSendKeepAlive
  BY <1>5, SeenHandled, Zenon DEF HandleSendKeepAlive, Become
<1>6. CASE HandleBeacon
  BY <1>6, SeenHandled DEF HandleBeacon
<1>7. CASE CheckDeadline
  BY <1>7, SeenHandled, Zenon DEF CheckDeadline, Become
<1>8. CASE HandleTimedConnect
  <2>1. ASSUME Handle("timedConnect", TRUE), connect PROVE Seen
    <3>1. m_connector \in Connectors /\ "resolve" \in Ops
      BY TypeOKConnector DEF CInv, Ops
    <3>2. m_state' = "CONNECTING" /\ m_connector' = Start(m_connector, "resolve")
      BY <2>1, Zenon DEF connect, Become, onConnect
    <3>3. m_connector'.stopped = m_connector.stopped
      BY <3>1, <3>2, StartEffect, Zenon
    <3>4. QED
      BY <2>1, <3>2, <3>3, SeenHandled, Zenon
  <2>2. ASSUME Handle("timedConnect", FALSE), StopSelf PROVE Seen
    <3>1. m_state \notin {"RUNNING", "CONNECTING"}
      BY <2>2, TimedConnectFinds, CancelledConnect, Zenon
    <3>2. Ignore
      BY <2>2, <3>1, Zenon DEF StopSelf
    <3>3. QED
      BY <2>2, <3>2, SeenHandled, Zenon
  <2>3. QED
    BY <1>8, <2>1, <2>2, Zenon DEF HandleTimedConnect
<1>9. QED
  BY <1>1, <1>2, <1>3, <1>4, <1>5, <1>6, <1>7, <1>8 DEF Handler

\* The connector's other steps do not stop it.
LEMMA SeenUnlocked ==
    ASSUME TypeOK, UNCHANGED <<kind, mainPc, early, m_state>>, clientPc = "run",
           clientPc' \in {"run", "returned", "aborted"},
           m_connector'.stopped = m_connector.stopped
    PROVE  Manager!ManagerNext \/ UNCHANGED Manager!managerVars
<1>1. StateStep
  BY DEF StateStep, SeenState
<1>2. UNCHANGED SeenMain
  BY DEF SeenMain
<1>3. QED
  BY <1>1, <1>2, SeenNetwork

\* Every step of the client is one of the manager, or is not seen.
LEMMA SeenStep ==
    ASSUME CInv, [Next]_vars
    PROVE  Manager!ManagerNext \/ UNCHANGED Manager!managerVars
<1> DEFINE Seen == Manager!ManagerNext \/ UNCHANGED Manager!managerVars
<1>1. TypeOK /\ Control /\ m_connector \in Connectors /\ OpenFit(m_connector)
  BY TypeOKConnector DEF CInv, Fit
<1>2. CASE Run
  <2>1. m_state = "NONE" /\ m_connector = IdleConnector
    BY <1>1, <1>2 DEF Run, Control
  <2>2. IdleConnector \in Connectors /\ ~IdleConnector.stopped /\ "resolve" \in Ops
    BY IdleFit, Zenon DEF Ops
  <2>3. /\ m_state' = "CONNECTING" /\ m_connector' = Start(IdleConnector, "resolve")
        /\ clientPc = "start" /\ clientPc' = "run" /\ UNCHANGED SeenMain
    BY <1>2, <2>1, Zenon DEF Run, connect, Become, onConnect, main, SeenMain
  <2>4. ~m_connector'.stopped
    <3>1. Start(IdleConnector, "resolve").stopped = IdleConnector.stopped
      BY <2>2, StartEffect, Zenon
    <3>2. QED
      BY <2>2, <2>3, <3>1, Zenon
  <2>5. SeenThread = "start" /\ SeenThread' = "run" /\ SeenState' = "CONNECTING"
    BY <2>3, <2>4 DEF SeenThread, SeenState
  <2>6. QED
    BY <2>3, <2>5, SeenRun
<1>3. CASE Dispatch
  <2>1. m_connector'.stopped = m_connector.stopped
    BY <1>1, <1>3, DispatchEffect, Zenon DEF Dispatch
  <2>2. QED
    BY <1>1, <1>3, <2>1, SeenUnlocked DEF Dispatch, main
<1>4. CASE ReturnFromRun
  BY <1>1, <1>4, SeenUnlocked DEF ReturnFromRun, main
<1>5. CASE ResetState
  <2>1. clientPc = "returned" /\ clientPc' = "erase" /\ m_state' = "NONE" /\ UNCHANGED SeenMain
    BY <1>5 DEF ResetState, main, SeenMain
  <2>2. m_connector.stopped /\ m_state \in {"STOPPING", "CONNECTING"}
    BY <1>1, <2>1 DEF Control
  <2>3. SeenState = "STOPPING" /\ SeenState' = "NONE"
    BY <2>1, <2>2 DEF SeenState
  <2>4. QED
    BY <2>1, <2>3, SeenReturn
<1>6. CASE Erase
  <2>1. /\ clientPc = "erase" /\ clientPc' = "done" /\ UNCHANGED SeenMain
        /\ SeenState' = SeenState
    BY <1>6 DEF Erase, main, SeenMain, SeenState
  <2>2. SeenPc # "stop"
    BY <1>1, <1>6 DEF Erase, SeenPc, TypeOK
  <2>3. QED
    BY <2>1, <2>2, SeenErase
<1>7. CASE HandleResolve
  <2>1. m_connector'.stopped = m_connector.stopped
    <3> DEFINE d == [m_connector EXCEPT !.open = TRUE]
    <3>1. d \in Connectors /\ d.stopped = m_connector.stopped /\ "connect" \in Ops
      BY <1>1, Zenon DEF Connectors, Ops, SocketOps
    <3>2. m_connector' = Start(d, "connect")
      BY <1>7, Zenon DEF HandleResolve, startConnect
    <3> HIDE DEF d
    <3>3. QED
      BY <3>1, <3>2, StartEffect, Zenon
  <2>2. QED
    BY <1>1, <1>7, <2>1, SeenUnlocked DEF HandleResolve, Calling, main
<1>8. CASE SetOption
  BY <1>1, <1>8, SeenUnlocked, Zenon DEF SetOption, Calling, main
<1>9. CASE Handler
  BY <1>9, SeenHandler
<1>10. CASE HandleUnwatch
  BY <1>1, <1>10, SeenUnlocked DEF HandleUnwatch, Calling, main
<1>11. CASE ManagerStop
  <2>1. SeenState' = SeenState
    BY <1>11 DEF ManagerStop, SeenState
  <2>2. QED
    BY <1>11, <2>1, SeenBegin DEF ManagerStop
<1>12. CASE ScheduleStop
  <2>1. /\ mainPc = "scheduleStop" /\ UNCHANGED <<kind, clientPc>>
        /\ ~early /\ early' \in BOOLEAN /\ (early' <=> clientPc = "start")
        /\ mutex = "free"
    BY <1>1, <1>12, Zenon DEF ScheduleStop, Control
  <2>2. m_state \in {"NONE", "CONNECTING", "RUNNING", "STOPPING"}
    BY <1>1 DEF TypeOK, States
  <2>3. CASE kind = "GPS" /\ m_state = "RUNNING"
    <3>1. m_state' = m_state /\ mainPc' = "unwatch"
      BY <1>12, <2>3 DEF ScheduleStop, Become
    <3>2. clientPc = "run"
      BY <2>1, <2>3, NotYetStopped DEF AfterStop
    <3>3. /\ SeenState' = SeenState /\ SeenPc' = SeenPc /\ SeenThread' = SeenThread
          /\ early' = early
      BY <1>1, <2>1, <2>3, <3>1, <3>2 DEF SeenState, SeenPc, SeenThread, TypeOK
    <3>4. QED
      BY <2>1, <3>1, <3>3, Unseen
  <2>4. CASE ~(kind = "GPS" /\ m_state = "RUNNING") /\ m_state \in {"RUNNING", "CONNECTING"}
    <3>1. m_state' = "STOPPING" /\ mainPc' = "stopIo"
      BY <1>12, <2>4, Zenon DEF ScheduleStop, Become
    <3>2. ~m_connector.stopped
      BY <2>1, <2>4, NotYetStopped DEF AfterStop
    <3>3. SeenState = m_state /\ SeenState' = "STOPPING"
      BY <3>1, <3>2 DEF SeenState
    <3>4. QED
      BY <2>1, <2>4, <3>1, <3>3, SeenSchedule
  <2>5. CASE m_state \in {"NONE", "STOPPING"}
    <3>1. mainPc' = "endStop" /\ Ignore
      BY <1>12, <2>5, Zenon DEF ScheduleStop
    <3>2. SeenState = m_state /\ SeenState' = SeenState
      BY <2>5, <3>1 DEF SeenState, Ignore
    <3>3. QED
      BY <2>1, <2>5, <3>1, <3>2, SeenSchedule
  <2>6. QED
    BY <2>2, <2>3, <2>4, <2>5
<1>13. CASE StopUnwatched
  <2>1. /\ mainPc = "unwatch" /\ mainPc' = "stopIo" /\ m_state' = "STOPPING"
        /\ UNCHANGED <<kind, clientPc, early>>
    BY <1>13 DEF StopUnwatched, Become
  <2>2. ~early /\ m_state = "RUNNING"
    BY <1>1, <2>1 DEF Control
  <2>3. clientPc = "run"
    BY <2>1, <2>2, NotYetStopped DEF AfterStop
  <2>4. SeenState = "RUNNING" /\ SeenState' = "STOPPING"
    BY <2>1, <2>2 DEF SeenState
  <2>5. early' \in BOOLEAN /\ (early' <=> clientPc = "start")
    BY <1>1, <2>1, <2>2, <2>3 DEF TypeOK
  <2>6. QED
    BY <2>1, <2>2, <2>4, <2>5, SeenSchedule
<1>14. CASE StopIo
  <2>1. /\ mainPc = "stopIo" /\ mainPc' = "endStop" /\ m_state' = m_state
        /\ UNCHANGED <<kind, clientPc, early>>
    BY <1>14 DEF StopIo
  <2>2. m_state = "STOPPING"
    BY <1>1, <2>1 DEF Control
  <2>3. SeenState' = SeenState /\ SeenPc' = SeenPc /\ SeenThread' = SeenThread
    BY <2>1, <2>2 DEF SeenState, SeenPc, SeenThread
  <2>4. QED
    BY <2>1, <2>3, Unseen
<1>15. CASE UnlockManager
  <2>1. SeenState' = SeenState
    BY <1>15 DEF UnlockManager, SeenState
  <2>2. QED
    BY <1>15, <2>1, SeenEnd DEF UnlockManager
<1>16. CASE Join
  <2>1. SeenState' = SeenState
    BY <1>16 DEF Join, SeenState
  <2>2. QED
    BY <1>16, <2>1, SeenJoin DEF Join
<1>17. ASSUME NEW k \in DOMAIN m_connector.pending, NEW ok \in BOOLEAN, CompleteOp(k, ok)
       PROVE  Seen
  <2>1. m_connector'.stopped = m_connector.stopped
    BY <1>1, <1>17, CompleteEffect, Zenon DEF CompleteOp
  <2>2. QED
    BY <1>1, <1>17, <2>1, SeenUnlocked DEF CompleteOp, main
<1>18. CASE UNCHANGED vars
  <2>1. /\ UNCHANGED <<kind, SeenPc, early, SeenState, SeenThread>>
        /\ clientPc' = clientPc /\ mainPc' = mainPc
    BY <1>18 DEF vars, SeenPc, SeenState, SeenThread
  <2>2. QED
    BY <2>1, Unseen
<1>19. QED
  BY <1>2, <1>3, <1>4, <1>5, <1>6, <1>7, <1>8, <1>9, <1>10, <1>11, <1>12, <1>13,
     <1>14, <1>15, <1>16, <1>17, <1>18, Zenon DEF Next, Handler, Terminated

\* Whatever the network does, and however the two threads interleave, a client
\* with its connector behaves as ClientManager supposes of its clients: each
\* step of the handlers, of the thread and of the stop is one of its steps.
THEOREM ClientImplementsManager == Spec => ImplementsManager
<1>1. CInv /\ [Next]_vars => [Manager!ManagerNext]_(Manager!managerVars)
  BY SeenStep
<1>2. QED
  BY <1>1, CInvInvariant, PTL DEF Spec, ImplementsManager
=============================================================================
