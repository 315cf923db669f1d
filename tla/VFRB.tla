------------------------------- MODULE VFRB -------------------------------
(***************************************************************************)
(* VFRB::run and VFRB::serve with the SignalListener, composed with the    *)
(* data that a message is made of: GpsData, AtmosphereData and WindData,   *)
(* which the feeds update between any two steps of the main thread.  The   *)
(* aircrafts' part of a message is abstracted to the position it was       *)
(* computed from (AircraftData is a module of its own).                    *)
(***************************************************************************)
EXTENDS Sensors, GpsData

CONSTANT Talker   \* a sensor feed that never stops sending

ASSUME TalkerAssumption == Talker \in SensorFeeds

VARIABLES m_running,
          signal,     \* m_sigSet: absent, installed, or a signal is queued
          listener,   \* the thread of the SignalListener
          clients,    \* the clients' threads deliver updates
          pc,         \* control of the main thread
          message     \* the message under construction

control == <<m_running, signal, listener, clients, pc, message>>
vars == <<sensors, gps, control>>

\* The time stamps of the position that processAircrafts gets and of the one
\* that is reported; what else a message holds is no part of its abstraction.
EmptyMessage == [reference |-> 0, ts |-> 0]

TypeOK ==
    /\ SensorsTypeOK
    /\ GpsTypeOK
    /\ m_running \in BOOLEAN
    /\ signal \in {"absent", "installed", "queued"}
    /\ listener \in {"none", "run", "done"}
    /\ clients \in BOOLEAN
    /\ pc \in {"run", "listen", "runSignals", "runClients", "check", "position",
               "pressure", "aircraft", "gps", "atmosphere", "wind", "send",
               "stopClients", "joinClients", "blocked", "stopSignals", "ended", "killed"}
    /\ message \in [reference : TimeStamps, ts : TimeStamps]

Init ==
    /\ SensorsInit
    /\ GpsInit
    /\ m_running = FALSE
    /\ signal = "absent" /\ listener = "none" /\ clients = FALSE
    /\ pc = "run" /\ message = EmptyMessage

Goto(from, to) == pc = from /\ pc' = to

-----------------------------------------------------------------------------
\* VFRB::run: m_running is set first.
Run ==
    /\ Goto("run", "listen")
    /\ m_running' = TRUE
    /\ UNCHANGED <<sensors, gps, signal, listener, clients, message>>

\* SignalListener's constructor installs the signals; addHandler; subscribe.
Listen ==
    /\ Goto("listen", "runSignals")
    /\ signal' = "installed"
    /\ UNCHANGED <<sensors, gps, m_running, listener, clients, message>>

\* SignalListener::run starts the thread; m_server.run starts the server's.
RunSignals ==
    /\ Goto("runSignals", "runClients")
    /\ listener' = "run"
    /\ UNCHANGED <<sensors, gps, m_running, signal, clients, message>>

\* Mutant: clientManager.run joins the threads it has started, and blocks.
RunClientsAndJoin ==
    /\ pc = "runClients" /\ ~clients /\ clients' = TRUE
    /\ UNCHANGED <<sensors, gps, m_running, signal, listener, pc, message>>

\* clientManager.run starts the clients' threads; serve is entered and sleeps.
RunClients ==
    /\ Goto("runClients", "check")
    /\ clients' = TRUE
    /\ UNCHANGED <<sensors, gps, m_running, signal, listener, message>>

\* The loop's condition, and message.clear.
Check ==
    /\ pc = "check"
    /\ pc' = IF m_running THEN "position" ELSE "stopClients"
    /\ message' = EmptyMessage
    /\ UNCHANGED <<sensors, gps, m_running, signal, listener, clients>>

Build(from, to) ==
    /\ Goto(from, to)
    /\ UNCHANGED <<m_running, signal, listener, clients>>

\* GpsData::get_position
ReadPosition ==
    /\ Build("position", "pressure")
    /\ message' = [message EXCEPT !.reference = m_position.ts]
    /\ UNCHANGED <<sensors, gps>>

\* AtmosphereData::get_atmPressure
ReadPressure ==
    /\ Build("pressure", "aircraft")
    /\ UNCHANGED <<sensors, gps, message>>

\* processAircrafts and AircraftData::get_serialized
AppendAircrafts ==
    /\ Build("aircraft", "gps")
    /\ UNCHANGED <<sensors, gps, message>>

AppendGps ==
    /\ Build("gps", "atmosphere")
    /\ message' = [message EXCEPT !.ts = m_position.ts]
    /\ get_serialized
    /\ UNCHANGED sensors

AppendAtmosphere ==
    /\ Build("atmosphere", "wind")
    /\ get_serialized_atmosphere
    /\ UNCHANGED <<gps, message>>

AppendWind ==
    /\ Build("wind", "send")
    /\ get_serialized_wind
    /\ UNCHANGED <<gps, message>>

\* m_server.send and the sleep.
Send ==
    /\ Goto("send", "check")
    /\ UNCHANGED <<sensors, gps, m_running, signal, listener, clients, message>>

\* clientManager.stop calls scheduleStop of every client, which waits 100 ms
\* for a client that is not in Client::run yet.  A client that runs later is not
\* stopped: its thread does not end, and join_all blocks.  Whether there is one
\* is open here; the module ClientManager has the clients' threads.
StopClients ==
    /\ pc = "stopClients"
    /\ pc' \in {"joinClients", "blocked"}
    /\ UNCHANGED <<sensors, gps, m_running, signal, listener, clients, message>>

\* join_all returns, and m_server.stop does (module Server).
JoinClients ==
    /\ Goto("joinClients", "stopSignals")
    /\ clients' = FALSE
    /\ UNCHANGED <<sensors, gps, m_running, signal, listener, message>>

\* SignalListener::stop: the io_service stops and the thread is joined; the
\* destructor's second stop finds nothing to do.
StopSignals ==
    /\ Goto("stopSignals", "ended")
    /\ listener' = "done"
    /\ UNCHANGED <<sensors, gps, m_running, signal, clients, message>>

-----------------------------------------------------------------------------
\* A std::exception in the loop's body ends serve.
Throw ==
    /\ pc \in {"position", "pressure", "aircraft", "gps", "atmosphere", "wind", "send"}
    /\ pc' = "check" /\ m_running' = FALSE
    /\ UNCHANGED <<sensors, gps, signal, listener, clients, message>>

\* SIGINT or SIGTERM: m_sigSet queues it, even before the thread runs; before
\* the signals are installed it ends the process.
Signal ==
    /\ pc \notin {"ended", "killed"} /\ signal # "queued"
    /\ IF signal = "absent" THEN pc' = "killed" /\ UNCHANGED signal
       ELSE signal' = "queued" /\ UNCHANGED pc
    /\ UNCHANGED <<sensors, gps, m_running, listener, clients, message>>

\* The handler given to addHandler.  No further async_wait is started: the
\* io_service runs out of work, and later signals are not looked at.
HandleSignal ==
    /\ listener = "run" /\ signal = "queued"
    /\ m_running' = FALSE /\ listener' = "done"
    /\ UNCHANGED <<sensors, gps, signal, clients, pc, message>>

\* The feeds' updates, by the clients' threads.
Feed ==
    /\ clients
    /\ \/ \E feed \in SensorFeeds : SensorUpdate(feed) /\ UNCHANGED gps
       \/ /\ \E feed \in GpsFeeds, ts \in 1 .. MAX_TS, good \in BOOLEAN :
                 Update(feed, ts, good)
          /\ UNCHANGED sensors
    /\ UNCHANGED control

Main == \/ Run \/ Listen \/ RunSignals \/ RunClients
        \/ Check \/ ReadPosition \/ ReadPressure \/ AppendAircrafts \/ AppendGps
        \/ AppendAtmosphere \/ AppendWind \/ Send
        \/ StopClients \/ JoinClients \/ StopSignals

Next == Main \/ Throw \/ Signal \/ HandleSignal \/ Feed

\* Talker's update of the wind, while the clients run.
Talk == clients /\ UpdateWind(Talker) /\ UNCHANGED <<gps, control>>

\* The main thread and the listener's thread are scheduled, and Talker keeps
\* sending; signals, other updates and exceptions may come or not.
Spec == /\ Init /\ [][Next]_vars
        /\ WF_vars(Main) /\ WF_vars(HandleSignal) /\ WF_vars(Talk)

-----------------------------------------------------------------------------
\* The loop that ends, ends the program: a signal that arrives once the
\* SignalListener is set up is not lost, however early, as m_running is set
\* before and not again, and an exception in the loop's body stops all parts.
\* VFRB::run returns, unless a client's run comes too late for its scheduleStop:
\* clientManager.stop waits for that client for ever.
SignalEnds ==
    (signal = "queued" \/ (pc = "check" /\ ~m_running))
        ~> (pc \in {"ended", "blocked"})

\* While the program runs, a feed that keeps sending takes over again and again,
\* however low its priority, unless better feeds keep sending too: operator++ in
\* get_serialized lets the age of the stored object reach OBJ_OUTDATED.
TalkerTakesOver ==
    \/ []<>(m_wind.from = Talker)
    \/ []<>(m_wind.from \notin {Talker, NOBODY} /\ unreported)
    \/ <>(pc \in {"ended", "blocked", "killed"})

\* The aircrafts of a message are not related to a position newer than the one
\* the same message reports, although GpsData is read twice and a feed may
\* update it in between.
ReferenceNotNewer == pc = "send" => message.reference <= message.ts
=============================================================================
