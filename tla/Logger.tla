------------------------------- MODULE Logger -------------------------------
(***************************************************************************)
(* The one Logger, which all threads write to under m_mutex, and the       *)
(* broken-down time: std::gmtime returns a pointer to one std::tm of the   *)
(* process, which Logger::get_time formats under Logger::m_mutex and       *)
(* GpsProcessor::process under GpsData::m_mutex.  A time is its minute and *)
(* its second; the clock is cut to two seconds a minute.                   *)
(***************************************************************************)
EXTENDS Integers, Sequences

CONSTANTS Threads,   \* threads that log
          Gps,       \* the thread that reports the GPS position
          FREE,      \* no thread
          MAX_TIME,  \* bound: the clock
          MAX_LINES  \* bound: lines a thread logs, and reports of the GPS

ASSUME LoggerAssumption ==
    /\ Gps \notin Threads /\ FREE \notin Threads \cup {Gps}
    /\ MAX_TIME \in Nat /\ MAX_LINES \in Nat

VARIABLES now,        \* the clock
          tm,         \* the std::tm of std::gmtime
          tzset_lock, \* held inside std::gmtime
          m_mutex,    \* Logger::m_mutex
          m_logFile,  \* is a log file set?
          m_debugEnabled,
          logPc, level,  \* control of each thread, level of the line it logs
          tt,         \* the time each thread had when it called std::gmtime
          lines,      \* history: the pieces written to each stream
          count,      \* history: lines begun by each thread, reports of the GPS
          seen        \* the time the GPS thread has written in each sentence

logging == <<now, tm, tzset_lock, m_mutex, m_logFile, m_debugEnabled, logPc, level,
          tt, lines, count, seen>>

All == Threads \cup {Gps}
Levels == {"info", "debug", "warn", "error"}
Minute(t) == t \div 2
Second(t) == t % 2
Times == [min : 0 .. Minute(MAX_TIME), sec : 0 .. 1]

\* m_outStream and m_errStream: the log file, or stdout and stderr
Stream(l) == IF m_logFile THEN "file" ELSE IF l = "error" THEN "err" ELSE "out"

LoggerTypeOK ==
    /\ now \in 0 .. MAX_TIME /\ tm \in Times
    /\ tzset_lock \in All \cup {FREE} /\ m_mutex \in Threads \cup {FREE}
    /\ m_logFile \in BOOLEAN /\ m_debugEnabled \in BOOLEAN
    /\ logPc \in [All -> {"idle", "gmtime", "fill", "read", "ggaSecond", "rmcMinute", "rmcSecond", "tail"}]
    /\ \A t \in All : (tzset_lock = t <=> logPc[t] = "fill")
    /\ \A t \in Threads : (m_mutex = t <=> logPc[t] # "idle")
    /\ level \in [Threads -> Levels]
    /\ tt \in [All -> 0 .. MAX_TIME] /\ count \in [All -> 0 .. MAX_LINES]
    /\ seen \in [{"gga", "rmc"} -> Times]

\* The threads run once the start-up has set m_logFile and m_debugEnabled.
LoggerInit ==
    /\ now = 0 /\ tm = [min |-> 0, sec |-> 0] /\ seen = [s \in {"gga", "rmc"} |-> tm]
    /\ tzset_lock = FREE /\ m_mutex = FREE
    /\ m_logFile \in BOOLEAN /\ m_debugEnabled \in BOOLEAN
    /\ logPc = [t \in All |-> "idle"] /\ level = [t \in Threads |-> "info"]
    /\ tt = [t \in All |-> 0] /\ count = [t \in All |-> 0]
    /\ lines = [s \in {"out", "err", "file"} |-> << >>]

Tick ==
    /\ now < MAX_TIME /\ now' = now + 1
    /\ UNCHANGED <<tm, tzset_lock, m_mutex, m_logFile, m_debugEnabled, logPc, level,
                   tt, lines, count, seen>>

-----------------------------------------------------------------------------
\* Mutant: lines of the level error are not locked.
LogUnlocked(t) ==
    /\ logPc[t] = "idle" /\ count[t] < MAX_LINES
    /\ \E l \in Levels :
          /\ l = "debug" => m_debugEnabled
          /\ l # "error" => m_mutex = FREE
          /\ level' = [level EXCEPT ![t] = l]
          /\ m_mutex' = IF l = "error" THEN m_mutex ELSE t
    /\ count' = [count EXCEPT ![t] = @ + 1]
    /\ tt' = [tt EXCEPT ![t] = now] /\ logPc' = [logPc EXCEPT ![t] = "gmtime"]
    /\ UNCHANGED <<now, tm, tzset_lock, m_logFile, m_debugEnabled, lines, seen>>

\* info, debug, warn, error: the lock, and get_time up to system_clock::now.
Log(t) ==
    /\ logPc[t] = "idle" /\ count[t] < MAX_LINES
    /\ m_mutex = FREE /\ m_mutex' = t
    /\ \E l \in Levels :
          /\ l = "debug" => m_debugEnabled
          /\ level' = [level EXCEPT ![t] = l]
    /\ count' = [count EXCEPT ![t] = @ + 1]
    /\ tt' = [tt EXCEPT ![t] = now] /\ logPc' = [logPc EXCEPT ![t] = "gmtime"]
    /\ UNCHANGED <<now, tm, tzset_lock, m_logFile, m_debugEnabled, lines, seen>>

\* std::gmtime fills tm under a lock of its own and returns a pointer to it.
Gmtime(t) ==
    /\ logPc[t] = "gmtime" /\ tzset_lock = FREE /\ tzset_lock' = t
    /\ tm' = [tm EXCEPT !.min = Minute(tt[t])]
    /\ logPc' = [logPc EXCEPT ![t] = "fill"]
    /\ UNCHANGED <<now, m_mutex, m_logFile, m_debugEnabled, level, tt, lines, count, seen>>

Fill(t) ==
    /\ logPc[t] = "fill" /\ tzset_lock' = FREE
    /\ tm' = [tm EXCEPT !.sec = Second(tt[t])]
    /\ logPc' = [logPc EXCEPT ![t] = "read"]
    /\ UNCHANGED <<now, m_mutex, m_logFile, m_debugEnabled, level, tt, lines, count, seen>>

Write(t, part) ==
    lines' = [lines EXCEPT ![Stream(level[t])] = Append(@, [by |-> t, line |-> count[t], part |-> part])]

\* The prefix with the time, and the first argument (log)
WriteHead(t) ==
    /\ logPc[t] = "read" /\ logPc' = [logPc EXCEPT ![t] = "tail"]
    /\ Write(t, "head")
    /\ UNCHANGED <<now, tm, tzset_lock, m_mutex, m_logFile, m_debugEnabled, level, tt, count,
                   seen>>

\* The last argument with std::endl (log); the lock is released.
WriteTail(t) ==
    /\ logPc[t] = "tail" /\ logPc' = [logPc EXCEPT ![t] = "idle"]
    /\ Write(t, "tail")
    /\ m_mutex' = IF m_mutex = t THEN FREE ELSE m_mutex
    /\ UNCHANGED <<now, tm, tzset_lock, m_logFile, m_debugEnabled, level, tt, count, seen>>

-----------------------------------------------------------------------------
\* GpsProcessor::process up to std::time
Process ==
    /\ logPc[Gps] = "idle" /\ count[Gps] < MAX_LINES
    /\ count' = [count EXCEPT ![Gps] = @ + 1]
    /\ tt' = [tt EXCEPT ![Gps] = now] /\ logPc' = [logPc EXCEPT ![Gps] = "gmtime"]
    /\ UNCHANGED <<now, tm, tzset_lock, m_mutex, m_logFile, m_debugEnabled, level, lines,
                   seen>>

\* A field of tm is read through the pointer, for one of the sentences.
Read(from, to, sentence, field) ==
    /\ logPc[Gps] = from /\ logPc' = [logPc EXCEPT ![Gps] = to]
    /\ seen' = [seen EXCEPT ![sentence][field] = tm[field]]
    /\ UNCHANGED <<now, tm, tzset_lock, m_mutex, m_logFile, m_debugEnabled, level, tt, lines, count>>

\* Both sentences are written from the same pointer, one after the other.
appendGPGGA == Read("read", "ggaSecond", "gga", "min") \/ Read("ggaSecond", "rmcMinute", "gga", "sec")
appendGPRMC == Read("rmcMinute", "rmcSecond", "rmc", "min") \/ Read("rmcSecond", "idle", "rmc", "sec")

LoggerNext ==
    \/ Tick \/ Process \/ appendGPGGA \/ appendGPRMC
    \/ \E t \in Threads : Log(t) \/ WriteHead(t) \/ WriteTail(t)
    \/ \E t \in All : Gmtime(t) \/ Fill(t)

LoggerSpec == LoggerInit /\ [][LoggerNext]_logging
-----------------------------------------------------------------------------
\* A log line is written whole, also where the streams of the levels are one
\* file: in every stream the pieces of a line stand side by side, and only the
\* line whose thread holds m_mutex lacks its end.
LinesWhole ==
    \A s \in DOMAIN lines : \A k \in DOMAIN lines[s] :
        LET p == lines[s][k] IN
        IF k = Len(lines[s]) /\ p.part = "head" THEN m_mutex = p.by /\ logPc[p.by] = "tail"
        ELSE IF k % 2 = 1
             THEN p.part = "head" /\ lines[s][k + 1] = [p EXCEPT !.part = "tail"]
             ELSE p.part = "tail"

\* appendGPGGA and appendGPRMC write "the current utc time" (GpsProcessor.h): the
\* time in each sentence of a report is one between the call of std::time and
\* the end of the report.
UtcCurrent ==
    logPc[Gps] = "idle" /\ count[Gps] > 0 =>
        \A s \in {"gga", "rmc"} :
            \E t \in tt[Gps] .. now : seen[s] = [min |-> Minute(t), sec |-> Second(t)]
=============================================================================
