------------------------------ MODULE Startup ------------------------------
(***************************************************************************)
(* main: the command line, the log file, the configuration file and the    *)
(* server's socket, up to VFRB::run; and every way the start can fail.     *)
(*                                                                         *)
(* A property of the file is EMPTY (absent or without value), NO_NUMBER    *)
(* (no number at its start) or an integer.  What the sections of the feeds *)
(* hold is the subject of module Feeds.                                    *)
(***************************************************************************)
EXTENDS Integers

CONSTANTS EMPTY, NO_NUMBER, NONE,
          PortTexts, FilterTexts,  \* values of serverPort, maxDist, maxHeight
          INT32_MAX, UINT16_MAX, UINT64_MAX,
          DEFAULT_PORT

FallbackKeys == {"pressure", "latitude", "longitude", "altitude", "geoid"}

Args == [known : BOOLEAN, enough : BOOLEAN, help : BOOLEAN, groundMode : BOOLEAN,
         output : {"absent", "writable", "unwritable"},
         config : {"absent", "readable", "unreadable"}]

\* broken: the fallback value that checkNumber throws at, if any.
File == [ini : BOOLEAN, broken : FallbackKeys \cup {NONE},
         maxDist : FilterTexts, maxHeight : FilterTexts, serverPort : PortTexts,
         gndMode : BOOLEAN]

Configurations == [m_maxDistance : 0 .. INT32_MAX, m_maxHeight : 0 .. INT32_MAX,
                   m_serverPort : 0 .. UINT16_MAX, m_groundMode : BOOLEAN]

ASSUME StartupAssumption ==
    /\ PortTexts \cup FilterTexts \subseteq Int \cup {EMPTY, NO_NUMBER}
    /\ INT32_MAX \in Nat /\ UINT16_MAX \in Nat /\ UINT64_MAX \in Nat
    /\ UINT16_MAX < INT32_MAX /\ INT32_MAX < UINT64_MAX
    /\ DEFAULT_PORT \in 0 .. UINT16_MAX
    /\ EMPTY \notin Int /\ NO_NUMBER \notin Int \cup {EMPTY} /\ NONE \notin Int
    /\ NONE \notin File \cup Configurations \cup FallbackKeys

VARIABLES args,       \* the command line
          configFile,       \* the configuration file, once it is read
          portFree,   \* the server can bind its port
          conf,       \* the Configuration
          m_errStream, logFileOpen,  \* the logger: "console" or "file"; is it open?
          reported,   \* history: the fatal error was written to an open stream
          startPc,         \* the next step of main
          exit        \* what main returned, -1 before it does

startup == <<args, configFile, portFree, conf, m_errStream, logFileOpen, reported, startPc, exit>>

\* Properties::get_property: the alternative for an empty value.
get_property(text, alternative) == IF text = EMPTY THEN alternative ELSE text

\* stringToNumber<std::int32_t>: extraction fails outside the type's range.
ToInt32(text) ==
    IF text = NO_NUMBER THEN NONE
    ELSE IF text \in -INT32_MAX - 1 .. INT32_MAX THEN text ELSE NONE

\* stringToNumber<std::uint64_t>: extraction wraps a negative number.
ToUInt64(text) ==
    IF text = NO_NUMBER THEN NONE
    ELSE IF text \notin -UINT64_MAX .. UINT64_MAX THEN NONE
    ELSE IF text < 0 THEN text + UINT64_MAX + 1 ELSE text

\* Mutant: -1 is kept as the limit.
resolveFilterAsGiven(text) ==
    LET filter == ToInt32(get_property(text, -1))
    IN  IF filter = NONE THEN INT32_MAX ELSE filter

\* Configuration::resolveFilter.
resolveFilter(text) ==
    LET filter == ToInt32(get_property(text, -1))
    IN  IF filter = NONE THEN INT32_MAX
        ELSE IF filter < 0 THEN INT32_MAX ELSE filter

\* Mutant: the port is cut to 16 bits without looking at the rest.
resolveServerPortCut(text) ==
    LET port == ToUInt64(get_property(text, DEFAULT_PORT))
    IN  IF port = NONE THEN DEFAULT_PORT ELSE port % (UINT16_MAX + 1)

\* Configuration::resolveServerPort.
resolveServerPort(text) ==
    LET port == ToUInt64(get_property(text, DEFAULT_PORT))
    IN  IF port = NONE THEN DEFAULT_PORT
        ELSE IF port > UINT16_MAX THEN DEFAULT_PORT ELSE port

StartupTypeOK ==
    /\ args \in Args
    /\ configFile \in File \cup {NONE}
    /\ portFree \in BOOLEAN
    /\ conf \in Configurations \cup {NONE}
    /\ m_errStream \in {"console", "file"} /\ logFileOpen \in BOOLEAN
    /\ reported \in BOOLEAN
    /\ startPc \in {"evalArgs", "logFile", "config", "read", "fallback", "resolve",
                    "construct", "run", "exit"}
    /\ exit \in {-1, 0, 1}

StartupInit ==
    /\ args \in Args /\ configFile = NONE
    /\ portFree \in BOOLEAN
    /\ conf = NONE
    /\ m_errStream = "console" /\ logFileOpen = FALSE
    /\ reported = FALSE
    /\ startPc = "evalArgs" /\ exit = -1

input == <<args, configFile, portFree>>
log == <<m_errStream, logFileOpen>>

\* The catch clause of main for a std::exception.
Fatal ==
    /\ startPc' = "exit" /\ exit' = 1
    /\ reported' = (m_errStream' = "console" \/ logFileOpen')

Continue(next) == startPc' = next /\ UNCHANGED <<reported, exit>>

\* evalArgs: an unknown option is a program_options::error; too few arguments
\* or --help print the usage and throw an int, which is caught silently.
EvalArgs ==
    /\ startPc = "evalArgs"
    /\ UNCHANGED <<input, conf, log>>
    /\ IF ~args.known THEN Fatal
       ELSE IF ~args.enough \/ args.help
            THEN startPc' = "exit" /\ exit' = 1 /\ UNCHANGED reported
            ELSE Continue("logFile")

\* The first half of get_config: Logger::set_logFile.
SetLogFile ==
    /\ startPc = "logFile"
    /\ logFileOpen' = (args.output = "writable")
    /\ m_errStream' = IF args.output = "writable" THEN "file" ELSE "console"
    /\ IF args.output = "unwritable" THEN Fatal ELSE Continue("config")
    /\ UNCHANGED <<input, conf>>

\* get_config opens the file.
OpenConfig ==
    /\ startPc = "config"
    /\ UNCHANGED <<input, conf, log>>
    /\ IF args.config = "readable" THEN Continue("read") ELSE Fatal

\* ConfigReader::read throws at what is no INI file.
ReadConfig ==
    /\ startPc = "read"
    /\ configFile' \in File
    /\ UNCHANGED <<args, portFree, conf, log>>
    /\ IF configFile'.ini THEN Continue("fallback") ELSE Fatal

\* Configuration's constructor up to the position: checkNumber of the pressure
\* and in resolvePosition.
ResolveFallback ==
    /\ startPc = "fallback"
    /\ UNCHANGED <<input, conf, log>>
    /\ IF configFile.broken = NONE THEN Continue("resolve") ELSE Fatal

\* The ground mode of the file, or get_config's override.
GroundMode == configFile.gndMode \/ args.groundMode

\* Mutant: a port that is no number is an error like any other.
ResolveConfigStrict ==
    /\ startPc = "resolve"
    /\ UNCHANGED <<input, log>>
    /\ IF ToUInt64(get_property(configFile.serverPort, DEFAULT_PORT)) = NONE
       THEN Fatal /\ UNCHANGED conf
       ELSE /\ conf' = [m_maxDistance |-> resolveFilter(configFile.maxDist),
                        m_maxHeight |-> resolveFilter(configFile.maxHeight),
                        m_serverPort |-> resolveServerPort(configFile.serverPort),
                        m_groundMode |-> GroundMode]
            /\ Continue("construct")

\* The rest of the constructor.
ResolveConfig ==
    /\ startPc = "resolve"
    /\ conf' = [m_maxDistance |-> resolveFilter(configFile.maxDist),
                m_maxHeight |-> resolveFilter(configFile.maxHeight),
                m_serverPort |-> resolveServerPort(configFile.serverPort),
                m_groundMode |-> GroundMode]
    /\ Continue("construct")
    /\ UNCHANGED <<input, log>>

\* VFRB's constructor: the acceptor of m_server binds the port, or throws.
Construct ==
    /\ startPc = "construct"
    /\ UNCHANGED <<input, conf, log>>
    /\ IF portFree THEN Continue("run") ELSE Fatal

\* VFRB::run is noexcept and returns after a signal.
Run ==
    /\ startPc = "run"
    /\ startPc' = "exit" /\ exit' = 0
    /\ UNCHANGED <<input, conf, log, reported>>

StartupNext == \/ EvalArgs \/ SetLogFile \/ OpenConfig \/ ReadConfig \/ ResolveFallback
        \/ ResolveConfig \/ Construct \/ Run

StartupSpec == StartupInit /\ [][StartupNext]_startup

-----------------------------------------------------------------------------
\* main ends with an error only for a bad command line, a log or configuration
\* file that does not open, a broken fallback value or a busy port; a bad
\* server port or filter never keeps the program from running.  Every failure
\* but the usage message reaches an open stream: set_logFile must not switch to
\* a file that it could not open.
FailsForGoodReason ==
    startPc = "exit" =>
        /\ exit = 0 <=> /\ args.known /\ args.enough /\ ~args.help
                        /\ args.output # "unwritable" /\ args.config = "readable"
                        /\ configFile # NONE /\ configFile.ini /\ configFile.broken = NONE
                        /\ portFree
        /\ exit # 0 /\ ~reported => args.known /\ (args.help \/ ~args.enough)

\* The ports a text stands for: the number itself, or the one that a negative
\* number is 64 bits away from, which the extraction takes for it.
PortsOf(text) ==
    {n \in 0 .. UINT16_MAX : text = n \/ (n # 0 /\ text = n - UINT64_MAX - 1)}

\* The configuration that runs: -1, an empty or an unreadable value disables a
\* filter; a port that is no number of 16 bits is replaced and not used in part,
\* unless it is negative and wraps to such a number (PortsOf); --ground-mode only
\* ever enables what the file cannot switch off again.
EffectiveConfiguration ==
    conf # NONE =>
        /\ \A f \in {<<configFile.maxDist, conf.m_maxDistance>>,
                     <<configFile.maxHeight, conf.m_maxHeight>>} :
               f[2] = IF f[1] \in 0 .. INT32_MAX THEN f[1] ELSE INT32_MAX
        /\ LET ports == PortsOf(configFile.serverPort)
           IN  conf.m_serverPort \in IF ports = {} THEN {DEFAULT_PORT} ELSE ports
        /\ conf.m_groundMode <=> args.groundMode \/ configFile.gndMode
=============================================================================
