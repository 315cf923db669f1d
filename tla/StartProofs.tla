---------------------------- MODULE StartProofs ----------------------------
(***************************************************************************)
(* Proofs about the start of the program: main (Startup) and the feeds of  *)
(* the configuration (Feeds), each for all values of its constants.        *)
(***************************************************************************)
EXTENDS Startup, Feeds, SequenceLemmas

-----------------------------------------------------------------------------
(***************************************************************************)
(* Startup                                                                 *)
(***************************************************************************)
\* What main has established when it gets to its next step.
Passed ==
    /\ startPc \notin {"evalArgs", "exit"} => args.known /\ args.enough /\ ~args.help
    /\ startPc \notin {"evalArgs", "logFile", "exit"} => args.output # "unwritable"
    /\ startPc \in {"read", "fallback", "resolve", "construct", "run"} => args.config = "readable"
    /\ startPc \in {"fallback", "resolve", "construct", "run"} =>
          configFile \in File /\ configFile.ini
    /\ startPc \in {"resolve", "construct", "run"} => configFile.broken = NONE
    /\ startPc = "run" => portFree
    /\ startPc \in {"evalArgs", "logFile", "config", "read"} => configFile = NONE
    /\ startPc \in {"evalArgs", "logFile", "config", "read", "fallback", "resolve"} => conf = NONE
    /\ startPc # "exit" => ~reported
    /\ m_errStream = "console" \/ logFileOpen

\* The inductive invariant of main.
MainInv == StartupTypeOK /\ Passed /\ FailsForGoodReason /\ EffectiveConfiguration

\* A filter is the number given, or none.
LEMMA FilterResolved ==
    ASSUME NEW text \in FilterTexts
    PROVE  /\ resolveFilter(text) = IF text \in 0 .. INT32_MAX THEN text ELSE INT32_MAX
           /\ resolveFilter(text) \in 0 .. INT32_MAX
<1>1. text \in Int \/ text = EMPTY \/ text = NO_NUMBER
  BY StartupAssumption
<1>2. CASE text = EMPTY
  <2>1. get_property(text, -1) = -1 /\ -1 # NO_NUMBER
    BY <1>2, StartupAssumption DEF get_property
  <2>2. ToInt32(-1) = -1 /\ -1 # NONE
    BY <2>1, StartupAssumption DEF ToInt32
  <2>3. resolveFilter(text) = INT32_MAX
    BY <2>1, <2>2 DEF resolveFilter
  <2>4. QED
    BY <1>2, <2>3, StartupAssumption
<1>3. CASE text = NO_NUMBER
  <2>1. get_property(text, -1) = NO_NUMBER
    BY <1>3, StartupAssumption DEF get_property
  <2>2. resolveFilter(text) = INT32_MAX
    BY <2>1 DEF resolveFilter, ToInt32
  <2>3. QED
    BY <1>3, <2>2, StartupAssumption
<1>4. CASE text \in Int
  <2>1. get_property(text, -1) = text /\ text # NO_NUMBER /\ text # NONE
    BY <1>4, StartupAssumption DEF get_property
  <2>2. CASE text \in -INT32_MAX - 1 .. INT32_MAX
    <3>1. ToInt32(text) = text
      BY <2>1, <2>2 DEF ToInt32
    <3>2. resolveFilter(text) = IF text < 0 THEN INT32_MAX ELSE text
      BY <2>1, <3>1 DEF resolveFilter
    <3>3. QED
      BY <1>4, <2>2, <3>2, StartupAssumption
  <2>3. CASE text \notin -INT32_MAX - 1 .. INT32_MAX
    <3>1. ToInt32(text) = NONE
      BY <2>1, <2>3 DEF ToInt32
    <3>2. resolveFilter(text) = INT32_MAX
      BY <2>1, <3>1 DEF resolveFilter
    <3>3. QED
      BY <1>4, <2>3, <3>2, StartupAssumption
  <2>4. QED
    BY <2>2, <2>3
<1>5. QED
  BY <1>1, <1>2, <1>3, <1>4

\* A port is one the text stands for, or the default.
LEMMA PortResolved ==
    ASSUME NEW text \in PortTexts
    PROVE  /\ resolveServerPort(text) \in
                 IF PortsOf(text) = {} THEN {DEFAULT_PORT} ELSE PortsOf(text)
           /\ resolveServerPort(text) \in 0 .. UINT16_MAX
<1> DEFINE Good(port) ==
        /\ port \in IF PortsOf(text) = {} THEN {DEFAULT_PORT} ELSE PortsOf(text)
        /\ port \in 0 .. UINT16_MAX
<1>1. text \in Int \/ text = EMPTY \/ text = NO_NUMBER
  BY StartupAssumption
<1>2. DEFAULT_PORT \in Int /\ DEFAULT_PORT # NO_NUMBER /\ DEFAULT_PORT # NONE
      /\ DEFAULT_PORT \in 0 .. UINT16_MAX /\ DEFAULT_PORT \in -UINT64_MAX .. UINT64_MAX
      /\ DEFAULT_PORT >= 0 /\ ~(DEFAULT_PORT > UINT16_MAX) /\ ~(DEFAULT_PORT < 0)
  BY StartupAssumption
<1>3. PortsOf(text) = {} => Good(DEFAULT_PORT)
  BY <1>2
<1>4. ASSUME text \notin Int PROVE PortsOf(text) = {}
  <2>1. \A n \in 0 .. UINT16_MAX : n \in Int /\ n - UINT64_MAX - 1 \in Int
    BY StartupAssumption
  <2>2. QED
    BY <1>4, <2>1 DEF PortsOf
<1>5. CASE text = EMPTY
  <2>1. get_property(text, DEFAULT_PORT) = DEFAULT_PORT
    BY <1>5 DEF get_property
  <2>2. ToUInt64(DEFAULT_PORT) = DEFAULT_PORT
    BY <1>2 DEF ToUInt64
  <2>3. resolveServerPort(text) = DEFAULT_PORT
    BY <1>2, <2>1, <2>2 DEF resolveServerPort
  <2>4. QED
    BY <1>3, <1>4, <1>5, <2>3, StartupAssumption
<1>6. CASE text = NO_NUMBER
  <2>1. get_property(text, DEFAULT_PORT) = NO_NUMBER
    BY <1>6, StartupAssumption DEF get_property
  <2>2. resolveServerPort(text) = DEFAULT_PORT
    BY <2>1 DEF resolveServerPort, ToUInt64
  <2>3. QED
    BY <1>3, <1>4, <1>6, <2>2, StartupAssumption
<1>7. CASE text \in Int
  <2>1. get_property(text, DEFAULT_PORT) = text /\ text # NO_NUMBER
    BY <1>7, StartupAssumption DEF get_property
  <2>2. CASE text \notin -UINT64_MAX .. UINT64_MAX
    <3>1. ToUInt64(text) = NONE
      BY <2>1, <2>2 DEF ToUInt64
    <3>2. resolveServerPort(text) = DEFAULT_PORT
      BY <2>1, <3>1 DEF resolveServerPort
    <3>3. PortsOf(text) = {}
      BY <1>7, <2>2, StartupAssumption DEF PortsOf
    <3>4. QED
      BY <1>3, <3>2, <3>3
  <2>3. CASE text \in -UINT64_MAX .. UINT64_MAX
    <3> DEFINE n == IF text < 0 THEN text + UINT64_MAX + 1 ELSE text
    <3>1. n \in 0 .. UINT64_MAX /\ n # NONE
      BY <1>7, <2>3, StartupAssumption
    <3>2. ToUInt64(text) = n
      BY <2>1, <2>3 DEF ToUInt64
    <3>3. resolveServerPort(text) = IF n > UINT16_MAX THEN DEFAULT_PORT ELSE n
      BY <2>1, <3>1, <3>2 DEF resolveServerPort
    <3>4. CASE n > UINT16_MAX
      <4>1. PortsOf(text) = {}
        BY <1>7, <2>3, <3>4, StartupAssumption DEF PortsOf
      <4>2. QED
        BY <1>3, <3>3, <3>4, <4>1
    <3>5. CASE ~(n > UINT16_MAX)
      <4>1. n \in 0 .. UINT16_MAX
        BY <3>1, <3>5, StartupAssumption
      <4>2. text = n \/ (n # 0 /\ text = n - UINT64_MAX - 1)
        BY <1>7, <2>3, StartupAssumption
      <4> HIDE DEF n
      <4>3. n \in PortsOf(text)
        BY <4>1, <4>2 DEF PortsOf
      <4>4. QED
        BY <3>3, <3>5, <4>1, <4>3
    <3>6. QED
      BY <3>4, <3>5
  <2>4. QED
    BY <2>2, <2>3
<1>8. QED
  BY <1>1, <1>5, <1>6, <1>7
\* The invariant holds when main is entered.
LEMMA MainInvInit == StartupInit => MainInv
  BY DEF StartupInit, MainInv, StartupTypeOK, Passed, FailsForGoodReason, EffectiveConfiguration

\* A failure in the catch clause of main is reported as long as the logger has
\* not been switched to a file that is not open.
LEMMA FatalReported ==
    ASSUME Fatal, m_errStream' = "console" \/ logFileOpen'
    PROVE  reported' = TRUE /\ startPc' = "exit" /\ exit' = 1
  BY DEF Fatal

\* Every step of main preserves the invariant.
LEMMA MainInvNext == MainInv /\ [StartupNext]_startup => MainInv'
<1> SUFFICES ASSUME MainInv, [StartupNext]_startup PROVE MainInv'
  OBVIOUS
<1> USE DEF MainInv
<1>1. CASE EvalArgs
  <2>1. /\ startPc = "evalArgs" /\ UNCHANGED <<args, configFile, portFree, conf, m_errStream, logFileOpen>>
        /\ conf = NONE /\ configFile = NONE
    BY <1>1 DEF EvalArgs, input, log, Passed
  <2>2. CASE ~args.known
    <3>1. reported' = TRUE /\ startPc' = "exit" /\ exit' = 1
      BY <1>1, <2>1, <2>2, FatalReported DEF EvalArgs, Passed
    <3>2. QED
      BY <2>1, <2>2, <3>1 DEF StartupTypeOK, Passed, FailsForGoodReason, EffectiveConfiguration
  <2>3. CASE args.known /\ (~args.enough \/ args.help)
    <3>1. startPc' = "exit" /\ exit' = 1 /\ UNCHANGED reported
      BY <1>1, <2>3 DEF EvalArgs
    <3>2. QED
      BY <2>1, <2>3, <3>1 DEF StartupTypeOK, Passed, FailsForGoodReason, EffectiveConfiguration
  <2>4. CASE args.known /\ ~(~args.enough \/ args.help)
    <3>1. startPc' = "logFile" /\ UNCHANGED <<exit, reported>>
      BY <1>1, <2>4 DEF EvalArgs, Continue
    <3>2. QED
      BY <2>1, <2>4, <3>1 DEF StartupTypeOK, Passed, FailsForGoodReason, EffectiveConfiguration
  <2>5. QED
    BY <2>2, <2>3, <2>4
<1>2. CASE SetLogFile
  <2>1. /\ startPc = "logFile" /\ UNCHANGED <<args, configFile, portFree, conf>>
        /\ conf = NONE /\ configFile = NONE
        /\ logFileOpen' = (args.output = "writable")
        /\ m_errStream' = IF args.output = "writable" THEN "file" ELSE "console"
    BY <1>2 DEF SetLogFile, input, Passed
  <2>2. CASE args.output = "unwritable"
    <3>1. reported' = TRUE /\ startPc' = "exit" /\ exit' = 1
      BY <1>2, <2>1, <2>2, FatalReported DEF SetLogFile
    <3>2. QED
      BY <2>1, <2>2, <3>1 DEF StartupTypeOK, Passed, FailsForGoodReason, EffectiveConfiguration
  <2>3. CASE args.output # "unwritable"
    <3>1. startPc' = "config" /\ UNCHANGED <<exit, reported>>
      BY <1>2, <2>3 DEF SetLogFile, Continue
    <3>2. QED
      BY <2>1, <2>3, <3>1 DEF StartupTypeOK, Passed, FailsForGoodReason, EffectiveConfiguration
  <2>4. QED
    BY <2>2, <2>3
<1>3. CASE OpenConfig
  <2>1. /\ startPc = "config" /\ UNCHANGED <<args, configFile, portFree, conf, m_errStream, logFileOpen>>
        /\ conf = NONE /\ configFile = NONE
    BY <1>3 DEF OpenConfig, input, log, Passed
  <2>2. CASE args.config # "readable"
    <3>1. reported' = TRUE /\ startPc' = "exit" /\ exit' = 1
      BY <1>3, <2>1, <2>2, FatalReported DEF OpenConfig, Passed
    <3>2. QED
      BY <2>1, <2>2, <3>1 DEF StartupTypeOK, Passed, FailsForGoodReason, EffectiveConfiguration
  <2>3. CASE args.config = "readable"
    <3>1. startPc' = "read" /\ UNCHANGED <<exit, reported>>
      BY <1>3, <2>3 DEF OpenConfig, Continue
    <3>2. QED
      BY <2>1, <2>3, <3>1 DEF StartupTypeOK, Passed, FailsForGoodReason, EffectiveConfiguration
  <2>4. QED
    BY <2>2, <2>3
<1>4. CASE ReadConfig
  <2>1. /\ startPc = "read" /\ UNCHANGED <<args, portFree, conf, m_errStream, logFileOpen>>
        /\ conf = NONE /\ configFile' \in File
    BY <1>4 DEF ReadConfig, log, Passed
  <2>2. CASE ~configFile'.ini
    <3>1. reported' = TRUE /\ startPc' = "exit" /\ exit' = 1
      BY <1>4, <2>1, <2>2, FatalReported DEF ReadConfig, Passed
    <3>2. QED
      BY <2>1, <2>2, <3>1 DEF StartupTypeOK, Passed, FailsForGoodReason, EffectiveConfiguration
  <2>3. CASE configFile'.ini
    <3>1. startPc' = "fallback" /\ UNCHANGED <<exit, reported>>
      BY <1>4, <2>3 DEF ReadConfig, Continue
    <3>2. QED
      BY <2>1, <2>3, <3>1 DEF StartupTypeOK, Passed, FailsForGoodReason, EffectiveConfiguration
  <2>4. QED
    BY <2>2, <2>3
<1>5. CASE ResolveFallback
  <2>1. /\ startPc = "fallback" /\ UNCHANGED <<args, configFile, portFree, conf, m_errStream, logFileOpen>>
        /\ conf = NONE /\ configFile \in File
    BY <1>5 DEF ResolveFallback, input, log, Passed
  <2>2. CASE configFile.broken # NONE
    <3>1. reported' = TRUE /\ startPc' = "exit" /\ exit' = 1
      BY <1>5, <2>1, <2>2, FatalReported DEF ResolveFallback, Passed
    <3>2. QED
      BY <2>1, <2>2, <3>1 DEF StartupTypeOK, Passed, FailsForGoodReason, EffectiveConfiguration
  <2>3. CASE configFile.broken = NONE
    <3>1. startPc' = "resolve" /\ UNCHANGED <<exit, reported>>
      BY <1>5, <2>3 DEF ResolveFallback, Continue
    <3>2. QED
      BY <2>1, <2>3, <3>1 DEF StartupTypeOK, Passed, FailsForGoodReason, EffectiveConfiguration
  <2>4. QED
    BY <2>2, <2>3
<1>6. CASE ResolveConfig
  <2> DEFINE d == resolveFilter(configFile.maxDist)
             h == resolveFilter(configFile.maxHeight)
             p == resolveServerPort(configFile.serverPort)
             g == configFile.gndMode \/ args.groundMode
  <2>1. /\ startPc = "resolve" /\ startPc' = "construct"
        /\ UNCHANGED <<args, configFile, portFree, m_errStream, logFileOpen, exit, reported>>
        /\ configFile \in File /\ args \in Args
        /\ conf' = [m_maxDistance |-> d, m_maxHeight |-> h, m_serverPort |-> p,
                    m_groundMode |-> g]
    BY <1>6 DEF ResolveConfig, Continue, input, log, Passed, GroundMode, StartupTypeOK
  <2>2. /\ configFile.maxDist \in FilterTexts /\ configFile.maxHeight \in FilterTexts
        /\ configFile.serverPort \in PortTexts
        /\ configFile.gndMode \in BOOLEAN /\ args.groundMode \in BOOLEAN
    BY <2>1 DEF File, Args
  <2>3. /\ d = IF configFile.maxDist \in 0 .. INT32_MAX THEN configFile.maxDist ELSE INT32_MAX
        /\ h = IF configFile.maxHeight \in 0 .. INT32_MAX THEN configFile.maxHeight ELSE INT32_MAX
        /\ d \in 0 .. INT32_MAX /\ h \in 0 .. INT32_MAX
    BY <2>2, FilterResolved
  <2>4. /\ p \in IF PortsOf(configFile.serverPort) = {} THEN {DEFAULT_PORT}
                 ELSE PortsOf(configFile.serverPort)
        /\ p \in 0 .. UINT16_MAX
    BY <2>2, PortResolved
  <2>5. g \in BOOLEAN /\ (g <=> args.groundMode \/ configFile.gndMode)
    BY <2>2
  <2> HIDE DEF d, h, p, g
  <2>6. /\ conf' \in Configurations /\ conf'.m_maxDistance = d /\ conf'.m_maxHeight = h
        /\ conf'.m_serverPort = p /\ conf'.m_groundMode = g
    BY <2>1, <2>3, <2>4, <2>5 DEF Configurations
  <2>7. EffectiveConfiguration'
    BY <2>1, <2>3, <2>4, <2>5, <2>6 DEF EffectiveConfiguration
  <2>8. StartupTypeOK' /\ Passed' /\ FailsForGoodReason'
    BY <2>1, <2>6 DEF StartupTypeOK, Passed, FailsForGoodReason
  <2>9. QED
    BY <2>7, <2>8
<1>7. CASE Construct
  <2>1. /\ startPc = "construct" /\ UNCHANGED <<args, configFile, portFree, conf, m_errStream, logFileOpen>>
        /\ configFile \in File
    BY <1>7 DEF Construct, input, log, Passed
  <2>2. EffectiveConfiguration'
    BY <2>1 DEF EffectiveConfiguration
  <2>3. CASE ~portFree
    <3>1. reported' = TRUE /\ startPc' = "exit" /\ exit' = 1
      BY <1>7, <2>1, <2>3, FatalReported DEF Construct, Passed
    <3>2. StartupTypeOK'
      BY <2>1, <3>1 DEF StartupTypeOK
    <3>3. Passed'
      BY <2>1, <3>1 DEF Passed
    <3>4. FailsForGoodReason'
      BY <2>1, <2>3, <3>1 DEF FailsForGoodReason
    <3>5. QED
      BY <2>2, <3>2, <3>3, <3>4
  <2>4. CASE portFree
    <3>1. startPc' = "run" /\ UNCHANGED <<exit, reported>>
      BY <1>7, <2>4 DEF Construct, Continue
    <3>2. QED
      BY <2>1, <2>2, <2>4, <3>1 DEF StartupTypeOK, Passed, FailsForGoodReason
  <2>5. QED
    BY <2>3, <2>4
<1>8. CASE Run
  <2>1. /\ startPc = "run" /\ startPc' = "exit" /\ exit' = 0
        /\ UNCHANGED <<args, configFile, portFree, conf, m_errStream, logFileOpen, reported>>
        /\ configFile \in File /\ configFile # NONE
    BY <1>8, StartupAssumption DEF Run, input, log, Passed
  <2>2. EffectiveConfiguration'
    BY <2>1 DEF EffectiveConfiguration
  <2>3. QED
    BY <2>1, <2>2 DEF StartupTypeOK, Passed, FailsForGoodReason
<1>9. CASE UNCHANGED startup
  <2>1. StartupTypeOK'
    BY <1>9 DEF startup, StartupTypeOK
  <2>2. Passed'
    BY <1>9 DEF startup, Passed
  <2>3. FailsForGoodReason'
    BY <1>9 DEF startup, FailsForGoodReason
  <2>4. EffectiveConfiguration'
    BY <1>9 DEF startup, EffectiveConfiguration
  <2>5. QED
    BY <2>1, <2>2, <2>3, <2>4
<1>10. QED
  BY <1>1, <1>2, <1>3, <1>4, <1>5, <1>6, <1>7, <1>8, <1>9 DEF StartupNext

\* The invariant of main holds throughout.
LEMMA MainInvariant == StartupSpec => []MainInv
  BY MainInvInit, MainInvNext, PTL DEF StartupSpec

\* main fails for the reasons listed and no other, and never silently but for
\* the usage message: the logger is not switched to a file that is not open.
THEOREM AlwaysFailsForGoodReason == StartupSpec => []FailsForGoodReason
<1>1. MainInv => FailsForGoodReason
  BY DEF MainInv
<1>2. QED
  BY <1>1, MainInvariant, PTL

\* Whatever the file holds, the program runs with filters and a port within
\* their types, the ones given where they are usable and the defaults elsewhere.
THEOREM ConfigurationAlwaysEffective == StartupSpec => [](StartupTypeOK /\ EffectiveConfiguration)
<1>1. MainInv => StartupTypeOK /\ EffectiveConfiguration
  BY DEF MainInv
<1>2. QED
  BY <1>1, MainInvariant, PTL
-----------------------------------------------------------------------------
(***************************************************************************)
(* Feeds                                                                   *)
(***************************************************************************)
\* The first keyword in FeedFactory's order decides; that of APRS is the first.
LEMMA KindFound ==
    ASSUME NEW name \in Names
    PROVE  /\ KindOf(name) = "none" \/ KindOf(name) \in Keywords[name]
           /\ KindOf(name) \in Kinds \cup {"none"}
           /\ KindOf(name) = "none" <=> Keywords[name] = {}
           /\ KindOf(name) = "aprs" <=> "aprs" \in Keywords[name]
<1> DEFINE found == {k \in 1 .. 5 : KeywordOrder[k] \in Keywords[name]}
<1>1. /\ KeywordOrder[1] = "aprs" /\ KeywordOrder[2] = "sbs" /\ KeywordOrder[3] = "gps"
      /\ KeywordOrder[4] = "wind" /\ KeywordOrder[5] = "atm"
  BY DEF KeywordOrder
<1>2. Keywords[name] \subseteq {"aprs", "sbs", "gps", "wind", "atm"}
  BY FeedsAssumption DEF Kinds
<1>3. CASE found = {}
  <2>1. KindOf(name) = "none"
    BY <1>3 DEF KindOf
  <2>2. \A k \in 1 .. 5 : KeywordOrder[k] \notin Keywords[name]
    BY <1>3
  <2>3. Keywords[name] = {}
    BY <1>1, <1>2, <2>2
  <2>4. QED
    BY <2>1, <2>3
<1>4. CASE found # {}
  <2> DEFINE first == CHOOSE k \in found : \A j \in found : k <= j
  <2>1. \E k \in found : \A j \in found : k <= j
    <3>1. found \in SUBSET Nat
      OBVIOUS
    <3> HIDE DEF found
    <3>2. QED
      BY <1>4, <3>1, LeastElement
  <2>2. first \in found /\ \A j \in found : first <= j
    BY <2>1
  <2>3. KindOf(name) = KeywordOrder[first]
    BY <1>4 DEF KindOf
  <2> HIDE DEF first
  <2>4. first \in 1 .. 5 /\ KeywordOrder[first] \in Keywords[name]
    BY <2>2
  <2>5. first \in {1, 2, 3, 4, 5}
    BY <2>4
  <2>6. KindOf(name) \in Keywords[name] /\ KindOf(name) \in Kinds /\ KindOf(name) # "none"
    BY <1>2, <2>3, <2>4 DEF Kinds
  <2>7. ASSUME "aprs" \in Keywords[name] PROVE KindOf(name) = "aprs"
    <3>1. 1 \in found
      BY <1>1, <2>7
    <3>2. first = 1
      BY <2>2, <2>4, <3>1
    <3>3. QED
      BY <1>1, <2>3, <3>2
  <2>8. QED
    BY <2>6, <2>7
<1>5. QED
  BY <1>3, <1>4

\* What a feed's priority may be is within its type, and it grows with the
\* number given.
LEMMA PriorityGrows ==
    /\ \A text \in Int \cup {JUNK} : initPriority(text) \subseteq 0 .. UINT32_MAX
    /\ \A p, q \in 0 .. ULONG - 1 : p < q =>
          \A a \in initPriority(p), b \in initPriority(q) : a <= b
<1>1. ASSUME NEW text \in Int \cup {JUNK} PROVE initPriority(text) \subseteq 0 .. UINT32_MAX
  <2>1. CASE InRange(text)
    <3>1. text \in Int /\ stoul(text) \in Nat
      BY <2>1, FeedsAssumption DEF InRange, stoul
    <3>2. Least(stoul(text), UINT32_MAX) \in 0 .. UINT32_MAX
      BY <3>1, FeedsAssumption DEF Least
    <3>3. QED
      BY <2>1, <3>2 DEF initPriority
  <2>2. CASE ~InRange(text)
    BY <2>2, FeedsAssumption DEF initPriority
  <2>3. QED
    BY <2>1, <2>2
<1>2. ASSUME NEW p \in 0 .. ULONG - 1, NEW q \in 0 .. ULONG - 1, p < q,
             NEW a \in initPriority(p), NEW b \in initPriority(q)
      PROVE  a <= b
  <2>1. InRange(p) /\ InRange(q) /\ stoul(p) = p /\ stoul(q) = q
    BY FeedsAssumption DEF InRange, stoul
  <2>2. a = Least(p, UINT32_MAX) /\ b = Least(q, UINT32_MAX)
    BY <2>1 DEF initPriority
  <2>3. QED
    BY <1>2, <2>2, FeedsAssumption DEF Least
<1>3. QED
  BY <1>1, <1>2
Feed == [name : Names, kind : Kinds, priority : 0 .. UINT32_MAX]
RunnableNames == {n \in Names : Runnable(n)}
NamesOf(list) == [k \in 1 .. Len(list) |-> list[k].name]

\* The names of the feeds, when one more is created.
LEMMA NamesAppend ==
    ASSUME NEW list \in Seq(Feed), NEW f \in Feed
    PROVE  NamesOf(Append(list, f)) = NamesOf(list) \o <<f.name>>
<1> DEFINE longer == Append(list, f)
           n == Len(list)
           p == NamesOf(longer)
           q == NamesOf(list) \o <<f.name>>
<1>1. /\ n \in Nat /\ longer \in Seq(Feed) /\ Len(longer) = n + 1
      /\ longer[n + 1] = f /\ \A k \in 1 .. n : longer[k] = list[k]
      /\ \A k \in 1 .. n : list[k] \in Feed
  BY LenProperties, AppendProperties, ElementOfSeq
<1>2. f.name \in Names /\ \A k \in 1 .. n : list[k].name \in Names
  BY <1>1 DEF Feed
<1> HIDE DEF longer, n
<1>3. /\ NamesOf(list) \in Seq(Names) /\ Len(NamesOf(list)) = n
      /\ \A k \in 1 .. n : NamesOf(list)[k] = list[k].name
  <2>1. NamesOf(list) = [k \in 1 .. n |-> list[k].name]
    BY DEF NamesOf, n
  <2>2. [k \in 1 .. n |-> list[k].name] \in Seq(Names)
    BY <1>1, <1>2, IsASeq
  <2>3. Len([k \in 1 .. n |-> list[k].name]) = n
    BY <1>1
  <2>4. QED
    BY <2>1, <2>2, <2>3
<1>4. /\ q \in Seq(Names) /\ Len(q) = n + 1
      /\ \A k \in 1 .. n : q[k] = list[k].name
      /\ q[n + 1] = f.name
  <2> DEFINE o == <<f.name>>
             s == NamesOf(list)
  <2>1. o \in Seq(Names) /\ Len(o) = 1 /\ o[1] = f.name
    BY <1>2
  <2> HIDE DEF o, s
  <2>2. /\ s \o o \in Seq(Names) /\ Len(s \o o) = n + 1
        /\ \A k \in 1 .. n + 1 : (s \o o)[k] = IF k <= n THEN s[k] ELSE o[k - n]
    <3>1. s \in Seq(Names) /\ Len(s) = n
      BY <1>3 DEF s
    <3>2. /\ s \o o \in Seq(Names) /\ Len(s \o o) = Len(s) + Len(o)
          /\ \A k \in 1 .. Len(s) + Len(o) :
                (s \o o)[k] = IF k <= Len(s) THEN s[k] ELSE o[k - Len(s)]
      BY <2>1, <3>1, ConcatProperties
    <3>3. QED
      BY <2>1, <3>1, <3>2
  <2>3. (n + 1) - n = 1 /\ ~(n + 1 <= n) /\ n + 1 \in 1 .. n + 1
    BY <1>1
  <2>4. (s \o o)[n + 1] = f.name
    BY <2>1, <2>2, <2>3
  <2>5. \A k \in 1 .. n : (s \o o)[k] = list[k].name
    BY <1>1, <1>3, <2>2 DEF s
  <2>6. QED
    BY <2>2, <2>4, <2>5 DEF s, o
<1>5. /\ p \in Seq(Names) /\ Len(p) = n + 1
      /\ \A k \in 1 .. n + 1 : p[k] = longer[k].name
  <2> DEFINE m == n + 1
  <2>1. m \in Nat /\ p = [k \in 1 .. m |-> longer[k].name]
    BY <1>1 DEF NamesOf
  <2>2. \A k \in 1 .. m : longer[k].name \in Names
    <3>1. \A k \in 1 .. m : k = m \/ k \in 1 .. n
      BY <1>1
    <3>2. QED
      BY <1>1, <1>2, <3>1
  <2> HIDE DEF m, p
  <2>3. [k \in 1 .. m |-> longer[k].name] \in Seq(Names)
    BY <2>1, <2>2, IsASeq
  <2>4. Len([k \in 1 .. m |-> longer[k].name]) = m
    BY <2>1
  <2>5. QED
    BY <2>1, <2>3, <2>4 DEF m
<1> HIDE DEF p, q
<1>6. \A k \in 1 .. n + 1 : p[k] = q[k]
  <2>1. \A k \in 1 .. n + 1 : k = n + 1 \/ k \in 1 .. n
    BY <1>1
  <2>2. QED
    BY <1>1, <1>4, <1>5, <2>1
<1>7. p = q
  BY <1>4, <1>5, <1>6, SeqEqual
<1>8. QED
  BY <1>7 DEF p, q, longer

\* The lists of at most MAX_LIST names.
LEMMA ListsAreSequences ==
    \A l : l \in Lists <=> l \in Seq(Names) /\ Len(l) <= MAX_LIST
<1>1. ASSUME NEW l \in Lists PROVE l \in Seq(Names) /\ Len(l) <= MAX_LIST
  <2>1. PICK n \in 0 .. MAX_LIST : l \in [1 .. n -> Names]
    BY DEF Lists
  <2>2. QED
    BY <2>1, FeedsAssumption
<1>2. ASSUME NEW l \in Seq(Names), Len(l) <= MAX_LIST PROVE l \in Lists
  <2>1. l \in [1 .. Len(l) -> Names] /\ Len(l) \in Nat
    BY LenProperties
  <2>2. Len(l) \in 0 .. MAX_LIST
    BY <1>2, <2>1, FeedsAssumption
  <2>3. QED
    BY <2>1, <2>2 DEF Lists
<1>3. QED
  BY <1>1, <1>2

\* The constructors accept the sections that docs/configuration.md asks for.
LEMMA ConstructsRunnable ==
    ASSUME NEW name \in Names, sections \in [Names -> Sections \cup {MISSING}],
           sections[name] # MISSING
    PROVE  /\ KindOf(name) # "none" /\ Constructs(KindOf(name), sections[name]) <=> Runnable(name)
           /\ Constructs(KindOf(name), sections[name]) /\ KindOf(name) \in {"aprs", "sbs"}
                 => SetsFilter(KindOf(name), sections[name])
  BY KindFound DEF Constructs, HasEndpoint, Runnable, SetsFilter

\* The inductive invariant of the two loops: what has been gone through so far
\* agrees with the filtered list.
FeedInv ==
    /\ FeedsTypeOK
    /\ m_feeds \in Seq(Feed)
    /\ feedsPc = "resolve" =>
          /\ i <= Len(feeds) + 1 /\ Len(m_feedNames) < i /\ m_feeds = << >>
          /\ Filtered(m_feedNames, RunnableNames)
                = Filtered(SubSeq(feeds, 1, i - 1), RunnableNames)
    /\ feedsPc # "resolve" =>
          Filtered(m_feedNames, RunnableNames) = Filtered(feeds, RunnableNames)
    /\ feedsPc = "create" =>
          /\ i <= Len(m_feedNames) + 1
          /\ NamesOf(m_feeds) = Filtered(SubSeq(m_feedNames, 1, i - 1), RunnableNames)
    /\ feedsPc = "run" => NamesOf(m_feeds) = Filtered(feeds, RunnableNames)
    /\ \A k \in 1 .. Len(m_feedNames) :
          /\ sections[m_feedNames[k]] # MISSING
          /\ m_feedProperties[m_feedNames[k]] = sections[m_feedNames[k]]
    /\ \A k \in 1 .. Len(m_feeds) :
          /\ m_feeds[k].kind \in {"aprs", "sbs"} => s_maxHeight[m_feeds[k].kind] = MAX_HEIGHT
          /\ m_feeds[k].priority \in initPriority(m_feedProperties[m_feeds[k].name].priority)
          /\ m_feedProperties[m_feeds[k].name] # MISSING

\* What the steps of the proof need of the types.
LEMMA FeedInvTypes ==
    ASSUME FeedInv
    PROVE  /\ feeds \in Seq(Names) /\ Len(feeds) \in Nat /\ Len(feeds) <= MAX_LIST
           /\ m_feedNames \in Seq(Names) /\ Len(m_feedNames) \in Nat /\ Len(m_feedNames) <= MAX_LIST
           /\ m_feeds \in Seq(Feed) /\ Len(m_feeds) \in Nat
           /\ sections \in [Names -> Sections \cup {MISSING}]
           /\ m_feedProperties \in [Names -> Sections \cup {MISSING}]
           /\ s_maxHeight \in [{"aprs", "sbs"} -> {MAX_HEIGHT, NO_FILTER}]
           /\ i \in Nat /\ i >= 1
<1>1. feeds \in Lists /\ m_feedNames \in Lists /\ m_feeds \in Seq(Feed)
  BY DEF FeedInv, FeedsTypeOK
<1>2. /\ feeds \in Seq(Names) /\ Len(feeds) <= MAX_LIST
      /\ m_feedNames \in Seq(Names) /\ Len(m_feedNames) <= MAX_LIST
  BY <1>1, ListsAreSequences
<1>3. Len(feeds) \in Nat /\ Len(m_feedNames) \in Nat /\ Len(m_feeds) \in Nat
  BY <1>1, <1>2, LenProperties
<1>4. /\ sections \in [Names -> Sections \cup {MISSING}]
      /\ m_feedProperties \in [Names -> Sections \cup {MISSING}]
      /\ s_maxHeight \in [{"aprs", "sbs"} -> {MAX_HEIGHT, NO_FILTER}]
  BY DEF FeedInv, FeedsTypeOK
<1>5. i \in Nat /\ i >= 1
  <2>1. i \in 1 .. MAX_LIST + 1
    BY DEF FeedInv, FeedsTypeOK
  <2>2. QED
    BY <2>1, FeedsAssumption
<1>6. QED
  BY <1>1, <1>2, <1>3, <1>4, <1>5

\* It gives the property.
LEMMA FeedInvSound == FeedInv => FeedsAsConfigured
<1> SUFFICES ASSUME FeedInv, feedsPc = "run" PROVE FeedsAsConfigured
  BY DEF FeedsAsConfigured
<1>1. NamesOf(m_feeds) = Filtered(feeds, {n \in Names : Runnable(n)})
  BY DEF FeedInv, RunnableNames
<1>2. \A k \in 1 .. Len(m_feeds) :
          m_feeds[k].kind \in DOMAIN s_maxHeight => s_maxHeight[m_feeds[k].kind] = MAX_HEIGHT
  BY DEF FeedInv, FeedsTypeOK
<1>3. ASSUME NEW k \in 1 .. Len(m_feeds), NEW l \in 1 .. Len(m_feeds),
             m_feedProperties[m_feeds[k].name].priority \in 0 .. ULONG - 1,
             m_feedProperties[m_feeds[l].name].priority \in 0 .. ULONG - 1,
             m_feedProperties[m_feeds[k].name].priority < m_feedProperties[m_feeds[l].name].priority
      PROVE  m_feeds[k].priority <= m_feeds[l].priority
  BY <1>3, PriorityGrows DEF FeedInv
<1>4. QED
  BY <1>1, <1>2, <1>3 DEF FeedsAsConfigured, NamesOf
\* It holds before the first name is looked up.
LEMMA FeedInvInit == FeedsInit => FeedInv
<1> SUFFICES ASSUME FeedsInit PROVE FeedInv
  OBVIOUS
<1>1. /\ feeds \in Lists /\ sections \in [Names -> Sections \cup {MISSING}]
      /\ m_feedNames = << >> /\ m_feedProperties = [n \in Names |-> MISSING]
      /\ m_feeds = << >> /\ s_maxHeight = [p \in {"aprs", "sbs"} |-> NO_FILTER]
      /\ i = 1 /\ feedsPc = "resolve"
  BY DEF FeedsInit
<1>2. << >> \in Seq(Names) /\ << >> \in Seq(Feed) /\ Len(<< >>) = 0 /\ 0 <= MAX_LIST
  BY FeedsAssumption
<1>3. feeds \in Seq(Names) /\ Len(feeds) \in Nat /\ << >> \in Lists
  BY <1>1, <1>2, ListsAreSequences, LenProperties
<1>4. FeedsTypeOK
  BY <1>1, <1>2, <1>3, FeedsAssumption DEF FeedsTypeOK
<1>5. SubSeq(feeds, 1, i - 1) = << >>
  BY <1>1
<1>6. i <= Len(feeds) + 1 /\ Len(m_feedNames) < i
  BY <1>1, <1>2, <1>3
<1>7. Filtered(m_feedNames, RunnableNames) = Filtered(SubSeq(feeds, 1, i - 1), RunnableNames)
  BY <1>1, <1>5
<1>8. m_feeds \in Seq(Feed) /\ 1 .. Len(m_feedNames) = {} /\ 1 .. Len(m_feeds) = {}
  BY <1>1, <1>2
<1>9. QED
  BY <1>1, <1>4, <1>6, <1>7, <1>8 DEF FeedInv

\* One name of the list: it is found and both lists grow by the same piece, or
\* it is not, and adds nothing to the filtered list either.
LEMMA ResolveFeedInv == ASSUME FeedInv, ResolveFeed PROVE FeedInv'
<1> DEFINE name == feeds[i]
           front == SubSeq(feeds, 1, i - 1)
<1>1. /\ feedsPc = "resolve" /\ i <= Len(feeds) /\ i' = i + 1
      /\ UNCHANGED <<sections, feeds, m_feeds, s_maxHeight, feedsPc>>
  BY DEF ResolveFeed
<1>2. /\ feeds \in Seq(Names) /\ Len(feeds) \in Nat /\ Len(feeds) <= MAX_LIST
      /\ m_feedNames \in Seq(Names) /\ Len(m_feedNames) \in Nat /\ Len(m_feedNames) < i
      /\ i \in 1 .. Len(feeds) /\ m_feeds = << >>
      /\ sections \in [Names -> Sections \cup {MISSING}]
      /\ m_feedProperties \in [Names -> Sections \cup {MISSING}]
      /\ Filtered(m_feedNames, RunnableNames) = Filtered(front, RunnableNames)
  <2>1. /\ Len(m_feedNames) < i /\ m_feeds = << >>
        /\ Filtered(m_feedNames, RunnableNames) = Filtered(front, RunnableNames)
    BY <1>1 DEF FeedInv
  <2>2. i \in 1 .. Len(feeds)
    BY <1>1, FeedInvTypes
  <2>3. QED
    BY <2>1, <2>2, FeedInvTypes
<1>3. /\ name \in Names /\ front \in Seq(Names)
      /\ SubSeq(feeds, 1, i' - 1) = Append(front, name)
  <2>1. i' - 1 = i
    BY <1>1, <1>2
  <2>2. QED
    BY <1>2, <2>1, ElementOfSeq, FrontAppend, Zenon
<1>4. UNCHANGED RunnableNames
  BY <1>1 DEF RunnableNames, Runnable
<1> HIDE DEF name, front
<1>5. Filtered(Append(front, name), RunnableNames)
        = Filtered(front, RunnableNames) \o Piece(name, RunnableNames)
  BY <1>3, FilteredAppend
<1>6. Len(m_feeds) = 0
  BY <1>2
<1>7. CASE HasSection(name)
  <2>1. /\ m_feedProperties' = [m_feedProperties EXCEPT ![name] = sections[name]]
        /\ m_feedNames' = Append(m_feedNames, name)
    BY <1>7 DEF ResolveFeed, name
  <2>2. /\ m_feedNames' \in Seq(Names) /\ Len(m_feedNames') = Len(m_feedNames) + 1
        /\ m_feedNames'[Len(m_feedNames) + 1] = name
        /\ \A k \in 1 .. Len(m_feedNames) : m_feedNames'[k] = m_feedNames[k]
    <3>1. /\ m_feedNames \in Seq(Names) /\ name \in Names
          /\ m_feedNames' = Append(m_feedNames, name)
      BY <1>2, <1>3, <2>1
    <3> DEFINE longer == Append(m_feedNames, name)
    <3>2. /\ longer \in Seq(Names) /\ Len(longer) = Len(m_feedNames) + 1
          /\ longer[Len(m_feedNames) + 1] = name
          /\ \A k \in 1 .. Len(m_feedNames) : longer[k] = m_feedNames[k]
      BY <3>1
    <3>3. QED
      BY <3>1, <3>2, Zenon
  <2>3. Filtered(m_feedNames', RunnableNames)
          = Filtered(m_feedNames, RunnableNames) \o Piece(name, RunnableNames)
    BY <1>2, <1>3, <2>1, FilteredAppend
  <2>4. Filtered(m_feedNames', RunnableNames') = Filtered(SubSeq(feeds', 1, i' - 1), RunnableNames')
    BY <1>1, <1>2, <1>3, <1>4, <1>5, <2>3
  <2>5. \A k \in 1 .. Len(m_feedNames') :
            /\ sections'[m_feedNames'[k]] # MISSING
            /\ m_feedProperties'[m_feedNames'[k]] = sections'[m_feedNames'[k]]
    <3> SUFFICES ASSUME NEW k \in 1 .. Len(m_feedNames) + 1
                 PROVE  /\ sections[m_feedNames'[k]] # MISSING
                        /\ m_feedProperties'[m_feedNames'[k]] = sections[m_feedNames'[k]]
      BY <1>1, <2>2
    <3>1. CASE k = Len(m_feedNames) + 1
      BY <1>2, <1>3, <1>7, <2>1, <2>2, <3>1 DEF HasSection
    <3>2. CASE k \in 1 .. Len(m_feedNames)
      <4>1. m_feedNames[k] \in Names
        BY <1>2, <3>2, ElementOfSeq
      <4>2. /\ sections[m_feedNames[k]] # MISSING
            /\ m_feedProperties[m_feedNames[k]] = sections[m_feedNames[k]]
        BY <3>2 DEF FeedInv
      <4>3. m_feedProperties'[m_feedNames[k]] = sections[m_feedNames[k]]
        BY <1>2, <2>1, <4>1, <4>2
      <4>4. QED
        BY <2>2, <3>2, <4>2, <4>3
    <3>3. QED
      BY <1>2, <3>1, <3>2
  <2>6. FeedsTypeOK'
    <3>1. m_feedNames' \in Lists
      <4>1. Len(m_feedNames') <= MAX_LIST
        BY <1>2, <2>2, FeedsAssumption
      <4>2. QED
        BY <2>2, <4>1, ListsAreSequences
    <3>2. m_feedProperties' \in [Names -> Sections \cup {MISSING}]
      BY <1>2, <1>3, <2>1
    <3>3. i' \in 1 .. MAX_LIST + 1
      BY <1>1, <1>2, FeedsAssumption
    <3>4. QED
      BY <1>1, <3>1, <3>2, <3>3 DEF FeedInv, FeedsTypeOK
  <2>7. i' <= Len(feeds') + 1 /\ Len(m_feedNames') < i' /\ m_feeds' = << >>
    BY <1>1, <1>2, <2>2
  <2>8. m_feeds' \in Seq(Feed) /\ \A k \in 1 .. Len(m_feeds') : FALSE
    <3>1. << >> \in Seq(Feed) /\ Len(<< >>) = 0 /\ 1 .. 0 = {}
      OBVIOUS
    <3>2. QED
      BY <2>7, <3>1
  <2>9. QED
    BY <1>1, <2>4, <2>5, <2>6, <2>7, <2>8 DEF FeedInv
<1>8. CASE ~HasSection(name)
  <2>1. UNCHANGED <<m_feedProperties, m_feedNames>>
    BY <1>8 DEF ResolveFeed, name
  <2>2. Piece(name, RunnableNames) = << >>
    BY <1>8 DEF Piece, RunnableNames, Runnable, HasSection
  <2>3. Filtered(front, RunnableNames) \o << >> = Filtered(front, RunnableNames)
    <3>1. Filtered(front, RunnableNames) \in Seq(Names)
      BY <1>3, FilteredType
    <3>2. QED
      BY <3>1, ConcatEmptySeq
  <2>4. Filtered(m_feedNames', RunnableNames') = Filtered(SubSeq(feeds', 1, i' - 1), RunnableNames')
    BY <1>1, <1>2, <1>3, <1>4, <1>5, <2>1, <2>2, <2>3
  <2>5. FeedsTypeOK'
    <3>1. i' \in 1 .. MAX_LIST + 1
      BY <1>1, <1>2, FeedsAssumption
    <3>2. QED
      BY <1>1, <2>1, <3>1 DEF FeedInv, FeedsTypeOK
  <2>6. i' <= Len(feeds') + 1 /\ Len(m_feedNames') < i' /\ m_feeds' = << >>
    BY <1>1, <1>2, <2>1
  <2>7. QED
    BY <1>1, <2>1, <2>4, <2>5, <2>6 DEF FeedInv
<1>9. QED
  BY <1>7, <1>8
\* All names have been looked up.
LEMMA ResolvedInv == ASSUME FeedInv, Resolved PROVE FeedInv'
<1>1. /\ feedsPc = "resolve" /\ i > Len(feeds) /\ i' = 1 /\ feedsPc' = "create"
      /\ UNCHANGED <<sections, feeds, m_feedNames, m_feedProperties, m_feeds, s_maxHeight>>
  BY DEF Resolved
<1>2. /\ feeds \in Seq(Names) /\ Len(feeds) \in Nat /\ m_feedNames \in Seq(Names)
      /\ Len(m_feedNames) \in Nat /\ i - 1 = Len(feeds) /\ m_feeds = << >>
  <2>1. i <= Len(feeds) + 1 /\ m_feeds = << >>
    BY <1>1 DEF FeedInv
  <2>2. i - 1 = Len(feeds)
    BY <1>1, <2>1, FeedInvTypes
  <2>3. QED
    BY <2>1, <2>2, FeedInvTypes
<1>3. SubSeq(feeds, 1, i - 1) = feeds
  BY <1>2, SubSeqFull
<1>4. UNCHANGED RunnableNames
  BY <1>1 DEF RunnableNames, Runnable
<1>5. Filtered(m_feedNames', RunnableNames') = Filtered(feeds', RunnableNames')
  BY <1>1, <1>3, <1>4 DEF FeedInv
<1>6. NamesOf(m_feeds') = Filtered(SubSeq(m_feedNames', 1, i' - 1), RunnableNames')
  <2>1. SubSeq(m_feedNames', 1, i' - 1) = << >> /\ m_feeds' = << >>
    BY <1>1, <1>2
  <2>2. NamesOf(<< >>) = << >>
    BY DEF NamesOf
  <2>3. Filtered(<< >>, RunnableNames') = << >>
    <3>1. [k \in DOMAIN << >> |-> IF << >>[k] \in RunnableNames' THEN << <<>>[k] >> ELSE << >>] = << >>
      OBVIOUS
    <3>2. QED
      BY <3>1, FlattenEmpty DEF Filtered
  <2>4. QED
    BY <2>1, <2>2, <2>3
<1>7. FeedsTypeOK' /\ i' <= Len(m_feedNames') + 1
  <2>1. i' \in 1 .. MAX_LIST + 1
    BY <1>1, FeedsAssumption
  <2>2. i' <= Len(m_feedNames') + 1
    BY <1>1, <1>2
  <2>3. FeedsTypeOK
    BY DEF FeedInv
  <2>4. FeedsTypeOK'
    BY <1>1, <2>1, <2>3 DEF FeedsTypeOK
  <2>5. QED
    BY <2>2, <2>4
<1>8. QED
  BY <1>1, <1>5, <1>6, <1>7 DEF FeedInv

\* One name found: its feed is made and runs, or the loop goes on without it.
LEMMA CreateFeedInv == ASSUME FeedInv, CreateFeed PROVE FeedInv'
<1> DEFINE name == m_feedNames[i]
           kind == KindOf(name)
           section == m_feedProperties[name]
           front == SubSeq(m_feedNames, 1, i - 1)
           made == kind # "none" /\ Constructs(kind, section)
<1>1. /\ feedsPc = "create" /\ i <= Len(m_feedNames) /\ i' = i + 1
      /\ UNCHANGED <<sections, feeds, m_feedNames, m_feedProperties, feedsPc>>
      /\ s_maxHeight' = IF SetsFilter(kind, section)
                        THEN [s_maxHeight EXCEPT ![kind] = MAX_HEIGHT] ELSE s_maxHeight
      /\ IF made THEN \E feed \in makeFeed(kind, name) : m_feeds' = Append(m_feeds, feed)
         ELSE UNCHANGED m_feeds
  BY DEF CreateFeed
<1>2. /\ m_feedNames \in Seq(Names) /\ Len(m_feedNames) \in Nat /\ Len(m_feedNames) <= MAX_LIST
      /\ i \in 1 .. Len(m_feedNames) /\ m_feeds \in Seq(Feed) /\ Len(m_feeds) \in Nat
      /\ sections \in [Names -> Sections \cup {MISSING}]
      /\ s_maxHeight \in [{"aprs", "sbs"} -> {MAX_HEIGHT, NO_FILTER}]
      /\ NamesOf(m_feeds) = Filtered(front, RunnableNames)
  <2>1. NamesOf(m_feeds) = Filtered(front, RunnableNames)
    BY <1>1 DEF FeedInv
  <2>2. i \in 1 .. Len(m_feedNames)
    BY <1>1, FeedInvTypes
  <2>3. QED
    BY <2>1, <2>2, FeedInvTypes
<1>3. /\ name \in Names /\ front \in Seq(Names)
      /\ SubSeq(m_feedNames, 1, i' - 1) = Append(front, name)
      /\ section = sections[name] /\ section # MISSING
  <2>1. name \in Names
    BY <1>2, ElementOfSeq
  <2>2. front \in Seq(Names) /\ SubSeq(m_feedNames, 1, i' - 1) = Append(front, name)
    <3>1. i' - 1 = i
      BY <1>1, <1>2
    <3>2. QED
      BY <1>2, <3>1, FrontAppend, Zenon
  <2>3. section = sections[name] /\ section # MISSING
    BY <1>2 DEF FeedInv
  <2>4. QED
    BY <2>1, <2>2, <2>3
<1>4. UNCHANGED RunnableNames
  BY <1>1 DEF RunnableNames, Runnable
<1>5. (made <=> name \in RunnableNames)
      /\ (made /\ kind \in {"aprs", "sbs"} => SetsFilter(kind, section))
  BY <1>2, <1>3, ConstructsRunnable DEF RunnableNames
<1>6. SetsFilter(kind, section) => kind \in {"aprs", "sbs"}
  BY DEF SetsFilter
<1>7. kind \in Kinds \cup {"none"}
  BY <1>3, KindFound
<1> HIDE DEF name, kind, section, front, made
<1>8. Filtered(Append(front, name), RunnableNames)
        = Filtered(front, RunnableNames) \o Piece(name, RunnableNames)
  BY <1>3, FilteredAppend
<1>9. /\ s_maxHeight' \in [{"aprs", "sbs"} -> {MAX_HEIGHT, NO_FILTER}]
      /\ \A a \in {"aprs", "sbs"} : s_maxHeight[a] = MAX_HEIGHT => s_maxHeight'[a] = MAX_HEIGHT
      /\ SetsFilter(kind, section) => s_maxHeight'[kind] = MAX_HEIGHT
  BY <1>1, <1>2, <1>6
<1>10. i' \in 1 .. MAX_LIST + 1 /\ i' <= Len(m_feedNames) + 1
  BY <1>1, <1>2, FeedsAssumption
<1>11. CASE made
  <2>1. PICK feed \in makeFeed(kind, name) : m_feeds' = Append(m_feeds, feed)
    BY <1>1, <1>11
  <2>2. PICK priority \in initPriority(m_feedProperties[name].priority) :
            feed = [name |-> name, kind |-> kind, priority |-> priority]
    BY <2>1 DEF makeFeed
  <2>3. section.priority \in Int \cup {JUNK}
    BY <1>2, <1>3, FeedsAssumption
  <2>4. priority \in 0 .. UINT32_MAX
    BY <2>2, <2>3, PriorityGrows DEF section
  <2>5. kind \in Kinds
    BY <1>7, <1>11 DEF made
  <2>6. /\ feed \in Feed /\ feed.name = name /\ feed.kind = kind /\ feed.priority = priority
    BY <1>3, <2>2, <2>4, <2>5 DEF Feed
  <2>7. /\ m_feeds' \in Seq(Feed) /\ Len(m_feeds') = Len(m_feeds) + 1
        /\ m_feeds'[Len(m_feeds) + 1] = feed
        /\ \A k \in 1 .. Len(m_feeds) : m_feeds'[k] = m_feeds[k]
    <3>1. m_feeds \in Seq(Feed) /\ feed \in Feed
      BY <1>2, <2>6
    <3>2. /\ Append(m_feeds, feed) \in Seq(Feed)
          /\ Len(Append(m_feeds, feed)) = Len(m_feeds) + 1
          /\ Append(m_feeds, feed)[Len(m_feeds) + 1] = feed
          /\ \A k \in 1 .. Len(m_feeds) : Append(m_feeds, feed)[k] = m_feeds[k]
      <4>1. \A s \in Seq(Feed), e \in Feed :
                /\ Append(s, e) \in Seq(Feed)
                /\ Len(Append(s, e)) = Len(s) + 1
                /\ Append(s, e)[Len(s) + 1] = e
                /\ \A k \in 1 .. Len(s) : Append(s, e)[k] = s[k]
        BY AppendProperties
      <4>2. QED
        BY <3>1, <4>1, Zenon
    <3>3. QED
      BY <2>1, <3>2, Zenon
  <2>8. NamesOf(m_feeds') = NamesOf(m_feeds) \o <<name>>
    BY <1>2, <2>1, <2>6, NamesAppend
  <2>9. Piece(name, RunnableNames) = <<name>>
    BY <1>5, <1>11 DEF Piece
  <2>10. NamesOf(m_feeds') = Filtered(SubSeq(m_feedNames', 1, i' - 1), RunnableNames')
    BY <1>1, <1>2, <1>3, <1>4, <1>8, <2>8, <2>9
  <2>11. ASSUME NEW k \in 1 .. Len(m_feeds')
         PROVE  /\ m_feeds'[k].kind \in {"aprs", "sbs"} => s_maxHeight'[m_feeds'[k].kind] = MAX_HEIGHT
                /\ m_feeds'[k].priority \in initPriority(m_feedProperties'[m_feeds'[k].name].priority)
                /\ m_feedProperties'[m_feeds'[k].name] # MISSING
    <3>1. CASE k = Len(m_feeds) + 1
      <4>1. kind \in {"aprs", "sbs"} => s_maxHeight'[kind] = MAX_HEIGHT
        BY <1>5, <1>9, <1>11
      <4>2. m_feedProperties[name] # MISSING
        BY <1>3 DEF section
      <4>3. m_feeds'[k] = feed
        BY <2>7, <3>1
      <4>4. QED
        BY <1>1, <2>2, <2>6, <4>1, <4>2, <4>3
    <3>2. CASE k \in 1 .. Len(m_feeds)
      <4>1. /\ m_feeds[k].kind \in {"aprs", "sbs"} => s_maxHeight[m_feeds[k].kind] = MAX_HEIGHT
            /\ m_feeds[k].priority \in initPriority(m_feedProperties[m_feeds[k].name].priority)
            /\ m_feedProperties[m_feeds[k].name] # MISSING
        BY <3>2 DEF FeedInv
      <4>2. m_feeds'[k] = m_feeds[k]
        BY <2>7, <3>2
      <4>3. QED
        BY <1>1, <1>9, <4>1, <4>2
    <3>3. k = Len(m_feeds) + 1 \/ k \in 1 .. Len(m_feeds)
      <4>1. \A l \in Nat : \A j \in 1 .. l + 1 : j = l + 1 \/ j \in 1 .. l
        OBVIOUS
      <4>2. QED
        BY <1>2, <2>7, <4>1, Zenon
    <3>4. QED
      BY <3>1, <3>2, <3>3
  <2>12. \A k \in 1 .. Len(m_feeds') : /\ m_feeds'[k].name \in Names /\ m_feeds'[k].kind \in Kinds
                                        /\ m_feeds'[k].priority \in 0 .. UINT32_MAX
    <3>1. \A k \in 1 .. Len(m_feeds') : m_feeds'[k] \in Feed
      BY <2>7, ElementOfSeq
    <3>2. QED
      BY <3>1 DEF Feed
  <2>13. FeedsTypeOK'
    BY <1>1, <1>9, <1>10, <2>12 DEF FeedInv, FeedsTypeOK
  <2>14. QED
    BY <1>1, <1>4, <1>10, <2>7, <2>10, <2>11, <2>13 DEF FeedInv
<1>12. CASE ~made
  <2>1. UNCHANGED m_feeds /\ Piece(name, RunnableNames) = << >>
    BY <1>1, <1>5, <1>12 DEF Piece
  <2>2. Filtered(front, RunnableNames) \o << >> = Filtered(front, RunnableNames)
    <3>1. Filtered(front, RunnableNames) \in Seq(Names)
      BY <1>3, FilteredType
    <3>2. QED
      BY <3>1, ConcatEmptySeq
  <2>3. NamesOf(m_feeds') = Filtered(SubSeq(m_feedNames', 1, i' - 1), RunnableNames')
    BY <1>1, <1>2, <1>3, <1>4, <1>8, <2>1, <2>2
  <2>4. \A k \in 1 .. Len(m_feeds') :
            /\ m_feeds'[k].kind \in {"aprs", "sbs"} => s_maxHeight'[m_feeds'[k].kind] = MAX_HEIGHT
            /\ m_feeds'[k].priority \in initPriority(m_feedProperties'[m_feeds'[k].name].priority)
            /\ m_feedProperties'[m_feeds'[k].name] # MISSING
    BY <1>1, <1>9, <2>1 DEF FeedInv
  <2>5. FeedsTypeOK'
    BY <1>1, <1>9, <1>10, <2>1 DEF FeedInv, FeedsTypeOK
  <2>6. QED
    BY <1>1, <1>4, <1>10, <2>1, <2>3, <2>4, <2>5 DEF FeedInv
<1>13. QED
  BY <1>11, <1>12

\* Every step of the two loops preserves the invariant.
LEMMA FeedInvNext == FeedInv /\ [FeedsNext]_feedCreation => FeedInv'
<1> SUFFICES ASSUME FeedInv, [FeedsNext]_feedCreation PROVE FeedInv'
  OBVIOUS
<1>1. CASE ResolveFeed
  BY <1>1, ResolveFeedInv
<1>2. CASE Resolved
  BY <1>2, ResolvedInv
<1>3. CASE CreateFeed
  BY <1>3, CreateFeedInv
<1>4. CASE Created
  <2>1. /\ feedsPc = "create" /\ i > Len(m_feedNames) /\ feedsPc' = "run"
        /\ UNCHANGED <<sections, feeds, m_feedNames, m_feedProperties, m_feeds, s_maxHeight, i>>
    BY <1>4 DEF Created
  <2>2. /\ m_feedNames \in Seq(Names) /\ i - 1 = Len(m_feedNames)
    <3>1. i <= Len(m_feedNames) + 1
      BY <2>1 DEF FeedInv
    <3>2. QED
      BY <2>1, <3>1, FeedInvTypes
  <2>3. SubSeq(m_feedNames, 1, i - 1) = m_feedNames
    BY <2>2, SubSeqFull
  <2>4. UNCHANGED RunnableNames
    BY <2>1 DEF RunnableNames, Runnable
  <2>5. NamesOf(m_feeds') = Filtered(feeds', RunnableNames')
    BY <2>1, <2>3, <2>4 DEF FeedInv
  <2>6. FeedsTypeOK'
    BY <2>1 DEF FeedInv, FeedsTypeOK
  <2>7. QED
    BY <2>1, <2>4, <2>5, <2>6 DEF FeedInv
<1>5. CASE UNCHANGED feedCreation
  <2>1. UNCHANGED RunnableNames
    BY <1>5 DEF feedCreation, RunnableNames, Runnable
  <2>2. QED
    BY <1>5, <2>1 DEF feedCreation, FeedInv, FeedsTypeOK
<1>6. QED
  BY <1>1, <1>2, <1>3, <1>4, <1>5 DEF FeedsNext

\* The feeds that run are exactly the complete ones of the list, in its order,
\* with the configured filter and priorities, for lists of any length.
THEOREM FeedsAlwaysAsConfigured == FeedsSpec => [](FeedsTypeOK /\ FeedsAsConfigured)
<1>1. FeedInv => FeedsTypeOK
  BY DEF FeedInv
<1>2. QED
  BY <1>1, FeedInvInit, FeedInvNext, FeedInvSound, PTL DEF FeedsSpec
=============================================================================
