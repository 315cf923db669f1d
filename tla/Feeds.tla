------------------------------- MODULE Feeds -------------------------------
(***************************************************************************)
(* From the feeds of the configuration file to the feeds that run:         *)
(* Configuration::resolveFeeds looks up the section of every listed name,  *)
(* VFRB::createFeeds asks the FeedFactory for a feed of every name that    *)
(* was found, and the feeds' constructors reject incomplete sections.      *)
(*                                                                         *)
(* A section records which of host, port and login have a value, and its   *)
(* priority: an integer, or JUNK when the text is missing or no number.    *)
(* Host, port and login are only ever tested for emptiness here.           *)
(***************************************************************************)
EXTENDS ListOps

CONSTANTS Names,          \* names the list may hold
          Keywords,       \* the keywords that each name contains
          Sections,       \* sections the file may hold
          MISSING, JUNK,
          MAX_LIST,       \* bound: names in the list
          MAX_HEIGHT,     \* the configured height filter
          NO_FILTER,      \* s_maxHeight as the parsers define it
          UINT32_MAX,     \* std::numeric_limits<std::uint32_t>::max()
          ULONG,          \* std::stoul returns numbers below this
          Uninitialized   \* what an unset m_priority may hold

Kinds == {"aprs", "sbs", "gps", "wind", "atm"}

ASSUME FeedsAssumption ==
    /\ Keywords \in [Names -> SUBSET Kinds]
    /\ Sections \subseteq [host : BOOLEAN, port : BOOLEAN, login : BOOLEAN,
                           priority : Int \cup {JUNK}]
    /\ MISSING \notin Sections /\ JUNK \notin Int
    /\ MAX_LIST \in Nat /\ MAX_HEIGHT # NO_FILTER
    /\ UINT32_MAX \in Nat /\ ULONG \in Nat /\ UINT32_MAX < ULONG
    /\ Uninitialized \subseteq 0 .. UINT32_MAX

VARIABLES sections,          \* the section of each name
          feeds,             \* the names listed in the file
          m_feedNames,       \* the names found by resolveFeeds
          m_feedProperties,  \* their sections
          m_feeds,           \* the feeds created
          s_maxHeight,       \* the filter of each aircraft parser
          i,                 \* the loop's index
          feedsPc            \* the loop: resolve, create or run

feedCreation == <<sections, feeds, m_feedNames, m_feedProperties, m_feeds, s_maxHeight, i, feedsPc>>

Lists == UNION {[1 .. n -> Names] : n \in 0 .. MAX_LIST}

\* The order in which FeedFactory::createFeed looks for keywords.
KeywordOrder == <<"aprs", "sbs", "gps", "wind", "atm">>

KindOf(name) ==
    LET found == {k \in 1 .. 5 : KeywordOrder[k] \in Keywords[name]}
    IN  IF found = {} THEN "none"
        ELSE KeywordOrder[CHOOSE k \in found : \A j \in found : k <= j]

\* std::stoul wraps a negative number, and throws at one of more bits.
stoul(number) == IF number < 0 THEN number + ULONG ELSE number
InRange(number) == number \in 1 - ULONG .. ULONG - 1

Least(m, n) == IF m < n THEN m ELSE n

\* Feed::initPriority: what m_priority may be afterwards.
initPriority(text) ==
    IF InRange(text) THEN {Least(stoul(text), UINT32_MAX)} ELSE Uninitialized

\* Feed's constructor accepts the section.
HasEndpoint(section) == section.host /\ section.port

\* So does the constructor of the given kind of feed.
Constructs(kind, section) == HasEndpoint(section) /\ (kind = "aprs" => section.login)

\* SbsFeed and AprscFeed set their parser's filter after Feed's constructor,
\* AprscFeed before it looks for the login.
SetsFilter(kind, section) == kind \in {"aprs", "sbs"} /\ HasEndpoint(section)

\* Properties::get_propertySection returns, and does not throw.
HasSection(name) == sections[name] # MISSING

\* FeedFactory::makeFeed: what the constructors may make of the name's section.
makeFeed(kind, name) ==
    {[name |-> name, kind |-> kind, priority |-> priority] :
         priority \in initPriority(m_feedProperties[name].priority)}

FeedsTypeOK ==
    /\ sections \in [Names -> Sections \cup {MISSING}]
    /\ feeds \in Lists
    /\ m_feedNames \in Lists
    /\ m_feedProperties \in [Names -> Sections \cup {MISSING}]
    /\ \A k \in 1 .. Len(m_feeds) :
           /\ m_feeds[k].name \in Names
           /\ m_feeds[k].kind \in Kinds
           /\ m_feeds[k].priority \in 0 .. UINT32_MAX
    /\ s_maxHeight \in [{"aprs", "sbs"} -> {MAX_HEIGHT, NO_FILTER}]
    /\ i \in 1 .. MAX_LIST + 1
    /\ feedsPc \in {"resolve", "create", "run"}

\* The section of a name that is not listed is never read; it is left out.
FeedsInit ==
    /\ feeds \in Lists
    /\ sections \in {f \in [Names -> Sections \cup {MISSING}] :
                     \A n \in Names : (\A k \in 1 .. Len(feeds) : feeds[k] # n) => f[n] = MISSING}
    /\ m_feedNames = <<>>
    /\ m_feedProperties = [n \in Names |-> MISSING]
    /\ m_feeds = <<>>
    /\ s_maxHeight = [p \in {"aprs", "sbs"} |-> NO_FILTER]
    /\ i = 1
    /\ feedsPc = "resolve"

\* Mutant: the section that is not found ends the loop.
ResolveFeedOrStop ==
    /\ feedsPc = "resolve" /\ i <= Len(feeds)
    /\ IF HasSection(feeds[i])
       THEN /\ m_feedProperties' = [m_feedProperties EXCEPT ![feeds[i]] = sections[feeds[i]]]
            /\ m_feedNames' = Append(m_feedNames, feeds[i])
            /\ i' = i + 1
       ELSE i' = Len(feeds) + 1 /\ UNCHANGED <<m_feedProperties, m_feedNames>>
    /\ UNCHANGED <<sections, feeds, m_feeds, s_maxHeight, feedsPc>>

\* One iteration of Configuration::resolveFeeds.  emplace keeps the entry of
\* a name that is listed twice, which is the same section.
ResolveFeed ==
    /\ feedsPc = "resolve" /\ i <= Len(feeds)
    /\ IF HasSection(feeds[i])
       THEN /\ m_feedProperties' = [m_feedProperties EXCEPT ![feeds[i]] = sections[feeds[i]]]
            /\ m_feedNames' = Append(m_feedNames, feeds[i])
       ELSE UNCHANGED <<m_feedProperties, m_feedNames>>
    /\ i' = i + 1
    /\ UNCHANGED <<sections, feeds, m_feeds, s_maxHeight, feedsPc>>

Resolved ==
    /\ feedsPc = "resolve" /\ i > Len(feeds)
    /\ feedsPc' = "create" /\ i' = 1
    /\ UNCHANGED <<sections, feeds, m_feedNames, m_feedProperties, m_feeds, s_maxHeight>>

\* One iteration of VFRB::createFeeds: no keyword, or an exception from the
\* constructor, and the loop goes on with the next name.
CreateFeed ==
    /\ feedsPc = "create" /\ i <= Len(m_feedNames)
    /\ LET name == m_feedNames[i]
           kind == KindOf(name)
           section == m_feedProperties[name]
       IN  /\ s_maxHeight' = IF SetsFilter(kind, section)
                             THEN [s_maxHeight EXCEPT ![kind] = MAX_HEIGHT]
                             ELSE s_maxHeight
           /\ IF kind # "none" /\ Constructs(kind, section)
              THEN \E feed \in makeFeed(kind, name) : m_feeds' = Append(m_feeds, feed)
              ELSE UNCHANGED m_feeds
    /\ i' = i + 1
    /\ UNCHANGED <<sections, feeds, m_feedNames, m_feedProperties, feedsPc>>

Created ==
    /\ feedsPc = "create" /\ i > Len(m_feedNames)
    /\ feedsPc' = "run"
    /\ UNCHANGED <<sections, feeds, m_feedNames, m_feedProperties, m_feeds, s_maxHeight, i>>

FeedsNext == ResolveFeed \/ Resolved \/ CreateFeed \/ Created

FeedsSpec == FeedsInit /\ [][FeedsNext]_feedCreation

-----------------------------------------------------------------------------
\* docs/configuration.md: a listed name must contain a keyword, and "if a feed
\* has not all required parameters defined, or the section can not be found
\* or evaluated, that feed will not be run".  The priority is left out here: the
\* constructors do without it even where the document requires one.
Runnable(name) ==
    /\ sections[name] # MISSING
    /\ Keywords[name] # {}
    /\ sections[name].host /\ sections[name].port
    /\ "aprs" \in Keywords[name] => sections[name].login

\* The feeds that run are exactly those of the list with a section that has host,
\* port and, for APRS, login, in the list's order: neither resolveFeeds nor
\* createFeeds lets one bad feed take another along, wherever in the list it
\* stands.  Each runs with the configured height filter in its parser, although
\* a constructor that sets it may have thrown since.  Of the priorities that are
\* numbers "a higher value means a higher priority" (docs/configuration.md), also
\* beyond the width of m_priority, where they may become equal; numbers that
\* std::stoul wraps or rejects are left out.
FeedsAsConfigured ==
    feedsPc = "run" =>
        /\ [k \in 1 .. Len(m_feeds) |-> m_feeds[k].name] =
              Filtered(feeds, {n \in Names : Runnable(n)})
        /\ \A k \in 1 .. Len(m_feeds) :
              m_feeds[k].kind \in DOMAIN s_maxHeight => s_maxHeight[m_feeds[k].kind] = MAX_HEIGHT
        /\ \A k, l \in 1 .. Len(m_feeds) :
              LET p == m_feedProperties[m_feeds[k].name].priority
                  q == m_feedProperties[m_feeds[l].name].priority
              IN  {p, q} \subseteq 0 .. ULONG - 1 /\ p < q
                      => m_feeds[k].priority <= m_feeds[l].priority
=============================================================================
