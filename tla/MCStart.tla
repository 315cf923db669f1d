------------------------------ MODULE MCStart ------------------------------
(***************************************************************************)
(* The start of the program for TLC: main (Startup) reads the              *)
(* configuration and sets up the logger (Logger), the list of feeds is     *)
(* split (FeedNames) and the feeds are created (Feeds).  The modules share *)
(* no variable, so a behaviour follows one of them, the subject, and       *)
(* leaves the others in one of their initial states: the states add up and *)
(* do not multiply.                                                        *)
(*                                                                         *)
(* The integer types are scaled down: in Startup std::uint16_t,            *)
(* std::int32_t and std::uint64_t are 0 .. 9, -20 .. 19 and 0 .. 99, in    *)
(* Feeds std::uint32_t and unsigned long are 0 .. 7 and 0 .. 63.           *)
(***************************************************************************)
EXTENDS Startup, FeedNames, Feeds, Logger, TLC

CONSTANTS aprs1, sbs1, windgps, other

VARIABLE subject

MCPortTexts == {EMPTY, NO_NUMBER, -100, -99, -90, -1, 0, 9, 10, 100}
MCFilterTexts == {EMPTY, NO_NUMBER, -20, -1, 0, 5, 20}

\* A feed of each aircraft protocol, one name with two keywords and one without.
MCKeywords == (aprs1 :> {"aprs"}) @@ (sbs1 :> {"sbs"}) @@ (windgps :> {"wind", "gps"})
              @@ (other :> {})

\* Complete sections and one for each thing that can be wrong with one.
MCSections ==
    {[host |-> TRUE,  port |-> TRUE,  login |-> TRUE,  priority |-> 2],
     [host |-> TRUE,  port |-> TRUE,  login |-> TRUE,  priority |-> -1],
     [host |-> TRUE,  port |-> TRUE,  login |-> TRUE,  priority |-> 64],
     [host |-> FALSE, port |-> TRUE,  login |-> TRUE,  priority |-> 1],
     [host |-> TRUE,  port |-> FALSE, login |-> TRUE,  priority |-> 1],
     [host |-> TRUE,  port |-> TRUE,  login |-> FALSE, priority |-> 9],
     [host |-> TRUE,  port |-> TRUE,  login |-> TRUE,  priority |-> JUNK]}
MCUninitialized == {0, 7}

Symmetry == Permutations(Threads)

Init ==
    /\ subject \in {"main", "names", "feeds", "log"}
    /\ subject = "main" \/ (args = (CHOOSE a \in Args : TRUE) /\ portFree = TRUE)
    /\ subject = "names" \/ str = << >>
    /\ subject = "feeds" \/ (feeds = << >> /\ sections = [n \in Names |-> MISSING])
    /\ subject = "log" \/ (m_logFile = FALSE /\ m_debugEnabled = FALSE)
    /\ StartupInit /\ FeedNamesInit /\ FeedsInit /\ LoggerInit

Next ==
    /\ UNCHANGED subject
    /\ \/ subject = "main" /\ StartupNext /\ UNCHANGED <<splitting, feedCreation, logging>>
       \/ subject = "names" /\ FeedNamesNext /\ UNCHANGED <<startup, feedCreation, logging>>
       \/ subject = "feeds" /\ FeedsNext /\ UNCHANGED <<startup, splitting, logging>>
       \/ subject = "log" /\ LoggerNext /\ UNCHANGED <<startup, splitting, feedCreation>>

Spec == Init /\ [][Next]_<<startup, splitting, feedCreation, logging, subject>>

\* The variables of all modules have their types: in particular what runs with
\* the values of the configuration gets them within the integers' widths.
TypeOK == StartupTypeOK /\ FeedNamesTypeOK /\ FeedsTypeOK /\ LoggerTypeOK
=============================================================================
