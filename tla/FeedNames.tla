----------------------------- MODULE FeedNames -----------------------------
(***************************************************************************)
(* util::splitCommaSeparated and util::trimString, which make the list of  *)
(* feed names from the property "feeds".  A text is a sequence of blanks,  *)
(* commas and other characters; the latter carry their position in the     *)
(* text, so that it can be told where an item comes from.                  *)
(***************************************************************************)
EXTENDS FiniteSets, ListOps

CONSTANT MAX_TEXT   \* bound: length of the text

ASSUME TextAssumption == MAX_TEXT \in Nat

BLANK == 0
COMMA == -1

VARIABLES str,   \* the text
          ss,    \* what the stringstream has left of it
          list   \* the items so far

splitting == <<str, ss, list>>

Texts == {[k \in DOMAIN s |-> IF s[k] = 1 THEN k ELSE s[k]] :
             s \in UNION {[1 .. n -> {BLANK, COMMA, 1}] : n \in 0 .. MAX_TEXT}}

FeedNamesTypeOK ==
    /\ \A k \in DOMAIN str : str[k] \in {BLANK, COMMA, k}
    /\ \A k \in DOMAIN list : \A j \in DOMAIN list[k] : list[k][j] \in {BLANK} \cup 1 .. MAX_TEXT
    /\ Len(ss) <= Len(str) /\ ss = SubSeq(str, Len(str) - Len(ss) + 1, Len(str))

FeedNamesInit == str \in Texts /\ ss = str /\ list = << >>

\* Mutant: the last character of the trimmed string is lost.
trimStringShort(s) ==
    LET shown == {k \in 1 .. Len(s) : s[k] # BLANK}
    IN  IF shown = {} THEN s ELSE SubSeq(s, FirstOf(shown), LastOf(shown) - 1)

\* trimString leaves a string of blanks as it is.
trimString(s) ==
    LET shown == {k \in 1 .. Len(s) : s[k] # BLANK}
    IN  IF shown = {} THEN s ELSE SubSeq(s, FirstOf(shown), LastOf(shown))

\* std::getline with ',': the characters up to the first comma or the end.
Item == LET commas == {k \in 1 .. Len(ss) : ss[k] = COMMA}
        IN  IF commas = {} THEN ss ELSE SubSeq(ss, 1, FirstOf(commas) - 1)

\* One iteration of splitCommaSeparated.  The loop ends when the stream is at
\* its end, so an empty item behind the last comma is not seen.
Split ==
    /\ ss # << >>
    /\ list' = Append(list, trimString(Item))
    /\ ss' = SubSeq(ss, Len(Item) + 2, Len(ss))
    /\ UNCHANGED str

FeedNamesNext == Split

FeedNamesSpec == FeedNamesInit /\ [][FeedNamesNext]_splitting

-----------------------------------------------------------------------------
\* The number of commas before position k of the text.
CommasBefore(text, k) == Cardinality({j \in 1 .. k - 1 : text[j] = COMMA})

\* The item is the piece of the text behind position d, all of it in the n-th
\* field, and every name character of that field is in it.
StandsAt(text, item, n, d) ==
    /\ \A j \in 1 .. Len(item) :
          item[j] = text[d + j] /\ item[j] # COMMA /\ CommasBefore(text, d + j) = n - 1
    /\ \A c \in 1 .. Len(text) :
          text[c] \notin {BLANK, COMMA} /\ CommasBefore(text, c) = n - 1 => c \in d + 1 .. d + Len(item)

IsTrimmed(item) ==
    (\E j \in 1 .. Len(item) : item[j] # BLANK) => item[1] # BLANK /\ item[Len(item)] # BLANK

\* The list is that of the fields, whatever blanks and empty fields there are.
\* Every item is a piece of its own field with all the name characters of that
\* field: names are neither cut, nor joined, nor moved to another field.  A
\* name has no blank at either end, as it is looked up as spelled in its
\* section's title.  An empty field in the middle becomes an empty name, which
\* hides no other; an empty last field becomes none.
NamesReadBack ==
    ss = << >> =>
        /\ Len(list) = CommasBefore(str, Len(str) + 1)
                       + (IF str # << >> /\ str[Len(str)] # COMMA THEN 1 ELSE 0)
        /\ \A n \in 1 .. Len(list) :
              /\ \E d \in 0 .. Len(str) - Len(list[n]) : StandsAt(str, list[n], n, d)
              /\ IsTrimmed(list[n])
=============================================================================
