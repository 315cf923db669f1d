------------------------------ MODULE Checksum ------------------------------
(***************************************************************************)
(* NMEA sentences between the program that writes them (finishSentence)    *)
(* and a parser that reads them (the first condition of GpsParser,         *)
(* AtmosphereParser and WindParser), over a line that may change a         *)
(* character.  text holds the characters from '$' to the last '*'; the two *)
(* hexadecimal digits after it are the number sum: printing with %02x and  *)
(* reading with std::stoi(.., 16) are inverse below 256.  A character and  *)
(* the sum are the sets of the bits that are set in them.                  *)
(***************************************************************************)
EXTENDS Integers, Sequences, FiniteSets

CONSTANTS Chars,      \* the characters between '$' and '*'
          Noise,      \* what a character may become on the line
          MAX_LENGTH  \* bound: the number of characters

Bits == 0 .. 6

DOLLAR == {2, 5}   \* 36
STAR == {1, 3, 5}  \* 42
NUL == {}

\* The characters that end math::checksum.
Ends == {STAR, NUL}

ASSUME ChecksumAssumption ==
    /\ Chars \subseteq (SUBSET Bits) \ Ends
    /\ Noise \subseteq SUBSET Bits
    /\ MAX_LENGTH \in Nat \ {0}

VARIABLES text, sum,  \* the sentence on the line
          written,    \* history: the sentence as it was written
          errors,     \* history: characters changed
          checksumPc, \* write, line or read
          valid       \* the parser's verdict

checked == <<text, sum, written, errors, checksumPc, valid>>

Bodies == UNION {[1 .. n -> Chars] : n \in 1 .. MAX_LENGTH}

\* Exclusive or of the characters at the positions in S: a bit is set if an odd
\* number of them have it.
Xor(sentence, S) == {b \in Bits : Cardinality({k \in S : b \in sentence[k]}) % 2 = 1}

\* The positions that math::checksum sums: without the first one, up to the
\* first '*' or NUL.
Summed(sentence) == {k \in 2 .. Len(sentence) : \A j \in 2 .. k : sentence[j] \notin Ends}

\* math::checksum
checksum(sentence) == Xor(sentence, Summed(sentence))

ChecksumTypeOK ==
    /\ \A k \in DOMAIN text : text[k] \in Chars \cup Noise \cup {DOLLAR, STAR}
    /\ sum \subseteq Bits
    /\ errors \in 0 .. 1 /\ valid \in BOOLEAN
    /\ checksumPc \in {"write", "line", "read"}

ChecksumInit ==
    /\ text \in {<<DOLLAR>> \o body \o <<STAR>> : body \in Bodies}
    /\ sum = {} /\ written = << >> /\ errors = 0 /\ valid = FALSE
    /\ checksumPc = "write"

\* Mutant: the sum of the buffer is taken with its last character.
finishSentenceAll ==
    /\ checksumPc = "write" /\ checksumPc' = "line"
    /\ sum' = Xor(text, 2 .. Len(text)) /\ written' = text
    /\ UNCHANGED <<text, errors, valid>>

\* Processor::finishSentence
finishSentence ==
    /\ checksumPc = "write" /\ checksumPc' = "line"
    /\ sum' = checksum(text) /\ written' = text
    /\ UNCHANGED <<text, errors, valid>>

\* One character between '$' and the last '*' is changed on the line, to '*' or
\* NUL as to any other.
Corrupt ==
    /\ checksumPc = "line" /\ errors = 0
    /\ \E k \in 2 .. Len(text) - 1 : \E c \in Noise \ {text[k]} : text' = [text EXCEPT ![k] = c]
    /\ errors' = 1
    /\ UNCHANGED <<sum, written, checksumPc, valid>>

\* The first condition of the three parsers' unpack.
unpack ==
    /\ checksumPc = "line" /\ checksumPc' = "read"
    /\ valid' = (sum = checksum(text))
    /\ UNCHANGED <<text, sum, written, errors>>

ChecksumNext == finishSentence \/ Corrupt \/ unpack

ChecksumSpec == ChecksumInit /\ [][ChecksumNext]_checked

-----------------------------------------------------------------------------
\* A character has become an end of math::checksum, and the characters from
\* there on, which it now leaves out, have no part in the written sum.
CutUnnoticed ==
    \E k \in 2 .. Len(written) - 1 :
        text[k] \in Ends /\ Xor(written, k .. Len(written) - 1) = NUL

\* The condition accepts what finishSentence wrote and refuses it with any single
\* character changed, with one exception: math::checksum stops at the first '*',
\* the digits are taken after the last one, and a '*' that takes the place of a
\* character is not noticed if the characters from there on cancel out.
AcceptedAsWritten == checksumPc = "read" => (valid <=> text = written \/ CutUnnoticed)
=============================================================================
