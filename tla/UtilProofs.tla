----------------------------- MODULE UtilProofs -----------------------------
(***************************************************************************)
(* Proofs about what src/util gives to the rest of the program, for all    *)
(* values of the constants: the splitting of the list of feed names        *)
(* (FeedNames), the Logger and the std::tm of std::gmtime (Logger); and    *)
(* about the whole start of the program (MCStart).                         *)
(***************************************************************************)
EXTENDS MCStart, StartProofs, FiniteSetTheorems

-----------------------------------------------------------------------------
(***************************************************************************)
(* FeedNames                                                               *)
(***************************************************************************)
Text == str \in Seq(Int) /\ Len(str) \in Nat /\ \A k \in 1 .. Len(str) : str[k] \in {BLANK, COMMA, k}

\* The commas are counted one by one, and there are never fewer further on.
LEMMA CommasCounted ==
    ASSUME Text
    PROVE  /\ CommasBefore(str, 1) = 0
           /\ \A k \in 1 .. Len(str) + 1 : CommasBefore(str, k) \in Nat
           /\ \A k \in 1 .. Len(str) :
                 CommasBefore(str, k + 1) = CommasBefore(str, k) + (IF str[k] = COMMA THEN 1 ELSE 0)
           /\ \A k, l \in 1 .. Len(str) + 1 : k <= l => CommasBefore(str, k) <= CommasBefore(str, l)
<1> DEFINE C(k) == {j \in 1 .. k - 1 : str[j] = COMMA}
<1>1. \A k \in 1 .. Len(str) + 1 : IsFiniteSet(C(k)) /\ CommasBefore(str, k) = Cardinality(C(k))
  <2> SUFFICES ASSUME NEW k \in 1 .. Len(str) + 1
               PROVE  IsFiniteSet(C(k)) /\ CommasBefore(str, k) = Cardinality(C(k))
    OBVIOUS
  <2>1. IsFiniteSet(1 .. k - 1)
    <3>1. 1 \in Int /\ k - 1 \in Int
      BY DEF Text
    <3>2. QED
      BY <3>1, FS_Interval
  <2>2. IsFiniteSet(C(k))
    <3>1. C(k) \subseteq 1 .. k - 1
      OBVIOUS
    <3>2. QED
      BY <2>1, <3>1, FS_Subset
  <2>3. QED
    BY <2>2 DEF CommasBefore
<1>2. C(1) = {}
  OBVIOUS
<1>3. \A k \in 1 .. Len(str) : C(k + 1) = IF str[k] = COMMA THEN C(k) \cup {k} ELSE C(k)
  BY DEF Text
<1>4. \A k \in 1 .. Len(str) : k \notin C(k) /\ k \in 1 .. Len(str) + 1 /\ k + 1 \in 1 .. Len(str) + 1
  BY DEF Text
<1>5. \A k, l \in 1 .. Len(str) + 1 : k <= l => C(k) \subseteq C(l)
  BY DEF Text
<1>6. 1 \in 1 .. Len(str) + 1
  BY DEF Text
<1> HIDE DEF C
<1>7. CommasBefore(str, 1) = 0
  BY <1>1, <1>2, <1>6, FS_EmptySet
<1>8. \A k \in 1 .. Len(str) + 1 : CommasBefore(str, k) \in Nat
  BY <1>1, FS_CardinalityType
<1>9. ASSUME NEW k \in 1 .. Len(str)
      PROVE  CommasBefore(str, k + 1) = CommasBefore(str, k) + (IF str[k] = COMMA THEN 1 ELSE 0)
  <2>1. IsFiniteSet(C(k)) /\ CommasBefore(str, k) = Cardinality(C(k))
        /\ CommasBefore(str, k + 1) = Cardinality(C(k + 1)) /\ CommasBefore(str, k) \in Nat
    BY <1>1, <1>4, <1>8
  <2>2. Cardinality(C(k) \cup {k}) = Cardinality(C(k)) + 1
    BY <1>4, <2>1, FS_AddElement
  <2>3. CASE str[k] = COMMA
    BY <1>3, <2>1, <2>2, <2>3
  <2>4. CASE str[k] # COMMA
    <3>1. C(k + 1) = C(k)
      BY <1>3, <2>4
    <3>2. CommasBefore(str, k + 1) = CommasBefore(str, k)
      BY <2>1, <3>1
    <3>3. QED
      BY <2>1, <2>4, <3>2
  <2>5. QED
    BY <2>3, <2>4
<1>10. ASSUME NEW k \in 1 .. Len(str) + 1, NEW l \in 1 .. Len(str) + 1, k <= l
       PROVE  CommasBefore(str, k) <= CommasBefore(str, l)
  BY <1>1, <1>5, <1>10, FS_Subset
<1>11. QED
  BY <1>7, <1>8, <1>9, <1>10

\* Between two commas the count does not change.
LEMMA SameField ==
    ASSUME Text, NEW k \in 1 .. Len(str) + 1, NEW l \in k .. Len(str) + 1,
           \A j \in k .. l - 1 : str[j] # COMMA
    PROVE  CommasBefore(str, l) = CommasBefore(str, k)
<1>1. {j \in 1 .. l - 1 : str[j] = COMMA} = {j \in 1 .. k - 1 : str[j] = COMMA}
  BY DEF Text
<1>2. QED
  BY <1>1 DEF CommasBefore

\* The greatest element of a set of positions.
LEMMA GreatestElement ==
    ASSUME NEW n \in Nat, NEW E \in SUBSET (1 .. n), E # {}
    PROVE  \E m \in E : \A k \in E : m >= k
<1> DEFINE D == {n - k : k \in E}
<1>1. D \in SUBSET Nat /\ D # {}
  <2>1. \A k \in E : n - k \in Nat
    OBVIOUS
  <2>2. QED
    BY <2>1
<1>2. PICK e \in D : \A d \in D : e <= d
  <2> HIDE DEF D
  <2>1. QED
    BY <1>1, LeastElement
<1>3. PICK m \in E : e = n - m
  BY <1>2
<1>4. \A k \in E : n - m <= n - k
  BY <1>2, <1>3
<1>5. QED
  BY <1>3, <1>4

\* The first comma, or all of it.
LEMMA ItemSplits ==
    ASSUME ss \in Seq(Int)
    PROVE  /\ Item \in Seq(Int) /\ Len(Item) \in 0 .. Len(ss)
           /\ \A j \in 1 .. Len(Item) : Item[j] = ss[j] /\ ss[j] # COMMA
           /\ Len(Item) < Len(ss) => ss[Len(Item) + 1] = COMMA
<1> DEFINE E == {k \in 1 .. Len(ss) : ss[k] = COMMA}
           comma == FirstOf(E)
<1>1. Len(ss) \in Nat /\ E \in SUBSET Nat
  BY LenProperties
<1>2. CASE E = {}
  <2>1. Item = ss
    BY <1>2 DEF Item
  <2>2. QED
    BY <1>1, <1>2, <2>1
<1>3. CASE E # {}
  <2>1. comma = CHOOSE m \in E : \A k \in E : m <= k
    BY DEF FirstOf
  <2>2. \E m \in E : \A k \in E : m <= k
    <3> HIDE DEF E
    <3>1. QED
      BY <1>1, <1>3, LeastElement
  <2>3. comma \in E /\ \A k \in E : comma <= k
    <3> HIDE DEF E, comma
    <3>1. QED
      BY <2>1, <2>2
  <2>4. comma \in 1 .. Len(ss) /\ ss[comma] = COMMA /\ \A k \in 1 .. comma - 1 : ss[k] # COMMA
    <3> HIDE DEF comma
    <3>1. QED
      BY <1>1, <2>3
  <2>5. Item = SubSeq(ss, 1, comma - 1)
    BY <1>3 DEF Item
  <2> HIDE DEF comma
  <2>6. /\ SubSeq(ss, 1, comma - 1) \in Seq(Int) /\ Len(SubSeq(ss, 1, comma - 1)) = comma - 1
        /\ \A j \in 1 .. comma - 1 : SubSeq(ss, 1, comma - 1)[j] = ss[j]
    BY <1>1, <2>4
  <2>7. QED
    BY <1>1, <2>4, <2>5, <2>6
<1>4. QED
  BY <1>2, <1>3

\* What trimString cuts off is blank, and it cuts off all it should.
LEMMA Trims ==
    ASSUME NEW s \in Seq(Int)
    PROVE  /\ trimString(s) \in Seq(Int) /\ IsTrimmed(trimString(s))
           /\ \E d \in 0 .. Len(s) - Len(trimString(s)) :
                 /\ \A j \in 1 .. Len(trimString(s)) : trimString(s)[j] = s[d + j]
                 /\ \A k \in 1 .. Len(s) : s[k] # BLANK => k \in d + 1 .. d + Len(trimString(s))
<1> DEFINE E == {k \in 1 .. Len(s) : s[k] # BLANK}
           f == FirstOf(E)
           l == LastOf(E)
           t == trimString(s)
<1>1. Len(s) \in Nat /\ E \in SUBSET Nat /\ E \in SUBSET (1 .. Len(s))
  BY LenProperties
<1>2. t = IF E = {} THEN s ELSE SubSeq(s, f, l)
  BY DEF trimString
<1>3. CASE E = {}
  <2>1. t = s
    BY <1>2, <1>3
  <2>2. IsTrimmed(s)
    BY <1>3 DEF IsTrimmed
  <2>3. 0 \in 0 .. Len(s) - Len(s) /\ \A j \in 1 .. Len(s) : s[j] = s[0 + j] /\ s[j] = BLANK
    BY <1>1, <1>3
  <2> HIDE DEF t
  <2>4. \E d \in 0 .. Len(s) - Len(t) :
                 /\ \A j \in 1 .. Len(t) : t[j] = s[d + j]
                 /\ \A k \in 1 .. Len(s) : s[k] # BLANK => k \in d + 1 .. d + Len(t)
    BY <2>1, <2>3
  <2>5. QED
    BY <2>1, <2>2, <2>4 DEF t
<1>4. CASE E # {}
  <2>1. f = (CHOOSE m \in E : \A k \in E : m <= k) /\ l = CHOOSE m \in E : \A k \in E : m >= k
    BY DEF FirstOf, LastOf
  <2>2. (\E m \in E : \A k \in E : m <= k) /\ (\E m \in E : \A k \in E : m >= k)
    <3> HIDE DEF E
    <3>1. QED
      BY <1>1, <1>4, LeastElement, GreatestElement
  <2>3. f \in E /\ l \in E /\ \A k \in E : f <= k /\ k <= l
    <3> HIDE DEF E, f, l
    <3>1. f \in E /\ \A k \in E : f <= k
      BY <2>1, <2>2
    <3>2. l \in E /\ \A k \in E : l >= k
      BY <2>1, <2>2
    <3>3. QED
      BY <1>1, <3>1, <3>2
  <2> HIDE DEF f, l, t
  <2>4. f \in 1 .. Len(s) /\ l \in f .. Len(s) /\ s[f] # BLANK /\ s[l] # BLANK
    BY <1>1, <2>3
  <2>5. t = SubSeq(s, f, l)
    BY <1>2, <1>4
  <2>6. /\ t \in Seq(Int) /\ Len(t) = l - f + 1
        /\ \A j \in 1 .. l - f + 1 : t[j] = s[f - 1 + j]
    <3>1. f \in 1 .. Len(s) + 1 /\ l \in f - 1 .. Len(s)
      BY <1>1, <2>4
    <3>2. /\ SubSeq(s, f, l) \in Seq(Int) /\ Len(SubSeq(s, f, l)) = l - f + 1
          /\ \A j \in 1 .. l - f + 1 : SubSeq(s, f, l)[j] = s[f + j - 1]
      BY <3>1, SubSeqProperties
    <3>3. \A j \in 1 .. l - f + 1 : f + j - 1 = f - 1 + j
      BY <3>1
    <3>4. QED
      BY <2>5, <3>2, <3>3
  <2>7. IsTrimmed(t)
    <3>1. 1 \in 1 .. l - f + 1 /\ l - f + 1 \in 1 .. l - f + 1 /\ f - 1 + 1 = f /\ f - 1 + (l - f + 1) = l
      BY <1>1, <2>4
    <3>2. t[1] = s[f] /\ t[Len(t)] = s[l]
      BY <2>6, <3>1
    <3>3. QED
      BY <2>4, <3>2 DEF IsTrimmed
  <2>8. \E d \in 0 .. Len(s) - Len(t) :
                 /\ \A j \in 1 .. Len(t) : t[j] = s[d + j]
                 /\ \A k \in 1 .. Len(s) : s[k] # BLANK => k \in d + 1 .. d + Len(t)
    <3>1. f - 1 \in 0 .. Len(s) - Len(t)
      BY <1>1, <2>4, <2>6
    <3>2. \A k \in 1 .. Len(s) : s[k] # BLANK => k \in (f - 1) + 1 .. (f - 1) + Len(t)
      <4>1. (f - 1) + 1 = f /\ (f - 1) + Len(t) = l
        <5>1. f \in Int /\ l \in Int /\ Len(t) = l - f + 1
          BY <1>1, <2>4, <2>6
        <5>2. QED
          BY <5>1
      <4>2. QED
        BY <2>3, <2>4, <4>1
    <3>3. \A j \in 1 .. Len(t) : t[j] = s[(f - 1) + j]
      BY <2>6
    <3>4. QED
      BY <3>1, <3>2, <3>3
  <2>9. QED
    BY <2>6, <2>7, <2>8 DEF t
<1>5. QED
  BY <1>3, <1>4

\* Between two iterations: list holds the items of the text before the rest ss,
\* and the rest begins behind a comma.
NamesInv ==
    LET q == Len(str) - Len(ss) IN
    /\ Text /\ ss \in Seq(Int) /\ Len(ss) <= Len(str)
    /\ \A j \in 1 .. Len(ss) : ss[j] = str[q + j]
    /\ list \in Seq(Seq(Int))
    /\ ss # << >> =>
          /\ Len(list) = CommasBefore(str, q + 1)
          /\ q > 0 => str[q] = COMMA
    /\ ss = << >> =>
          Len(list) = CommasBefore(str, Len(str) + 1)
                      + (IF str # << >> /\ str[Len(str)] # COMMA THEN 1 ELSE 0)
    /\ \A n \in 1 .. Len(list) :
          /\ \E d \in 0 .. Len(str) - Len(list[n]) : StandsAt(str, list[n], n, d)
          /\ IsTrimmed(list[n])

\* Before the first item the rest is the whole text.
LEMMA NamesInvInit == FeedNamesInit => NamesInv
<1> SUFFICES ASSUME FeedNamesInit PROVE NamesInv
  OBVIOUS
<1>1. ss = str /\ list = << >>
  BY DEF FeedNamesInit
<1>2. PICK s \in UNION {[1 .. n -> {BLANK, COMMA, 1}] : n \in 0 .. MAX_TEXT} :
          str = [k \in DOMAIN s |-> IF s[k] = 1 THEN k ELSE s[k]]
  BY DEF FeedNamesInit, Texts
<1>3. PICK n \in 0 .. MAX_TEXT : s \in [1 .. n -> {BLANK, COMMA, 1}]
  BY <1>2
<1>4. n \in Nat
  BY TextAssumption
<1>5. str = [k \in 1 .. n |-> IF s[k] = 1 THEN k ELSE s[k]]
  BY <1>2, <1>3
<1>6. \A k \in 1 .. n : (IF s[k] = 1 THEN k ELSE s[k]) \in {BLANK, COMMA, k}
  BY <1>3
<1>7. \A k \in 1 .. n : str[k] \in {BLANK, COMMA, k} /\ str[k] \in Int
  BY <1>4, <1>5, <1>6 DEF BLANK, COMMA
<1>8. str \in [1 .. n -> Int]
  BY <1>5, <1>7
<1>9. str \in Seq(Int) /\ Len(str) = n
  BY <1>4, <1>8, SeqDef, LenProperties
<1>10. Text
  BY <1>4, <1>7, <1>9 DEF Text
<1>11. list \in Seq(Seq(Int)) /\ Len(list) = 0
  BY <1>1
<1>12. CommasBefore(str, 1) = 0
  BY <1>10, CommasCounted
<1>13. Len(str) - Len(ss) = 0 /\ 1 .. Len(list) = {}
  BY <1>1, <1>4, <1>9, <1>11
<1>14. str = << >> => Len(str) + 1 = 1
  OBVIOUS
<1>15. \A j \in 1 .. Len(ss) : ss[j] = str[(Len(str) - Len(ss)) + j]
  BY <1>1, <1>4, <1>9
<1>16. ss = << >> => Len(list) = CommasBefore(str, Len(str) + 1)
                      + (IF str # << >> /\ str[Len(str)] # COMMA THEN 1 ELSE 0)
  BY <1>1, <1>11, <1>12, <1>14
<1>17. Len(list) = CommasBefore(str, (Len(str) - Len(ss)) + 1) /\ Len(ss) <= Len(str) /\ ss \in Seq(Int)
       /\ ~(Len(str) - Len(ss) > 0)
  BY <1>1, <1>4, <1>9, <1>11, <1>12
<1>18. QED
  BY <1>10, <1>11, <1>13, <1>15, <1>16, <1>17, Zenon DEF NamesInv

\* One iteration adds the item of the next field.
LEMMA SplitNames == ASSUME NamesInv, Split PROVE NamesInv'
<1> DEFINE N == Len(str)
           q == N - Len(ss)
           L == Len(Item)
           t == trimString(Item)
           n == Len(list) + 1
<1>1. /\ ss # << >> /\ list' = Append(list, t) /\ ss' = SubSeq(ss, L + 2, Len(ss)) /\ str' = str
  BY DEF Split
<1>2. /\ Text /\ ss \in Seq(Int) /\ Len(ss) <= N /\ list \in Seq(Seq(Int))
      /\ \A j \in 1 .. Len(ss) : ss[j] = str[q + j]
      /\ Len(list) = CommasBefore(str, q + 1) /\ (q > 0 => str[q] = COMMA)
  BY <1>1 DEF NamesInv
<1>3. N \in Nat /\ Len(ss) \in Nat /\ Len(ss) > 0 /\ Len(list) \in Nat /\ q \in 0 .. N - 1
  BY <1>1, <1>2, LenProperties, EmptySeq DEF Text
<1>4. /\ Item \in Seq(Int) /\ L \in 0 .. Len(ss)
      /\ \A j \in 1 .. L : Item[j] = ss[j] /\ ss[j] # COMMA
      /\ L < Len(ss) => ss[L + 1] = COMMA
  BY <1>2, ItemSplits
<1> HIDE DEF L
<1>5. /\ \A j \in 1 .. L : Item[j] = str[q + j] /\ str[q + j] # COMMA
      /\ L < Len(ss) => str[q + L + 1] = COMMA
  <2>1. \A j \in 1 .. L : j \in 1 .. Len(ss)
    BY <1>3, <1>4
  <2>2. L < Len(ss) => L + 1 \in 1 .. Len(ss) /\ q + (L + 1) = q + L + 1
    BY <1>3, <1>4
  <2>3. QED
    BY <1>2, <1>4, <2>1, <2>2
<1>6. /\ CommasBefore(str, 1) = 0
      /\ \A k \in 1 .. N + 1 : CommasBefore(str, k) \in Nat
      /\ \A k \in 1 .. N : CommasBefore(str, k + 1) = CommasBefore(str, k) + (IF str[k] = COMMA THEN 1 ELSE 0)
      /\ \A k, l \in 1 .. N + 1 : k <= l => CommasBefore(str, k) <= CommasBefore(str, l)
  BY <1>2, CommasCounted
<1>7. ASSUME NEW j \in 1 .. L + 1 PROVE CommasBefore(str, q + j) = n - 1
  <2>1. q + 1 \in 1 .. N + 1 /\ q + j \in q + 1 .. N + 1
    BY <1>3, <1>4
  <2>2. ASSUME NEW k \in q + 1 .. q + j - 1 PROVE str[k] # COMMA
    <3>1. k - q \in 1 .. L /\ q + (k - q) = k
      BY <1>3, <1>4
    <3>2. QED
      BY <1>5, <3>1
  <2>3. CommasBefore(str, q + j) = CommasBefore(str, q + 1)
    <3>1. \A k \in 1 .. N + 1 : \A l \in k .. N + 1 :
              (\A c \in k .. l - 1 : str[c] # COMMA) => CommasBefore(str, l) = CommasBefore(str, k)
      BY <1>2, SameField
    <3> DEFINE u == q + 1
               v == q + j
    <3>2. u \in 1 .. N + 1 /\ v \in u .. N + 1 /\ \A c \in u .. v - 1 : str[c] # COMMA
      BY <2>1, <2>2
    <3> HIDE DEF u, v
    <3>3. CommasBefore(str, v) = CommasBefore(str, u)
      BY <3>1, <3>2
    <3>4. QED
      BY <3>3 DEF u, v
  <2>4. QED
    BY <1>2, <1>3, <2>3
<1>8. L < Len(ss) => CommasBefore(str, q + L + 2) = n /\ q + L + 2 \in 1 .. N + 1
  <2> SUFFICES ASSUME L < Len(ss) PROVE CommasBefore(str, q + L + 2) = n /\ q + L + 2 \in 1 .. N + 1
    OBVIOUS
  <2>1. q + L + 1 \in 1 .. N /\ (q + L + 1) + 1 = q + L + 2 /\ L + 1 \in 1 .. L + 1
        /\ q + (L + 1) = q + L + 1
    BY <1>3, <1>4
  <2>2. CommasBefore(str, q + L + 1) = n - 1
    BY <1>7, <2>1
  <2>3. CommasBefore(str, q + L + 2) = n - 1 + 1
    BY <1>5, <1>6, <2>1, <2>2
  <2>4. QED
    BY <1>3, <1>4, <2>3
<1>9. ASSUME NEW c \in 1 .. N, str[c] \notin {BLANK, COMMA}, CommasBefore(str, c) = n - 1
      PROVE  c \in q + 1 .. q + L
  <2>1. ASSUME c <= q PROVE FALSE
    <3>1. q \in 1 .. N /\ q \in 1 .. N + 1 /\ c \in 1 .. N + 1 /\ str[q] = COMMA
      BY <1>2, <1>3, <2>1
    <3>2. CommasBefore(str, q + 1) = CommasBefore(str, q) + 1 /\ CommasBefore(str, c) <= CommasBefore(str, q)
          /\ CommasBefore(str, q) \in Nat
      BY <1>6, <2>1, <3>1
    <3>3. QED
      BY <1>2, <1>3, <1>9, <3>2
  <2>2. ASSUME c > q + L PROVE FALSE
    <3>1. L < Len(ss)
      BY <1>3, <1>4, <2>2
    <3>2. c >= q + L + 2
      BY <1>3, <1>4, <1>5, <1>9, <2>2, <3>1
    <3>3. CommasBefore(str, c) >= n
      BY <1>3, <1>6, <1>8, <3>1, <3>2
    <3>4. QED
      BY <1>3, <1>9, <3>3
  <2>3. QED
    BY <1>3, <1>4, <2>1, <2>2
<1>10. t \in Seq(Int) /\ IsTrimmed(t) /\ Len(t) \in Nat
  BY <1>4, Trims, LenProperties
<1>11. PICK e \in 0 .. Len(Item) - Len(t) :
                 /\ \A j \in 1 .. Len(t) : t[j] = Item[e + j]
                 /\ \A k \in 1 .. Len(Item) : Item[k] # BLANK => k \in e + 1 .. e + Len(t)
  BY <1>4, Trims
<1> HIDE DEF t
<1>12. e \in 0 .. L - Len(t) /\ \A k \in 1 .. L : Item[k] # BLANK => k \in e + 1 .. e + Len(t)
  BY <1>11 DEF L
<1>13. q + e \in 0 .. N - Len(t) /\ StandsAt(str, t, n, q + e)
  <2>1. q + e \in 0 .. N - Len(t)
    BY <1>3, <1>4, <1>10, <1>12
  <2>2. ASSUME NEW j \in 1 .. Len(t)
        PROVE  t[j] = str[q + e + j] /\ t[j] # COMMA /\ CommasBefore(str, q + e + j) = n - 1
    <3>1. q \in Nat /\ L \in Nat
      BY <1>3, <1>4
    <3>2. e \in 0 .. L - Len(t)
      BY <1>12
    <3>3. e + j \in 1 .. L /\ e + j \in 1 .. L + 1 /\ q + (e + j) = q + e + j
      BY <1>10, <3>1, <3>2
    <3>4. QED
      BY <1>5, <1>7, <1>11, <3>3
  <2>3. ASSUME NEW c \in 1 .. N, str[c] \notin {BLANK, COMMA}, CommasBefore(str, c) = n - 1
        PROVE  c \in q + e + 1 .. q + e + Len(t)
    <3>1. c \in q + 1 .. q + L
      BY <1>9, <2>3
    <3>2. c - q \in 1 .. L /\ q + (c - q) = c
      BY <1>3, <1>4, <3>1
    <3>3. Item[c - q] # BLANK
      BY <1>5, <2>3, <3>2
    <3>4. c - q \in e + 1 .. e + Len(t)
      BY <1>12, <3>2, <3>3
    <3>5. QED
      BY <1>3, <1>10, <1>12, <3>4
  <2>4. QED
    BY <2>1, <2>2, <2>3 DEF StandsAt
<1>14. /\ list' \in Seq(Seq(Int)) /\ Len(list') = n /\ list'[n] = t
       /\ \A k \in 1 .. Len(list) : list'[k] = list[k]
  BY <1>1, <1>2, <1>10, AppendProperties
<1>15. ASSUME NEW k \in 1 .. Len(list')
       PROVE  /\ (\E d \in 0 .. Len(str) - Len(list[k]) : StandsAt(str, list[k], k, d))'
              /\ IsTrimmed(list[k])'
  <2>1. CASE k = n
    BY <1>1, <1>10, <1>13, <1>14, <2>1
  <2>2. CASE k \in 1 .. Len(list)
    <3>1. (\E d \in 0 .. Len(str) - Len(list[k]) : StandsAt(str, list[k], k, d)) /\ IsTrimmed(list[k])
      BY <2>2 DEF NamesInv
    <3>2. list'[k] = list[k]
      BY <1>14, <2>2
    <3>3. QED
      BY <1>1, <3>1, <3>2
  <2>3. k = n \/ k \in 1 .. Len(list)
    BY <1>3, <1>14
  <2>4. QED
    BY <2>1, <2>2, <2>3, Zenon
<1>16. Text'
  BY <1>1, <1>2 DEF Text
<1> DEFINE rest == SubSeq(ss, L + 2, Len(ss))
<1>17. CASE L < Len(ss)
  <2>1. /\ rest \in Seq(Int) /\ Len(rest) = Len(ss) - L - 1
        /\ \A j \in 1 .. Len(ss) - L - 1 : rest[j] = ss[L + 1 + j]
    <3>1. L + 2 \in Int /\ Len(ss) \in Int /\ \A j \in L + 2 .. Len(ss) : ss[j] \in Int
      BY <1>2, <1>3, <1>4, ElementOfSeq
    <3>2. /\ rest \in Seq(Int)
          /\ Len(rest) = IF L + 2 <= Len(ss) THEN Len(ss) - (L + 2) + 1 ELSE 0
          /\ \A j \in 1 .. Len(ss) - (L + 2) + 1 : rest[j] = ss[L + 2 + j - 1]
      BY <3>1, SubSeqProperties
    <3>3. /\ Len(ss) - (L + 2) + 1 = Len(ss) - L - 1 /\ \A j \in Int : L + 2 + j - 1 = L + 1 + j
          /\ ~(L + 2 <= Len(ss)) => Len(ss) - L - 1 = 0
      BY <1>3, <1>4, <1>17
    <3> HIDE DEF rest
    <3>4. Len(rest) = Len(ss) - L - 1
      BY <3>2, <3>3
    <3>5. ASSUME NEW j \in 1 .. Len(ss) - L - 1 PROVE rest[j] = ss[L + 1 + j]
      <4>1. rest[j] = ss[L + 2 + j - 1]
        BY <3>2, <3>3
      <4>2. L + 2 + j - 1 = L + 1 + j
        BY <3>3
      <4>3. QED
        BY <4>1, <4>2
    <3>6. QED
      BY <3>2, <3>4, <3>5
  <2> HIDE DEF rest
  <2>2. /\ N - Len(rest) = q + L + 1 /\ Len(rest) <= N /\ N - Len(rest) + 1 = q + L + 2
        /\ N - Len(rest) \in 1 .. N
    BY <1>3, <1>4, <1>17, <2>1
  <2>3. ASSUME NEW j \in 1 .. Len(rest) PROVE rest[j] = str[N - Len(rest) + j]
    <3>1. L + 1 + j \in 1 .. Len(ss) /\ q + (L + 1 + j) = N - Len(rest) + j
      BY <1>3, <1>4, <1>17, <2>1, <2>2
    <3>2. QED
      BY <1>2, <2>1, <3>1
  <2>4. str[N - Len(rest)] = COMMA /\ CommasBefore(str, N - Len(rest) + 1) = n
    BY <1>5, <1>8, <1>17, <2>2
  <2>5. rest = << >> => N - Len(rest) = N /\ str # << >>
    BY <1>3, <2>2
  <2>6. rest = << >> => n = CommasBefore(str, N + 1) + (IF str # << >> /\ str[N] # COMMA THEN 1 ELSE 0)
    BY <1>3, <2>4, <2>5
  <2>7. ss' = rest
    BY <1>1 DEF rest
  <2>8. QED
    BY <1>1, <1>14, <1>15, <1>16, <2>1, <2>2, <2>3, <2>4, <2>6, <2>7 DEF NamesInv
<1>18. CASE L = Len(ss)
  <2>1. rest = << >>
    <3>1. L + 2 \in Int /\ Len(ss) \in Int /\ Len(ss) < L + 2
      BY <1>3, <1>4, <1>18
    <3>2. QED
      BY <3>1, SubSeqEmpty
  <2>2. ss' = << >>
    BY <1>1, <2>1
  <2>3. L \in 1 .. L /\ q + L = N /\ L + 1 \in 1 .. L + 1 /\ q + (L + 1) = N + 1
    BY <1>3, <1>18
  <2>4. str[N] # COMMA /\ CommasBefore(str, N + 1) = n - 1 /\ str # << >>
    <3>1. str[q + L] # COMMA
      BY <1>5, <2>3
    <3>2. CommasBefore(str, q + (L + 1)) = n - 1
      BY <1>7, <2>3
    <3>3. str # << >>
      BY <1>3, <2>3
    <3>4. QED
      BY <2>3, <3>1, <3>2, <3>3
  <2>5. n = CommasBefore(str, N + 1) + (IF str # << >> /\ str[N] # COMMA THEN 1 ELSE 0)
    BY <1>3, <2>4
  <2>6. ss' \in Seq(Int) /\ Len(ss') = 0 /\ Len(ss') <= N
    BY <1>3, <2>2
  <2>7. \A j \in 1 .. Len(ss') : ss'[j] = str[N - Len(ss') + j]
    BY <2>6
  <2>8. QED
    <3>1. (Len(list) = CommasBefore(str, Len(str) + 1)
                       + (IF str # << >> /\ str[Len(str)] # COMMA THEN 1 ELSE 0))'
      BY <1>1, <1>14, <2>5
    <3>2. (Len(ss) <= Len(str) /\ \A j \in 1 .. Len(ss) : ss[j] = str[Len(str) - Len(ss) + j])'
      BY <1>1, <2>6, <2>7
    <3>3. QED
      BY <1>14, <1>15, <1>16, <2>2, <2>6, <3>1, <3>2, Zenon DEF NamesInv
<1>19. QED
  BY <1>3, <1>4, <1>17, <1>18

\* Every step of splitCommaSeparated preserves the invariant.
LEMMA NamesInvNext == NamesInv /\ [FeedNamesNext]_splitting => NamesInv'
<1>1. NamesInv /\ Split => NamesInv'
  BY SplitNames
<1>2. NamesInv /\ UNCHANGED splitting => NamesInv'
  BY DEF NamesInv, splitting, Text
<1>3. QED
  BY <1>1, <1>2 DEF FeedNamesNext

\* The list of feed names is that of the fields of the property "feeds", for
\* texts of any length.
THEOREM NamesAlwaysReadBack == FeedNamesSpec => []NamesReadBack
<1>1. NamesInv => NamesReadBack
  BY DEF NamesInv, NamesReadBack
<1>2. QED
  BY <1>1, NamesInvInit, NamesInvNext, PTL DEF FeedNamesSpec

\* The text is as long as the bound allows: it does not change.
LEMMA TextBounded == FeedNamesSpec => [](Len(str) <= MAX_TEXT)
<1>1. FeedNamesInit => Len(str) <= MAX_TEXT
  <2> SUFFICES ASSUME FeedNamesInit PROVE Len(str) <= MAX_TEXT
    OBVIOUS
  <2>1. PICK s \in UNION {[1 .. n -> {BLANK, COMMA, 1}] : n \in 0 .. MAX_TEXT} :
            str = [k \in DOMAIN s |-> IF s[k] = 1 THEN k ELSE s[k]]
    BY DEF FeedNamesInit, Texts
  <2>2. PICK n \in 0 .. MAX_TEXT : s \in [1 .. n -> {BLANK, COMMA, 1}]
    BY <2>1
  <2>3. n \in Nat /\ n <= MAX_TEXT
    BY TextAssumption
  <2>4. str = [k \in 1 .. n |-> IF s[k] = 1 THEN k ELSE s[k]]
    BY <2>1, <2>2
  <2>5. Len(str) = n
    BY <2>3, <2>4
  <2>6. QED
    BY <2>3, <2>5
<1>2. (Len(str) <= MAX_TEXT) /\ [FeedNamesNext]_splitting => (Len(str) <= MAX_TEXT)'
  BY DEF FeedNamesNext, Split, splitting
<1>3. QED
  BY <1>1, <1>2, PTL DEF FeedNamesSpec

\* The items hold blanks and name characters of the text, no commas, and the
\* stream holds the end of the text.
LEMMA FeedNamesTypeCorrect == FeedNamesSpec => []FeedNamesTypeOK
<1>1. NamesInv /\ Len(str) <= MAX_TEXT => FeedNamesTypeOK
  <2> SUFFICES ASSUME NamesInv, Len(str) <= MAX_TEXT PROVE FeedNamesTypeOK
    OBVIOUS
  <2>1. /\ str \in Seq(Int) /\ Len(str) \in Nat /\ DOMAIN str = 1 .. Len(str)
        /\ \A k \in 1 .. Len(str) : str[k] \in {BLANK, COMMA, k}
    BY LenProperties DEF NamesInv, Text
  <2>2. ASSUME NEW k \in DOMAIN list, NEW j \in DOMAIN list[k]
        PROVE  list[k][j] \in {BLANK} \cup 1 .. MAX_TEXT
    <3>1. list \in Seq(Seq(Int))
      BY DEF NamesInv
    <3>2. k \in 1 .. Len(list) /\ list[k] \in Seq(Int)
      BY <3>1, LenProperties, ElementOfSeq
    <3>3. j \in 1 .. Len(list[k]) /\ Len(list[k]) \in Nat
      BY <3>2, LenProperties
    <3>4. PICK d \in 0 .. Len(str) - Len(list[k]) : StandsAt(str, list[k], k, d)
      BY <3>2 DEF NamesInv
    <3>5. list[k][j] = str[d + j] /\ list[k][j] # COMMA
      BY <3>3, <3>4 DEF StandsAt
    <3>6. d + j \in 1 .. Len(str) /\ d + j \in 1 .. MAX_TEXT
      BY <2>1, <3>3, TextAssumption
    <3>7. QED
      BY <2>1, <3>5, <3>6
  <2>3. Len(ss) <= Len(str) /\ ss = SubSeq(str, Len(str) - Len(ss) + 1, Len(str))
    <3>1. /\ ss \in Seq(Int) /\ Len(ss) <= Len(str)
          /\ \A j \in 1 .. Len(ss) : ss[j] = str[Len(str) - Len(ss) + j]
      BY DEF NamesInv
    <3>2. QED
      BY <2>1, <3>1, SuffixOf
  <2>4. QED
    BY <2>1, <2>2, <2>3 DEF FeedNamesTypeOK
<1>2. QED
  BY <1>1, TextBounded, NamesInvInit, NamesInvNext, PTL DEF FeedNamesSpec

-----------------------------------------------------------------------------
(***************************************************************************)
(* Logger                                                                  *)
(***************************************************************************)
\* A time of the clock is a time that the std::tm can hold.
LEMMA TimesFit == \A n \in 0 .. MAX_TIME : [min |-> Minute(n), sec |-> Second(n)] \in Times
<1> SUFFICES ASSUME NEW n \in 0 .. MAX_TIME
             PROVE  Minute(n) \in 0 .. Minute(MAX_TIME) /\ Second(n) \in 0 .. 1
  BY DEF Times
<1>1. QED
  BY LoggerAssumption DEF Minute, Second

\* No lock is held before the first line.
LEMMA LoggerTypeInit == LoggerInit => LoggerTypeOK
<1> SUFFICES ASSUME LoggerInit PROVE LoggerTypeOK
  OBVIOUS
<1>1. tm \in Times /\ seen \in [{"gga", "rmc"} -> Times]
  <2>1. Minute(0) = 0 /\ Second(0) = 0 /\ 0 \in 0 .. MAX_TIME
    BY LoggerAssumption DEF Minute, Second
  <2>2. QED
    BY <2>1, TimesFit DEF LoggerInit
<1>2. \A t \in All : logPc[t] = "idle" /\ tzset_lock # t /\ m_mutex # t
  BY LoggerAssumption DEF LoggerInit, All
<1>3. /\ logPc \in [All -> {"idle", "gmtime", "fill", "read", "ggaSecond", "rmcMinute",
                       "rmcSecond", "tail"}]
      /\ level \in [Threads -> Levels]
      /\ tt \in [All -> 0 .. MAX_TIME] /\ count \in [All -> 0 .. MAX_LINES]
  BY LoggerAssumption DEF LoggerInit, Levels
<1>4. /\ now \in 0 .. MAX_TIME /\ tzset_lock \in All \cup {FREE} /\ m_mutex \in Threads \cup {FREE}
  BY LoggerAssumption DEF LoggerInit
<1>5. m_logFile \in BOOLEAN /\ m_debugEnabled \in BOOLEAN
  BY Zenon DEF LoggerInit
<1>6. QED
  BY <1>1, <1>2, <1>3, <1>4, <1>5 DEF LoggerTypeOK, All

\* The locks belong to the threads whose control says so.
LEMMA LoggerTypeNext == LoggerTypeOK /\ [LoggerNext]_logging => LoggerTypeOK'
<1> SUFFICES ASSUME LoggerTypeOK, [LoggerNext]_logging PROVE LoggerTypeOK'
  OBVIOUS
<1> USE LoggerAssumption
<1>1. CASE Tick
  BY <1>1 DEF Tick, LoggerTypeOK
<1>2. CASE Process
  BY <1>2 DEF Process, LoggerTypeOK, All
<1>3. ASSUME NEW from, NEW to \in {"idle", "ggaSecond", "rmcMinute", "rmcSecond"},
             NEW sentence \in {"gga", "rmc"}, NEW field \in {"min", "sec"},
             from \in {"read", "ggaSecond", "rmcMinute", "rmcSecond"},
             Read(from, to, sentence, field)
      PROVE  LoggerTypeOK'
  <2>1. seen' \in [{"gga", "rmc"} -> Times]
    BY <1>3 DEF Read, LoggerTypeOK, Times
  <2>2. QED
    BY <1>3, <2>1 DEF Read, LoggerTypeOK, All
<1>4. CASE appendGPGGA \/ appendGPRMC
  BY <1>3, <1>4 DEF appendGPGGA, appendGPRMC
<1>5. ASSUME NEW t \in Threads, Log(t) PROVE LoggerTypeOK'
  <2>1. level' \in [Threads -> Levels]
    BY <1>5 DEF Log, LoggerTypeOK
  <2>2. /\ \A r \in All : (tzset_lock' = r <=> logPc'[r] = "fill")
        /\ \A r \in Threads : (m_mutex' = r <=> logPc'[r] # "idle")
    BY <1>5 DEF Log, LoggerTypeOK, All
  <2>3. /\ logPc' \in [All -> {"idle", "gmtime", "fill", "read", "ggaSecond", "rmcMinute",
                              "rmcSecond", "tail"}]
        /\ tt' \in [All -> 0 .. MAX_TIME] /\ count' \in [All -> 0 .. MAX_LINES]
    BY <1>5 DEF Log, LoggerTypeOK, All
  <2>4. QED
    BY <1>5, <2>1, <2>2, <2>3 DEF Log, LoggerTypeOK
<1>6. ASSUME NEW t \in Threads, WriteHead(t) PROVE LoggerTypeOK'
  BY <1>6 DEF WriteHead, LoggerTypeOK, All
<1>7. ASSUME NEW t \in Threads, WriteTail(t) PROVE LoggerTypeOK'
  BY <1>7 DEF WriteTail, LoggerTypeOK, All
<1>8. ASSUME NEW t \in All, Gmtime(t) PROVE LoggerTypeOK'
  <2>1. tm' \in Times
    <3>1. tt[t] \in 0 .. MAX_TIME
      BY DEF LoggerTypeOK
    <3>2. Minute(tt[t]) \in 0 .. Minute(MAX_TIME)
      BY <3>1, TimesFit DEF Times
    <3>3. QED
      BY <1>8, <3>2 DEF Gmtime, LoggerTypeOK, Times
  <2>2. QED
    BY <1>8, <2>1 DEF Gmtime, LoggerTypeOK, All
<1>9. ASSUME NEW t \in All, Fill(t) PROVE LoggerTypeOK'
  <2>1. tm' \in Times
    <3>1. tt[t] \in 0 .. MAX_TIME
      BY DEF LoggerTypeOK
    <3>2. Second(tt[t]) \in 0 .. 1
      BY <3>1, TimesFit DEF Times
    <3>3. QED
      BY <1>9, <3>2 DEF Fill, LoggerTypeOK, Times
  <2>2. QED
    BY <1>9, <2>1 DEF Fill, LoggerTypeOK, All
<1>10. CASE UNCHANGED logging
  BY <1>10 DEF logging, LoggerTypeOK
<1>11. QED
  BY <1>1, <1>2, <1>4, <1>5, <1>6, <1>7, <1>8, <1>9, <1>10 DEF LoggerNext

\* The mutexes of the Logger and of std::gmtime exclude, for any number of
\* threads that log.
THEOREM LoggerTypeCorrect == LoggerSpec => []LoggerTypeOK
BY LoggerTypeInit, LoggerTypeNext, PTL DEF LoggerSpec

\* Heads stand at odd positions of a stream and their tails behind them.  A
\* stream of odd length ends with the head of the line that the holder of
\* m_mutex is writing there.
Pieces == [by : Threads, line : Nat, part : {"head", "tail"}]
Streams == {"out", "err", "file"}
Odd(n) == n % 2 = 1
Open(s) == LET p == lines[s][Len(lines[s])] IN
    /\ m_mutex = p.by /\ logPc[p.by] = "tail"
    /\ Stream(level[p.by]) = s /\ p.line = count[p.by]
LinesInv ==
    /\ lines \in [Streams -> Seq(Pieces)]
    /\ \A s \in Streams : \A k \in 1 .. Len(lines[s]) :
          /\ lines[s][k].part = IF Odd(k) THEN "head" ELSE "tail"
          /\ Odd(k) /\ k < Len(lines[s]) => lines[s][k + 1] = [lines[s][k] EXCEPT !.part = "tail"]
    /\ \A s \in Streams : Odd(Len(lines[s])) => Open(s)
    /\ \A t \in Threads : logPc[t] = "tail" => Odd(Len(lines[Stream(level[t])]))

\* Odd and even numbers take turns.
LEMMA OddAlternates == ~Odd(0) /\ \A n \in Nat : Odd(n + 1) <=> ~Odd(n)
BY DEF Odd

\* It gives the property.
LEMMA LinesInvSound == LinesInv => LinesWhole
<1> SUFFICES ASSUME LinesInv, NEW s \in DOMAIN lines, NEW k \in DOMAIN lines[s]
             PROVE  IF k = Len(lines[s]) /\ lines[s][k].part = "head"
                    THEN m_mutex = lines[s][k].by /\ logPc[lines[s][k].by] = "tail"
                    ELSE IF k % 2 = 1
                         THEN /\ lines[s][k].part = "head"
                              /\ lines[s][k + 1] = [lines[s][k] EXCEPT !.part = "tail"]
                         ELSE lines[s][k].part = "tail"
  BY DEF LinesWhole
<1>1. s \in Streams /\ lines[s] \in Seq(Pieces) /\ k \in 1 .. Len(lines[s]) /\ Len(lines[s]) \in Nat
  BY LenProperties DEF LinesInv
<1>2. /\ lines[s][k].part = IF Odd(k) THEN "head" ELSE "tail"
      /\ Odd(k) /\ k < Len(lines[s]) => lines[s][k + 1] = [lines[s][k] EXCEPT !.part = "tail"]
      /\ Odd(Len(lines[s])) => Open(s)
  BY <1>1 DEF LinesInv
<1>3. CASE k = Len(lines[s])
  BY <1>2, <1>3 DEF Odd, Open
<1>4. CASE k < Len(lines[s])
  BY <1>2, <1>4 DEF Odd
<1>5. QED
  BY <1>1, <1>3, <1>4

\* Empty streams hold no open line.
LEMMA LinesInvInit == LoggerInit => LinesInv
<1> SUFFICES ASSUME LoggerInit PROVE LinesInv
  OBVIOUS
<1>1. lines \in [Streams -> Seq(Pieces)] /\ \A s \in Streams : Len(lines[s]) = 0
  BY DEF LoggerInit, Streams
<1>2. \A t \in Threads : logPc[t] # "tail"
  BY DEF LoggerInit, All
<1>3. \A s \in Streams : 1 .. Len(lines[s]) = {} /\ ~Odd(Len(lines[s]))
  BY <1>1, OddAlternates
<1>4. QED
  BY <1>1, <1>2, <1>3 DEF LinesInv

\* The head that a stream of odd length ends with.
LEMMA LastIsOpen ==
    ASSUME LinesInv, NEW s \in Streams, Odd(Len(lines[s]))
    PROVE  /\ Open(s) /\ lines[s][Len(lines[s])] \in Pieces
           /\ lines[s][Len(lines[s])].by \in Threads
           /\ Len(lines[s]) \in 1 .. Len(lines[s])
<1>1. Open(s) /\ lines[s] \in Seq(Pieces) /\ Len(lines[s]) \in Nat
  BY LenProperties DEF LinesInv
<1>2. Len(lines[s]) \in 1 .. Len(lines[s])
  <2>1. Len(lines[s]) # 0
    BY OddAlternates
  <2>2. QED
    BY <1>1, <2>1
<1>3. lines[s][Len(lines[s])] \in Pieces
  BY <1>1, <1>2, ElementOfSeq
<1>4. QED
  BY <1>1, <1>2, <1>3 DEF Pieces

\* A step that writes nothing, and leaves the thread in the middle of a line alone.
LEMMA NothingWritten ==
    ASSUME LoggerTypeOK, LinesInv, UNCHANGED <<lines, m_logFile>>,
           \A t \in Threads : logPc'[t] = "tail" <=> logPc[t] = "tail",
           \A t \in Threads : logPc[t] = "tail" =>
               UNCHANGED m_mutex /\ level'[t] = level[t] /\ count'[t] = count[t]
    PROVE  LinesInv'
<1>1. ASSUME NEW s \in Streams, Odd(Len(lines[s])) PROVE Open(s)'
  <2>1. Open(s) /\ lines[s][Len(lines[s])].by \in Threads
    BY <1>1, LastIsOpen
  <2>2. QED
    BY <2>1 DEF Open, Stream
<1>2. \A t \in Threads : logPc'[t] = "tail" => Odd(Len(lines'[Stream(level[t])']))
  BY DEF LinesInv, Stream
<1>3. QED
  BY <1>1, <1>2 DEF LinesInv

\* All streams are of even length while no thread is in the middle of a line.
LEMMA StreamsEven ==
    ASSUME LinesInv, NEW s \in Streams,
           \A t \in Threads : ~(m_mutex = t /\ logPc[t] = "tail" /\ Stream(level[t]) = s)
    PROVE  ~Odd(Len(lines[s]))
<1> SUFFICES ASSUME Odd(Len(lines[s])) PROVE FALSE
  OBVIOUS
<1>1. Open(s) /\ lines[s][Len(lines[s])].by \in Threads
  BY LastIsOpen
<1>2. QED
  BY <1>1 DEF Open

\* What a write leaves of the streams.
LEMMA PieceWritten ==
    ASSUME LoggerTypeOK, LinesInv, NEW t \in Threads, NEW part \in {"head", "tail"}, Write(t, part)
    PROVE  LET s == Stream(level[t])
               n == Len(lines[s])
               piece == [by |-> t, line |-> count[t], part |-> part]
           IN  /\ s \in Streams /\ n \in Nat /\ piece \in Pieces
               /\ lines' \in [Streams -> Seq(Pieces)]
               /\ \A r \in Streams : r # s => lines'[r] = lines[r]
               /\ Len(lines'[s]) = n + 1 /\ lines'[s][n + 1] = piece
               /\ \A k \in 1 .. n : lines'[s][k] = lines[s][k]
<1> DEFINE s == Stream(level[t])
           n == Len(lines[s])
           piece == [by |-> t, line |-> count[t], part |-> part]
<1>1. s \in Streams
  BY DEF Stream, Streams
<1>2. lines \in [Streams -> Seq(Pieces)] /\ lines[s] \in Seq(Pieces) /\ n \in Nat
  <2>1. lines \in [Streams -> Seq(Pieces)]
    BY Zenon DEF LinesInv
  <2>2. lines[s] \in Seq(Pieces)
    BY <1>1, <2>1, Zenon
  <2>3. QED
    BY <2>1, <2>2, LenProperties, Zenon
<1>3. piece \in Pieces
  <2>1. count[t] \in Nat
    BY LoggerAssumption DEF LoggerTypeOK, All
  <2>2. QED
    BY <2>1 DEF Pieces
<1>4. lines' = [lines EXCEPT ![s] = Append(@, piece)]
  BY DEF Write
<1> HIDE DEF s, piece
<1>5. Append(lines[s], piece) \in Seq(Pieces) /\ Len(Append(lines[s], piece)) = n + 1
      /\ Append(lines[s], piece)[n + 1] = piece
      /\ \A k \in 1 .. n : Append(lines[s], piece)[k] = lines[s][k]
  <2>1. \A q \in Seq(Pieces), p \in Pieces :
           /\ Append(q, p) \in Seq(Pieces) /\ Len(Append(q, p)) = Len(q) + 1
           /\ Append(q, p)[Len(q) + 1] = p
           /\ \A k \in 1 .. Len(q) : Append(q, p)[k] = q[k]
    <3>1. TAKE q \in Seq(Pieces), p \in Pieces
    <3>2. QED
      BY AppendProperties
  <2>2. QED
    BY <1>2, <1>3, <2>1, Zenon
<1>6. lines'[s] = Append(lines[s], piece) /\ lines' \in [Streams -> Seq(Pieces)]
      /\ \A r \in Streams : r # s => lines'[r] = lines[r]
  BY <1>1, <1>2, <1>4, <1>5
<1>7. QED
  BY <1>1, <1>2, <1>3, <1>5, <1>6 DEF s, piece

\* The prefix of a line opens its stream.
LEMMA WriteHeadLines ==
    ASSUME LoggerTypeOK, LinesInv, NEW t \in Threads, WriteHead(t) PROVE LinesInv'
<1> DEFINE s == Stream(level[t])
           n == Len(lines[s])
           piece == [by |-> t, line |-> count[t], part |-> "head"]
<1>1. /\ logPc[t] = "read" /\ logPc' = [logPc EXCEPT ![t] = "tail"] /\ Write(t, "head")
      /\ UNCHANGED <<m_mutex, m_logFile, level, count>>
  BY DEF WriteHead
<1>2. m_mutex = t /\ \A r \in Threads : r # t => logPc[r] = "idle" /\ logPc'[r] = "idle"
  BY <1>1 DEF LoggerTypeOK, All
<1>3. logPc'[t] = "tail"
  BY <1>1 DEF LoggerTypeOK, All
<1>4. /\ s \in Streams /\ n \in Nat /\ piece \in Pieces
      /\ lines' \in [Streams -> Seq(Pieces)]
      /\ \A r \in Streams : r # s => lines'[r] = lines[r]
      /\ Len(lines'[s]) = n + 1 /\ lines'[s][n + 1] = piece
      /\ \A k \in 1 .. n : lines'[s][k] = lines[s][k]
  BY <1>1, PieceWritten, Zenon
<1>5. \A r \in Streams : ~Odd(Len(lines[r]))
  BY <1>1, <1>2, StreamsEven
<1>6. piece.by = t /\ piece.line = count[t] /\ piece.part = "head"
  OBVIOUS
<1>7. (\A r \in Threads : Stream(level[r])' = Stream(level[r])) /\ Stream(level[t]) = s
  BY <1>1 DEF Stream
<1> HIDE DEF s, piece
<1>8. Odd(Len(lines'[s]))
  BY <1>4, <1>5, OddAlternates, Zenon
<1>9. ASSUME NEW r \in Streams, Odd(Len(lines'[r])) PROVE Open(r)'
  <2>1. r = s
    BY <1>4, <1>5, <1>9
  <2>2. lines'[s][Len(lines'[s])] = piece
    BY <1>4
  <2>3. QED
    BY <1>1, <1>2, <1>3, <1>6, <1>7, <2>1, <2>2 DEF Open
<1>10. ASSUME NEW r \in Streams, NEW k \in 1 .. Len(lines'[r])
       PROVE  /\ lines'[r][k].part = IF Odd(k) THEN "head" ELSE "tail"
              /\ Odd(k) /\ k < Len(lines'[r]) => lines'[r][k + 1] = [lines'[r][k] EXCEPT !.part = "tail"]
  <2>1. CASE r # s
    <3>1. lines'[r] = lines[r]
      BY <1>4, <2>1
    <3>2. k \in 1 .. Len(lines[r])
      BY <3>1
    <3>3. /\ lines[r][k].part = IF Odd(k) THEN "head" ELSE "tail"
          /\ Odd(k) /\ k < Len(lines[r]) => lines[r][k + 1] = [lines[r][k] EXCEPT !.part = "tail"]
      BY <3>2 DEF LinesInv
    <3>4. QED
      BY <3>1, <3>3
  <2>2. CASE r = s /\ k = n + 1
    BY <1>4, <1>6, <1>8, <2>2
  <2>3. CASE r = s /\ k \in 1 .. n
    <3>1. /\ lines[s][k].part = IF Odd(k) THEN "head" ELSE "tail"
          /\ Odd(k) /\ k < n => lines[s][k + 1] = [lines[s][k] EXCEPT !.part = "tail"]
      BY <1>4, <2>3, Zenon DEF LinesInv
    <3>2. Odd(k) => k < n /\ k + 1 \in 1 .. n
      BY <1>4, <1>5, <2>3
    <3>3. QED
      BY <1>4, <2>3, <3>1, <3>2, Zenon
  <2>4. QED
    BY <1>4, <2>1, <2>2, <2>3
<1>11. \A r \in Threads : logPc'[r] = "tail" => Odd(Len(lines'[Stream(level[r])']))
  BY <1>2, <1>7, <1>8
<1>12. QED
  BY <1>4, <1>9, <1>10, <1>11, Zenon DEF LinesInv

\* The end of a line closes it.
LEMMA WriteTailLines ==
    ASSUME LoggerTypeOK, LinesInv, NEW t \in Threads, WriteTail(t) PROVE LinesInv'
<1> DEFINE s == Stream(level[t])
           n == Len(lines[s])
           piece == [by |-> t, line |-> count[t], part |-> "tail"]
<1>1. logPc[t] = "tail" /\ logPc' = [logPc EXCEPT ![t] = "idle"] /\ Write(t, "tail")
  BY DEF WriteTail
<1>2. m_mutex = t /\ \A r \in Threads : logPc'[r] = "idle"
  BY <1>1 DEF LoggerTypeOK, All
<1>3. /\ s \in Streams /\ n \in Nat /\ piece \in Pieces
      /\ lines' \in [Streams -> Seq(Pieces)]
      /\ \A r \in Streams : r # s => lines'[r] = lines[r]
      /\ Len(lines'[s]) = n + 1 /\ lines'[s][n + 1] = piece
      /\ \A k \in 1 .. n : lines'[s][k] = lines[s][k]
  BY <1>1, PieceWritten, Zenon
<1>4. Odd(n)
  BY <1>1 DEF LinesInv
<1>5. \A r \in Streams : r # s => ~Odd(Len(lines[r]))
  BY <1>2, StreamsEven
<1>6. piece = [lines[s][n] EXCEPT !.part = "tail"] /\ n \in 1 .. n
  <2>1. Open(s) /\ lines[s][n] \in Pieces /\ n \in 1 .. n
    <3>1. s \in Streams /\ Odd(n)
      BY <1>3, <1>4, Zenon
    <3>2. QED
      BY <3>1, LastIsOpen, Zenon
  <2>2. lines[s][n].by = t /\ lines[s][n].line = count[t]
    BY <1>2, <2>1, Zenon DEF Open
  <2>3. QED
    BY <2>1, <2>2 DEF Pieces
<1>7. piece.part = "tail"
  OBVIOUS
<1> HIDE DEF s, piece
<1>8. ~Odd(n + 1)
  BY <1>3, <1>4, OddAlternates
<1>9. \A r \in Streams : ~Odd(Len(lines'[r]))
  BY <1>3, <1>5, <1>8
<1>10. ASSUME NEW r \in Streams, NEW k \in 1 .. Len(lines'[r])
       PROVE  /\ lines'[r][k].part = IF Odd(k) THEN "head" ELSE "tail"
              /\ Odd(k) /\ k < Len(lines'[r]) => lines'[r][k + 1] = [lines'[r][k] EXCEPT !.part = "tail"]
  <2>1. CASE r # s
    <3>1. lines'[r] = lines[r]
      BY <1>3, <2>1
    <3>2. k \in 1 .. Len(lines[r])
      BY <3>1
    <3>3. /\ lines[r][k].part = IF Odd(k) THEN "head" ELSE "tail"
          /\ Odd(k) /\ k < Len(lines[r]) => lines[r][k + 1] = [lines[r][k] EXCEPT !.part = "tail"]
      BY <3>2 DEF LinesInv
    <3>4. QED
      BY <3>1, <3>3
  <2>2. CASE r = s /\ k = n + 1
    BY <1>3, <1>7, <1>8, <2>2
  <2>3. CASE r = s /\ k = n
    <3>1. lines[s][n].part = "head"
      BY <1>3, <1>4, <1>6, Zenon DEF LinesInv
    <3>2. lines'[s][n] = lines[s][n] /\ lines'[s][n + 1] = piece
      BY <1>3, <1>6, Zenon
    <3>3. QED
      BY <1>4, <1>6, <2>3, <3>1, <3>2
  <2>4. CASE r = s /\ k \in 1 .. n - 1
    <3>1. k \in 1 .. n /\ k + 1 \in 1 .. n /\ k < n
      BY <1>3, <2>4
    <3>2. /\ lines[s][k].part = IF Odd(k) THEN "head" ELSE "tail"
          /\ Odd(k) /\ k < n => lines[s][k + 1] = [lines[s][k] EXCEPT !.part = "tail"]
      BY <1>3, <3>1, Zenon DEF LinesInv
    <3>3. QED
      BY <1>3, <2>4, <3>1, <3>2, Zenon
  <2>5. QED
    BY <1>3, <2>1, <2>2, <2>3, <2>4
<1>11. QED
  BY <1>2, <1>3, <1>9, <1>10, Zenon DEF LinesInv

\* Every step preserves it.
LEMMA LinesInvNext == LoggerTypeOK /\ LinesInv /\ [LoggerNext]_logging => LinesInv'
<1> SUFFICES ASSUME LoggerTypeOK, LinesInv, [LoggerNext]_logging PROVE LinesInv'
  OBVIOUS
<1>1. CASE Tick
  BY <1>1, NothingWritten DEF Tick
<1>2. CASE Process
  <2>1. \A t \in Threads : logPc'[t] = logPc[t] /\ count'[t] = count[t]
    BY <1>2, LoggerAssumption DEF Process, LoggerTypeOK, All
  <2>2. QED
    BY <1>2, <2>1, NothingWritten DEF Process
<1>3. CASE appendGPGGA \/ appendGPRMC
  <2>1. \A t \in Threads : logPc'[t] = logPc[t]
    BY <1>3, LoggerAssumption DEF appendGPGGA, appendGPRMC, Read, LoggerTypeOK, All
  <2>2. QED
    BY <1>3, <2>1, NothingWritten DEF appendGPGGA, appendGPRMC, Read
<1>4. ASSUME NEW t \in Threads, Log(t) PROVE LinesInv'
  <2>1. \A r \in Threads : logPc[r] # "tail" /\ logPc'[r] # "tail"
    BY <1>4, LoggerAssumption DEF Log, LoggerTypeOK, All
  <2>2. QED
    BY <1>4, <2>1, NothingWritten DEF Log
<1>5. ASSUME NEW t \in Threads, WriteHead(t) PROVE LinesInv'
  BY <1>5, WriteHeadLines
<1>6. ASSUME NEW t \in Threads, WriteTail(t) PROVE LinesInv'
  BY <1>6, WriteTailLines
<1>7. ASSUME NEW t \in All, Gmtime(t) \/ Fill(t) PROVE LinesInv'
  <2>1. \A r \in Threads : logPc'[r] = "tail" <=> logPc[r] = "tail"
    BY <1>7 DEF Gmtime, Fill, LoggerTypeOK, All
  <2>2. QED
    BY <1>7, <2>1, NothingWritten DEF Gmtime, Fill
<1>8. CASE UNCHANGED logging
  BY <1>8, NothingWritten DEF logging
<1>9. QED
  BY <1>1, <1>2, <1>3, <1>4, <1>5, <1>6, <1>7, <1>8 DEF LoggerNext

\* m_mutex keeps log lines whole, for any number of threads and lines, also
\* when all levels go to one file.
THEOREM LinesAlwaysWhole == LoggerSpec => []LinesWhole
BY LoggerTypeInit, LoggerTypeNext, LinesInvInit, LinesInvNext, LinesInvSound, PTL DEF LoggerSpec

-----------------------------------------------------------------------------
(***************************************************************************)
(* The modules of the start together, as TLC checks them                   *)
(***************************************************************************)
\* A behaviour of MCStart is one of each module, so that the theorems of
\* StartProofs and of this module hold in it.
LEMMA Projections ==
    Spec => StartupSpec /\ FeedNamesSpec /\ FeedsSpec /\ LoggerSpec
<1>1. Init => StartupInit /\ FeedNamesInit /\ FeedsInit /\ LoggerInit
  BY Zenon DEF Init
<1> DEFINE start == <<startup, splitting, feedCreation, logging, subject>>
<1>2. [Next]_start => [StartupNext]_startup
  BY Zenon DEF Next
<1>3. [Next]_start => [FeedNamesNext]_splitting
  BY Zenon DEF Next
<1>4. [Next]_start => [FeedsNext]_feedCreation
  BY Zenon DEF Next
<1>5. [Next]_start => [LoggerNext]_logging
  BY Zenon DEF Next
<1>6. QED
  BY <1>1, <1>2, <1>3, <1>4, <1>5, PTL
  DEF Spec, StartupSpec, FeedNamesSpec, FeedsSpec, LoggerSpec

\* Whatever the configuration says, what main hands on fits the integers it is
\* stored in, and so do the priorities of the feeds; the names are made of the
\* characters of the list, and the log's std::tm holds a time.
THEOREM StartTypeCorrect == Spec => []TypeOK
<1>1. StartupTypeOK /\ FeedNamesTypeOK /\ FeedsTypeOK /\ LoggerTypeOK => TypeOK
  BY DEF TypeOK
<1>2. QED
  BY <1>1, Projections, ConfigurationAlwaysEffective, FeedNamesTypeCorrect,
     FeedsAlwaysAsConfigured, LoggerTypeCorrect, PTL
=============================================================================
