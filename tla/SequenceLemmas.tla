--------------------------- MODULE SequenceLemmas ---------------------------
(***************************************************************************)
(* What the proofs need of the operations of ListOps and of least          *)
(* elements.  The library's induction theorems have an operator as a       *)
(* parameter; here induction is over the least counterexample instead,     *)
(* which exists as < is well-founded on the natural numbers.               *)
(***************************************************************************)
EXTENDS ListOps, SequenceTheorems, WellFoundedInduction, TLAPS

\* A set of natural numbers that is not empty has a least element.
LEMMA LeastElement ==
    ASSUME NEW T \in SUBSET Nat, T # {}
    PROVE  \E m \in T : \A n \in T : m <= n
<1> DEFINE R == {p \in Nat \X Nat : p[1] < p[2]}
<1>1. IsWellFoundedOn(R, Nat)
  BY NatLessThanWellFounded, Zenon DEF OpToRel
<1>2. PICK m \in T : \A n \in T : ~(<<n, m>> \in R)
  <2> HIDE DEF R
  <2> QED
    BY <1>1, WFMin
<1>3. \A n \in T : n \in Nat /\ m \in Nat /\ ~(n < m)
  BY <1>2
<1> HIDE DEF R
<1>4. \A n \in T : m <= n
  BY <1>3
<1>5. QED
  BY <1>4

\* The table that Flattened fills: its i-th entry is the concatenation of the
\* first i lists.
Flattens(f, seqs, n) ==
    f = [i \in 0 .. n |-> IF i = 0 THEN << >> ELSE f[i - 1] \o seqs[i]]

\* The table exists, for any number of lists.
LEMMA FlattenTable ==
    ASSUME NEW seqs, NEW n \in Nat
    PROVE  \E f : Flattens(f, seqs, n)
<1> DEFINE Bad == {k \in Nat : ~\E f : Flattens(f, seqs, k)}
<1> SUFFICES Bad = {}
  OBVIOUS
<1> SUFFICES ASSUME Bad # {} PROVE FALSE
  OBVIOUS
<1>1. PICK k \in Bad : \A j \in Bad : k <= j
  <2>1. Bad \in SUBSET Nat
    OBVIOUS
  <2> HIDE DEF Bad
  <2>2. QED
    BY <2>1, LeastElement
<1>2. k \in Nat /\ ~\E f : Flattens(f, seqs, k)
  OBVIOUS
<1>3. CASE k = 0
  <2> DEFINE g == [i \in 0 .. 0 |-> << >>]
  <2>1. g = [i \in 0 .. 0 |-> IF i = 0 THEN << >> ELSE g[i - 1] \o seqs[i]]
    OBVIOUS
  <2>2. QED
    BY <1>2, <1>3, <2>1 DEF Flattens
<1>4. CASE k > 0
  <2>1. k - 1 \in Nat /\ k - 1 \notin Bad
    BY <1>1, <1>2, <1>4
  <2>2. PICK g : Flattens(g, seqs, k - 1)
    BY <2>1
  <2> DEFINE h == [i \in 0 .. k |-> IF i < k THEN g[i] ELSE g[k - 1] \o seqs[k]]
  <2>3. \A i \in 0 .. k - 1 : g[i] = IF i = 0 THEN << >> ELSE g[i - 1] \o seqs[i]
    BY <1>2, <2>2 DEF Flattens
  <2>4. ASSUME NEW i \in 0 .. k
        PROVE  h[i] = IF i = 0 THEN << >> ELSE h[i - 1] \o seqs[i]
    BY <1>2, <1>4, <2>3
  <2>5. h = [i \in 0 .. k |-> IF i = 0 THEN << >> ELSE h[i - 1] \o seqs[i]]
    BY <2>4
  <2>6. QED
    BY <1>2, <2>5 DEF Flattens
<1>5. QED
  BY <1>2, <1>3, <1>4

\* Its entries.
LEMMA FlattenEntries ==
    ASSUME NEW f, NEW seqs, NEW n \in Nat, Flattens(f, seqs, n)
    PROVE  \A i \in 0 .. n : f[i] = IF i = 0 THEN << >> ELSE f[i - 1] \o seqs[i]
  BY DEF Flattens

\* The table of a list begins like that of the list without its last element.
LEMMA FlattenAgree ==
    ASSUME NEW m \in Nat, NEW s, NEW f, Flattens(f, s, m),
           NEW t, NEW g, Flattens(g, t, m + 1),
           \A i \in 1 .. m : s[i] = t[i]
    PROVE  f[m] = g[m]
<1>1. \A i \in 0 .. m : f[i] = IF i = 0 THEN << >> ELSE f[i - 1] \o s[i]
  BY FlattenEntries
<1>2. \A i \in 0 .. m : g[i] = IF i = 0 THEN << >> ELSE g[i - 1] \o s[i]
  <2>1. m + 1 \in Nat /\ \A i \in 0 .. m : i \in 0 .. m + 1 /\ (i # 0 => i \in 1 .. m)
    OBVIOUS
  <2>2. \A i \in 0 .. m + 1 : g[i] = IF i = 0 THEN << >> ELSE g[i - 1] \o t[i]
    BY <2>1, FlattenEntries
  <2>3. QED
    BY <2>1, <2>2
<1> DEFINE Bad == {i \in 0 .. m : f[i] # g[i]}
<1> SUFFICES ASSUME f[m] # g[m] PROVE FALSE
  OBVIOUS
<1>3. PICK k \in Bad : \A j \in Bad : k <= j
  <2>1. Bad \in SUBSET Nat /\ m \in Bad
    OBVIOUS
  <2> HIDE DEF Bad
  <2>2. QED
    BY <2>1, LeastElement
<1>4. k \in 0 .. m /\ f[k] # g[k]
  OBVIOUS
<1>5. CASE k = 0
  BY <1>1, <1>2, <1>4, <1>5
<1>6. CASE k # 0
  <2>1. k - 1 \in 0 .. m /\ k - 1 \notin Bad
    BY <1>3, <1>4, <1>6
  <2>2. f[k - 1] = g[k - 1]
    BY <2>1
  <2>3. QED
    BY <1>1, <1>2, <1>4, <1>6, <2>2
<1>7. QED
  BY <1>5, <1>6

\* Flattened is the last entry of the table.
LEMMA FlattenIsEntry ==
    ASSUME NEW seqs, Len(seqs) \in Nat
    PROVE  \E f : Flattens(f, seqs, Len(seqs)) /\ Flattened(seqs) = f[Len(seqs)]
<1> DEFINE f == CHOOSE f : f = [i \in 0 .. Len(seqs) |->
                                   IF i = 0 THEN << >> ELSE f[i - 1] \o seqs[i]]
<1>1. Flattened(seqs) = f[Len(seqs)]
  BY Zenon DEF Flattened
<1>2. Flattens(f, seqs, Len(seqs))
  BY FlattenTable, Zenon DEF Flattens
<1>3. QED
  BY <1>1, <1>2

\* One more list is added at the end.
LEMMA FlattenAppend ==
    ASSUME NEW S, NEW seqs \in Seq(Seq(S)), NEW e \in Seq(S)
    PROVE  Flattened(Append(seqs, e)) = Flattened(seqs) \o e
<1> DEFINE longer == Append(seqs, e)
           n == Len(seqs)
<1>1. /\ n \in Nat /\ Len(longer) = n + 1 /\ longer[n + 1] = e
      /\ \A i \in 1 .. n : longer[i] = seqs[i]
  BY AppendProperties, LenProperties
<1>2. PICK f : Flattens(f, seqs, n) /\ Flattened(seqs) = f[n]
  BY <1>1, FlattenIsEntry
<1> HIDE DEF longer
<1>3. PICK g : Flattens(g, longer, n + 1) /\ Flattened(longer) = g[n + 1]
  BY <1>1, FlattenIsEntry
<1> HIDE DEF n
<1>4. n \in Nat /\ n + 1 \in Nat
  BY <1>1
<1>5. f[n] = g[n]
  <2>1. \A i \in 1 .. n : seqs[i] = longer[i]
    BY <1>1
  <2>2. Flattens(f, seqs, n)
    BY <1>2
  <2>3. Flattens(g, longer, n + 1)
    BY <1>3
  <2>4. n \in Nat
    BY <1>4
  <2>5. QED
    BY <2>1, <2>2, <2>3, <2>4, FlattenAgree
<1>6. g[n + 1] = g[n] \o e
  <2>1. \A i \in 0 .. n + 1 : g[i] = IF i = 0 THEN << >> ELSE g[i - 1] \o longer[i]
    BY <1>3, <1>4, FlattenEntries
  <2>2. n + 1 \in 0 .. n + 1 /\ n + 1 # 0 /\ (n + 1) - 1 = n
    BY <1>4
  <2>3. QED
    BY <1>1, <2>1, <2>2, Zenon
<1>7. QED
  BY <1>2, <1>3, <1>5, <1>6 DEF longer

\* Flattening no list gives the empty one.
LEMMA FlattenEmpty == Flattened(<< >>) = << >>
<1>1. Len(<< >>) = 0 /\ 0 \in Nat
  BY EmptySeq
<1>2. PICK f : Flattens(f, << >>, 0) /\ Flattened(<< >>) = f[0]
  BY <1>1, FlattenIsEntry
<1>3. QED
  BY <1>2 DEF Flattens

\* Where the elements of a flattened sequence come from, if none of the parts
\* is longer than one: each from a part of its own.
Sources(o, seqs, flat) ==
    /\ o \in [1 .. Len(flat) -> 1 .. Len(seqs)]
    /\ \A n \in 1 .. Len(flat) : seqs[o[n]] = <<flat[n]>>
    /\ \A m, n \in 1 .. Len(flat) : o[m] = o[n] => m = n

\* One more part keeps it so.
LEMMA SourcesAppend ==
    ASSUME NEW S, NEW seqs \in Seq(Seq(S)), NEW e \in Seq(S), Len(e) <= 1,
           NEW flat \in Seq(S), NEW o, Sources(o, seqs, flat)
    PROVE  \E q : Sources(q, Append(seqs, e), flat \o e)
<1> DEFINE longer == Append(seqs, e)
           k == Len(seqs) + 1
           l == Len(flat)
<1>1. /\ k \in Nat /\ l \in Nat /\ Len(longer) = k /\ longer[k] = e
      /\ \A i \in 1 .. k - 1 : longer[i] = seqs[i]
  BY AppendProperties, LenProperties
<1>2. /\ o \in [1 .. l -> 1 .. k - 1]
      /\ \A n \in 1 .. l : seqs[o[n]] = <<flat[n]>>
      /\ \A m, n \in 1 .. l : o[m] = o[n] => m = n
  BY <1>1 DEF Sources
<1>3. CASE Len(e) = 0
  <2>1. e = << >> /\ flat \o e = flat
    BY <1>3, EmptySeq, ConcatEmptySeq
  <2> HIDE DEF longer, k, l
  <2>2. o \in [1 .. l -> 1 .. k]
    BY <1>1, <1>2
  <2>3. \A n \in 1 .. l : longer[o[n]] = <<flat[n]>>
    BY <1>1, <1>2
  <2>4. Sources(o, longer, flat)
    BY <1>1, <1>2, <2>2, <2>3 DEF Sources, l
  <2>5. QED
    BY <2>1, <2>4 DEF longer
<1>4. CASE Len(e) = 1
  <2> DEFINE x == e[1]
             longFlat == flat \o e
             q == [n \in 1 .. l + 1 |-> IF n <= l THEN o[n] ELSE k]
  <2>1. e = <<x>> /\ x \in S
    <3>1. x \in S
      BY <1>4, ElementOfSeq
    <3>2. <<x>> \in Seq(S) /\ Len(<<x>>) = 1 /\ <<x>>[1] = x
      BY <3>1
    <3>3. \A i \in 1 .. Len(e) : e[i] = <<x>>[i]
      BY <1>4, <3>2
    <3> HIDE DEF x
    <3>4. e = <<x>>
      BY <1>4, <3>2, <3>3, SeqEqual
    <3>5. QED
      BY <3>1, <3>4
  <2>2. /\ Len(longFlat) = l + 1 /\ longFlat[l + 1] = x
        /\ \A n \in 1 .. l : longFlat[n] = flat[n]
    <3>1. /\ Len(flat \o e) = Len(flat) + Len(e)
          /\ \A i \in 1 .. Len(flat) + Len(e) :
                (flat \o e)[i] = IF i <= Len(flat) THEN flat[i] ELSE e[i - Len(flat)]
      BY ConcatProperties
    <3>2. (l + 1) - l = 1 /\ l + 1 \in 1 .. l + 1 /\ ~(l + 1 <= l)
      BY <1>1
    <3>3. longFlat[l + 1] = e[1]
      BY <1>4, <3>1, <3>2
    <3>4. QED
      BY <1>1, <1>4, <3>1, <3>3
  <2> HIDE DEF longer, k, l, x, longFlat
  <2>3. q \in [1 .. l + 1 -> 1 .. k]
    <3>1. \A n \in 1 .. l + 1 : n <= l => o[n] \in 1 .. k - 1
      BY <1>1, <1>2
    <3>2. \A n \in 1 .. l + 1 : (IF n <= l THEN o[n] ELSE k) \in 1 .. k
      <4>1. 1 .. k - 1 \subseteq 1 .. k /\ k \in 1 .. k
        BY <1>1 DEF k
      <4>2. QED
        BY <3>1, <4>1
    <3>3. QED
      BY <3>2
  <2>4. \A n \in 1 .. l + 1 : longer[q[n]] = <<longFlat[n]>>
    <3> SUFFICES ASSUME NEW n \in 1 .. l + 1 PROVE longer[q[n]] = <<longFlat[n]>>
      OBVIOUS
    <3>1. CASE n = l + 1
      BY <1>1, <2>1, <2>2, <3>1
    <3>2. CASE n # l + 1
      <4>1. n \in 1 .. l /\ n <= l
        BY <1>1, <3>2
      <4>2. q[n] = o[n] /\ o[n] \in 1 .. k - 1
        BY <1>2, <4>1
      <4>3. longer[o[n]] = seqs[o[n]]
        BY <1>1, <4>2
      <4>4. seqs[o[n]] = <<flat[n]>> /\ longFlat[n] = flat[n]
        BY <1>2, <2>2, <4>1
      <4> HIDE DEF longer, k, q, longFlat, l
      <4>5. QED
        BY <4>2, <4>3, <4>4
    <3>3. QED
      BY <3>1, <3>2
  <2>5. \A m, n \in 1 .. l + 1 : q[m] = q[n] => m = n
    BY <1>1, <1>2
  <2> HIDE DEF q
  <2>6. Sources(q, longer, longFlat)
    BY <1>1, <2>2, <2>3, <2>4, <2>5 DEF Sources
  <2>7. QED
    BY <2>6 DEF longer, longFlat
<1>5. QED
  <2>1. Len(e) \in Nat
    BY LenProperties
  <2>2. Len(e) = 0 \/ Len(e) = 1
    <3>1. \A n \in Nat : n <= 1 => n = 0 \/ n = 1
      OBVIOUS
    <3>2. QED
      BY <2>1, <3>1, Zenon
  <2>3. QED
    BY <1>3, <1>4, <2>2

\* So it is for any number of parts.
LEMMA FlattenSources ==
    ASSUME NEW S, NEW seqs \in Seq(Seq(S)), \A k \in 1 .. Len(seqs) : Len(seqs[k]) <= 1
    PROVE  Flattened(seqs) \in Seq(S) /\ \E o : Sources(o, seqs, Flattened(seqs))
<1> DEFINE Initial(n) == SubSeq(seqs, 1, n)
           Good(n) == /\ Flattened(Initial(n)) \in Seq(S)
                      /\ \E o : Sources(o, Initial(n), Flattened(Initial(n)))
           Bad == {n \in 0 .. Len(seqs) : ~Good(n)}
<1>1. Len(seqs) \in Nat /\ Initial(Len(seqs)) = seqs
  BY LenProperties, SubSeqFull
<1>2. Bad = {}
  <2> SUFFICES ASSUME Bad # {} PROVE FALSE
    OBVIOUS
  <2>1. PICK n \in Bad : \A j \in Bad : n <= j
    <3>1. Bad \in SUBSET Nat
      BY <1>1
    <3> HIDE DEF Bad
    <3>2. QED
      BY <3>1, LeastElement
  <2>2. n \in 0 .. Len(seqs) /\ ~Good(n)
    OBVIOUS
  <2>3. CASE n = 0
    <3>1. Initial(0) = << >>
      OBVIOUS
    <3>2. Flattened(Initial(0)) = << >>
      BY <3>1, FlattenEmpty
    <3>3. Sources(<< >>, << >>, << >>)
      BY EmptySeq DEF Sources
    <3>4. Good(0)
      BY <3>1, <3>2, <3>3, EmptySeq
    <3>5. QED
      BY <2>2, <2>3, <3>4
  <2>4. CASE n # 0
    <3>1. n - 1 \in 0 .. Len(seqs) /\ n \in 1 .. Len(seqs) /\ n - 1 \notin Bad
      <4>1. n - 1 \in 0 .. Len(seqs) /\ n \in 1 .. Len(seqs) /\ ~(n <= n - 1)
        BY <1>1, <2>2, <2>4
      <4> HIDE DEF Bad
      <4>2. QED
        BY <2>1, <4>1
    <3>2. Good(n - 1)
      BY <3>1
    <3> DEFINE front == Initial(n - 1)
    <3>3. /\ front \in Seq(Seq(S)) /\ seqs[n] \in Seq(S) /\ Len(seqs[n]) <= 1
          /\ Initial(n) = Append(front, seqs[n])
      <4>1. seqs[n] \in Seq(S) /\ Len(seqs[n]) <= 1
        BY <3>1, ElementOfSeq, Zenon
      <4>2. Len(seqs) \in Nat /\ n \in 1 .. Len(seqs)
        BY <3>1, LenProperties
      <4> HIDE DEF Bad
      <4>3. front \in Seq(Seq(S)) /\ Initial(n) = Append(front, seqs[n])
        BY <4>2
      <4>4. QED
        BY <4>1, <4>3
    <3>4. PICK o : Sources(o, front, Flattened(front))
      BY <3>2
    <3>5. Flattened(front) \in Seq(S)
      BY <3>2
    <3> HIDE DEF front
    <3>6. Flattened(Initial(n)) = Flattened(front) \o seqs[n]
      BY <3>3, FlattenAppend
    <3>7. \E q : Sources(q, Append(front, seqs[n]), Flattened(front) \o seqs[n])
      BY <3>3, <3>4, <3>5, SourcesAppend
    <3>8. Flattened(front) \o seqs[n] \in Seq(S)
      BY <3>3, <3>5, ConcatProperties
    <3>9. QED
      BY <2>2, <3>3, <3>6, <3>7, <3>8
  <2>5. QED
    BY <2>3, <2>4
<1>3. Good(Len(seqs))
  BY <1>1, <1>2
<1>4. QED
  BY <1>1, <1>3
-----------------------------------------------------------------------------
\* What an element adds to the list that is filtered.
Piece(x, S) == IF x \in S THEN <<x>> ELSE << >>

\* Filtering goes through a list from its front to its end.
LEMMA FilteredAppend ==
    ASSUME NEW T, NEW l \in Seq(T), NEW x \in T, NEW S
    PROVE  Filtered(Append(l, x), S) = Filtered(l, S) \o Piece(x, S)
<1> DEFINE Pieces(s) == [k \in DOMAIN s |-> IF s[k] \in S THEN <<s[k]>> ELSE << >>]
           longer == Append(l, x)
           n == Len(l)
<1>1. /\ n \in Nat /\ DOMAIN l = 1 .. n /\ longer \in Seq(T) /\ Len(longer) = n + 1
      /\ DOMAIN longer = 1 .. n + 1
      /\ longer[n + 1] = x /\ \A k \in 1 .. n : longer[k] = l[k]
  BY LenProperties, AppendProperties
<1>2. \A k \in 1 .. n : l[k] \in T
  BY ElementOfSeq
<1> HIDE DEF longer, n
<1>3. \A t \in T : Piece(t, S) \in Seq(T)
  BY DEF Piece
<1>4. Pieces(l) \in Seq(Seq(T)) /\ Len(Pieces(l)) = n
  <2>1. Pieces(l) = [k \in 1 .. n |-> Piece(l[k], S)]
    BY <1>1 DEF Piece
  <2>2. \A k \in 1 .. n : Piece(l[k], S) \in Seq(T)
    BY <1>2, <1>3
  <2>3. [k \in 1 .. n |-> Piece(l[k], S)] \in Seq(Seq(T))
    BY <1>1, <2>2, IsASeq
  <2>4. Len([k \in 1 .. n |-> Piece(l[k], S)]) = n
    BY <1>1
  <2>5. QED
    BY <2>1, <2>3, <2>4
<1>5. Pieces(longer) = Append(Pieces(l), Piece(x, S))
  <2> DEFINE p == Pieces(longer)
             q == Append(Pieces(l), Piece(x, S))
  <2>1. p = [k \in 1 .. n + 1 |-> Piece(longer[k], S)]
    BY <1>1 DEF Piece
  <2>2. \A k \in 1 .. n + 1 : Piece(longer[k], S) \in Seq(T)
    <3>1. \A k \in 1 .. n + 1 : longer[k] \in T
      BY <1>1, ElementOfSeq
    <3>2. QED
      BY <1>3, <3>1
  <2>3. p \in Seq(Seq(T)) /\ Len(p) = n + 1
    <3>1. n + 1 \in Nat
      BY <1>1
    <3>2. [k \in 1 .. n + 1 |-> Piece(longer[k], S)] \in Seq(Seq(T))
      BY <2>2, <3>1, IsASeq
    <3>3. \A m \in Nat : Len([k \in 1 .. m |-> Piece(longer[k], S)]) = m
      OBVIOUS
    <3>4. QED
      BY <2>1, <3>1, <3>2, <3>3, Zenon
  <2>4. /\ q \in Seq(Seq(T)) /\ Len(q) = n + 1
        /\ \A k \in 1 .. n : q[k] = Pieces(l)[k]
        /\ q[n + 1] = Piece(x, S)
    BY <1>3, <1>4, AppendProperties
  <2>5. \A k \in 1 .. n : Pieces(l)[k] = Piece(l[k], S)
    BY <1>1 DEF Piece
  <2>6. \A k \in 1 .. n + 1 : p[k] = Piece(longer[k], S)
    BY <2>1
  <2> HIDE DEF p, q, Pieces
  <2>7. \A k \in 1 .. n + 1 : p[k] = q[k]
    <3> SUFFICES ASSUME NEW k \in 1 .. n + 1 PROVE p[k] = q[k]
      OBVIOUS
    <3>1. CASE k = n + 1
      BY <1>1, <2>4, <2>6, <3>1
    <3>2. CASE k \in 1 .. n
      BY <1>1, <2>4, <2>5, <2>6, <3>2
    <3>3. QED
      BY <1>1, <3>1, <3>2
  <2>8. p = q
    BY <2>3, <2>4, <2>7, SeqEqual
  <2>9. QED
    BY <2>8 DEF p, q
<1>6. Filtered(l, S) = Flattened(Pieces(l)) /\ Filtered(longer, S) = Flattened(Pieces(longer))
  BY DEF Filtered
<1>7. Flattened(Append(Pieces(l), Piece(x, S))) = Flattened(Pieces(l)) \o Piece(x, S)
  <2> HIDE DEF Pieces
  <2>1. Piece(x, S) \in Seq(T)
    BY <1>3
  <2>2. QED
    BY <1>4, <2>1, FlattenAppend
<1>8. QED
  BY <1>5, <1>6, <1>7 DEF longer

\* What is left of a list are elements of it.
LEMMA FilteredType ==
    ASSUME NEW T, NEW l \in Seq(T), NEW S
    PROVE  Filtered(l, S) \in Seq(T)
<1> DEFINE pieces == [k \in DOMAIN l |-> IF l[k] \in S THEN <<l[k]>> ELSE << >>]
           n == Len(l)
<1>1. n \in Nat /\ DOMAIN l = 1 .. n /\ \A k \in 1 .. n : l[k] \in T
  BY LenProperties, ElementOfSeq
<1>2. pieces = [k \in 1 .. n |-> Piece(l[k], S)]
  BY <1>1 DEF Piece
<1>3. \A k \in 1 .. n : Piece(l[k], S) \in Seq(T) /\ Len(Piece(l[k], S)) <= 1
  BY <1>1 DEF Piece
<1> HIDE DEF pieces, n
<1>4. [k \in 1 .. n |-> Piece(l[k], S)] \in Seq(Seq(T))
  BY <1>1, <1>3, IsASeq
<1>5. Len([k \in 1 .. n |-> Piece(l[k], S)]) = n
  BY <1>1
<1>6. pieces \in Seq(Seq(T)) /\ \A k \in 1 .. Len(pieces) : Len(pieces[k]) <= 1
  BY <1>2, <1>3, <1>4, <1>5
<1>7. Flattened(pieces) \in Seq(T)
  BY <1>6, FlattenSources
<1>8. QED
  BY <1>7 DEF Filtered, pieces

\* Induction over sequences: a set of them that contains the empty one and with
\* a sequence every longer one contains all.
LEMMA SeqInduction ==
    ASSUME NEW T, NEW Good \in SUBSET Seq(T), << >> \in Good,
           \A l \in Good, x \in T : Append(l, x) \in Good
    PROVE  Good = Seq(T)
<1> DEFINE Bad == {m \in Nat : \E l \in Seq(T) : l \notin Good /\ Len(l) = m}
<1>1. CASE Bad = {}
  <2>1. \A l \in Seq(T) : Len(l) \in Nat
    BY LenProperties
  <2>2. QED
    BY <1>1, <2>1, Zenon
<1>2. CASE Bad # {}
  <2>1. PICK m \in Bad : \A j \in Bad : m <= j
    <3>1. Bad \in SUBSET Nat
      OBVIOUS
    <3> HIDE DEF Bad
    <3>2. QED
      BY <1>2, <3>1, LeastElement
  <2>2. PICK l \in Seq(T) : l \notin Good /\ Len(l) = m
    BY <2>1
  <2>3. l # << >>
    BY <2>2
  <2>4. PICK s \in Seq(T), x \in T : l = Append(s, x)
    BY <2>3, SequenceEmptyOrAppend
  <2>5. Len(s) \in Nat /\ Len(s) + 1 = m
    BY <2>2, <2>4, LenProperties, AppendProperties
  <2>6. s \notin Good
    BY <2>2, <2>4
  <2>7. Len(s) \in Bad
    BY <2>5, <2>6
  <2>8. QED
    BY <2>1, <2>5, <2>7
<1>3. QED
  BY <1>1, <1>2

\* What an element adds to a count.
Hit(x, S) == IF x \in S THEN 1 ELSE 0

\* Nothing of the empty list is in a set.
LEMMA CountEmpty == ASSUME NEW S PROVE Filtered(<< >>, S) = << >> /\ Count(<< >>, S) = 0
<1>1. [k \in DOMAIN << >> |-> IF << >>[k] \in S THEN << << >>[k] >> ELSE << >>] = << >>
  OBVIOUS
<1>2. Filtered(<< >>, S) = << >>
  BY <1>1, FlattenEmpty DEF Filtered
<1>3. QED
  BY <1>2 DEF Count

\* Counting goes through a list from its front to its end.
LEMMA CountAppend ==
    ASSUME NEW T, NEW l \in Seq(T), NEW x \in T, NEW S
    PROVE  Count(l, S) \in Nat /\ Count(Append(l, x), S) = Count(l, S) + Hit(x, S)
<1>1. Filtered(l, S) \in Seq(T)
  BY FilteredType
<1>2. Piece(x, S) \in Seq(T) /\ Len(Piece(x, S)) = Hit(x, S)
  BY DEF Piece, Hit
<1>3. Len(Filtered(l, S) \o Piece(x, S)) = Len(Filtered(l, S)) + Len(Piece(x, S))
  BY <1>1, <1>2, ConcatProperties, Zenon
<1>4. Filtered(Append(l, x), S) = Filtered(l, S) \o Piece(x, S)
  BY FilteredAppend
<1>5. Len(Filtered(l, S)) \in Nat
  BY <1>1, LenProperties
<1>6. QED
  BY <1>2, <1>3, <1>4, <1>5 DEF Count

\* A count is a natural number.
LEMMA CountNat == ASSUME NEW T, NEW l \in Seq(T), NEW S PROVE Count(l, S) \in Nat
  BY FilteredType, LenProperties DEF Count

\* The list with one element.
LEMMA CountOne == ASSUME NEW x, NEW S PROVE Count(<<x>>, S) = Hit(x, S)
<1>1. << >> \in Seq({x}) /\ x \in {x} /\ Append(<< >>, x) = <<x>>
  BY EmptySeq
<1>2. Count(Append(<< >>, x), S) = Count(<< >>, S) + Hit(x, S)
  BY <1>1, CountAppend, Zenon
<1>3. QED
  BY <1>1, <1>2, CountEmpty DEF Hit

\* The counts of two lists add up.
LEMMA CountConcat ==
    ASSUME NEW T, NEW l \in Seq(T), NEW m \in Seq(T), NEW S
    PROVE  Count(l \o m, S) = Count(l, S) + Count(m, S)
<1> DEFINE Good == {s \in Seq(T) : Count(l \o s, S) = Count(l, S) + Count(s, S)}
<1>1. Count(l, S) \in Nat
  BY CountNat
<1>2. << >> \in Good
  BY <1>1, CountEmpty, ConcatEmptySeq, EmptySeq
<1>3. ASSUME NEW s \in Good, NEW x \in T PROVE Append(s, x) \in Good
  <2>1. s \in Seq(T) /\ Count(l \o s, S) = Count(l, S) + Count(s, S)
    OBVIOUS
  <2>2. l \o s \in Seq(T) /\ Append(s, x) \in Seq(T) /\ <<x>> \in Seq(T)
    BY <2>1, ConcatProperties, AppendProperties
  <2>3. l \o Append(s, x) = Append(l \o s, x)
    <3>1. l \o (s \o <<x>>) = (l \o s) \o <<x>>
      BY <2>1, <2>2, ConcatAssociative
    <3>2. Append(s, x) = s \o <<x>> /\ Append(l \o s, x) = (l \o s) \o <<x>>
      BY <2>1, <2>2, AppendIsConcat
    <3>3. QED
      BY <3>1, <3>2
  <2>4. Count(Append(l \o s, x), S) = Count(l \o s, S) + Hit(x, S)
    BY <2>2, CountAppend, Zenon
  <2>5. Count(Append(s, x), S) = Count(s, S) + Hit(x, S) /\ Count(s, S) \in Nat
    BY <2>1, CountAppend
  <2>6. Hit(x, S) \in Nat
    BY DEF Hit
  <2>7. Count(l \o Append(s, x), S) = Count(l, S) + Count(Append(s, x), S)
    BY <1>1, <2>1, <2>3, <2>4, <2>5, <2>6
  <2>8. QED
    BY <2>2, <2>7
<1> HIDE DEF Good
<1>4. Good = Seq(T)
  <2>1. Good \in SUBSET Seq(T)
    BY DEF Good
  <2>2. QED
    BY <1>2, <1>3, <2>1, SeqInduction, Zenon
<1>5. QED
  BY <1>4 DEF Good

\* Nothing is counted just if no element is in the set.
LEMMA CountZero ==
    ASSUME NEW T, NEW l \in Seq(T), NEW S
    PROVE  Count(l, S) = 0 <=> \A k \in 1 .. Len(l) : l[k] \notin S
<1> DEFINE None(s) == \A k \in 1 .. Len(s) : s[k] \notin S
           Good == {s \in Seq(T) : Count(s, S) = 0 <=> None(s)}
<1>1. << >> \in Good
  BY CountEmpty, EmptySeq
<1>2. ASSUME NEW s \in Good, NEW x \in T PROVE Append(s, x) \in Good
  <2>1. s \in Seq(T) /\ (Count(s, S) = 0 <=> None(s))
    OBVIOUS
  <2>2. /\ Append(s, x) \in Seq(T) /\ Len(Append(s, x)) = Len(s) + 1 /\ Len(s) \in Nat
        /\ Append(s, x)[Len(s) + 1] = x
        /\ \A k \in 1 .. Len(s) : Append(s, x)[k] = s[k]
    BY <2>1, AppendProperties, LenProperties
  <2>3. None(Append(s, x)) <=> None(s) /\ x \notin S
    <3> DEFINE m == Len(s)
               t == Append(s, x)
    <3>1. m \in Nat /\ t[m + 1] = x /\ Len(t) = m + 1 /\ \A k \in 1 .. m : t[k] = s[k]
      BY <2>2
    <3>2. \A k \in 1 .. m + 1 : k = m + 1 \/ k \in 1 .. m
      BY <3>1
    <3>3. m + 1 \in 1 .. m + 1 /\ \A k \in 1 .. m : k \in 1 .. m + 1
      BY <3>1
    <3> HIDE DEF m, t
    <3>4. (\A k \in 1 .. m + 1 : t[k] \notin S) <=> (\A k \in 1 .. m : s[k] \notin S) /\ x \notin S
      BY <3>1, <3>2, <3>3
    <3>5. QED
      BY <3>1, <3>4 DEF m, t
  <2>4. Count(s, S) \in Nat /\ Count(Append(s, x), S) = Count(s, S) + Hit(x, S)
    BY <2>1, CountAppend
  <2> HIDE DEF None
  <2>5. Count(Append(s, x), S) = 0 <=> None(Append(s, x))
    BY <2>1, <2>3, <2>4 DEF Hit
  <2>6. QED
    BY <2>2, <2>5
<1> HIDE DEF Good
<1>3. Good = Seq(T)
  <2>1. Good \in SUBSET Seq(T)
    BY DEF Good
  <2>2. QED
    BY <1>1, <1>2, <2>1, SeqInduction, Zenon
<1>4. QED
  BY <1>3 DEF Good

\* The first element, and the others.
LEMMA CountTail ==
    ASSUME NEW T, NEW l \in Seq(T), l # << >>, NEW S
    PROVE  Count(l, S) = Hit(Head(l), S) + Count(Tail(l), S)
<1>1. Head(l) \in T /\ Tail(l) \in Seq(T) /\ <<Head(l)>> \in Seq(T)
  BY HeadTailProperties
<1>2. l = <<Head(l)>> \o Tail(l)
  OBVIOUS
<1>3. Count(<<Head(l)>> \o Tail(l), S) = Count(<<Head(l)>>, S) + Count(Tail(l), S)
  BY <1>1, CountConcat, Zenon
<1>4. QED
  BY <1>2, <1>3, CountOne, Zenon

\* Without takes out one element.
LEMMA CountWithout ==
    ASSUME NEW T, NEW l \in Seq(T), NEW k \in 1 .. Len(l), NEW S
    PROVE  Without(l, k) \in Seq(T) /\ Count(l, S) = Count(Without(l, k), S) + Hit(l[k], S)
<1> DEFINE front == SubSeq(l, 1, k - 1)
           back == SubSeq(l, k + 1, Len(l))
           one == <<l[k]>>
<1>1. front \in Seq(T) /\ back \in Seq(T) /\ one \in Seq(T)
  <2>1. l[k] \in T /\ Len(l) \in Nat
    BY ElementOfSeq, LenProperties
  <2>2. QED
    BY <2>1
<1>2. l = (front \o one) \o back
  <2>1. /\ Len(l) \in Nat /\ 1 \in 1 .. Len(l) /\ 1 \in 1 .. Len(l) + 1
        /\ k \in 1 .. Len(l) /\ k \in 1 - 1 .. Len(l) /\ Len(l) \in k .. Len(l)
    BY LenProperties
  <2>2. SubSeq(l, 1, k) = front \o one
    BY <2>1, SubSeqRecursiveSecond
  <2>3. SubSeq(l, 1, k) \o back = SubSeq(l, 1, Len(l))
    BY <2>1, ConcatAdjacentSubSeq
  <2>4. QED
    BY <2>2, <2>3, SubSeqFull, Zenon
<1>3. Without(l, k) = front \o back
  BY DEF Without
<1>4. Count(one, S) = Hit(l[k], S)
  BY CountOne
<1> HIDE DEF front, back, one
<1>5. front \o one \in Seq(T) /\ front \o back \in Seq(T)
  BY <1>1, ConcatProperties
<1>6. Count((front \o one) \o back, S) = Count(front \o one, S) + Count(back, S)
  BY <1>1, <1>5, CountConcat, Zenon
<1>7. Count(front \o one, S) = Count(front, S) + Count(one, S)
  BY <1>1, CountConcat, Zenon
<1>8. Count(front \o back, S) = Count(front, S) + Count(back, S)
  BY <1>1, CountConcat, Zenon
<1>9. Count(front, S) \in Nat /\ Count(one, S) \in Nat /\ Count(back, S) \in Nat
  BY <1>1, CountNat
<1>10. Count((front \o one) \o back, S) = Count(front \o back, S) + Count(one, S)
  BY <1>6, <1>7, <1>8, <1>9
<1>11. QED
  BY <1>2, <1>3, <1>4, <1>5, <1>10, Zenon

\* Filtering twice.
LEMMA CountFiltered ==
    ASSUME NEW T, NEW l \in Seq(T), NEW R, NEW S
    PROVE  Count(Filtered(l, R), S) = Count(l, R \cap S)
<1> DEFINE Good == {s \in Seq(T) : Count(Filtered(s, R), S) = Count(s, R \cap S)}
<1>1. << >> \in Good
  BY CountEmpty, EmptySeq
<1>2. ASSUME NEW s \in Good, NEW x \in T PROVE Append(s, x) \in Good
  <2>1. s \in Seq(T) /\ Count(Filtered(s, R), S) = Count(s, R \cap S)
    OBVIOUS
  <2>2. Append(s, x) \in Seq(T) /\ Filtered(s, R) \in Seq(T)
    BY <2>1, AppendProperties, FilteredType
  <2>3. Filtered(Append(s, x), R) = Filtered(s, R) \o Piece(x, R)
    BY <2>1, FilteredAppend
  <2>4. Count(Append(s, x), R \cap S) = Count(s, R \cap S) + Hit(x, R \cap S)
    BY <2>1, CountAppend
  <2>5. Piece(x, R) \in Seq(T)
    BY DEF Piece
  <2>6. Count(Filtered(s, R) \o Piece(x, R), S) = Count(Filtered(s, R), S) + Count(Piece(x, R), S)
    BY <2>2, <2>5, CountConcat
  <2>7. Count(Piece(x, R), S) = Hit(x, R \cap S)
    <3>1. CASE x \in R
      BY <3>1, CountOne DEF Piece, Hit
    <3>2. CASE x \notin R
      BY <3>2, CountEmpty DEF Piece, Hit
    <3>3. QED
      BY <3>1, <3>2
  <2>8. Count(Filtered(Append(s, x), R), S) = Count(Append(s, x), R \cap S)
    BY <2>1, <2>3, <2>4, <2>6, <2>7
  <2>9. QED
    BY <2>2, <2>8
<1> HIDE DEF Good
<1>3. Good = Seq(T)
  <2>1. Good \in SUBSET Seq(T)
    BY DEF Good
  <2>2. QED
    BY <1>1, <1>2, <2>1, SeqInduction, Zenon
<1>4. QED
  BY <1>3, Zenon DEF Good

\* The counts of disjoint sets add up.
LEMMA CountUnion ==
    ASSUME NEW T, NEW l \in Seq(T), NEW R, NEW S, R \cap S = {}
    PROVE  Count(l, R \cup S) = Count(l, R) + Count(l, S)
<1> DEFINE Good == {s \in Seq(T) : Count(s, R \cup S) = Count(s, R) + Count(s, S)}
<1>1. << >> \in Good
  BY CountEmpty, EmptySeq
<1>2. ASSUME NEW s \in Good, NEW x \in T PROVE Append(s, x) \in Good
  <2>1. s \in Seq(T) /\ Count(s, R \cup S) = Count(s, R) + Count(s, S)
    OBVIOUS
  <2>2. Append(s, x) \in Seq(T)
    BY <2>1, AppendProperties
  <2>3. \A X : Count(s, X) \in Nat /\ Count(Append(s, x), X) = Count(s, X) + Hit(x, X)
    BY <2>1, CountAppend
  <2>4. Hit(x, R \cup S) = Hit(x, R) + Hit(x, S) /\ Hit(x, R) \in Nat /\ Hit(x, S) \in Nat
    BY DEF Hit
  <2>5. Count(Append(s, x), R \cup S) = Count(Append(s, x), R) + Count(Append(s, x), S)
    BY <2>1, <2>3, <2>4
  <2>6. QED
    BY <2>2, <2>5
<1> HIDE DEF Good
<1>3. Good = Seq(T)
  <2>1. Good \in SUBSET Seq(T)
    BY DEF Good
  <2>2. QED
    BY <1>1, <1>2, <2>1, SeqInduction, Zenon
<1>4. QED
  BY <1>3, Zenon DEF Good

\* Only the elements that a list may have matter.
LEMMA CountSame ==
    ASSUME NEW T, NEW l \in Seq(T), NEW R, NEW S, \A x \in T : x \in R <=> x \in S
    PROVE  Count(l, R) = Count(l, S)
<1>1. \A k \in DOMAIN l : l[k] \in T
  BY LenProperties, ElementOfSeq
<1>2. \A k \in DOMAIN l : l[k] \in R <=> l[k] \in S
  BY <1>1
<1>3. [k \in DOMAIN l |-> IF l[k] \in R THEN <<l[k]>> ELSE << >>]
        = [k \in DOMAIN l |-> IF l[k] \in S THEN <<l[k]>> ELSE << >>]
  BY <1>2
<1>4. QED
  BY <1>3 DEF Count, Filtered

\* A larger set has no fewer elements in the list.
LEMMA CountSubset ==
    ASSUME NEW T, NEW l \in Seq(T), NEW R, NEW S, R \subseteq S
    PROVE  Count(l, R) <= Count(l, S)
<1>1. R \cap (S \ R) = {} /\ R \cup (S \ R) = S
  OBVIOUS
<1>2. Count(l, S) = Count(l, R) + Count(l, S \ R)
  BY <1>1, CountUnion
<1>3. Count(l, R) \in Nat /\ Count(l, S \ R) \in Nat
  BY CountNat
<1>4. QED
  BY <1>2, <1>3

\* The list of the values of f at the elements of l.
Mapped(l, f) == [k \in DOMAIN l |-> f[l[k]]]

\* The values.
Image(T, f) == {f[x] : x \in T}

\* The elements of the list.
LEMMA MappedElements ==
    ASSUME NEW T, NEW f, NEW l \in Seq(T)
    PROVE  Mapped(l, f) \in Seq(Image(T, f)) /\ Len(Mapped(l, f)) = Len(l)
<1>1. DOMAIN l = 1 .. Len(l) /\ Len(l) \in Nat /\ \A k \in 1 .. Len(l) : l[k] \in T
  BY LenProperties, ElementOfSeq
<1>2. Mapped(l, f) = [k \in 1 .. Len(l) |-> f[l[k]]]
  BY <1>1 DEF Mapped
<1>3. \A k \in 1 .. Len(l) : f[l[k]] \in Image(T, f)
  BY <1>1 DEF Image
<1>4. Mapped(l, f) \in Seq(Image(T, f))
  BY <1>1, <1>2, <1>3, IsASeq
<1>5. Len([k \in 1 .. Len(l) |-> f[l[k]]]) = Len(l)
  BY <1>1
<1>6. QED
  BY <1>2, <1>4, <1>5

\* Mapping goes through a list from its front to its end.
LEMMA MappedAppend ==
    ASSUME NEW T, NEW f, NEW l \in Seq(T), NEW x \in T
    PROVE  Mapped(Append(l, x), f) = Append(Mapped(l, f), f[x])
<1> DEFINE U == Image(T, f)
           m == Len(l)
           longer == Append(l, x)
           p == Mapped(longer, f)
           q == Append(Mapped(l, f), f[x])
<1>1. /\ m \in Nat /\ longer \in Seq(T) /\ Len(longer) = m + 1
      /\ longer[m + 1] = x /\ \A k \in 1 .. m : longer[k] = l[k]
  BY LenProperties, AppendProperties
<1>2. f[x] \in U
  BY DEF Image
<1>3. p \in Seq(U) /\ Len(p) = m + 1 /\ \A k \in 1 .. m + 1 : p[k] = f[longer[k]]
  <2> HIDE DEF longer, m
  <2>1. p \in Seq(U) /\ Len(p) = Len(longer)
    BY <1>1, MappedElements
  <2>2. DOMAIN longer = 1 .. m + 1
    BY <1>1, LenProperties
  <2>3. QED
    BY <1>1, <2>1, <2>2 DEF Mapped
<1>4. /\ Mapped(l, f) \in Seq(U) /\ Len(Mapped(l, f)) = m
      /\ \A k \in 1 .. m : Mapped(l, f)[k] = f[l[k]]
  <2>1. Mapped(l, f) \in Seq(U) /\ Len(Mapped(l, f)) = m
    BY MappedElements, Zenon
  <2>2. DOMAIN l = 1 .. m
    BY LenProperties
  <2>3. QED
    BY <2>1, <2>2 DEF Mapped
<1>5. /\ q \in Seq(U) /\ Len(q) = m + 1 /\ q[m + 1] = f[x]
      /\ \A k \in 1 .. m : q[k] = f[l[k]]
  BY <1>2, <1>4, AppendProperties
<1> HIDE DEF longer, p, q, m, U
<1>6. \A k \in 1 .. m + 1 : p[k] = q[k]
  <2>1. \A k \in 1 .. m + 1 : k = m + 1 \/ k \in 1 .. m
    BY <1>1
  <2>2. QED
    BY <1>1, <1>3, <1>5, <2>1
<1>7. p = q
  BY <1>3, <1>5, <1>6, SeqEqual
<1>8. QED
  BY <1>7 DEF p, q, longer

\* The values in S come from the elements in R, so there are as many.
LEMMA CountMapped ==
    ASSUME NEW T, NEW f, NEW l \in Seq(T), NEW R, NEW S,
           \A x \in T : f[x] \in S <=> x \in R
    PROVE  Count(Mapped(l, f), S) = Count(l, R)
<1> DEFINE U == Image(T, f)
           Good == {s \in Seq(T) : Count(Mapped(s, f), S) = Count(s, R)}
<1>1. << >> \in Good
  <2>1. Mapped(<< >>, f) = << >>
    BY DEF Mapped
  <2>2. QED
    BY <2>1, CountEmpty, EmptySeq
<1>2. ASSUME NEW s \in Good, NEW x \in T PROVE Append(s, x) \in Good
  <2>1. s \in Seq(T) /\ Count(Mapped(s, f), S) = Count(s, R)
    OBVIOUS
  <2>2. Append(s, x) \in Seq(T) /\ Mapped(s, f) \in Seq(U) /\ f[x] \in U
    BY <2>1, MappedElements, AppendProperties DEF Image
  <2>3. Count(Append(Mapped(s, f), f[x]), S) = Count(Mapped(s, f), S) + Hit(f[x], S)
    BY <2>2, CountAppend
  <2>4. Count(Append(s, x), R) = Count(s, R) + Hit(x, R) /\ Hit(x, R) = Hit(f[x], S)
    BY <2>1, CountAppend DEF Hit
  <2>5. Count(Mapped(Append(s, x), f), S) = Count(Append(s, x), R)
    BY <2>1, <2>3, <2>4, MappedAppend, Zenon
  <2>6. QED
    BY <2>2, <2>5
<1> HIDE DEF Good
<1>3. Good = Seq(T)
  <2>1. Good \in SUBSET Seq(T)
    BY DEF Good
  <2>2. QED
    BY <1>1, <1>2, <2>1, SeqInduction, Zenon
<1>4. QED
  BY <1>3 DEF Good

\* One element more.
LEMMA FrontAppend ==
    ASSUME NEW S, NEW s \in Seq(S), NEW k \in 1 .. Len(s)
    PROVE  SubSeq(s, 1, k - 1) \in Seq(S) /\ SubSeq(s, 1, k) = Append(SubSeq(s, 1, k - 1), s[k])
<1> DEFINE f == SubSeq(s, 1, k - 1)
           g == SubSeq(s, 1, k)
           a == Append(f, s[k])
<1>1. Len(s) \in Nat /\ s[k] \in S
  BY LenProperties, ElementOfSeq
<1>2. f \in Seq(S) /\ Len(f) = k - 1 /\ \A j \in 1 .. k - 1 : f[j] = s[j]
  BY <1>1
<1>3. g \in Seq(S) /\ Len(g) = k /\ \A j \in 1 .. k : g[j] = s[j]
  BY <1>1
<1> HIDE DEF f, g
<1>4. a \in Seq(S) /\ Len(a) = k /\ \A j \in 1 .. k : a[j] = s[j]
  BY <1>1, <1>2
<1> HIDE DEF a
<1>5. g = a
  BY <1>3, <1>4, SeqEqual
<1>6. QED
  BY <1>2, <1>5 DEF f, g, a

\* The end of a sequence.
LEMMA SuffixOf ==
    ASSUME NEW S, NEW s \in Seq(S), NEW t \in Seq(S), Len(t) <= Len(s),
           \A j \in 1 .. Len(t) : t[j] = s[Len(s) - Len(t) + j]
    PROVE  t = SubSeq(s, Len(s) - Len(t) + 1, Len(s))
<1> DEFINE p == Len(s) - Len(t)
           u == SubSeq(s, p + 1, Len(s))
<1>1. Len(s) \in Nat /\ Len(t) \in Nat /\ p \in Nat /\ Len(s) = p + Len(t)
  BY LenProperties
<1>2. \A j \in 1 .. Len(t) : t[j] = s[p + j]
  OBVIOUS
<1> HIDE DEF p
<1>3. u \in Seq(S) /\ Len(u) = Len(t) /\ \A j \in 1 .. Len(t) : u[j] = s[p + j]
  <2>1. \A k \in p + 1 .. Len(s) : s[k] \in S
    BY <1>1
  <2>2. u \in Seq(S)
    BY <1>1, <2>1
  <2>3. Len(u) = Len(t)
    BY <1>1
  <2>4. \A j \in 1 .. Len(t) : u[j] = s[p + j]
    BY <1>1
  <2>5. QED
    BY <2>2, <2>3, <2>4
<1> HIDE DEF u
<1>4. t = u
  BY <1>2, <1>3, SeqEqual
<1>5. QED
  BY <1>4 DEF u, p
=============================================================================
