------------------------------ MODULE ListOps ------------------------------
(***************************************************************************)
(* Operations on lists that several modules need.  SequencesExt has the    *)
(* first two as FlattenSeq and RemoveAt, SelectSeq is the third with a     *)
(* test in place of the set, and FiniteSetsExt has the last two as Min and *)
(* Max; they are defined here so that the proofs about them do not carry   *)
(* all of those modules along.                                             *)
(***************************************************************************)
EXTENDS Integers, Sequences

\* The lists put end to end.
Flattened(lists) ==
    LET upTo[n \in 0 .. Len(lists)] == IF n = 0 THEN << >> ELSE upTo[n - 1] \o lists[n]
    IN  upTo[Len(lists)]

\* The list without its k-th element.
Without(l, k) == SubSeq(l, 1, k - 1) \o SubSeq(l, k + 1, Len(l))

\* The elements of l that are in S, in the order of l.
Filtered(l, S) == Flattened([k \in DOMAIN l |-> IF l[k] \in S THEN <<l[k]>> ELSE << >>])

\* How many there are.
Count(l, S) == Len(Filtered(l, S))

\* The first and the last of some positions.
FirstOf(P) == CHOOSE k \in P : \A l \in P : k <= l
LastOf(P) == CHOOSE k \in P : \A l \in P : k >= l
=============================================================================
