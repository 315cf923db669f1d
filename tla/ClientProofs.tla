---------------------------- MODULE ClientProofs ----------------------------
(***************************************************************************)
(* Proofs about Client, for all kinds and any number of keep-alive         *)
(* messages under way.                                                     *)
(***************************************************************************)
EXTENDS Client, SequenceLemmas

-----------------------------------------------------------------------------
(***************************************************************************)
(* Connector: what its operations do to the operations that are under way  *)
(* or completed, counted by their names.                                   *)
(***************************************************************************)
Connectors == [pending : Seq(Ops), queue : Seq(Completions),
               open : BOOLEAN, armed : BOOLEAN, stopped : BOOLEAN]

\* The operations of ops whose handlers have not been called.
Waiting(c, ops) == Count(c.pending, ops) + Count(c.queue, Completed(ops))

\* A completion counts as its operation does.
LEMMA CompletedHit ==
    ASSUME NEW op \in Ops \cup {"connected"}, NEW ok \in BOOLEAN
    PROVE  /\ Completion(op, ok) \in Completions
           /\ \A X : Hit(Completion(op, ok), Completed(X)) = Hit(op, X)
  BY DEF Completion, Completions, Completed, Hit

\* The counts are numbers.
LEMMA WaitingNat ==
    ASSUME NEW c \in Connectors
    PROVE  \A X : /\ Count(c.pending, X) \in Nat /\ Count(c.queue, X) \in Nat
                  /\ Waiting(c, X) \in Nat
<1>1. c.pending \in Seq(Ops) /\ c.queue \in Seq(Completions)
  BY DEF Connectors
<1>2. \A X : Count(c.pending, X) \in Nat /\ Count(c.queue, X) \in Nat
  BY <1>1, CountNat
<1>3. QED
  BY <1>2 DEF Waiting

\* The completions of cancelled operations.
Failed(l) == [k \in DOMAIN l |-> Completion(l[k], FALSE)]

\* Cancelling keeps the number of the operations.
LEMMA CountFailed ==
    ASSUME NEW l \in Seq(Ops), NEW X
    PROVE  Failed(l) \in Seq(Completions) /\ Count(Failed(l), Completed(X)) = Count(l, X)
<1> DEFINE f == [op \in Ops |-> Completion(op, FALSE)]
<1>1. \A op \in Ops : f[op] \in Completions /\ (f[op] \in Completed(X) <=> op \in X)
  BY DEF Completion, Completions, Completed
<1>2. f \in [Ops -> Completions]
  BY <1>1, Zenon
<1>3. \A k \in DOMAIN l : l[k] \in Ops
  BY LenProperties, ElementOfSeq
<1>4. Failed(l) = Mapped(l, f)
  BY <1>3, Zenon DEF Failed, Mapped
<1> HIDE DEF f
<1>5. Mapped(l, f) \in Seq(Completions)
  <2>1. Image(Ops, f) \subseteq Completions
    BY <1>1 DEF Image
  <2>2. QED
    BY <2>1, MappedElements, SeqMonotonic
<1>6. Count(Mapped(l, f), Completed(X)) = Count(l, X)
  BY <1>1, CountMapped
<1>7. QED
  BY <1>4, <1>5, <1>6

\* start
LEMMA StartEffect ==
    ASSUME NEW c \in Connectors, NEW op \in Ops
    PROVE  /\ Start(c, op) \in Connectors
           /\ Start(c, op).queue = c.queue /\ Start(c, op).open = c.open
           /\ Start(c, op).armed = c.armed /\ Start(c, op).stopped = c.stopped
           /\ \A X : Count(Start(c, op).pending, X) = Count(c.pending, X) + Hit(op, X)
           /\ \A X : Waiting(Start(c, op), X) = Waiting(c, X) + Hit(op, X)
<1>1. c.pending \in Seq(Ops) /\ Append(c.pending, op) \in Seq(Ops)
  BY AppendProperties DEF Connectors
<1>2. /\ Start(c, op) \in Connectors
      /\ Start(c, op).queue = c.queue /\ Start(c, op).open = c.open
      /\ Start(c, op).armed = c.armed /\ Start(c, op).stopped = c.stopped
      /\ Start(c, op).pending = Append(c.pending, op)
  BY <1>1, Zenon DEF Start, Connectors
<1>3. \A X : Count(Append(c.pending, op), X) = Count(c.pending, X) + Hit(op, X)
  BY <1>1, CountAppend
<1>4. \A X : Hit(op, X) \in Nat
  BY DEF Hit
<1>5. ASSUME NEW X PROVE Waiting(Start(c, op), X) = Waiting(c, X) + Hit(op, X)
  <2>1. Count(c.pending, X) \in Nat /\ Count(c.queue, Completed(X)) \in Nat
    BY WaitingNat
  <2>2. Waiting(Start(c, op), X) = Count(c.pending, X) + Hit(op, X) + Count(c.queue, Completed(X))
    BY <1>2, <1>3, Zenon DEF Waiting
  <2>3. Waiting(c, X) = Count(c.pending, X) + Count(c.queue, Completed(X))
    BY DEF Waiting
  <2>4. QED
    BY <1>4, <2>1, <2>2, <2>3
<1>6. QED
  BY <1>2, <1>3, <1>5

\* Cancelled operations wait for their handlers.
LEMMA CancelEffect ==
    ASSUME NEW c \in Connectors, NEW Y
    PROVE  /\ Cancel(c, Y) \in Connectors
           /\ Cancel(c, Y).open = c.open /\ Cancel(c, Y).stopped = c.stopped
           /\ \A X : Count(Cancel(c, Y).pending, X) = Count(c.pending, (Ops \ Y) \cap X)
           /\ \A X : Waiting(Cancel(c, Y), X) = Waiting(c, X)
<1> DEFINE d == Cancel(c, Y)
           cancelled == Filtered(c.pending, Y)
           kept == Filtered(c.pending, Ops \ Y)
<1>1. c.pending \in Seq(Ops) /\ c.queue \in Seq(Completions)
  BY DEF Connectors
<1>2. cancelled \in Seq(Ops) /\ kept \in Seq(Ops)
  BY <1>1, FilteredType
<1>3. Failed(cancelled) \in Seq(Completions)
  BY <1>2, CountFailed
<1>4. c.queue \o Failed(cancelled) \in Seq(Completions)
  BY <1>1, <1>3, ConcatProperties
<1>5. d = [c EXCEPT !.pending = kept, !.queue = c.queue \o Failed(cancelled)]
  BY Zenon DEF Cancel, Failed
<1> HIDE DEF d, cancelled, kept
<1>6. /\ d \in Connectors /\ d.open = c.open /\ d.stopped = c.stopped
      /\ d.pending = kept /\ d.queue = c.queue \o Failed(cancelled)
  BY <1>2, <1>4, <1>5, Zenon DEF Connectors
<1>7. \A X : Count(d.pending, X) = Count(c.pending, (Ops \ Y) \cap X)
  BY <1>1, <1>6, CountFiltered DEF kept
<1>8. ASSUME NEW X PROVE Waiting(d, X) = Waiting(c, X)
  <2>1. Count(d.queue, Completed(X)) = Count(c.queue, Completed(X)) + Count(c.pending, Y \cap X)
    <3>1. Count(d.queue, Completed(X)) = Count(c.queue, Completed(X)) + Count(Failed(cancelled), Completed(X))
      BY <1>1, <1>3, <1>6, CountConcat
    <3>2. Count(Failed(cancelled), Completed(X)) = Count(cancelled, X)
      BY <1>2, CountFailed
    <3>3. Count(cancelled, X) = Count(c.pending, Y \cap X)
      BY <1>1, CountFiltered DEF cancelled
    <3>4. QED
      BY <3>1, <3>2, <3>3
  <2>2. Count(c.pending, X) = Count(c.pending, (Ops \ Y) \cap X) + Count(c.pending, Y \cap X)
    <3>1. ((Ops \ Y) \cap X) \cap (Y \cap X) = {}
      OBVIOUS
    <3>2. \A op \in Ops : op \in ((Ops \ Y) \cap X) \cup (Y \cap X) <=> op \in X
      OBVIOUS
    <3>3. Count(c.pending, ((Ops \ Y) \cap X) \cup (Y \cap X))
            = Count(c.pending, (Ops \ Y) \cap X) + Count(c.pending, Y \cap X)
      BY <1>1, <3>1, CountUnion
    <3>4. Count(c.pending, ((Ops \ Y) \cap X) \cup (Y \cap X)) = Count(c.pending, X)
      BY <1>1, <3>2, CountSame
    <3>5. QED
      BY <3>3, <3>4
  <2>3. \A Z : Count(c.pending, Z) \in Nat /\ Count(c.queue, Z) \in Nat
    BY WaitingNat
  <2>4. Waiting(d, X) = Count(c.pending, (Ops \ Y) \cap X) + (Count(c.queue, Completed(X)) + Count(c.pending, Y \cap X))
    BY <1>7, <2>1, Zenon DEF Waiting
  <2>5. Waiting(c, X) = Count(c.pending, X) + Count(c.queue, Completed(X))
    BY DEF Waiting
  <2>6. QED
    BY <2>2, <2>3, <2>4, <2>5
<1>9. QED
  BY <1>6, <1>7, <1>8 DEF d

\* More operations wait of a larger set.
LEMMA WaitingSubset ==
    ASSUME NEW c \in Connectors, NEW X, NEW Y, X \subseteq Y
    PROVE  Waiting(c, X) <= Waiting(c, Y)
<1>1. c.pending \in Seq(Ops) /\ c.queue \in Seq(Completions)
  BY DEF Connectors
<1>2. Completed(X) \subseteq Completed(Y)
  BY DEF Completed
<1>3. Count(c.pending, X) <= Count(c.pending, Y)
  BY <1>1, CountSubset
<1>4. Count(c.queue, Completed(X)) <= Count(c.queue, Completed(Y))
  BY <1>1, <1>2, CountSubset
<1>5. /\ Count(c.pending, X) \in Nat /\ Count(c.queue, Completed(X)) \in Nat
      /\ Count(c.pending, Y) \in Nat /\ Count(c.queue, Completed(Y)) \in Nat
  BY WaitingNat
<1>6. QED
  BY <1>3, <1>4, <1>5 DEF Waiting

\* The operations of two sets that have nothing in common.
LEMMA WaitingUnion ==
    ASSUME NEW c \in Connectors, NEW X, NEW Y, X \cap Y = {}
    PROVE  Waiting(c, X \cup Y) = Waiting(c, X) + Waiting(c, Y)
<1>1. c.pending \in Seq(Ops) /\ c.queue \in Seq(Completions)
  BY DEF Connectors
<1>2. Completed(X) \cap Completed(Y) = {} /\ Completed(X) \cup Completed(Y) = Completed(X \cup Y)
  BY Zenon DEF Completed
<1>3. Count(c.pending, X \cup Y) = Count(c.pending, X) + Count(c.pending, Y)
  BY <1>1, CountUnion
<1>4. Count(c.queue, Completed(X \cup Y)) = Count(c.queue, Completed(X)) + Count(c.queue, Completed(Y))
  <2>1. Count(c.queue, Completed(X) \cup Completed(Y))
          = Count(c.queue, Completed(X)) + Count(c.queue, Completed(Y))
    BY <1>1, <1>2, CountUnion
  <2>2. QED
    BY <1>2, <2>1, Zenon
<1>5. /\ Count(c.pending, X) \in Nat /\ Count(c.queue, Completed(X)) \in Nat
      /\ Count(c.pending, Y) \in Nat /\ Count(c.queue, Completed(Y)) \in Nat
  BY WaitingNat
<1>6. QED
  BY <1>3, <1>4, <1>5 DEF Waiting

\* What a connector has once the timer's operations are cancelled.
LEMMA TimerEffect ==
    ASSUME NEW c \in Connectors, NEW d,
           d.open = Cancel(c, TimerOps).open, d.stopped = Cancel(c, TimerOps).stopped,
           d.pending = Cancel(c, TimerOps).pending, d.queue = Cancel(c, TimerOps).queue
    PROVE  /\ d.open = c.open /\ d.stopped = c.stopped
           /\ \A X : Count(d.pending, X) = Count(c.pending, (Ops \ TimerOps) \cap X)
           /\ \A X : Waiting(d, X) = Waiting(c, X)
<1> DEFINE e == Cancel(c, TimerOps)
<1>1. /\ e.open = c.open /\ e.stopped = c.stopped
      /\ \A X : Count(e.pending, X) = Count(c.pending, (Ops \ TimerOps) \cap X)
      /\ \A X : Waiting(e, X) = Waiting(c, X)
  BY CancelEffect
<1> HIDE DEF e
<1>2. d.open = e.open /\ d.stopped = e.stopped /\ d.pending = e.pending /\ d.queue = e.queue
  BY DEF e
<1>3. \A X : Waiting(d, X) = Waiting(e, X)
  BY <1>2, Zenon DEF Waiting
<1>4. QED
  BY <1>1, <1>2, <1>3, Zenon

\* The first part of close: the timer is cancelled and disarmed.
noTimer(c) == [Cancel(c, TimerOps) EXCEPT !.armed = FALSE]

\* It loses no operation: those of the timer are completed as cancelled.
LEMMA NoTimerEffect ==
    ASSUME NEW c \in Connectors
    PROVE  /\ noTimer(c) \in Connectors
           /\ noTimer(c).open = c.open /\ noTimer(c).stopped = c.stopped
           /\ \A X : Count(noTimer(c).pending, X) = Count(c.pending, (Ops \ TimerOps) \cap X)
           /\ \A X : Waiting(noTimer(c), X) = Waiting(c, X)
<1> DEFINE d == noTimer(c)
           e == Cancel(c, TimerOps)
<1>1. e \in Connectors
  BY CancelEffect
<1>2. d = [e EXCEPT !.armed = FALSE]
  BY DEF noTimer
<1>3. FALSE \in BOOLEAN
  OBVIOUS
<1> HIDE DEF d, e
<1>4. /\ d \in Connectors /\ d.open = e.open /\ d.stopped = e.stopped
      /\ d.pending = e.pending /\ d.queue = e.queue
  BY <1>1, <1>2, <1>3, Zenon DEF Connectors
<1>5. /\ d.open = c.open /\ d.stopped = c.stopped
      /\ \A X : Count(d.pending, X) = Count(c.pending, (Ops \ TimerOps) \cap X)
      /\ \A X : Waiting(d, X) = Waiting(c, X)
  BY <1>4, TimerEffect, Zenon DEF e
<1>6. QED
  BY <1>4, <1>5, Zenon DEF d

\* A new expiry time does the same.
LEMMA ResetEffect ==
    ASSUME NEW c \in Connectors
    PROVE  /\ resetTimer(c) \in Connectors
           /\ resetTimer(c).open = c.open /\ resetTimer(c).stopped = c.stopped
           /\ \A X : Count(resetTimer(c).pending, X) = Count(c.pending, (Ops \ TimerOps) \cap X)
           /\ \A X : Waiting(resetTimer(c), X) = Waiting(c, X)
<1> DEFINE d == resetTimer(c)
           e == Cancel(c, TimerOps)
<1>1. e \in Connectors
  BY CancelEffect
<1>2. d = [e EXCEPT !.armed = TRUE]
  BY DEF resetTimer
<1>3. TRUE \in BOOLEAN
  OBVIOUS
<1> HIDE DEF d, e
<1>4. /\ d \in Connectors /\ d.open = e.open /\ d.stopped = e.stopped
      /\ d.pending = e.pending /\ d.queue = e.queue
  BY <1>1, <1>2, <1>3, Zenon DEF Connectors
<1>5. /\ d.open = c.open /\ d.stopped = c.stopped
      /\ \A X : Count(d.pending, X) = Count(c.pending, (Ops \ TimerOps) \cap X)
      /\ \A X : Waiting(d, X) = Waiting(c, X)
  BY <1>4, TimerEffect, Zenon DEF e
<1>6. QED
  BY <1>4, <1>5, Zenon DEF d

\* Only an open socket has operations under way.
OpenFit(c) == Count(c.pending, SocketOps) > 0 => c.open

\* close
LEMMA CloseEffect ==
    ASSUME NEW c \in Connectors, OpenFit(c)
    PROVE  /\ close(c) \in Connectors /\ ~close(c).open /\ close(c).stopped = c.stopped
           /\ Count(close(c).pending, SocketOps \cup TimerOps) = 0
           /\ \A X : Waiting(close(c), X) = Waiting(c, X)
<1> DEFINE d == noTimer(c)
           both == SocketOps \cup TimerOps
<1>1. /\ d \in Connectors /\ d.open = c.open /\ d.stopped = c.stopped
      /\ \A X : Count(d.pending, X) = Count(c.pending, (Ops \ TimerOps) \cap X)
      /\ \A X : Waiting(d, X) = Waiting(c, X)
  BY NoTimerEffect, Zenon
<1>2. close(c) = IF c.open THEN [Cancel(d, SocketOps) EXCEPT !.open = FALSE] ELSE d
  BY DEF close, noTimer
<1>3. c.pending \in Seq(Ops) /\ c.open \in BOOLEAN
  BY DEF Connectors
<1> HIDE DEF d
<1>4. CASE c.open
  <2> DEFINE e == Cancel(d, SocketOps)
  <2>1. /\ e \in Connectors /\ e.stopped = d.stopped
        /\ \A X : Count(e.pending, X) = Count(d.pending, (Ops \ SocketOps) \cap X)
        /\ \A X : Waiting(e, X) = Waiting(d, X)
    BY <1>1, CancelEffect
  <2>2. close(c) = [e EXCEPT !.open = FALSE]
    BY <1>2, <1>4
  <2> HIDE DEF e
  <2>3. /\ close(c) \in Connectors /\ ~close(c).open /\ close(c).stopped = e.stopped
        /\ close(c).pending = e.pending /\ close(c).queue = e.queue
    BY <2>1, <2>2, Zenon DEF Connectors
  <2>4. Count(e.pending, both) = Count(c.pending, (Ops \ TimerOps) \cap ((Ops \ SocketOps) \cap both))
    BY <1>1, <2>1, Zenon
  <2>5. (Ops \ TimerOps) \cap ((Ops \ SocketOps) \cap both) = {}
    OBVIOUS
  <2>6. Count(c.pending, {}) = 0
    BY <1>3, CountZero
  <2>7. \A X : Waiting(close(c), X) = Waiting(e, X)
    BY <2>3, Zenon DEF Waiting
  <2>8. Count(close(c).pending, both) = 0
    BY <2>3, <2>4, <2>5, <2>6, Zenon
  <2>9. QED
    BY <1>1, <2>1, <2>3, <2>7, <2>8, Zenon
<1>5. CASE ~c.open
  <2>1. Count(c.pending, SocketOps) \in Nat /\ Count(c.pending, SocketOps) = 0
    BY <1>3, <1>5, CountNat DEF OpenFit
  <2>2. (Ops \ TimerOps) \cap both \subseteq SocketOps
    OBVIOUS
  <2>3. Count(c.pending, (Ops \ TimerOps) \cap both) <= Count(c.pending, SocketOps)
    BY <1>3, <2>2, CountSubset
  <2>4. Count(c.pending, (Ops \ TimerOps) \cap both) \in Nat
    BY <1>3, CountNat
  <2>5. Count(d.pending, both) = 0
    BY <1>1, <2>1, <2>3, <2>4
  <2>6. close(c) = d
    BY <1>2, <1>5
  <2>7. QED
    BY <1>1, <1>5, <2>5, <2>6, Zenon
<1>6. QED
  BY <1>3, <1>4, <1>5

\* An operation completes.
LEMMA CompleteEffect ==
    ASSUME NEW c \in Connectors, NEW k \in DOMAIN c.pending, NEW ok \in BOOLEAN
    PROVE  /\ c.pending[k] \in Ops
           /\ Complete(c, k, ok) \in Connectors
           /\ Complete(c, k, ok).open = c.open /\ Complete(c, k, ok).stopped = c.stopped
           /\ Complete(c, k, ok).queue = Append(c.queue, Completion(c.pending[k], ok))
           /\ \A X : Count(c.pending, X) = Count(Complete(c, k, ok).pending, X) + Hit(c.pending[k], X)
           /\ \A X : Waiting(Complete(c, k, ok), X) = Waiting(c, X)
<1> DEFINE d == Complete(c, k, ok)
           op == c.pending[k]
           done == Completion(op, ok)
<1>1. c.pending \in Seq(Ops) /\ c.queue \in Seq(Completions)
  BY DEF Connectors
<1>2. k \in 1 .. Len(c.pending) /\ op \in Ops
  BY <1>1, LenProperties, ElementOfSeq
<1>3. done \in Completions /\ \A X : Hit(done, Completed(X)) = Hit(op, X)
  BY <1>2, CompletedHit
<1>4. /\ Without(c.pending, k) \in Seq(Ops)
      /\ \A X : Count(c.pending, X) = Count(Without(c.pending, k), X) + Hit(op, X)
  BY <1>1, <1>2, CountWithout
<1>5. d = [c EXCEPT !.pending = Without(c.pending, k), !.queue = Append(c.queue, done)]
  BY Zenon DEF Complete
<1> HIDE DEF d, op, done
<1>6. Append(c.queue, done) \in Seq(Completions)
  BY <1>1, <1>3, AppendProperties
<1>7. /\ d \in Connectors /\ d.open = c.open /\ d.stopped = c.stopped
      /\ d.pending = Without(c.pending, k) /\ d.queue = Append(c.queue, done)
  BY <1>4, <1>5, <1>6, Zenon DEF Connectors
<1>8. ASSUME NEW X PROVE Waiting(d, X) = Waiting(c, X)
  <2>1. Count(d.queue, Completed(X)) = Count(c.queue, Completed(X)) + Hit(op, X)
    BY <1>1, <1>3, <1>7, CountAppend
  <2>2. Count(c.pending, X) = Count(d.pending, X) + Hit(op, X)
    BY <1>4, <1>7, Zenon
  <2>3. /\ Count(c.queue, Completed(X)) \in Nat /\ Count(d.pending, X) \in Nat
        /\ Hit(op, X) \in Nat
    BY <1>7, WaitingNat, Zenon DEF Hit
  <2>4. QED
    BY <2>1, <2>2, <2>3 DEF Waiting
<1>9. QED
  BY <1>2, <1>4, <1>7, <1>8 DEF d, op, done

\* The head of the queue is taken to be handled; its operation stays the same.
LEMMA DispatchEffect ==
    ASSUME NEW c \in Connectors, c.queue # << >>, NEW d, d = [c EXCEPT !.queue = Tail(@)]
    PROVE  /\ d \in Connectors /\ d.open = c.open /\ d.stopped = c.stopped
           /\ d.pending = c.pending /\ d.queue = Tail(c.queue)
           /\ \A X : Count(c.queue, X) = Hit(Head(c.queue), X) + Count(d.queue, X)
           /\ \E op \in Ops \cup {"connected"}, ok \in BOOLEAN :
                 /\ Called(c) = Completion(op, ok) /\ Head(c.queue).op = op
                 /\ op = "timedConnect" => Head(c.queue) = Completion(op, ok)
                 /\ \A X : Waiting(c, X) = Waiting(d, X) + Hit(op, X)
<1> DEFINE head == Head(c.queue)
           op == head.op
<1>1. c.queue \in Seq(Completions)
  BY DEF Connectors
<1>2. head \in Completions /\ Tail(c.queue) \in Seq(Completions)
  BY <1>1, HeadTailProperties
<1>3. op \in Ops \cup {"connected"} /\ head.ok \in BOOLEAN /\ head = Completion(op, head.ok)
  BY <1>2 DEF Completions, Completed, Completion
<1>4. /\ d \in Connectors /\ d.open = c.open /\ d.stopped = c.stopped
      /\ d.pending = c.pending /\ d.queue = Tail(c.queue)
  BY <1>2, Zenon DEF Connectors
<1>5. \A X : Count(c.queue, X) = Hit(head, X) + Count(d.queue, X)
  BY <1>1, <1>4, CountTail
<1>6. ASSUME NEW X PROVE Waiting(c, X) = Waiting(d, X) + Hit(op, X)
  <2>1. Hit(head, Completed(X)) = Hit(op, X)
    BY <1>3, CompletedHit
  <2>2. /\ Count(d.queue, Completed(X)) \in Nat /\ Count(d.pending, X) \in Nat
        /\ Hit(op, X) \in Nat
    BY <1>4, WaitingNat, Zenon DEF Hit
  <2>3. Count(c.queue, Completed(X)) = Hit(op, X) + Count(d.queue, Completed(X))
    BY <1>5, <2>1, Zenon
  <2>4. Count(c.pending, X) = Count(d.pending, X)
    BY <1>4
  <2> HIDE DEF op, head
  <2>5. QED
    BY <2>2, <2>3, <2>4 DEF Waiting
<1>7. \E ok \in BOOLEAN : /\ Called(c) = Completion(op, ok)
                          /\ op = "timedConnect" => head = Completion(op, ok)
  <2>1. CASE op = "connect" /\ ~c.open
    <3>1. Called(c) = Completion(op, FALSE)
      BY <2>1, Zenon DEF Called
    <3>2. QED
      BY <2>1, <3>1, Zenon
  <2>2. CASE ~(op = "connect" /\ ~c.open)
    <3>1. Called(c) = head
      BY <2>2, Zenon DEF Called
    <3>2. QED
      BY <1>3, <3>1, Zenon
  <2>3. QED
    BY <2>1, <2>2
<1> HIDE DEF op, head
<1>8. QED
  BY <1>3, <1>4, <1>5, <1>6, <1>7, Zenon DEF op, head
-----------------------------------------------------------------------------
(***************************************************************************)
(* Client: what its state asks of the connector and of the handler that is *)
(* called, and how the handlers keep it.                                   *)
(***************************************************************************)
\* InFlight with connector c and the handlers cur.
Flying(c, cur, ops) == Waiting(c, ops) + Count(cur, Completed(ops))

\* The operations that need an open socket, and those of a connection that may
\* be left over when the next attempt to connect is scheduled.
Opened == {"connect", "connected", "login", "watch"}
Stale == {"read", "keepAlive", "deadline"}

\* A timeout that was cancelled before the next attempt.
Cancelled == Completion("timedConnect", FALSE)

Calls(cur, ops) == cur # << >> /\ cur[1].op \in ops

\* What is left over of the old connection was completed before anything of the
\* new attempt.
Ordered(queue) ==
    \A i, j \in 1 .. Len(queue) : queue[i].op \in ConnectOps /\ queue[j].op \in Stale => j < i

\* CONNECTING, until the io_service is stopped.
ConnectingFit(c, cur, k) ==
    /\ Flying(c, cur, ConnectOps) = 1
    /\ Count(c.pending, Stale) = 0
    /\ Ordered(c.queue)
    /\ Calls(cur, ConnectOps) => Count(c.queue, Completed(Stale)) = 0
    /\ Flying(c, cur, Opened) > 0 => c.open
    /\ Flying(c, cur, {"login"}) > 0 => k = "APRS"
    /\ Flying(c, cur, {"watch"}) > 0 => k = "GPS"
    /\ Count(c.queue, {Cancelled}) = 0
    /\ cur # <<Cancelled>>

\* RUNNING
RunningFit(c, cur, k) ==
    /\ c.open
    /\ Flying(c, cur, ConnectOps) = 0
    /\ Flying(c, cur, {"read"}) = 1
    /\ Flying(c, cur, TimerOps) = IF k \in {"APRS", "SENSOR"} THEN 1 ELSE 0

\* STOPPING, until the io_service is stopped: it still has work.
StoppingFit(c, cur) == Flying(c, cur, ConnectOps \cup {"read"}) > 0

Fit(state, c, cur, k) ==
    /\ OpenFit(c)
    /\ state = "CONNECTING" /\ ~c.stopped => ConnectingFit(c, cur, k)
    /\ state = "RUNNING" => RunningFit(c, cur, k)
    /\ state = "STOPPING" /\ ~c.stopped => StoppingFit(c, cur)

\* Nothing is handled, or one operation is.
LEMMA FlyingHeld ==
    ASSUME NEW c \in Connectors
    PROVE  \A X : /\ Flying(c, << >>, X) = Waiting(c, X) /\ Waiting(c, X) \in Nat
                  /\ \A op \in Ops \cup {"connected"}, ok \in BOOLEAN :
                        /\ Flying(c, <<Completion(op, ok)>>, X) = Waiting(c, X) + Hit(op, X)
                        /\ Hit(op, X) \in Nat
<1> SUFFICES ASSUME NEW X
             PROVE  /\ Flying(c, << >>, X) = Waiting(c, X) /\ Waiting(c, X) \in Nat
                    /\ \A op \in Ops \cup {"connected"}, ok \in BOOLEAN :
                        /\ Flying(c, <<Completion(op, ok)>>, X) = Waiting(c, X) + Hit(op, X)
                        /\ Hit(op, X) \in Nat
  OBVIOUS
<1>1. Waiting(c, X) \in Nat
  BY WaitingNat
<1>2. Flying(c, << >>, X) = Waiting(c, X)
  BY <1>1, CountEmpty DEF Flying
<1>3. ASSUME NEW op \in Ops \cup {"connected"}, NEW ok \in BOOLEAN
      PROVE  /\ Flying(c, <<Completion(op, ok)>>, X) = Waiting(c, X) + Hit(op, X)
             /\ Hit(op, X) \in Nat
  <2>1. Count(<<Completion(op, ok)>>, Completed(X)) = Hit(Completion(op, ok), Completed(X))
    BY CountOne
  <2>2. Hit(Completion(op, ok), Completed(X)) = Hit(op, X)
    BY CompletedHit
  <2>3. QED
    BY <2>1, <2>2 DEF Flying, Hit
<1>4. QED
  BY <1>1, <1>2, <1>3

\* A handler is called for one operation.
LEMMA CallsHeld ==
    ASSUME NEW op, NEW ok, NEW X
    PROVE  (Calls(<<Completion(op, ok)>>, X) <=> op \in X) /\ ~Calls(<< >>, X)
  BY DEF Calls, Completion

\* Without an operation of ConnectOps the queue is in order, and no cancelled
\* timeout is in it.
LEMMA NoneOrdered ==
    ASSUME NEW c \in Connectors, Count(c.queue, Completed(ConnectOps)) = 0
    PROVE  Ordered(c.queue) /\ Count(c.queue, {Cancelled}) = 0
<1>1. c.queue \in Seq(Completions)
  BY DEF Connectors
<1>2. \A i \in 1 .. Len(c.queue) : c.queue[i] \notin Completed(ConnectOps)
  BY <1>1, CountZero
<1>3. \A i \in 1 .. Len(c.queue) : c.queue[i] \in Completions
  BY <1>1, ElementOfSeq
<1>4. \A x \in Completions : x \notin Completed(ConnectOps) => x.op \notin ConnectOps
  BY DEF Completions, Completed
<1>5. Ordered(c.queue)
  BY <1>2, <1>3, <1>4 DEF Ordered
<1>6. {Cancelled} \subseteq Completed(ConnectOps)
  BY DEF Cancelled, Completion, Completed, ConnectOps
<1>7. Count(c.queue, {Cancelled}) <= Count(c.queue, Completed(ConnectOps))
  BY <1>1, <1>6, CountSubset
<1>8. Count(c.queue, {Cancelled}) \in Nat
  BY WaitingNat
<1>9. QED
  BY <1>5, <1>7, <1>8

\* The next operation of an attempt is started when nothing else of it is left.
LEMMA AttemptFit ==
    ASSUME NEW c \in Connectors, OpenFit(c), NEW k,
           Waiting(c, ConnectOps) = 0, Count(c.pending, Stale) = 0,
           NEW op \in ConnectOps \ {"connected"},
           op \in Opened => c.open,
           op = "login" => k = "APRS", op = "watch" => k = "GPS"
    PROVE  /\ Start(c, op) \in Connectors /\ Start(c, op).stopped = c.stopped
           /\ OpenFit(Start(c, op)) /\ ConnectingFit(Start(c, op), << >>, k)
<1> DEFINE d == Start(c, op)
<1>1. op \in Ops /\ (op \in SocketOps => op \in Opened)
  BY DEF ConnectOps, Ops, SocketOps, WriteOps, TimerOps, Opened
<1>2. /\ d \in Connectors /\ d.queue = c.queue /\ d.open = c.open /\ d.stopped = c.stopped
      /\ \A X : Count(d.pending, X) = Count(c.pending, X) + Hit(op, X)
      /\ \A X : Waiting(d, X) = Waiting(c, X) + Hit(op, X)
  BY <1>1, StartEffect
<1>3. \A X : Flying(d, << >>, X) = Waiting(c, X) + Hit(op, X) /\ Hit(op, X) \in Nat
  BY <1>1, <1>2, FlyingHeld, Zenon
<1> HIDE DEF d
<1>4. /\ Waiting(c, Opened) = 0 /\ Waiting(c, {"login"}) = 0 /\ Waiting(c, {"watch"}) = 0
  <2>1. Opened \subseteq ConnectOps /\ {"login"} \subseteq ConnectOps /\ {"watch"} \subseteq ConnectOps
    BY DEF Opened, ConnectOps
  <2>2. /\ Waiting(c, Opened) <= Waiting(c, ConnectOps)
        /\ Waiting(c, {"login"}) <= Waiting(c, ConnectOps)
        /\ Waiting(c, {"watch"}) <= Waiting(c, ConnectOps)
    BY <2>1, WaitingSubset
  <2>3. Waiting(c, Opened) \in Nat /\ Waiting(c, {"login"}) \in Nat /\ Waiting(c, {"watch"}) \in Nat
    BY WaitingNat
  <2>4. QED
    BY <2>2, <2>3
<1>5. Count(c.queue, Completed(ConnectOps)) = 0
  <2>1. Count(c.queue, Completed(ConnectOps)) \in Nat /\ Count(c.pending, ConnectOps) \in Nat
    BY WaitingNat
  <2>2. QED
    BY <2>1 DEF Waiting
<1>6. Ordered(d.queue) /\ Count(d.queue, {Cancelled}) = 0
  BY <1>2, <1>5, NoneOrdered
<1>7. /\ Hit(op, ConnectOps) = 1 /\ Hit(op, Stale) = 0
      /\ Hit(op, Opened) > 0 => op \in Opened
      /\ Hit(op, {"login"}) > 0 => op = "login"
      /\ Hit(op, {"watch"}) > 0 => op = "watch"
      /\ Hit(op, SocketOps) > 0 => op \in SocketOps
  BY DEF Hit, ConnectOps, Stale
<1>8. OpenFit(d)
  <2>1. Count(c.pending, SocketOps) \in Nat
    BY WaitingNat
  <2>2. Count(d.pending, SocketOps) = Count(c.pending, SocketOps) + Hit(op, SocketOps)
    BY <1>2
  <2>3. Hit(op, SocketOps) \in Nat
    BY <1>3
  <2>4. QED
    BY <1>1, <1>2, <1>7, <2>1, <2>2, <2>3 DEF OpenFit
<1>9. Flying(d, << >>, ConnectOps) = 1 /\ Count(d.pending, Stale) = 0
  BY <1>2, <1>3, <1>7
<1>10. /\ Flying(d, << >>, Opened) > 0 => d.open
       /\ Flying(d, << >>, {"login"}) > 0 => k = "APRS"
       /\ Flying(d, << >>, {"watch"}) > 0 => k = "GPS"
  <2>1. /\ Flying(d, << >>, Opened) = Hit(op, Opened)
        /\ Flying(d, << >>, {"login"}) = Hit(op, {"login"})
        /\ Flying(d, << >>, {"watch"}) = Hit(op, {"watch"})
    <3>1. \A X : Waiting(c, X) = 0 => Flying(d, << >>, X) = Hit(op, X)
      BY <1>3
    <3>2. QED
      BY <1>4, <3>1, Zenon
  <2>2. QED
    BY <1>2, <1>7, <2>1, Zenon
<1>11. ~Calls(<< >>, ConnectOps) /\ << >> # <<Cancelled>>
  BY DEF Calls
<1>12. ConnectingFit(d, << >>, k)
  BY <1>6, <1>9, <1>10, <1>11, Zenon DEF ConnectingFit
<1>13. QED
  BY <1>2, <1>8, <1>12 DEF d

\* reconnect
LEMMA ReconnectFit ==
    ASSUME NEW c \in Connectors, OpenFit(c), NEW k, Waiting(c, ConnectOps) = 0,
           NEW d, d = onTimeout(close(c), "timedConnect")
    PROVE  /\ d \in Connectors /\ d.stopped = c.stopped
           /\ OpenFit(d) /\ ConnectingFit(d, << >>, k)
<1> DEFINE closed == close(c)
           reset == resetTimer(closed)
<1>1. /\ closed \in Connectors /\ closed.stopped = c.stopped
      /\ Count(closed.pending, SocketOps \cup TimerOps) = 0
      /\ \A X : Waiting(closed, X) = Waiting(c, X)
  BY CloseEffect, Zenon
<1> HIDE DEF closed
<1>2. /\ reset \in Connectors /\ reset.open = closed.open /\ reset.stopped = closed.stopped
      /\ \A X : Count(reset.pending, X) = Count(closed.pending, (Ops \ TimerOps) \cap X)
      /\ \A X : Waiting(reset, X) = Waiting(closed, X)
  BY <1>1, ResetEffect, Zenon
<1>3. d = Start(reset, "timedConnect")
  BY DEF onTimeout, closed
<1> HIDE DEF reset
<1>4. Count(reset.pending, Stale) = 0 /\ Count(reset.pending, SocketOps) = 0
  <2>1. closed.pending \in Seq(Ops)
    BY <1>1 DEF Connectors
  <2>2. /\ (Ops \ TimerOps) \cap Stale \subseteq SocketOps \cup TimerOps
        /\ (Ops \ TimerOps) \cap SocketOps \subseteq SocketOps \cup TimerOps
    BY DEF Stale, SocketOps, TimerOps
  <2>3. /\ Count(closed.pending, (Ops \ TimerOps) \cap Stale) <= Count(closed.pending, SocketOps \cup TimerOps)
        /\ Count(closed.pending, (Ops \ TimerOps) \cap SocketOps) <= Count(closed.pending, SocketOps \cup TimerOps)
    BY <2>1, <2>2, CountSubset
  <2>4. /\ Count(closed.pending, (Ops \ TimerOps) \cap Stale) \in Nat
        /\ Count(closed.pending, (Ops \ TimerOps) \cap SocketOps) \in Nat
    BY <1>1, WaitingNat
  <2>5. QED
    BY <1>1, <1>2, <2>3, <2>4
<1>5. OpenFit(reset)
  BY <1>4 DEF OpenFit
<1>6. Waiting(reset, ConnectOps) = 0
  BY <1>1, <1>2
<1>7. "timedConnect" \in ConnectOps \ {"connected"} /\ "timedConnect" \notin Opened
  BY DEF ConnectOps, Opened
<1>8. QED
  BY <1>1, <1>2, <1>3, <1>4, <1>5, <1>6, <1>7, AttemptFit

\* When an operation of an attempt is handled, it is all there is.
LEMMA AttemptHeld ==
    ASSUME NEW c \in Connectors, NEW k, NEW op \in ConnectOps, NEW ok \in BOOLEAN,
           ConnectingFit(c, <<Completion(op, ok)>>, k)
    PROVE  /\ Waiting(c, ConnectOps) = 0 /\ Count(c.pending, Stale) = 0
           /\ Waiting(c, {"read"}) = 0 /\ Waiting(c, TimerOps) = 0
           /\ op \in Opened => c.open
           /\ op = "login" => k = "APRS"
           /\ op = "watch" => k = "GPS"
<1> DEFINE cur == <<Completion(op, ok)>>
<1>1. op \in Ops \cup {"connected"}
  BY DEF ConnectOps, Ops, SocketOps, WriteOps, TimerOps
<1>2. \A X : Flying(c, cur, X) = Waiting(c, X) + Hit(op, X) /\ Waiting(c, X) \in Nat
  BY <1>1, FlyingHeld, Zenon
<1>3. /\ Flying(c, cur, ConnectOps) = 1
      /\ Count(c.pending, Stale) = 0
      /\ Calls(cur, ConnectOps) => Count(c.queue, Completed(Stale)) = 0
      /\ Flying(c, cur, Opened) > 0 => c.open
      /\ Flying(c, cur, {"login"}) > 0 => k = "APRS"
      /\ Flying(c, cur, {"watch"}) > 0 => k = "GPS"
  BY Zenon DEF ConnectingFit
<1>4. Calls(cur, ConnectOps)
  BY CallsHeld, Zenon
<1> HIDE DEF cur
<1>5. \A X : op \in X => Flying(c, cur, X) > 0
  <2>1. \A X : op \in X => Hit(op, X) = 1
    BY Zenon DEF Hit
  <2>2. QED
    BY <1>2, <2>1
<1>6. Waiting(c, ConnectOps) = 0
  <2>1. Flying(c, cur, ConnectOps) = Waiting(c, ConnectOps) + Hit(op, ConnectOps) /\ Waiting(c, ConnectOps) \in Nat
    BY <1>2, Zenon
  <2>2. Hit(op, ConnectOps) = 1
    BY DEF Hit
  <2>3. QED
    BY <1>3, <2>1, <2>2
<1>7. Waiting(c, Stale) = 0
  BY <1>3, <1>4 DEF Waiting
<1>8. Waiting(c, ConnectOps \cup Stale) = 0
  <2>1. ConnectOps \cap Stale = {}
    BY DEF ConnectOps, Stale
  <2>2. QED
    BY <1>6, <1>7, <2>1, WaitingUnion
<1>9. Waiting(c, {"read"}) = 0 /\ Waiting(c, TimerOps) = 0
  <2>1. {"read"} \subseteq ConnectOps \cup Stale /\ TimerOps \subseteq ConnectOps \cup Stale
    BY DEF ConnectOps, Stale, TimerOps
  <2>2. /\ Waiting(c, {"read"}) <= Waiting(c, ConnectOps \cup Stale)
        /\ Waiting(c, TimerOps) <= Waiting(c, ConnectOps \cup Stale)
    BY <2>1, WaitingSubset
  <2>3. Waiting(c, {"read"}) \in Nat /\ Waiting(c, TimerOps) \in Nat
    BY WaitingNat
  <2>4. QED
    BY <1>8, <2>2, <2>3
<1>10. /\ op \in Opened => c.open
       /\ op = "login" => k = "APRS"
       /\ op = "watch" => k = "GPS"
  <2>1. /\ op = "login" => op \in {"login"}
        /\ op = "watch" => op \in {"watch"}
    OBVIOUS
  <2>2. QED
    BY <1>3, <1>5, <2>1, Zenon
<1>11. QED
  BY <1>3, <1>6, <1>9, <1>10

\* onTimeout with a new expiry time
LEMMA TimeoutEffect ==
    ASSUME NEW c \in Connectors, NEW op \in TimerOps
    PROVE  /\ onTimeout(c, op) \in Connectors
           /\ onTimeout(c, op).open = c.open /\ onTimeout(c, op).stopped = c.stopped
           /\ \A X : Waiting(onTimeout(c, op), X) = Waiting(c, X) + Hit(op, X)
<1> DEFINE reset == resetTimer(c)
<1>1. /\ reset \in Connectors /\ reset.open = c.open /\ reset.stopped = c.stopped
      /\ \A X : Waiting(reset, X) = Waiting(c, X)
  BY ResetEffect, Zenon
<1>2. onTimeout(c, op) = Start(reset, op) /\ op \in Ops
  BY DEF onTimeout, Ops
<1> HIDE DEF reset
<1>3. QED
  BY <1>1, <1>2, StartEffect

\* read
LEMMA ReadEffect ==
    ASSUME NEW c \in Connectors, c.open
    PROVE  /\ ReadOn(c) \in Connectors /\ ReadOn(c).open /\ ReadOn(c).stopped = c.stopped
           /\ \A X : Waiting(ReadOn(c), X) = Waiting(c, X) + Hit("read", X)
<1>1. "read" \in Ops
  BY DEF Ops, SocketOps
<1>2. CASE kind = "SENSOR"
  <2> DEFINE reset == resetTimer(c)
  <2>1. /\ reset \in Connectors /\ reset.open = c.open /\ reset.stopped = c.stopped
        /\ \A X : Waiting(reset, X) = Waiting(c, X)
    BY ResetEffect, Zenon
  <2>2. ReadOn(c) = Start(reset, "read")
    BY <1>2, <2>1 DEF ReadOn, onRead
  <2> HIDE DEF reset
  <2>3. /\ Start(reset, "read") \in Connectors /\ Start(reset, "read").open = reset.open
        /\ Start(reset, "read").stopped = reset.stopped
        /\ \A X : Waiting(Start(reset, "read"), X) = Waiting(reset, X) + Hit("read", X)
    BY <1>1, <2>1, StartEffect, Zenon
  <2>4. QED
    BY <2>1, <2>2, <2>3, Zenon
<1>3. CASE kind # "SENSOR"
  <2>1. ReadOn(c) = Start(c, "read")
    BY <1>3 DEF ReadOn, onRead
  <2>2. QED
    BY <1>1, <2>1, StartEffect
<1>4. QED
  BY <1>2, <1>3

\* An open connection's write
LEMMA WriteEffect ==
    ASSUME NEW c \in Connectors, c.open, NEW op \in WriteOps
    PROVE  /\ onWrite(c, op) = Start(c, op) /\ op \in Ops
           /\ onWrite(c, op) \in Connectors
           /\ onWrite(c, op).open /\ onWrite(c, op).stopped = c.stopped
           /\ \A X : Waiting(onWrite(c, op), X) = Waiting(c, X) + Hit(op, X)
<1>1. onWrite(c, op) = Start(c, op) /\ op \in Ops
  BY DEF onWrite, Ops, SocketOps
<1>2. /\ Start(c, op) \in Connectors /\ Start(c, op).open = c.open
      /\ Start(c, op).stopped = c.stopped
      /\ \A X : Waiting(Start(c, op), X) = Waiting(c, X) + Hit(op, X)
  BY <1>1, StartEffect, Zenon
<1>3. QED
  BY <1>1, <1>2, Zenon

\* An open connection with one read and the timer of its kind is RUNNING.
LEMMA EstablishedFit ==
    ASSUME NEW d \in Connectors, d.open, NEW k,
           Waiting(d, ConnectOps) = 0, Waiting(d, {"read"}) = 1,
           Waiting(d, TimerOps) = IF k \in {"APRS", "SENSOR"} THEN 1 ELSE 0
    PROVE  OpenFit(d) /\ RunningFit(d, << >>, k)
<1>1. /\ Flying(d, << >>, ConnectOps) = Waiting(d, ConnectOps)
      /\ Flying(d, << >>, {"read"}) = Waiting(d, {"read"})
      /\ Flying(d, << >>, TimerOps) = Waiting(d, TimerOps)
  BY FlyingHeld, Zenon
<1>2. QED
  BY <1>1, Zenon DEF OpenFit, RunningFit

\* handleConnect of SbsClient and handleWatch read.
LEMMA ReadFit ==
    ASSUME NEW c \in Connectors, c.open, kind \notin {"APRS", "SENSOR"},
           Waiting(c, ConnectOps) = 0, Waiting(c, {"read"}) = 0, Waiting(c, TimerOps) = 0
    PROVE  /\ ReadOn(c) \in Connectors /\ ReadOn(c).stopped = c.stopped
           /\ OpenFit(ReadOn(c)) /\ RunningFit(ReadOn(c), << >>, kind)
<1> DEFINE d == ReadOn(c)
<1>1. /\ d \in Connectors /\ d.open /\ d.stopped = c.stopped
      /\ \A X : Waiting(d, X) = Waiting(c, X) + Hit("read", X)
  BY ReadEffect, Zenon
<1>2. Hit("read", ConnectOps) = 0 /\ Hit("read", {"read"}) = 1 /\ Hit("read", TimerOps) = 0
  BY DEF Hit, ConnectOps, TimerOps
<1> HIDE DEF d
<1>3. Waiting(d, ConnectOps) = 0 /\ Waiting(d, {"read"}) = 1 /\ Waiting(d, TimerOps) = 0
  BY <1>1, <1>2
<1>4. OpenFit(d) /\ RunningFit(d, << >>, kind)
  BY <1>1, <1>3, EstablishedFit
<1>5. QED
  BY <1>1, <1>4 DEF d

\* handleConnect of SensorClient and handleLogin start a timer and read.
LEMMA TimedReadFit ==
    ASSUME NEW c \in Connectors, c.open, kind \in {"APRS", "SENSOR"},
           Waiting(c, ConnectOps) = 0, Waiting(c, {"read"}) = 0, Waiting(c, TimerOps) = 0,
           NEW op \in {"keepAlive", "deadline"}, NEW d, d = ReadOn(onTimeout(c, op))
    PROVE  /\ d \in Connectors /\ d.stopped = c.stopped
           /\ OpenFit(d) /\ RunningFit(d, << >>, kind)
<1> DEFINE e == onTimeout(c, op)
<1>1. op \in TimerOps
  BY DEF TimerOps
<1>2. /\ e \in Connectors /\ e.open = c.open /\ e.stopped = c.stopped
      /\ \A X : Waiting(e, X) = Waiting(c, X) + Hit(op, X)
  BY <1>1, TimeoutEffect, Zenon
<1> HIDE DEF e
<1>3. /\ d \in Connectors /\ d.open /\ d.stopped = c.stopped
      /\ \A X : Waiting(d, X) = Waiting(e, X) + Hit("read", X)
  <2>1. d = ReadOn(e) /\ e.open
    BY <1>2 DEF e
  <2>2. /\ ReadOn(e) \in Connectors /\ ReadOn(e).open /\ ReadOn(e).stopped = e.stopped
        /\ \A X : Waiting(ReadOn(e), X) = Waiting(e, X) + Hit("read", X)
    BY <1>2, <2>1, ReadEffect, Zenon
  <2>3. QED
    BY <1>2, <2>1, <2>2, Zenon
<1>4. /\ Hit("read", ConnectOps) = 0 /\ Hit("read", {"read"}) = 1 /\ Hit("read", TimerOps) = 0
      /\ Hit(op, ConnectOps) = 0 /\ Hit(op, {"read"}) = 0 /\ Hit(op, TimerOps) = 1
  BY DEF Hit, ConnectOps, TimerOps
<1>5. Waiting(d, ConnectOps) = 0 /\ Waiting(d, {"read"}) = 1 /\ Waiting(d, TimerOps) = 1
  <2>1. Waiting(e, ConnectOps) = 0 /\ Waiting(e, {"read"}) = 0 /\ Waiting(e, TimerOps) = 1
    BY <1>2, <1>4
  <2>2. QED
    BY <1>3, <1>4, <2>1
<1>6. QED
  BY <1>3, <1>5, EstablishedFit

\* A handler of a RUNNING client is not one of an attempt to connect.
LEMMA RunningHeld ==
    ASSUME NEW c \in Connectors, NEW k, NEW op \in Ops \cup {"connected"}, NEW ok \in BOOLEAN,
           RunningFit(c, <<Completion(op, ok)>>, k)
    PROVE  /\ c.open /\ op \notin ConnectOps /\ Waiting(c, ConnectOps) = 0
           /\ Waiting(c, {"read"}) + Hit(op, {"read"}) = 1
           /\ Waiting(c, TimerOps) + Hit(op, TimerOps) = IF k \in {"APRS", "SENSOR"} THEN 1 ELSE 0
<1> DEFINE cur == <<Completion(op, ok)>>
<1>1. \A X : /\ Flying(c, cur, X) = Waiting(c, X) + Hit(op, X)
             /\ Waiting(c, X) \in Nat /\ Hit(op, X) \in Nat
  BY FlyingHeld, Zenon
<1>2. /\ c.open /\ Flying(c, cur, ConnectOps) = 0 /\ Flying(c, cur, {"read"}) = 1
      /\ Flying(c, cur, TimerOps) = IF k \in {"APRS", "SENSOR"} THEN 1 ELSE 0
  BY Zenon DEF RunningFit
<1> HIDE DEF cur
<1>3. Waiting(c, ConnectOps) = 0 /\ Hit(op, ConnectOps) = 0
  BY <1>1, <1>2
<1>4. op \notin ConnectOps
  BY <1>3 DEF Hit
<1>5. /\ Flying(c, cur, {"read"}) = Waiting(c, {"read"}) + Hit(op, {"read"})
      /\ Flying(c, cur, TimerOps) = Waiting(c, TimerOps) + Hit(op, TimerOps)
  BY <1>1, Zenon
<1>6. QED
  BY <1>2, <1>3, <1>4, <1>5, Zenon

\* A handler that starts another operation like the one it handles keeps a
\* client RUNNING.
LEMMA ContinueFit ==
    ASSUME NEW c \in Connectors, NEW k, NEW op \in Ops \cup {"connected"}, NEW ok \in BOOLEAN,
           RunningFit(c, <<Completion(op, ok)>>, k), NEW d \in Connectors, d.open,
           Waiting(d, ConnectOps) = Waiting(c, ConnectOps),
           Waiting(d, {"read"}) = Waiting(c, {"read"}) + Hit(op, {"read"}),
           Waiting(d, TimerOps) = Waiting(c, TimerOps) + Hit(op, TimerOps)
    PROVE  OpenFit(d) /\ RunningFit(d, << >>, k)
<1>1. /\ Waiting(c, ConnectOps) = 0
      /\ Waiting(c, {"read"}) + Hit(op, {"read"}) = 1
      /\ Waiting(c, TimerOps) + Hit(op, TimerOps) = IF k \in {"APRS", "SENSOR"} THEN 1 ELSE 0
  BY RunningHeld, Zenon
<1>2. /\ Waiting(d, ConnectOps) = 0 /\ Waiting(d, {"read"}) = 1
      /\ Waiting(d, TimerOps) = IF k \in {"APRS", "SENSOR"} THEN 1 ELSE 0
  BY <1>1, Zenon
<1>3. QED
  BY <1>2, EstablishedFit

\* A handler may ignore an operation that its state does not wait for.
LEMMA IgnoreFit ==
    ASSUME NEW c \in Connectors, NEW k, NEW op \in Ops \cup {"connected"}, NEW ok \in BOOLEAN,
           NEW state, Fit(state, c, <<Completion(op, ok)>>, k),
           state = "CONNECTING" => op \notin ConnectOps,
           state = "RUNNING" => op \notin {"read"} \cup TimerOps,
           state = "STOPPING" /\ ~c.stopped => op \notin ConnectOps \cup {"read"}
    PROVE  Fit(state, c, << >>, k)
<1> DEFINE cur == <<Completion(op, ok)>>
<1>1. \A X : /\ Flying(c, cur, X) = Waiting(c, X) + Hit(op, X)
             /\ Waiting(c, X) \in Nat /\ Hit(op, X) \in Nat
             /\ Flying(c, << >>, X) = Waiting(c, X)
  BY FlyingHeld, Zenon
<1>2. \A X : op \notin X => Hit(op, X) = 0
  BY Zenon DEF Hit
<1>3. \A X : op \notin X => Flying(c, << >>, X) = Flying(c, cur, X)
  BY <1>1, <1>2
<1>4. Fit(state, c, cur, k)
  OBVIOUS
<1>5. ~Calls(<< >>, ConnectOps) /\ << >> # <<Cancelled>>
  BY DEF Calls
<1> HIDE DEF cur
<1>6. CASE state = "CONNECTING" /\ ~c.stopped
  <2>1. ConnectingFit(c, cur, k)
    BY <1>4, <1>6, Zenon DEF Fit
  <2>2. op \notin ConnectOps /\ op \notin Opened /\ op \notin {"login"} /\ op \notin {"watch"}
    BY <1>6 DEF ConnectOps, Opened
  <2>3. ConnectingFit(c, << >>, k)
    <3>1. /\ Flying(c, << >>, ConnectOps) = Flying(c, cur, ConnectOps)
          /\ Flying(c, << >>, Opened) = Flying(c, cur, Opened)
          /\ Flying(c, << >>, {"login"}) = Flying(c, cur, {"login"})
          /\ Flying(c, << >>, {"watch"}) = Flying(c, cur, {"watch"})
      BY <1>3, <2>2, Zenon
    <3>2. QED
      BY <1>5, <2>1, <3>1, Zenon DEF ConnectingFit
  <2>4. QED
    BY <1>4, <1>6, <2>3 DEF Fit
<1>7. CASE state = "RUNNING"
  <2>1. RunningFit(c, cur, k)
    BY <1>4, <1>7, Zenon DEF Fit
  <2>2. op \notin ConnectOps /\ op \notin {"read"} /\ op \notin TimerOps
    BY <1>7, <2>1, RunningHeld, Zenon DEF cur
  <2>3. RunningFit(c, << >>, k)
    <3>1. /\ Flying(c, << >>, ConnectOps) = Flying(c, cur, ConnectOps)
          /\ Flying(c, << >>, {"read"}) = Flying(c, cur, {"read"})
          /\ Flying(c, << >>, TimerOps) = Flying(c, cur, TimerOps)
      BY <1>3, <2>2, Zenon
    <3>2. QED
      BY <2>1, <3>1, Zenon DEF RunningFit
  <2>4. QED
    BY <1>4, <1>7, <2>3 DEF Fit
<1>8. CASE state = "STOPPING" /\ ~c.stopped
  <2>1. Flying(c, << >>, ConnectOps \cup {"read"}) = Flying(c, cur, ConnectOps \cup {"read"})
    BY <1>3, <1>8, Zenon
  <2>2. QED
    BY <1>4, <1>8, <2>1 DEF Fit, StoppingFit
<1>9. QED
  BY <1>4, <1>6, <1>7, <1>8 DEF Fit

\* The environment completes an operation.
LEMMA CompleteFit ==
    ASSUME NEW c \in Connectors, NEW k, NEW state, NEW cur, Fit(state, c, cur, k),
           NEW i \in DOMAIN c.pending, NEW ok \in BOOLEAN, MayComplete(c, i, ok)
    PROVE  /\ Complete(c, i, ok) \in Connectors /\ Complete(c, i, ok).stopped = c.stopped
           /\ Fit(state, Complete(c, i, ok), cur, k)
<1> DEFINE d == Complete(c, i, ok)
           op == c.pending[i]
           done == Completion(op, ok)
<1>1. /\ op \in Ops /\ d \in Connectors /\ d.open = c.open /\ d.stopped = c.stopped
      /\ d.queue = Append(c.queue, done)
      /\ \A X : Count(c.pending, X) = Count(d.pending, X) + Hit(op, X)
      /\ \A X : Waiting(d, X) = Waiting(c, X)
  BY CompleteEffect, Zenon
<1>2. /\ c.queue \in Seq(Completions) /\ done \in Completions
      /\ \A X : Hit(done, Completed(X)) = Hit(op, X)
  BY <1>1, CompletedHit DEF Connectors
<1>3. done # Cancelled /\ done.op = op
  BY DEF MayComplete, Completion, Cancelled, TimerOps
<1> HIDE DEF d, op, done
<1>4. \A X : Flying(d, cur, X) = Flying(c, cur, X)
  BY <1>1, Zenon DEF Flying
<1>5. \A X : Count(d.pending, X) \in Nat /\ Hit(op, X) \in Nat /\ Count(c.queue, X) \in Nat
  <2>1. \A X : Hit(op, X) \in Nat
    BY DEF Hit
  <2>2. QED
    BY <1>1, <2>1, WaitingNat, Zenon
<1>6. OpenFit(d)
  <2>1. Count(c.pending, SocketOps) = Count(d.pending, SocketOps) + Hit(op, SocketOps)
    BY <1>1, Zenon
  <2>2. Count(d.pending, SocketOps) \in Nat /\ Hit(op, SocketOps) \in Nat
    BY <1>5
  <2>3. OpenFit(c)
    BY DEF Fit
  <2>4. QED
    BY <1>1, <2>1, <2>2, <2>3 DEF OpenFit
<1>7. ASSUME ConnectingFit(c, cur, k) PROVE ConnectingFit(d, cur, k)
  <2>1. Count(d.pending, Stale) = 0 /\ Hit(op, Stale) = 0
    <3>1. Count(c.pending, Stale) = Count(d.pending, Stale) + Hit(op, Stale)
      BY <1>1, Zenon
    <3>2. Count(d.pending, Stale) \in Nat /\ Hit(op, Stale) \in Nat
      BY <1>5
    <3>3. Count(c.pending, Stale) = 0
      BY <1>7 DEF ConnectingFit
    <3>4. QED
      BY <3>1, <3>2, <3>3
  <2>2. Ordered(d.queue)
    <3>1. op \notin Stale
      BY <2>1 DEF Hit
    <3>2. /\ Len(c.queue) \in Nat /\ Len(d.queue) = Len(c.queue) + 1
          /\ d.queue[Len(c.queue) + 1] = done
          /\ \A j \in 1 .. Len(c.queue) : d.queue[j] = c.queue[j]
      BY <1>1, <1>2, AppendProperties, LenProperties
    <3>3. \A m \in 1 .. Len(d.queue) : m \in 1 .. Len(c.queue) \/ m = Len(c.queue) + 1
      BY <3>2
    <3>4. Ordered(c.queue)
      BY <1>7 DEF ConnectingFit
    <3>5. SUFFICES ASSUME NEW a \in 1 .. Len(d.queue), NEW b \in 1 .. Len(d.queue),
                          d.queue[a].op \in ConnectOps, d.queue[b].op \in Stale
                   PROVE  b < a
      BY DEF Ordered
    <3>6. b \in 1 .. Len(c.queue) /\ c.queue[b].op \in Stale
      BY <1>3, <3>1, <3>2, <3>3, <3>5
    <3>7. CASE a = Len(c.queue) + 1
      BY <3>2, <3>6, <3>7
    <3>8. CASE a \in 1 .. Len(c.queue)
      BY <3>2, <3>4, <3>5, <3>6, <3>8 DEF Ordered
    <3>9. QED
      BY <3>3, <3>7, <3>8
  <2>3. Count(d.queue, Completed(Stale)) = Count(c.queue, Completed(Stale))
    <3>1. Count(d.queue, Completed(Stale)) = Count(c.queue, Completed(Stale)) + Hit(done, Completed(Stale))
      BY <1>1, <1>2, CountAppend
    <3>2. Hit(done, Completed(Stale)) = 0 /\ Count(c.queue, Completed(Stale)) \in Nat
      BY <1>2, <1>5, <2>1
    <3>3. QED
      BY <3>1, <3>2
  <2>4. Count(d.queue, {Cancelled}) = 0
    <3>1. Count(d.queue, {Cancelled}) = Count(c.queue, {Cancelled}) + Hit(done, {Cancelled})
      BY <1>1, <1>2, CountAppend
    <3>2. Hit(done, {Cancelled}) = 0
      BY <1>3 DEF Hit
    <3>3. Count(c.queue, {Cancelled}) = 0
      BY <1>7 DEF ConnectingFit
    <3>4. QED
      BY <3>1, <3>2, <3>3
  <2>5. QED
    BY <1>1, <1>4, <1>7, <2>1, <2>2, <2>3, <2>4, Zenon DEF ConnectingFit
<1>8. ASSUME RunningFit(c, cur, k) PROVE RunningFit(d, cur, k)
  BY <1>1, <1>4, <1>8, Zenon DEF RunningFit
<1>9. ASSUME StoppingFit(c, cur) PROVE StoppingFit(d, cur)
  BY <1>4, <1>9, Zenon DEF StoppingFit
<1>10. Fit(state, d, cur, k)
  BY <1>1, <1>6, <1>7, <1>8, <1>9, Zenon DEF Fit
<1>11. QED
  BY <1>1, <1>10 DEF d

\* The io_service calls the next handler.
LEMMA DispatchFit ==
    ASSUME NEW c \in Connectors, NEW k, NEW state, Fit(state, c, << >>, k),
           c.queue # << >>, NEW d, d = [c EXCEPT !.queue = Tail(@)]
    PROVE  /\ d \in Connectors /\ d.stopped = c.stopped
           /\ <<Called(c)>> \in {<<x>> : x \in Completions}
           /\ Fit(state, d, <<Called(c)>>, k)
<1> DEFINE head == Head(c.queue)
<1>1. /\ d \in Connectors /\ d.open = c.open /\ d.stopped = c.stopped
      /\ d.pending = c.pending /\ d.queue = Tail(c.queue)
      /\ \A X : Count(c.queue, X) = Hit(head, X) + Count(d.queue, X)
  BY DispatchEffect
<1>2. PICK op \in Ops \cup {"connected"}, ok \in BOOLEAN :
         /\ Called(c) = Completion(op, ok) /\ head.op = op
         /\ op = "timedConnect" => head = Completion(op, ok)
         /\ \A X : Waiting(c, X) = Waiting(d, X) + Hit(op, X)
  BY DispatchEffect
<1> DEFINE cur == <<Completion(op, ok)>>
<1>3. Completion(op, ok) \in Completions
  BY CompletedHit
<1>4. c.queue \in Seq(Completions)
  BY DEF Connectors
<1>5. \A X : Flying(d, cur, X) = Flying(c, << >>, X)
  <2>1. \A X : Flying(c, << >>, X) = Waiting(c, X)
    BY FlyingHeld, Zenon
  <2>2. \A X : Flying(d, cur, X) = Waiting(d, X) + Hit(op, X)
    BY <1>1, FlyingHeld, Zenon
  <2>3. QED
    BY <1>2, <2>1, <2>2, Zenon
<1>6. OpenFit(d)
  BY <1>1 DEF Fit, OpenFit
<1>7. ASSUME ConnectingFit(c, << >>, k) PROVE ConnectingFit(d, cur, k)
  <2>1. /\ Len(c.queue) \in Nat \ {0} /\ Len(d.queue) = Len(c.queue) - 1
        /\ \A i \in 1 .. Len(d.queue) : d.queue[i] = c.queue[i + 1] /\ i + 1 \in 1 .. Len(c.queue)
        /\ c.queue[1] = head
    BY <1>1, <1>4, HeadTailProperties, EmptySeq
  <2>2. Ordered(c.queue) /\ Count(c.queue, {Cancelled}) = 0 /\ Count(c.pending, Stale) = 0
    BY <1>7 DEF ConnectingFit
  <2>3. Ordered(d.queue)
    BY <2>1, <2>2 DEF Ordered
  <2>4. Count(d.queue, {Cancelled}) = 0 /\ head # Cancelled
    <3>1. Count(c.queue, {Cancelled}) = Hit(head, {Cancelled}) + Count(d.queue, {Cancelled})
      BY <1>1, Zenon
    <3>2. Count(d.queue, {Cancelled}) \in Nat
      BY <1>1, WaitingNat, Zenon
    <3>3. QED
      BY <2>2, <3>1, <3>2 DEF Hit
  <2>5. cur # <<Cancelled>>
    <3>1. SUFFICES ASSUME Completion(op, ok) = Cancelled PROVE FALSE
      OBVIOUS
    <3>2. op = "timedConnect"
      BY <3>1 DEF Completion, Cancelled
    <3>3. QED
      BY <1>2, <2>4, <3>1, <3>2, Zenon
  <2>6. Calls(cur, ConnectOps) => Count(d.queue, Completed(Stale)) = 0
    <3>1. SUFFICES ASSUME op \in ConnectOps PROVE Count(d.queue, Completed(Stale)) = 0
      BY CallsHeld, Zenon
    <3>2. \A j \in 1 .. Len(c.queue) : c.queue[j].op \notin Stale
      BY <1>2, <2>1, <2>2, <3>1 DEF Ordered
    <3>3. \A j \in 1 .. Len(d.queue) : d.queue[j] \notin Completed(Stale)
      BY <2>1, <3>2 DEF Completed
    <3>4. d.queue \in Seq(Completions)
      BY <1>1 DEF Connectors
    <3>5. QED
      BY <3>3, <3>4, CountZero, Zenon
  <2>7. QED
    BY <1>1, <1>5, <1>7, <2>2, <2>3, <2>4, <2>5, <2>6, Zenon DEF ConnectingFit
<1>8. ASSUME RunningFit(c, << >>, k) PROVE RunningFit(d, cur, k)
  BY <1>1, <1>5, <1>8, Zenon DEF RunningFit
<1>9. ASSUME StoppingFit(c, << >>) PROVE StoppingFit(d, cur)
  BY <1>5, <1>9, Zenon DEF StoppingFit
<1>10. Fit(state, d, cur, k)
  BY <1>1, <1>6, <1>7, <1>8, <1>9, Zenon DEF Fit
<1>11. QED
  BY <1>1, <1>2, <1>3, <1>10, Zenon
-----------------------------------------------------------------------------
(***************************************************************************)
(* Client: the two threads.                                                *)
(***************************************************************************)
AfterStop == {"endStop", "join"}

\* Where the two threads are, and what they have done to the state.
Control ==
    /\ mutex = "main" <=> mainPc \in {"unwatch", "stopIo"}
    /\ clientPc = "start" => m_state = "NONE" /\ m_connector = IdleConnector /\ current = << >>
    /\ clientPc = "run" => m_state # "NONE"
    /\ clientPc = "returned" => m_connector.stopped /\ m_state # "NONE"
    /\ clientPc \in {"erase", "done"} => m_state = "NONE"
    /\ clientPc = "aborted" => m_state = "STOPPING" /\ mainPc \in AfterStop \cup {"stopIo"}
    /\ mainPc = "unwatch" => m_state = "RUNNING"
    /\ mainPc = "stopIo" =>
          m_state = "STOPPING" /\ ~m_connector.stopped /\ clientPc \in {"run", "aborted"}
    /\ mainPc = "joined" => clientPc = "done"
    /\ m_connector.stopped /\ clientPc \in {"run", "returned"} =>
          /\ m_state \in {"STOPPING", "CONNECTING"}
          /\ current # << >> => m_state = "STOPPING" /\ mainPc \in AfterStop
          /\ m_state = "CONNECTING" => mainPc \in AfterStop
    /\ m_state = "STOPPING" /\ ~m_connector.stopped => mainPc = "stopIo"
    /\ mainPc \in {"serve", "scheduleStop", "unwatch"} => ~early

CInv == TypeOK /\ Control /\ Fit(m_state, m_connector, current, kind)

\* TypeOK says of the connector what Connectors says.
LEMMA TypeOKConnector ==
    TypeOK => m_connector \in Connectors /\ m_connector.stopped \in BOOLEAN
  BY DEF TypeOK, Connectors

\* A handler runs in a client that is connecting, running or stopped.
LEMMA HandlerState ==
    ASSUME TypeOK, Control, clientPc = "run", mutex = "free", current # << >>
    PROVE  /\ mainPc \notin {"unwatch", "stopIo"}
           /\ \/ m_state \in {"CONNECTING", "RUNNING"} /\ ~m_connector.stopped
              \/ m_state = "STOPPING" /\ m_connector.stopped /\ mainPc \in AfterStop
<1>1. m_state \in {"CONNECTING", "RUNNING", "STOPPING"} /\ m_connector.stopped \in BOOLEAN
  BY TypeOKConnector DEF TypeOK, States, Control
<1>2. mainPc \notin {"unwatch", "stopIo"}
  BY DEF Control
<1>3. QED
  BY <1>1, <1>2 DEF Control

\* A handler has returned.
LEMMA HandledInv ==
    ASSUME CInv, NEW op, NEW ok, Handle(op, ok),
           m_connector' \in Connectors, Fit(m_state', m_connector', << >>, kind),
           \/ m_state' = m_state /\ m_connector'.stopped = m_connector.stopped
           \/ /\ m_state \in {"CONNECTING", "RUNNING"} /\ m_state' \in {"CONNECTING", "RUNNING"}
              /\ m_connector'.stopped = m_connector.stopped
           \/ m_state' = "STOPPING" /\ m_connector'.stopped
           \/ /\ m_state = "STOPPING" /\ m_state' = "CONNECTING"
              /\ m_connector'.stopped = m_connector.stopped
    PROVE  CInv'
<1>1. /\ clientPc = "run" /\ current # << >> /\ mutex = "free"
      /\ current' = << >> /\ clientPc' = "run" /\ mutex' = "free"
      /\ kind' = kind /\ mainPc' = mainPc /\ early' = early
  BY DEF Handle, Calling, main
<1>2. TypeOK /\ Control
  BY DEF CInv
<1>3. /\ mainPc \notin {"unwatch", "stopIo"}
      /\ \/ m_state \in {"CONNECTING", "RUNNING"} /\ ~m_connector.stopped
         \/ m_state = "STOPPING" /\ m_connector.stopped /\ mainPc \in AfterStop
  BY <1>1, <1>2, HandlerState
<1>4. m_state' \in States
  BY <1>2 DEF States, TypeOK
<1>5. TypeOK'
  BY <1>1, <1>2, <1>4, Zenon DEF TypeOK, Connectors
<1>6. mainPc # "joined" /\ (mainPc \in {"serve", "scheduleStop", "unwatch"} => ~early)
  BY <1>1, <1>2 DEF Control
<1>7. Control'
  BY <1>1, <1>3, <1>6 DEF Control
<1>8. Fit(m_state, m_connector, current, kind)'
  BY <1>1
<1>9. QED
  BY <1>5, <1>7, <1>8 DEF CInv

\* What a handler finds.
LEMMA HandlerFinds ==
    ASSUME CInv, NEW op \in Ops \cup {"connected"}, NEW ok \in BOOLEAN, Handle(op, ok)
    PROVE  /\ m_connector \in Connectors /\ OpenFit(m_connector)
           /\ Fit(m_state, m_connector, <<Completion(op, ok)>>, kind)
           /\ m_state = "CONNECTING" => ConnectingFit(m_connector, <<Completion(op, ok)>>, kind)
           /\ m_state = "RUNNING" => RunningFit(m_connector, <<Completion(op, ok)>>, kind)
           /\ \/ m_state \in {"CONNECTING", "RUNNING"} /\ ~m_connector.stopped
              \/ m_state = "STOPPING" /\ m_connector.stopped
<1>1. /\ clientPc = "run" /\ mutex = "free" /\ current = <<Completion(op, ok)>>
  BY Zenon DEF Handle, Calling
<1>2. TypeOK /\ Control /\ Fit(m_state, m_connector, <<Completion(op, ok)>>, kind)
  BY <1>1, Zenon DEF CInv
<1>3. current # << >>
  BY <1>1
<1>4. \/ m_state \in {"CONNECTING", "RUNNING"} /\ ~m_connector.stopped
      \/ m_state = "STOPPING" /\ m_connector.stopped
  BY <1>1, <1>2, <1>3, HandlerState, Zenon
<1>5. /\ m_connector \in Connectors /\ OpenFit(m_connector)
  BY <1>2, TypeOKConnector DEF Fit
<1>6. /\ m_state = "CONNECTING" => ConnectingFit(m_connector, <<Completion(op, ok)>>, kind)
      /\ m_state = "RUNNING" => RunningFit(m_connector, <<Completion(op, ok)>>, kind)
  <2>1. "CONNECTING" # "STOPPING" /\ (m_state = "CONNECTING" => ~m_connector.stopped)
    BY <1>4
  <2>2. QED
    BY <1>2, <2>1, Zenon DEF Fit
<1>7. QED
  BY <1>2, <1>4, <1>5, <1>6, Zenon

\* The handler ignores an operation that was cancelled or comes too late.
LEMMA IgnoredInv ==
    ASSUME CInv, NEW op \in Ops \cup {"connected"}, NEW ok \in BOOLEAN, Handle(op, ok),
           m_state = "CONNECTING" => op \notin ConnectOps,
           m_state = "RUNNING" => op \notin {"read"} \cup TimerOps,
           Ignore
    PROVE  CInv'
<1>1. /\ m_connector \in Connectors
      /\ Fit(m_state, m_connector, <<Completion(op, ok)>>, kind)
      /\ m_state = "STOPPING" => m_connector.stopped
  BY HandlerFinds, Zenon
<1>2. Fit(m_state, m_connector, << >>, kind)
  BY <1>1, IgnoreFit
<1>3. m_state' = m_state /\ m_connector' = m_connector
  BY DEF Ignore
<1>4. Fit(m_state', m_connector', << >>, kind) /\ m_connector' \in Connectors
  BY <1>1, <1>2, <1>3, Zenon
<1>5. QED
  BY <1>3, <1>4, HandledInv

\* The handler schedules the next attempt.
LEMMA ReconnectedInv ==
    ASSUME CInv, NEW op \in Ops \cup {"connected"}, NEW ok \in BOOLEAN, Handle(op, ok),
           \/ m_state = "CONNECTING" /\ op \in ConnectOps
           \/ m_state = "RUNNING",
           reconnect
    PROVE  CInv'
<1> DEFINE d == onTimeout(close(m_connector), "timedConnect")
<1>1. /\ m_connector \in Connectors /\ OpenFit(m_connector)
      /\ m_state = "CONNECTING" => ConnectingFit(m_connector, <<Completion(op, ok)>>, kind)
      /\ m_state = "RUNNING" => RunningFit(m_connector, <<Completion(op, ok)>>, kind)
  BY HandlerFinds, Zenon
<1>2. m_state' = "CONNECTING" /\ m_connector' = d
  BY DEF reconnect, Become
<1>3. Waiting(m_connector, ConnectOps) = 0
  <2>1. CASE m_state = "CONNECTING" /\ op \in ConnectOps
    BY <1>1, <2>1, AttemptHeld, Zenon
  <2>2. CASE m_state = "RUNNING"
    BY <1>1, <2>2, RunningHeld, Zenon
  <2>3. QED
    BY <2>1, <2>2
<1>4. /\ d \in Connectors /\ d.stopped = m_connector.stopped
      /\ OpenFit(d) /\ ConnectingFit(d, << >>, kind)
  BY <1>1, <1>3, ReconnectFit, Zenon
<1> HIDE DEF d
<1>5. Fit("CONNECTING", d, << >>, kind)
  BY <1>4 DEF Fit
<1>6. /\ m_state \in {"CONNECTING", "RUNNING"} /\ m_state' \in {"CONNECTING", "RUNNING"}
      /\ m_connector'.stopped = m_connector.stopped
      /\ Fit(m_state', m_connector', << >>, kind) /\ m_connector' \in Connectors
  BY <1>2, <1>4, <1>5
<1>7. QED
  BY <1>6, HandledInv

\* The handler starts the next operation of an attempt.
LEMMA AttemptedInv ==
    ASSUME CInv, NEW op \in ConnectOps, NEW ok \in BOOLEAN, Handle(op, ok),
           m_state = "CONNECTING", NEW next \in ConnectOps \ {"connected"},
           next \in Opened => op \in Opened,
           next = "login" => kind = "APRS", next = "watch" => kind = "GPS",
           m_state' = "CONNECTING", m_connector' = Start(m_connector, next)
    PROVE  CInv'
<1> DEFINE d == Start(m_connector, next)
<1>1. op \in Ops \cup {"connected"}
  BY DEF ConnectOps, Ops, SocketOps, WriteOps, TimerOps
<1>2. /\ m_connector \in Connectors /\ OpenFit(m_connector)
      /\ ConnectingFit(m_connector, <<Completion(op, ok)>>, kind)
  BY <1>1, HandlerFinds, Zenon
<1>3. /\ Waiting(m_connector, ConnectOps) = 0 /\ Count(m_connector.pending, Stale) = 0
      /\ next \in Opened => m_connector.open
  BY <1>2, AttemptHeld, Zenon
<1>4. /\ d \in Connectors /\ d.stopped = m_connector.stopped
      /\ OpenFit(d) /\ ConnectingFit(d, << >>, kind)
  BY <1>2, <1>3, AttemptFit, Zenon
<1> HIDE DEF d
<1>5. Fit("CONNECTING", d, << >>, kind)
  BY <1>4 DEF Fit
<1>6. /\ m_state' = m_state /\ m_connector'.stopped = m_connector.stopped
      /\ Fit(m_state', m_connector', << >>, kind) /\ m_connector' \in Connectors
  BY <1>4, <1>5 DEF d
<1>7. QED
  BY <1>6, HandledInv

\* The handler completes an attempt.
LEMMA EstablishedInv ==
    ASSUME CInv, NEW op \in Opened, NEW ok \in BOOLEAN, Handle(op, ok),
           m_state = "CONNECTING", m_state' = "RUNNING",
           \/ kind \notin {"APRS", "SENSOR"} /\ m_connector' = ReadOn(m_connector)
           \/ /\ kind \in {"APRS", "SENSOR"}
              /\ \E timer \in {"keepAlive", "deadline"} :
                    m_connector' = ReadOn(onTimeout(m_connector, timer))
    PROVE  CInv'
<1> DEFINE d == m_connector'
<1>1. op \in Ops \cup {"connected"} /\ op \in ConnectOps
  BY DEF Opened, ConnectOps, Ops, SocketOps, WriteOps
<1>2. /\ m_connector \in Connectors
      /\ ConnectingFit(m_connector, <<Completion(op, ok)>>, kind)
  BY <1>1, HandlerFinds, Zenon
<1>3. /\ Waiting(m_connector, ConnectOps) = 0 /\ Waiting(m_connector, {"read"}) = 0
      /\ Waiting(m_connector, TimerOps) = 0 /\ m_connector.open
  BY <1>1, <1>2, AttemptHeld, Zenon
<1>4. /\ d \in Connectors /\ d.stopped = m_connector.stopped
      /\ OpenFit(d) /\ RunningFit(d, << >>, kind)
  <2>1. CASE kind \notin {"APRS", "SENSOR"} /\ d = ReadOn(m_connector)
    BY <1>2, <1>3, <2>1, ReadFit, Zenon
  <2>2. ASSUME kind \in {"APRS", "SENSOR"}, NEW timer \in {"keepAlive", "deadline"},
               d = ReadOn(onTimeout(m_connector, timer))
        PROVE  /\ d \in Connectors /\ d.stopped = m_connector.stopped
               /\ OpenFit(d) /\ RunningFit(d, << >>, kind)
    BY <1>2, <1>3, <2>2, TimedReadFit, Zenon
  <2>3. QED
    BY <2>1, <2>2, Zenon
<1>5. Fit("RUNNING", d, << >>, kind)
  BY <1>4 DEF Fit
<1>6. /\ m_state \in {"CONNECTING", "RUNNING"} /\ m_state' \in {"CONNECTING", "RUNNING"}
      /\ m_connector'.stopped = m_connector.stopped
      /\ Fit(m_state', m_connector', << >>, kind) /\ m_connector' \in Connectors
  BY <1>4, <1>5
<1>7. QED
  BY <1>6, HandledInv

\* The handler of a RUNNING client goes on.
LEMMA ContinuedInv ==
    ASSUME CInv, NEW op \in Ops \cup {"connected"}, NEW ok \in BOOLEAN, Handle(op, ok),
           m_state = "RUNNING", m_state' = "RUNNING",
           m_connector' \in Connectors, m_connector'.open,
           m_connector'.stopped = m_connector.stopped,
           Waiting(m_connector', ConnectOps) = Waiting(m_connector, ConnectOps),
           Waiting(m_connector', {"read"}) = Waiting(m_connector, {"read"}) + Hit(op, {"read"}),
           Waiting(m_connector', TimerOps) = Waiting(m_connector, TimerOps) + Hit(op, TimerOps)
    PROVE  CInv'
<1>1. /\ m_connector \in Connectors
      /\ RunningFit(m_connector, <<Completion(op, ok)>>, kind)
  BY HandlerFinds, Zenon
<1>2. OpenFit(m_connector') /\ RunningFit(m_connector', << >>, kind)
  BY <1>1, ContinueFit, Zenon
<1>3. Fit(m_state', m_connector', << >>, kind)
  BY <1>2 DEF Fit
<1>4. m_state' = m_state
  OBVIOUS
<1>5. QED
  BY <1>3, <1>4, HandledInv, Zenon

\* StopSelf of a GpsdClient that is RUNNING
LEMMA StoppedSelfInv ==
    ASSUME CInv, NEW op \in Ops \cup {"connected"}, NEW ok \in BOOLEAN, Handle(op, ok),
           m_state = "RUNNING", kind = "GPS", StopSelf
    PROVE  CInv'
<1> DEFINE c == onWrite(m_connector, "unwatch")
           d == stop(c)
<1>1. /\ m_connector \in Connectors
      /\ RunningFit(m_connector, <<Completion(op, ok)>>, kind)
  BY HandlerFinds, Zenon
<1>2. m_connector.open
  BY <1>1, Zenon DEF RunningFit
<1>3. c \in Connectors /\ c.open
  <2>1. "unwatch" \in WriteOps
    BY DEF WriteOps
  <2>2. QED
    BY <1>1, <1>2, <2>1, WriteEffect, Zenon
<1>4. m_state' = "STOPPING" /\ m_connector' = d
  BY DEF StopSelf, Become
<1> HIDE DEF c
<1>5. close(c) \in Connectors /\ Count(close(c).pending, SocketOps \cup TimerOps) = 0
  BY <1>3, CloseEffect, Zenon DEF OpenFit
<1>6. d \in Connectors /\ d.stopped /\ d.pending = close(c).pending
  BY <1>5, Zenon DEF stop, Connectors
<1> HIDE DEF d
<1>7. OpenFit(d)
  <2>1. close(c).pending \in Seq(Ops)
    BY <1>5 DEF Connectors
  <2>2. SocketOps \subseteq SocketOps \cup TimerOps
    OBVIOUS
  <2>3. Count(d.pending, SocketOps) <= Count(close(c).pending, SocketOps \cup TimerOps)
    BY <1>6, <2>1, <2>2, CountSubset
  <2>4. Count(d.pending, SocketOps) \in Nat
    BY <1>6, WaitingNat
  <2>5. QED
    BY <1>5, <2>3, <2>4 DEF OpenFit
<1>8. Fit("STOPPING", d, << >>, kind)
  BY <1>6, <1>7 DEF Fit
<1>9. /\ m_state' = "STOPPING" /\ m_connector'.stopped
      /\ Fit(m_state', m_connector', << >>, kind) /\ m_connector' \in Connectors
  BY <1>4, <1>6, <1>8
<1>10. QED
  BY <1>9, HandledInv

\* The socket is open when an operation that needs it is handled.
LEMMA OpenedHeld ==
    ASSUME CInv, NEW op \in Opened, NEW ok \in BOOLEAN, Handle(op, ok), m_state = "CONNECTING"
    PROVE  /\ m_connector \in Connectors /\ m_connector.open
           /\ op = "login" => kind = "APRS"
           /\ op = "watch" => kind = "GPS"
<1>1. op \in Ops \cup {"connected"} /\ op \in ConnectOps
  BY DEF Opened, ConnectOps, Ops, SocketOps, WriteOps
<1>2. /\ m_connector \in Connectors
      /\ ConnectingFit(m_connector, <<Completion(op, ok)>>, kind)
  BY <1>1, HandlerFinds, Zenon
<1>3. QED
  BY <1>1, <1>2, AttemptHeld, Zenon

\* handleConnect
LEMMA HandleConnectInv == ASSUME CInv, HandleConnect PROVE CInv'
<1>1. "connected" \in Ops \cup {"connected"} /\ "connected" \in Opened /\ "connected" \in ConnectOps
  BY DEF Opened, ConnectOps
<1>2. ASSUME NEW ok \in BOOLEAN, Handle("connected", ok), m_state = "CONNECTING", Connected
      PROVE  CInv'
  <2>1. m_connector \in Connectors /\ m_connector.open
    BY <1>1, <1>2, OpenedHeld, Zenon
  <2>2. CASE kind = "APRS" /\ AprscConnected
    <3>1. "login" \in WriteOps /\ "login" \in ConnectOps \ {"connected"}
      BY DEF WriteOps, ConnectOps
    <3>2. m_state' = "CONNECTING" /\ m_connector' = Start(m_connector, "login")
      BY <2>1, <2>2, <3>1, WriteEffect DEF AprscConnected, Become
    <3>3. QED
      BY <1>1, <1>2, <2>2, <3>1, <3>2, AttemptedInv
  <2>3. CASE kind = "GPS" /\ GpsdConnected
    <3>1. "watch" \in WriteOps /\ "watch" \in ConnectOps \ {"connected"}
      BY DEF WriteOps, ConnectOps
    <3>2. m_state' = "CONNECTING" /\ m_connector' = Start(m_connector, "watch")
      BY <2>1, <2>3, <3>1, WriteEffect DEF GpsdConnected, Become
    <3>3. QED
      BY <1>1, <1>2, <2>3, <3>1, <3>2, AttemptedInv
  <2>4. CASE kind = "SBS" /\ SbsConnected
    <3>1. kind \notin {"APRS", "SENSOR"}
      BY <2>4
    <3>2. m_state' = "RUNNING" /\ m_connector' = ReadOn(m_connector)
      BY <2>4 DEF SbsConnected, Become
    <3>3. QED
      BY <1>1, <1>2, <3>1, <3>2, EstablishedInv, Zenon
  <2>5. CASE kind = "SENSOR" /\ SensorConnected
    <3>1. kind \in {"APRS", "SENSOR"}
      BY <2>5
    <3>2. /\ m_state' = "RUNNING"
          /\ \E timer \in {"keepAlive", "deadline"} :
                m_connector' = ReadOn(onTimeout(m_connector, timer))
      BY <2>5, Zenon DEF SensorConnected, Become
    <3>3. QED
      BY <1>1, <1>2, <3>1, <3>2, EstablishedInv, Zenon
  <2>6. QED
    BY <1>2, <2>2, <2>3, <2>4, <2>5 DEF Connected
<1>3. ASSUME NEW op \in {"connected", "resolve", "connect"}, NEW ok \in BOOLEAN,
             Handle(op, ok), m_state # "CONNECTING", Ignore
      PROVE  CInv'
  <2>1. op \in Ops \cup {"connected"} /\ op \notin {"read"} \cup TimerOps
    BY DEF Ops, SocketOps, TimerOps
  <2>2. QED
    BY <1>3, <2>1, IgnoredInv, Zenon
<1>4. ASSUME NEW op \in {"resolve", "connect"}, NEW ok \in BOOLEAN, Handle(op, ok),
             m_state = "CONNECTING", reconnect
      PROVE  CInv'
  <2>1. op \in Ops \cup {"connected"} /\ op \in ConnectOps
    BY DEF Ops, SocketOps, ConnectOps
  <2>2. QED
    BY <1>4, <2>1, ReconnectedInv, Zenon
<1>5. QED
  BY <1>2, <1>3, <1>4, Zenon DEF HandleConnect

\* handleLogin
LEMMA HandleLoginInv == ASSUME CInv, HandleLogin PROVE CInv'
<1>1. /\ "login" \in Ops \cup {"connected"} /\ "login" \in Opened /\ "login" \in ConnectOps
      /\ "login" \notin {"read"} \cup TimerOps
  BY DEF Ops, SocketOps, WriteOps, TimerOps, Opened, ConnectOps
<1>2. ASSUME NEW ok \in BOOLEAN, Handle("login", ok), m_state = "CONNECTING",
             Become("RUNNING", ReadOn(onTimeout(m_connector, "keepAlive")))
      PROVE  CInv'
  <2>1. kind = "APRS"
    BY <1>1, <1>2, OpenedHeld, Zenon
  <2>2. kind \in {"APRS", "SENSOR"}
    BY <2>1
  <2>3. /\ m_state' = "RUNNING"
        /\ \E timer \in {"keepAlive", "deadline"} :
              m_connector' = ReadOn(onTimeout(m_connector, timer))
    BY <1>2, Zenon DEF Become
  <2>4. QED
    BY <1>1, <1>2, <2>2, <2>3, EstablishedInv, Zenon
<1>3. ASSUME NEW ok \in BOOLEAN, Handle("login", ok), m_state # "CONNECTING", Ignore
      PROVE  CInv'
  BY <1>1, <1>3, IgnoredInv, Zenon
<1>4. ASSUME NEW ok \in BOOLEAN, Handle("login", ok), m_state = "CONNECTING", reconnect
      PROVE  CInv'
  BY <1>1, <1>4, ReconnectedInv, Zenon
<1>5. QED
  BY <1>2, <1>3, <1>4, Zenon DEF HandleLogin

\* handleWatch
LEMMA HandleWatchInv == ASSUME CInv, HandleWatch PROVE CInv'
<1>1. /\ "watch" \in Ops \cup {"connected"} /\ "watch" \in Opened /\ "watch" \in ConnectOps
      /\ "watch" \notin {"read"} \cup TimerOps
  BY DEF Ops, SocketOps, WriteOps, TimerOps, Opened, ConnectOps
<1>2. ASSUME NEW ok \in BOOLEAN, Handle("watch", ok), m_state = "CONNECTING",
             Become("RUNNING", ReadOn(m_connector))
      PROVE  CInv'
  <2>1. kind = "GPS"
    BY <1>1, <1>2, OpenedHeld, Zenon
  <2>2. kind \notin {"APRS", "SENSOR"}
    BY <2>1
  <2>3. m_state' = "RUNNING" /\ m_connector' = ReadOn(m_connector)
    BY <1>2, Zenon DEF Become
  <2>4. QED
    BY <1>1, <1>2, <2>2, <2>3, EstablishedInv, Zenon
<1>3. ASSUME NEW ok \in BOOLEAN, Handle("watch", ok), m_state # "CONNECTING", Ignore
      PROVE  CInv'
  BY <1>1, <1>3, IgnoredInv, Zenon
<1>4. ASSUME NEW ok \in BOOLEAN, Handle("watch", ok), m_state = "CONNECTING", reconnect
      PROVE  CInv'
  BY <1>1, <1>4, ReconnectedInv, Zenon
<1>5. QED
  BY <1>2, <1>3, <1>4, Zenon DEF HandleWatch

\* The connection of a RUNNING client is open.
LEMMA RunningOpen ==
    ASSUME CInv, NEW op \in Ops \cup {"connected"}, NEW ok \in BOOLEAN, Handle(op, ok),
           m_state = "RUNNING"
    PROVE  m_connector \in Connectors /\ m_connector.open
<1>1. m_connector \in Connectors /\ RunningFit(m_connector, <<Completion(op, ok)>>, kind)
  BY HandlerFinds, Zenon
<1>2. QED
  BY <1>1, Zenon DEF RunningFit

\* handleRead
LEMMA HandleReadInv == ASSUME CInv, HandleRead PROVE CInv'
<1>1. "read" \in Ops \cup {"connected"} /\ "read" \notin ConnectOps
  BY DEF Ops, SocketOps, ConnectOps
<1>2. ASSUME NEW ok \in BOOLEAN, Handle("read", ok), m_state # "RUNNING", Ignore
      PROVE  CInv'
  BY <1>1, <1>2, IgnoredInv, Zenon
<1>3. ASSUME NEW ok \in BOOLEAN, Handle("read", ok), m_state = "RUNNING",
             Become("RUNNING", ReadOn(m_connector))
      PROVE  CInv'
  <2>1. m_connector \in Connectors /\ m_connector.open
    BY <1>1, <1>3, RunningOpen, Zenon
  <2>2. m_state' = "RUNNING" /\ m_connector' = ReadOn(m_connector)
    BY <1>3, Zenon DEF Become
  <2>3. /\ m_connector' \in Connectors /\ m_connector'.open
        /\ m_connector'.stopped = m_connector.stopped
        /\ \A X : Waiting(m_connector', X) = Waiting(m_connector, X) + Hit("read", X)
    BY <2>1, <2>2, ReadEffect, Zenon
  <2>4. Waiting(m_connector', ConnectOps) = Waiting(m_connector, ConnectOps)
    <3>1. Waiting(m_connector, ConnectOps) \in Nat /\ Hit("read", ConnectOps) = 0
      BY <1>1, <2>1, WaitingNat DEF Hit
    <3>2. QED
      BY <2>3, <3>1
  <2>5. QED
    BY <1>1, <1>3, <2>2, <2>3, <2>4, ContinuedInv, Zenon
<1>4. ASSUME NEW ok \in BOOLEAN, Handle("read", ok), m_state = "RUNNING", kind = "GPS", StopSelf
      PROVE  CInv'
  BY <1>1, <1>4, StoppedSelfInv, Zenon
<1>5. ASSUME NEW ok \in BOOLEAN, Handle("read", ok), m_state = "RUNNING", reconnect
      PROVE  CInv'
  BY <1>1, <1>5, ReconnectedInv, Zenon
<1>6. QED
  BY <1>2, <1>3, <1>4, <1>5, Zenon DEF HandleRead

\* A timer's handler that starts another wait.
LEMMA TimerInv ==
    ASSUME CInv, NEW op \in {"keepAlive", "deadline"}, NEW ok \in BOOLEAN, Handle(op, ok),
           m_state = "RUNNING", m_state' = "RUNNING",
           m_connector' \in Connectors, m_connector'.open,
           m_connector'.stopped = m_connector.stopped,
           \A X \in {ConnectOps, {"read"}, TimerOps} :
              Waiting(m_connector', X) = Waiting(m_connector, X) + Hit(op, X)
    PROVE  CInv'
<1>1. op \in Ops \cup {"connected"} /\ op \notin ConnectOps
  BY DEF Ops, TimerOps, ConnectOps
<1>2. m_connector \in Connectors
  BY <1>1, RunningOpen, Zenon
<1>3. Waiting(m_connector, ConnectOps) \in Nat /\ Hit(op, ConnectOps) = 0
  BY <1>1, <1>2, WaitingNat DEF Hit
<1>4. Waiting(m_connector', ConnectOps) = Waiting(m_connector, ConnectOps) + Hit(op, ConnectOps)
  BY Zenon
<1>5. Waiting(m_connector', ConnectOps) = Waiting(m_connector, ConnectOps)
  BY <1>3, <1>4
<1>6. QED
  BY <1>1, <1>5, ContinuedInv, Zenon

\* handleSendKeepAlive
LEMMA HandleSendKeepAliveInv == ASSUME CInv, HandleSendKeepAlive PROVE CInv'
<1>1. /\ "keepAlive" \in Ops \cup {"connected"} /\ "keepAlive" \notin ConnectOps
      /\ "keepAlive" \in TimerOps
  BY DEF Ops, TimerOps, ConnectOps
<1>2. ASSUME NEW ok \in BOOLEAN, Handle("keepAlive", ok), m_state # "RUNNING", Ignore
      PROVE  CInv'
  BY <1>1, <1>2, IgnoredInv, Zenon
<1>3. ASSUME NEW ok \in BOOLEAN, Handle("keepAlive", ok), m_state = "RUNNING",
             Become("RUNNING", onTimeout(m_connector, "keepAlive"))
      PROVE  CInv'
  <2>1. m_connector \in Connectors /\ m_connector.open
    BY <1>1, <1>3, RunningOpen, Zenon
  <2>2. m_state' = "RUNNING" /\ m_connector' = onTimeout(m_connector, "keepAlive")
    BY <1>3, Zenon DEF Become
  <2>3. /\ m_connector' \in Connectors /\ m_connector'.open
        /\ m_connector'.stopped = m_connector.stopped
        /\ \A X : Waiting(m_connector', X) = Waiting(m_connector, X) + Hit("keepAlive", X)
    BY <1>1, <2>1, <2>2, TimeoutEffect, Zenon
  <2>4. QED
    BY <1>3, <2>2, <2>3, TimerInv, Zenon
<1>4. ASSUME NEW ok \in BOOLEAN, Handle("keepAlive", ok), m_state = "RUNNING",
             Become("RUNNING", onTimeout(onWrite(m_connector, "beacon"), "keepAlive"))
      PROVE  CInv'
  <2> DEFINE sent == onWrite(m_connector, "beacon")
  <2>1. m_connector \in Connectors /\ m_connector.open
    BY <1>1, <1>4, RunningOpen, Zenon
  <2>2. "beacon" \in WriteOps
    BY DEF WriteOps
  <2>3. /\ sent \in Connectors /\ sent.open /\ sent.stopped = m_connector.stopped
        /\ \A X : Waiting(sent, X) = Waiting(m_connector, X) + Hit("beacon", X)
    BY <2>1, <2>2, WriteEffect, Zenon
  <2>4. m_state' = "RUNNING" /\ m_connector' = onTimeout(sent, "keepAlive")
    BY <1>4, Zenon DEF Become
  <2> HIDE DEF sent
  <2>5. /\ m_connector' \in Connectors /\ m_connector'.open
        /\ m_connector'.stopped = m_connector.stopped
        /\ \A X : Waiting(m_connector', X) = Waiting(sent, X) + Hit("keepAlive", X)
    BY <1>1, <2>3, <2>4, TimeoutEffect, Zenon
  <2>6. ASSUME NEW X \in {ConnectOps, {"read"}, TimerOps}
        PROVE  Waiting(m_connector', X) = Waiting(m_connector, X) + Hit("keepAlive", X)
    <3>1. Hit("beacon", X) = 0
      BY DEF Hit, ConnectOps, TimerOps
    <3>2. Waiting(m_connector, X) \in Nat
      BY <2>1, WaitingNat
    <3>3. Waiting(sent, X) = Waiting(m_connector, X)
      BY <2>3, <3>1, <3>2
    <3>4. QED
      BY <2>5, <3>3, Zenon
  <2>7. QED
    BY <1>4, <2>4, <2>5, <2>6, TimerInv, Zenon
<1>5. QED
  BY <1>2, <1>3, <1>4, Zenon DEF HandleSendKeepAlive

\* The callback of the beacon's write.
LEMMA HandleBeaconInv == ASSUME CInv, HandleBeacon PROVE CInv'
<1>1. /\ "beacon" \in Ops \cup {"connected"} /\ "beacon" \notin ConnectOps
      /\ "beacon" \notin {"read"} \cup TimerOps
  BY DEF Ops, SocketOps, WriteOps, TimerOps, ConnectOps
<1>2. ASSUME NEW ok \in BOOLEAN, Handle("beacon", ok), Ignore PROVE CInv'
  BY <1>1, <1>2, IgnoredInv, Zenon
<1>3. ASSUME NEW ok \in BOOLEAN, Handle("beacon", ok), m_state = "RUNNING", reconnect
      PROVE  CInv'
  BY <1>1, <1>3, ReconnectedInv, Zenon
<1>4. QED
  BY <1>2, <1>3, Zenon DEF HandleBeacon

\* checkDeadline
LEMMA CheckDeadlineInv == ASSUME CInv, CheckDeadline PROVE CInv'
<1>1. /\ "deadline" \in Ops /\ "deadline" \in Ops \cup {"connected"} /\ "deadline" \notin ConnectOps
  BY DEF Ops, TimerOps, ConnectOps
<1>2. ASSUME NEW ok \in BOOLEAN, Handle("deadline", ok), m_state # "RUNNING", Ignore
      PROVE  CInv'
  BY <1>1, <1>2, IgnoredInv, Zenon
<1>3. ASSUME NEW ok \in BOOLEAN, Handle("deadline", ok), m_state = "RUNNING",
             Become("RUNNING", onTimeoutAgain(m_connector, "deadline"))
      PROVE  CInv'
  <2>1. m_connector \in Connectors /\ m_connector.open
    BY <1>1, <1>3, RunningOpen, Zenon
  <2>2. m_state' = "RUNNING" /\ m_connector' = Start(m_connector, "deadline")
    BY <1>3, Zenon DEF Become, onTimeoutAgain
  <2>3. /\ m_connector' \in Connectors /\ m_connector'.open
        /\ m_connector'.stopped = m_connector.stopped
        /\ \A X : Waiting(m_connector', X) = Waiting(m_connector, X) + Hit("deadline", X)
    BY <1>1, <2>1, <2>2, StartEffect, Zenon
  <2>4. QED
    BY <1>3, <2>2, <2>3, TimerInv, Zenon
<1>4. ASSUME NEW ok \in BOOLEAN, Handle("deadline", ok), m_state = "RUNNING", reconnect
      PROVE  CInv'
  BY <1>1, <1>4, ReconnectedInv, Zenon
<1>5. QED
  BY <1>2, <1>3, <1>4, Zenon DEF CheckDeadline

\* The wait before the next attempt is not called in a running client, and
\* its cancellation only in one that was stopped.
LEMMA TimedConnectFinds ==
    ASSUME CInv, NEW ok \in BOOLEAN, Handle("timedConnect", ok)
    PROVE  m_state # "RUNNING"
<1>1. "timedConnect" \in Ops \cup {"connected"} /\ "timedConnect" \in ConnectOps
  BY DEF Ops, TimerOps, ConnectOps
<1>2. SUFFICES ASSUME m_state = "RUNNING" PROVE FALSE
  OBVIOUS
<1>3. m_connector \in Connectors /\ RunningFit(m_connector, <<Completion("timedConnect", ok)>>, kind)
  BY <1>1, <1>2, HandlerFinds, Zenon
<1>4. QED
  BY <1>1, <1>3, RunningHeld, Zenon

\* The retry timer is never cancelled while the client is connecting.
LEMMA CancelledConnect ==
    ASSUME CInv, Handle("timedConnect", FALSE)
    PROVE  m_state # "CONNECTING"
<1>1. "timedConnect" \in Ops \cup {"connected"}
  BY DEF Ops, TimerOps
<1>2. m_state = "CONNECTING" => ConnectingFit(m_connector, <<Completion("timedConnect", FALSE)>>, kind)
  BY <1>1, HandlerFinds, Zenon
<1>3. ~ConnectingFit(m_connector, <<Completion("timedConnect", FALSE)>>, kind)
  BY Zenon DEF ConnectingFit, Cancelled
<1>4. QED
  BY <1>2, <1>3, Zenon

\* handleTimedConnect
LEMMA HandleTimedConnectInv == ASSUME CInv, HandleTimedConnect PROVE CInv'
<1>1. /\ "timedConnect" \in Ops \cup {"connected"} /\ "timedConnect" \in ConnectOps
      /\ "resolve" \in Ops /\ "resolve" \in ConnectOps \ {"connected"} /\ "resolve" \notin Opened
  BY DEF Ops, TimerOps, ConnectOps, Opened
<1>2. ASSUME NEW ok \in BOOLEAN, Handle("timedConnect", ok) PROVE m_state # "RUNNING"
  BY <1>2, TimedConnectFinds, Zenon
<1>3. ASSUME NEW ok \in BOOLEAN, Handle("timedConnect", ok), connect PROVE CInv'
  <2>1. m_state' = "CONNECTING" /\ m_connector' = Start(m_connector, "resolve")
    BY <1>3, Zenon DEF connect, Become, onConnect
  <2>2. CASE m_state = "CONNECTING"
    BY <1>1, <1>3, <2>1, <2>2, AttemptedInv
  <2>3. CASE m_state # "CONNECTING"
    <3>1. /\ m_connector \in Connectors /\ OpenFit(m_connector)
          /\ m_state = "STOPPING" /\ m_connector.stopped
      <4>1. /\ m_connector \in Connectors /\ OpenFit(m_connector)
            /\ \/ m_state \in {"CONNECTING", "RUNNING"}
               \/ m_state = "STOPPING" /\ m_connector.stopped
        BY <1>1, <1>3, HandlerFinds, Zenon
      <4>2. QED
        BY <1>2, <1>3, <2>3, <4>1
    <3>2. /\ m_connector' \in Connectors /\ m_connector'.open = m_connector.open
          /\ m_connector'.stopped = m_connector.stopped
          /\ \A X : Count(m_connector'.pending, X) = Count(m_connector.pending, X) + Hit("resolve", X)
      BY <1>1, <2>1, <3>1, StartEffect, Zenon
    <3>3. OpenFit(m_connector')
      <4>1. Hit("resolve", SocketOps) = 0 /\ Count(m_connector.pending, SocketOps) \in Nat
        BY <3>1, WaitingNat DEF Hit, SocketOps, WriteOps
      <4>2. Count(m_connector'.pending, SocketOps) = Count(m_connector.pending, SocketOps)
        BY <3>2, <4>1
      <4>3. QED
        BY <3>1, <3>2, <4>2 DEF OpenFit
    <3>4. Fit(m_state', m_connector', << >>, kind)
      BY <2>1, <3>1, <3>2, <3>3, Zenon DEF Fit
    <3>5. QED
      BY <1>3, <2>1, <3>1, <3>2, <3>4, HandledInv, Zenon
  <2>4. QED
    BY <2>2, <2>3
<1>4. ASSUME Handle("timedConnect", FALSE), StopSelf PROVE CInv'
  <2>1. m_state # "CONNECTING"
    BY <1>4, CancelledConnect, Zenon
  <2>2. m_state \notin {"RUNNING", "CONNECTING"}
    BY <1>2, <1>4, <2>1, Zenon
  <2>3. Ignore
    BY <1>4, <2>2, Zenon DEF StopSelf
  <2>4. m_state # "RUNNING"
    BY <2>2
  <2>5. QED
    BY <1>1, <1>4, <2>1, <2>3, <2>4, IgnoredInv, Zenon
<1>5. QED
  BY <1>3, <1>4, Zenon DEF HandleTimedConnect

\* The client's thread or the environment take a step without the mutex.
LEMMA UnlockedInv ==
    ASSUME CInv, clientPc = "run", UNCHANGED <<m_state, clientPc, main>>,
           m_connector' \in Connectors, m_connector'.stopped = m_connector.stopped,
           current' \in {<< >>} \cup {<<x>> : x \in Completions},
           current' = << >> \/ current # << >> \/ ~m_connector.stopped,
           Fit(m_state, m_connector', current', kind)
    PROVE  CInv'
<1>1. TypeOK /\ Control
  BY DEF CInv
<1>2. /\ clientPc' = "run" /\ m_state' = m_state
      /\ kind' = kind /\ mutex' = mutex /\ mainPc' = mainPc /\ early' = early
  BY DEF main
<1>3. TypeOK'
  BY <1>1, <1>2, Zenon DEF TypeOK, Connectors
<1>4. Control'
  BY <1>1, <1>2 DEF Control
<1>5. Fit(m_state, m_connector, current, kind)'
  BY <1>2
<1>6. QED
  BY <1>3, <1>4, <1>5 DEF CInv

\* ConnectorImplBoost::handleResolve
LEMMA HandleResolveInv == ASSUME CInv, HandleResolve PROVE CInv'
<1> DEFINE c == m_connector
           e == [c EXCEPT !.open = TRUE]
           d == Start(e, "connect")
<1>1. /\ "resolve" \in Ops \cup {"connected"} /\ "resolve" \in ConnectOps
      /\ "connect" \in Ops /\ "connect" \in ConnectOps \ {"connected"}
  BY DEF Ops, SocketOps, ConnectOps
<1>2. PICK ok \in BOOLEAN : Calling("resolve", ok)
  BY Zenon DEF HandleResolve
<1>3. /\ clientPc = "run" /\ current = <<Completion("resolve", ok)>> /\ m_connector' = d
      /\ current' = << >> /\ UNCHANGED <<m_state, clientPc, main>>
  BY <1>2, Zenon DEF HandleResolve, Calling, startConnect
<1>4. c \in Connectors /\ Fit(m_state, c, <<Completion("resolve", ok)>>, kind)
  BY <1>3, TypeOKConnector, Zenon DEF CInv
<1>5. /\ e \in Connectors /\ e.open /\ e.stopped = c.stopped
      /\ e.pending = c.pending /\ e.queue = c.queue
  BY <1>4, Zenon DEF Connectors
<1> HIDE DEF e
<1>6. /\ d \in Connectors /\ d.open = e.open /\ d.stopped = e.stopped
      /\ \A X : Waiting(d, X) = Waiting(e, X) + Hit("connect", X)
  BY <1>1, <1>5, StartEffect, Zenon
<1>7. \A X : Waiting(e, X) = Waiting(c, X) /\ Waiting(e, X) \in Nat
  <2>1. \A X : Waiting(e, X) = Waiting(c, X)
    BY <1>5, Zenon DEF Waiting
  <2>2. QED
    BY <1>5, <2>1, WaitingNat, Zenon
<1>8. OpenFit(e)
  BY <1>5 DEF OpenFit
<1>9. ASSUME m_state = "CONNECTING", ~c.stopped PROVE ConnectingFit(d, << >>, kind)
  <2>1. ConnectingFit(c, <<Completion("resolve", ok)>>, kind)
    BY <1>4, <1>9, Zenon DEF Fit
  <2>2. Waiting(c, ConnectOps) = 0 /\ Count(c.pending, Stale) = 0
    BY <1>1, <1>4, <2>1, AttemptHeld, Zenon
  <2>3. Waiting(e, ConnectOps) = 0 /\ Count(e.pending, Stale) = 0
    BY <1>5, <1>7, <2>2, Zenon
  <2>4. QED
    BY <1>1, <1>5, <1>8, <2>3, AttemptFit
<1>10. m_state # "RUNNING"
  <2>1. SUFFICES ASSUME m_state = "RUNNING" PROVE FALSE
    OBVIOUS
  <2>2. RunningFit(c, <<Completion("resolve", ok)>>, kind)
    BY <1>4, <2>1, Zenon DEF Fit
  <2>3. QED
    BY <1>1, <1>4, <2>2, RunningHeld, Zenon
<1>11. StoppingFit(d, << >>)
  <2> DEFINE work == ConnectOps \cup {"read"}
  <2>1. Flying(d, << >>, work) = Waiting(d, work)
    BY <1>6, FlyingHeld, Zenon
  <2>2. Hit("connect", work) = 1
    BY <1>1 DEF Hit
  <2> HIDE DEF work
  <2>3. Waiting(d, work) > 0
    BY <1>6, <1>7, <2>2
  <2>4. QED
    BY <2>1, <2>3 DEF StoppingFit, work
<1>12. Fit(m_state, d, << >>, kind)
  <2>1. OpenFit(d)
    BY <1>5, <1>6, Zenon DEF OpenFit
  <2> HIDE DEF d
  <2>2. QED
    BY <1>5, <1>6, <1>9, <1>10, <1>11, <2>1, Zenon DEF Fit
<1>13. QED
  BY <1>3, <1>5, <1>6, <1>12, UnlockedInv, Zenon

\* The callback in GpsdClient::stop
LEMMA HandleUnwatchInv == ASSUME CInv, HandleUnwatch PROVE CInv'
<1>1. /\ "unwatch" \in Ops \cup {"connected"} /\ "unwatch" \notin ConnectOps
      /\ "unwatch" \notin {"read"} \cup TimerOps /\ "unwatch" \notin ConnectOps \cup {"read"}
  BY DEF Ops, SocketOps, WriteOps, TimerOps, ConnectOps
<1>2. PICK ok \in BOOLEAN : Calling("unwatch", ok)
  BY Zenon DEF HandleUnwatch
<1>3. /\ clientPc = "run" /\ current = <<Completion("unwatch", ok)>>
      /\ current' = << >> /\ UNCHANGED <<m_state, m_connector, clientPc, main>>
  BY <1>2, Zenon DEF HandleUnwatch, Calling
<1>4. m_connector \in Connectors /\ Fit(m_state, m_connector, <<Completion("unwatch", ok)>>, kind)
  BY <1>3, TypeOKConnector, Zenon DEF CInv
<1>5. Fit(m_state, m_connector, << >>, kind)
  BY <1>1, <1>4, IgnoreFit, Zenon
<1>6. m_connector' = m_connector /\ UNCHANGED <<m_state, clientPc, main>>
  BY <1>3
<1>7. QED
  BY <1>3, <1>4, <1>5, <1>6, UnlockedInv, Zenon

\* ConnectorImplBoost::handleConnect aborts only while the client is stopped.
LEMMA SetOptionInv == ASSUME CInv, SetOption PROVE CInv'
<1> DEFINE c == m_connector
<1>1. /\ "connect" \in Ops \cup {"connected"} /\ "connect" \in ConnectOps /\ "connect" \in Opened
      /\ "connected" \in Ops \cup {"connected"} /\ "connected" \in ConnectOps
  BY DEF Ops, SocketOps, ConnectOps, Opened
<1>2. PICK ok \in BOOLEAN : Calling("connect", ok)
  BY Zenon DEF SetOption
<1> DEFINE old == <<Completion("connect", ok)>>
           new == <<Completion("connected", TRUE)>>
<1>3. /\ clientPc = "run" /\ current = old /\ UNCHANGED <<m_state, m_connector, main>>
      /\ c.open => current' = new /\ clientPc' = clientPc
      /\ ~c.open => clientPc' = "aborted" /\ current' = current
  BY <1>2, Zenon DEF SetOption, Calling
<1>4. /\ c \in Connectors /\ c.stopped \in BOOLEAN /\ c.open \in BOOLEAN
      /\ Fit(m_state, c, old, kind) /\ TypeOK /\ Control
  <2>1. TypeOK /\ Control /\ Fit(m_state, c, old, kind)
    BY <1>3, Zenon DEF CInv
  <2>2. QED
    BY <2>1, TypeOKConnector DEF TypeOK
<1>5. m_state # "RUNNING"
  <2>1. SUFFICES ASSUME m_state = "RUNNING" PROVE FALSE
    OBVIOUS
  <2>2. RunningFit(c, old, kind)
    BY <1>4, <2>1, Zenon DEF Fit
  <2>3. QED
    BY <1>1, <1>4, <2>2, RunningHeld, Zenon
<1>6. m_state = "CONNECTING" /\ ~c.stopped => ConnectingFit(c, old, kind) /\ c.open
  <2>1. SUFFICES ASSUME m_state = "CONNECTING", ~c.stopped PROVE ConnectingFit(c, old, kind) /\ c.open
    OBVIOUS
  <2>2. ConnectingFit(c, old, kind)
    BY <1>4, <2>1, Zenon DEF Fit
  <2>3. QED
    BY <1>1, <1>4, <2>2, AttemptHeld, Zenon
<1>7. current # << >>
  BY <1>3
<1>8. CASE c.open
  <2>1. \A X : ("connect" \in X <=> "connected" \in X) => Flying(c, new, X) = Flying(c, old, X)
    <3>1. \A X : Flying(c, new, X) = Waiting(c, X) + Hit("connected", X)
      BY <1>1, <1>4, FlyingHeld, Zenon
    <3>2. \A X : Flying(c, old, X) = Waiting(c, X) + Hit("connect", X)
      BY <1>1, <1>4, FlyingHeld, Zenon
    <3>3. \A X : ("connect" \in X <=> "connected" \in X) => Hit("connect", X) = Hit("connected", X)
      BY Zenon DEF Hit
    <3>4. QED
      BY <3>1, <3>2, <3>3, Zenon
  <2>2. new # <<Cancelled>> /\ Completion("connected", TRUE) \in Completions
    BY DEF Cancelled, Completion, Completions, Completed
  <2>3. Calls(new, ConnectOps) /\ Calls(old, ConnectOps)
    BY <1>1, CallsHeld, Zenon
  <2>4. /\ Flying(c, new, ConnectOps) = Flying(c, old, ConnectOps)
        /\ Flying(c, new, Opened) = Flying(c, old, Opened)
        /\ Flying(c, new, {"login"}) = Flying(c, old, {"login"})
        /\ Flying(c, new, {"watch"}) = Flying(c, old, {"watch"})
        /\ Flying(c, new, ConnectOps \cup {"read"}) = Flying(c, old, ConnectOps \cup {"read"})
    <3>1. /\ "connect" \in Opened /\ "connected" \in Opened
          /\ "connect" \notin {"login"} /\ "connected" \notin {"login"}
          /\ "connect" \notin {"watch"} /\ "connected" \notin {"watch"}
          /\ "connect" \in ConnectOps \cup {"read"} /\ "connected" \in ConnectOps \cup {"read"}
      BY <1>1 DEF Opened
    <3>2. QED
      BY <1>1, <2>1, <3>1, Zenon
  <2> HIDE DEF new, old
  <2>5. ConnectingFit(c, old, kind) => ConnectingFit(c, new, kind)
    BY <2>2, <2>3, <2>4, Zenon DEF ConnectingFit
  <2>6. StoppingFit(c, old) => StoppingFit(c, new)
    BY <2>4, Zenon DEF StoppingFit
  <2>7. Fit(m_state, c, new, kind)
    BY <1>4, <1>5, <2>5, <2>6, Zenon DEF Fit
  <2>8. /\ current' = new /\ m_connector' = c /\ UNCHANGED <<m_state, clientPc, main>>
    BY <1>3, <1>8
  <2>9. new \in {<< >>} \cup {<<x>> : x \in Completions}
    BY <2>2, Zenon DEF new
  <2>10. QED
    BY <1>3, <1>4, <1>7, <2>7, <2>8, <2>9, UnlockedInv, Zenon
<1>9. CASE ~c.open
  <2>1. /\ clientPc' = "aborted" /\ current' = current /\ m_state' = m_state
        /\ m_connector' = m_connector /\ kind' = kind /\ mutex' = mutex
        /\ mainPc' = mainPc /\ early' = early
    BY <1>3, <1>9 DEF main
  <2>2. m_state = "STOPPING" /\ mainPc \in AfterStop \cup {"stopIo"}
    BY <1>3, <1>4, <1>5, <1>6, <1>7, <1>9 DEF Control, TypeOK, States
  <2>3. TypeOK'
    BY <1>4, <2>1 DEF TypeOK
  <2>4. Control'
    BY <1>3, <1>4, <2>1, <2>2 DEF Control
  <2>5. Fit(m_state, m_connector, current, kind)'
    BY <1>3, <1>4, <2>1
  <2>6. QED
    BY <2>3, <2>4, <2>5 DEF CInv
<1>10. QED
  BY <1>4, <1>8, <1>9

\* The io_service calls a handler.
LEMMA DispatchInv == ASSUME CInv, Dispatch PROVE CInv'
<1>1. /\ clientPc = "run" /\ current = << >> /\ ~m_connector.stopped /\ m_connector.queue # << >>
      /\ current' = <<Called(m_connector)>>
      /\ m_connector' = [m_connector EXCEPT !.queue = Tail(@)]
      /\ UNCHANGED <<m_state, clientPc, main>>
  BY Zenon DEF Dispatch
<1>2. m_connector \in Connectors /\ Fit(m_state, m_connector, << >>, kind)
  BY <1>1, TypeOKConnector, Zenon DEF CInv
<1>3. /\ m_connector' \in Connectors /\ m_connector'.stopped = m_connector.stopped
      /\ current' \in {<<x>> : x \in Completions}
      /\ Fit(m_state, m_connector', current', kind)
  BY <1>1, <1>2, DispatchFit
<1>4. QED
  BY <1>1, <1>3, UnlockedInv, Zenon

\* The environment completes an operation.
LEMMA CompleteOpInv ==
    ASSUME CInv, NEW k \in DOMAIN m_connector.pending, NEW ok \in BOOLEAN, CompleteOp(k, ok)
    PROVE  CInv'
<1>1. /\ clientPc = "run" /\ MayComplete(m_connector, k, ok)
      /\ m_connector' = Complete(m_connector, k, ok)
      /\ current' = current /\ UNCHANGED <<m_state, clientPc, main>>
  BY DEF CompleteOp
<1>2. /\ m_connector \in Connectors /\ Fit(m_state, m_connector, current, kind)
      /\ current \in {<< >>} \cup {<<x>> : x \in Completions}
  BY TypeOKConnector DEF CInv, TypeOK
<1>3. /\ m_connector' \in Connectors /\ m_connector'.stopped = m_connector.stopped
      /\ Fit(m_state, m_connector', current', kind)
  BY <1>1, <1>2, CompleteFit, Zenon
<1>4. QED
  BY <1>1, <1>2, <1>3, UnlockedInv, Zenon

\* A new connector has nothing to do.
LEMMA IdleFit ==
    /\ IdleConnector \in Connectors /\ ~IdleConnector.stopped /\ OpenFit(IdleConnector)
    /\ Count(IdleConnector.pending, Stale) = 0 /\ \A X : Waiting(IdleConnector, X) = 0
<1>1. << >> \in Seq(Ops) /\ << >> \in Seq(Completions)
  BY EmptySeq
<1>2. /\ IdleConnector \in Connectors /\ ~IdleConnector.stopped
      /\ IdleConnector.pending = << >> /\ IdleConnector.queue = << >>
  BY <1>1 DEF IdleConnector, Connectors
<1>3. \A X : Count(IdleConnector.pending, X) = 0 /\ Count(IdleConnector.queue, X) = 0
  BY <1>2, CountEmpty, Zenon
<1>4. \A X : Waiting(IdleConnector, X) = 0
  BY <1>3 DEF Waiting
<1>5. OpenFit(IdleConnector)
  <2>1. Count(IdleConnector.pending, SocketOps) = 0
    BY <1>3, Zenon
  <2>2. QED
    BY <2>1 DEF OpenFit
<1>6. QED
  BY <1>2, <1>3, <1>4, <1>5, Zenon

\* The thread enters run.
LEMMA RunInv == ASSUME CInv, Run PROVE CInv'
<1> DEFINE d == Start(IdleConnector, "resolve")
<1>1. TypeOK /\ Control
  BY DEF CInv
<1>2. /\ m_connector = IdleConnector /\ current = << >> /\ mutex = "free"
      /\ m_state' = "CONNECTING" /\ m_connector' = d
      /\ clientPc' = "run" /\ current' = << >>
      /\ kind' = kind /\ mutex' = mutex /\ mainPc' = mainPc /\ early' = early
  BY <1>1 DEF Run, Control, connect, Become, onConnect, main
<1>3. /\ mainPc \notin {"unwatch", "stopIo", "joined"}
      /\ mainPc \in {"serve", "scheduleStop", "unwatch"} => ~early
  BY <1>1, <1>2 DEF Control, Run
<1>4. /\ IdleConnector \in Connectors /\ ~IdleConnector.stopped /\ OpenFit(IdleConnector)
      /\ Count(IdleConnector.pending, Stale) = 0 /\ Waiting(IdleConnector, ConnectOps) = 0
  BY IdleFit, Zenon
<1>5. "resolve" \in ConnectOps \ {"connected"} /\ "resolve" \notin Opened
  BY DEF ConnectOps, Opened
<1>6. /\ d \in Connectors /\ d.stopped = IdleConnector.stopped
      /\ OpenFit(d) /\ ConnectingFit(d, << >>, kind)
  BY <1>4, <1>5, AttemptFit
<1> HIDE DEF d
<1>7. Fit("CONNECTING", d, << >>, kind)
  BY <1>6 DEF Fit
<1>8. TypeOK'
  BY <1>1, <1>2, <1>6 DEF TypeOK, Connectors, States
<1>9. Control'
  BY <1>2, <1>3, <1>4, <1>6 DEF Control
<1>10. Fit(m_state, m_connector, current, kind)'
  BY <1>2, <1>7
<1>11. QED
  BY <1>8, <1>9, <1>10 DEF CInv

\* It returns from the io_service only when that is stopped: there is always
\* work.
LEMMA ReturnFromRunInv == ASSUME CInv, ReturnFromRun PROVE CInv'
<1>1. TypeOK /\ Control /\ Fit(m_state, m_connector, current, kind) /\ m_connector \in Connectors
  BY TypeOKConnector DEF CInv
<1>2. /\ clientPc = "run" /\ current = << >> /\ clientPc' = "returned"
      /\ m_state' = m_state /\ m_connector' = m_connector /\ current' = current
      /\ kind' = kind /\ mutex' = mutex /\ mainPc' = mainPc /\ early' = early
  BY DEF ReturnFromRun, main
<1>3. m_connector.stopped
  <2>1. SUFFICES ASSUME ~m_connector.stopped PROVE FALSE
    OBVIOUS
  <2>2. m_connector.pending = << >> /\ m_connector.queue = << >>
    BY <2>1 DEF ReturnFromRun
  <2>3. \A X : Waiting(m_connector, X) = 0
    <3>1. \A X : Count(m_connector.pending, X) = 0 /\ Count(m_connector.queue, X) = 0
      BY <2>2, CountEmpty, Zenon
    <3>2. QED
      BY <3>1 DEF Waiting
  <2>4. \A X : Flying(m_connector, current, X) = 0
    BY <1>1, <1>2, <2>3, FlyingHeld, Zenon
  <2>5. /\ Flying(m_connector, current, ConnectOps) = 0 /\ Flying(m_connector, current, {"read"}) = 0
        /\ Flying(m_connector, current, ConnectOps \cup {"read"}) = 0
    BY <2>4, Zenon
  <2>6. m_state \notin {"CONNECTING", "RUNNING", "STOPPING"}
    BY <1>1, <2>1, <2>5 DEF Fit, ConnectingFit, RunningFit, StoppingFit
  <2>7. QED
    BY <1>1, <1>2, <2>6 DEF TypeOK, States, Control
<1>4. TypeOK'
  BY <1>1, <1>2 DEF TypeOK
<1>5. Control'
  BY <1>1, <1>2, <1>3 DEF Control
<1>6. Fit(m_state, m_connector, current, kind)'
  BY <1>1, <1>2
<1>7. QED
  BY <1>4, <1>5, <1>6 DEF CInv

\* Without a state the connector does not matter, except that OpenFit holds.
LEMMA ResetStateInv == ASSUME CInv, ResetState PROVE CInv'
<1>1. TypeOK /\ Control /\ OpenFit(m_connector)
  BY DEF CInv, Fit
<1>2. /\ clientPc = "returned" /\ clientPc' = "erase" /\ m_state' = "NONE"
      /\ m_connector' = m_connector /\ current' = current
      /\ kind' = kind /\ mutex' = mutex /\ mainPc' = mainPc /\ early' = early
  BY DEF ResetState, main
<1>3. mainPc \notin {"unwatch", "stopIo", "joined"}
  BY <1>1, <1>2 DEF Control
<1>4. TypeOK'
  BY <1>1, <1>2 DEF TypeOK, States
<1>5. Control'
  BY <1>1, <1>2, <1>3 DEF Control
<1>6. Fit("NONE", m_connector, current, kind)
  BY <1>1 DEF Fit
<1>7. Fit(m_state, m_connector, current, kind)'
  BY <1>2, <1>6
<1>8. QED
  BY <1>4, <1>5, <1>7 DEF CInv

\* Erasing, and the steps of main that do not touch the client.
LEMMA PcInv ==
    ASSUME CInv, UNCHANGED <<kind, m_state, m_connector, current, mutex>>,
           \/ clientPc = "erase" /\ clientPc' = "done" /\ UNCHANGED <<mainPc, early>>
           \/ /\ mainPc \in {"serve", "scheduleStop", "endStop"}
              /\ mainPc' \in {"scheduleStop", "endStop", "join"}
              /\ mainPc = "endStop" => mainPc' = "join"
              /\ mainPc = "scheduleStop" => mainPc' = "endStop"
              /\ early' \in BOOLEAN /\ UNCHANGED clientPc
              /\ mainPc' = "scheduleStop" => early' = early
           \/ mainPc = "join" /\ clientPc = "done" /\ mainPc' = "joined" /\ UNCHANGED <<clientPc, early>>
    PROVE  CInv'
<1>1. TypeOK /\ Control /\ Fit(m_state, m_connector, current, kind)
  BY DEF CInv
<1>2. TypeOK'
  BY <1>1 DEF TypeOK
<1>3. Control'
  BY <1>1 DEF Control, AfterStop
<1>4. Fit(m_state, m_connector, current, kind)'
  BY <1>1
<1>5. QED
  BY <1>2, <1>3, <1>4 DEF CInv

\* A client that is connecting or running is not stopped before main stops it.
LEMMA NotYetStopped ==
    ASSUME CInv, mainPc \notin AfterStop, m_state \in {"RUNNING", "CONNECTING"}
    PROVE  ~m_connector.stopped /\ clientPc = "run"
  BY DEF CInv, TypeOK, Control

\* The handlers called are a list.
LEMMA CurrentSeq == TypeOK => current \in Seq(Completions)
<1> SUFFICES ASSUME TypeOK PROVE current \in Seq(Completions)
  OBVIOUS
<1>1. current = << >> \/ \E x \in Completions : current = <<x>>
  BY DEF TypeOK
<1>2. << >> \in Seq(Completions) /\ \A x \in Completions : <<x>> \in Seq(Completions)
  OBVIOUS
<1>3. QED
  BY <1>1, <1>2, Zenon

\* More of a larger set is in flight.
LEMMA FlyingSubset ==
    ASSUME TypeOK, NEW X, NEW Y, X \subseteq Y
    PROVE  Flying(m_connector, current, X) <= Flying(m_connector, current, Y)
<1>1. m_connector \in Connectors
  BY TypeOKConnector
<1>2. Waiting(m_connector, X) <= Waiting(m_connector, Y)
  BY <1>1, WaitingSubset
<1>3. current \in Seq(Completions)
  BY CurrentSeq
<1>4. Completed(X) \subseteq Completed(Y)
  BY DEF Completed
<1>5. Count(current, Completed(X)) <= Count(current, Completed(Y))
  BY <1>3, <1>4, CountSubset
<1>6. /\ Waiting(m_connector, X) \in Nat /\ Waiting(m_connector, Y) \in Nat
      /\ Count(current, Completed(X)) \in Nat /\ Count(current, Completed(Y)) \in Nat
  BY <1>1, <1>3, WaitingNat, CountNat
<1>7. QED
  BY <1>2, <1>5, <1>6 DEF Flying

\* close as main calls it leaves the client's thread with work.
LEMMA ClosedFit ==
    ASSUME CInv, m_state \in {"RUNNING", "CONNECTING"}, ~m_connector.stopped
    PROVE  /\ close(m_connector) \in Connectors /\ ~close(m_connector).stopped
           /\ Fit("STOPPING", close(m_connector), current, kind)
<1> DEFINE c == m_connector
           d == close(c)
           work == ConnectOps \cup {"read"}
<1>1. c \in Connectors /\ OpenFit(c) /\ TypeOK
  BY TypeOKConnector DEF CInv, Fit
<1>2. /\ d \in Connectors /\ d.stopped = c.stopped
      /\ Count(d.pending, SocketOps \cup TimerOps) = 0
      /\ \A X : Waiting(d, X) = Waiting(c, X)
  BY <1>1, CloseEffect, Zenon
<1> HIDE DEF d
<1>3. Flying(d, current, work) = Flying(c, current, work)
  BY <1>2, Zenon DEF Flying
<1>4. Flying(c, current, work) > 0
  <2>1. ConnectOps \subseteq work /\ {"read"} \subseteq work
    OBVIOUS
  <2>2. Flying(c, current, ConnectOps) = 1 \/ Flying(c, current, {"read"}) = 1
    BY DEF CInv, Fit, ConnectingFit, RunningFit
  <2>3. /\ Flying(c, current, ConnectOps) <= Flying(c, current, work)
        /\ Flying(c, current, {"read"}) <= Flying(c, current, work)
    BY <1>1, <2>1, FlyingSubset
  <2>4. Flying(c, current, work) \in Nat
    <3>1. current \in Seq(Completions)
      BY <1>1, CurrentSeq
    <3>2. Waiting(c, work) \in Nat /\ Count(current, Completed(work)) \in Nat
      BY <1>1, <3>1, WaitingNat, CountNat
    <3>3. QED
      BY <3>2 DEF Flying
  <2> HIDE DEF work
  <2>5. QED
    BY <2>2, <2>3, <2>4
<1>5. OpenFit(d)
  <2>1. d.pending \in Seq(Ops) /\ SocketOps \subseteq SocketOps \cup TimerOps
    BY <1>2 DEF Connectors
  <2>2. Count(d.pending, SocketOps) <= Count(d.pending, SocketOps \cup TimerOps)
    BY <2>1, CountSubset
  <2>3. Count(d.pending, SocketOps) \in Nat
    BY <1>2, WaitingNat
  <2>4. QED
    BY <1>2, <2>2, <2>3 DEF OpenFit
<1>6. Fit("STOPPING", d, current, kind)
  BY <1>3, <1>4, <1>5 DEF Fit, StoppingFit
<1>7. QED
  BY <1>2, <1>6 DEF d

\* scheduleStop, or its first half
LEMMA ScheduleStopInv == ASSUME CInv, ScheduleStop PROVE CInv'
<1>1. TypeOK /\ Control /\ m_connector \in Connectors /\ Fit(m_state, m_connector, current, kind)
  BY TypeOKConnector DEF CInv
<1>2. /\ mainPc = "scheduleStop" /\ mutex = "free"
      /\ early' \in BOOLEAN /\ early' = (clientPc = "start")
      /\ kind' = kind /\ current' = current /\ clientPc' = clientPc
  BY DEF ScheduleStop
<1>3. ASSUME kind = "GPS", m_state = "RUNNING",
             Become(m_state, onWrite(m_connector, "unwatch")), mutex' = "main", mainPc' = "unwatch"
      PROVE  CInv'
  <2>1. RunningFit(m_connector, current, kind)
    BY <1>1, <1>3 DEF Fit
  <2>2. m_connector.open
    BY <2>1, Zenon DEF RunningFit
  <2>3. m_state' = "RUNNING" /\ m_connector' = onWrite(m_connector, "unwatch")
    BY <1>3 DEF Become
  <2>4. /\ m_connector' \in Connectors /\ m_connector'.open
        /\ m_connector'.stopped = m_connector.stopped
        /\ \A X : Waiting(m_connector', X) = Waiting(m_connector, X) + Hit("unwatch", X)
    <3>1. "unwatch" \in WriteOps
      BY DEF WriteOps
    <3>2. QED
      BY <1>1, <2>2, <2>3, <3>1, WriteEffect, Zenon
  <2>5. \A X \in {ConnectOps, {"read"}, TimerOps} : Waiting(m_connector', X) = Waiting(m_connector, X)
    <3>1. \A X \in {ConnectOps, {"read"}, TimerOps} : Hit("unwatch", X) = 0
      BY DEF Hit, ConnectOps, TimerOps
    <3>2. \A X : Waiting(m_connector, X) \in Nat
      BY <1>1, WaitingNat, Zenon
    <3>3. QED
      BY <2>4, <3>1, <3>2
  <2>6. RunningFit(m_connector', current, kind)
    <3>1. \A X \in {ConnectOps, {"read"}, TimerOps} :
             Flying(m_connector', current, X) = Flying(m_connector, current, X)
      BY <2>5, Zenon DEF Flying
    <3>2. QED
      BY <2>1, <2>4, <3>1, Zenon DEF RunningFit
  <2>7. Fit("RUNNING", m_connector', current, kind)
    BY <2>4, <2>6 DEF Fit, OpenFit
  <2>8. TypeOK'
    BY <1>1, <1>2, <1>3, <2>3, <2>4 DEF TypeOK, States, Connectors
  <2>9. ~m_connector.stopped /\ clientPc = "run"
    BY <1>2, <1>3, NotYetStopped DEF AfterStop
  <2>10. Control'
    BY <1>1, <1>2, <1>3, <2>3, <2>4, <2>9 DEF Control
  <2>11. Fit(m_state, m_connector, current, kind)'
    BY <1>2, <2>3, <2>7
  <2>12. QED
    BY <2>8, <2>10, <2>11 DEF CInv
<1>4. ASSUME m_state \in {"RUNNING", "CONNECTING"}, Become("STOPPING", close(m_connector)),
             mutex' = "main", mainPc' = "stopIo"
      PROVE  CInv'
  <2>1. ~m_connector.stopped /\ clientPc = "run"
    BY <1>2, <1>4, NotYetStopped DEF AfterStop
  <2>2. m_state' = "STOPPING" /\ m_connector' = close(m_connector)
    BY <1>4 DEF Become
  <2>3. /\ m_connector' \in Connectors /\ ~m_connector'.stopped
        /\ Fit("STOPPING", m_connector', current, kind)
    BY <1>4, <2>1, <2>2, ClosedFit
  <2>4. TypeOK'
    BY <1>1, <1>2, <1>4, <2>2, <2>3 DEF TypeOK, States, Connectors
  <2>5. Control'
    BY <1>1, <1>2, <1>4, <2>1, <2>2, <2>3 DEF Control
  <2>6. Fit(m_state, m_connector, current, kind)'
    BY <1>2, <2>2, <2>3
  <2>7. QED
    BY <2>4, <2>5, <2>6 DEF CInv
<1>5. ASSUME Ignore, mainPc' = "endStop", UNCHANGED mutex PROVE CInv'
  <2>1. UNCHANGED <<kind, m_state, m_connector, current, mutex>>
    BY <1>2, <1>5 DEF Ignore
  <2>2. /\ mainPc \in {"serve", "scheduleStop", "endStop"}
        /\ mainPc' \in {"scheduleStop", "endStop", "join"}
        /\ mainPc = "endStop" => mainPc' = "join"
        /\ mainPc = "scheduleStop" => mainPc' = "endStop"
        /\ early' \in BOOLEAN /\ UNCHANGED clientPc
        /\ mainPc' = "scheduleStop" => early' = early
    BY <1>2, <1>5
  <2>3. QED
    BY <2>1, <2>2, PcInv, Zenon
<1>6. m_state \in States
  BY <1>1 DEF TypeOK
<1>7. QED
  BY <1>3, <1>4, <1>5, <1>6, Zenon DEF ScheduleStop, States

\* The second half of GpsdClient::stop
LEMMA StopUnwatchedInv == ASSUME CInv, StopUnwatched PROVE CInv'
<1>1. TypeOK /\ Control
  BY DEF CInv
<1>2. /\ mainPc = "unwatch" /\ mainPc' = "stopIo"
      /\ m_state' = "STOPPING" /\ m_connector' = close(m_connector)
      /\ kind' = kind /\ mutex' = mutex /\ current' = current /\ clientPc' = clientPc /\ early' = early
  BY DEF StopUnwatched, Become
<1>3. m_state \in {"RUNNING", "CONNECTING"} /\ mutex = "main"
  BY <1>1, <1>2 DEF Control
<1>4. ~m_connector.stopped /\ clientPc = "run"
  BY <1>2, <1>3, NotYetStopped DEF AfterStop
<1>5. /\ m_connector' \in Connectors /\ ~m_connector'.stopped
      /\ Fit("STOPPING", m_connector', current, kind)
  BY <1>2, <1>3, <1>4, ClosedFit
<1>6. TypeOK'
  BY <1>1, <1>2, <1>5 DEF TypeOK, States, Connectors
<1>7. Control'
  BY <1>1, <1>2, <1>3, <1>4, <1>5 DEF Control
<1>8. Fit(m_state, m_connector, current, kind)'
  BY <1>2, <1>5
<1>9. QED
  BY <1>6, <1>7, <1>8 DEF CInv

\* The io_service is stopped.
LEMMA StopIoInv == ASSUME CInv, StopIo PROVE CInv'
<1>1. TypeOK /\ Control /\ m_connector \in Connectors /\ OpenFit(m_connector)
  BY TypeOKConnector DEF CInv, Fit
<1>2. /\ mainPc = "stopIo" /\ mainPc' = "endStop" /\ mutex' = "free"
      /\ m_connector' = [m_connector EXCEPT !.stopped = TRUE]
      /\ kind' = kind /\ m_state' = m_state /\ current' = current
      /\ clientPc' = clientPc /\ early' = early
  BY DEF StopIo
<1>3. m_state = "STOPPING" /\ clientPc \in {"run", "aborted"}
  BY <1>1, <1>2 DEF Control
<1>4. /\ m_connector' \in Connectors /\ m_connector'.stopped
      /\ m_connector'.pending = m_connector.pending /\ m_connector'.open = m_connector.open
  BY <1>1, <1>2, Zenon DEF Connectors
<1>5. TypeOK'
  BY <1>1, <1>2, <1>4, Zenon DEF TypeOK, Connectors
<1>6. Control'
  BY <1>2, <1>3, <1>4 DEF Control, AfterStop
<1>7. Fit("STOPPING", m_connector', current, kind)
  BY <1>1, <1>4 DEF Fit, OpenFit
<1>8. Fit(m_state, m_connector, current, kind)'
  BY <1>2, <1>3, <1>7
<1>9. QED
  BY <1>5, <1>6, <1>8 DEF CInv

\* The inductive invariant of Client: the threads are where the state says, and
\* the state has the operations it waits for.
LEMMA CInvInvariant == Spec => []CInv
<1>1. Init => CInv
  <2> SUFFICES ASSUME Init PROVE CInv
    OBVIOUS
  <2>1. IdleConnector \in Connectors /\ ~IdleConnector.stopped /\ OpenFit(IdleConnector)
    BY IdleFit, Zenon
  <2>2. TypeOK
    BY <2>1, Zenon DEF Init, TypeOK, States, Connectors
  <2>3. Control
    BY <2>1 DEF Init, Control
  <2>4. Fit("NONE", IdleConnector, << >>, kind)
    BY <2>1 DEF Fit
  <2>5. QED
    BY <2>2, <2>3, <2>4 DEF Init, CInv
<1>2. CInv /\ [Next]_vars => CInv'
  <2> SUFFICES ASSUME CInv, [Next]_vars PROVE CInv'
    OBVIOUS
  <2>1. CASE UNCHANGED vars
    BY <2>1 DEF vars, CInv, TypeOK, Control
  <2>2. ASSUME Erase \/ ManagerStop \/ UnlockManager \/ Join PROVE CInv'
    <3>1. early \in BOOLEAN
      BY DEF CInv, TypeOK
    <3>2. QED
      BY <2>2, <3>1, PcInv DEF Erase, ManagerStop, UnlockManager, Join, main
  <2>3. ASSUME NEW k \in DOMAIN m_connector.pending, NEW ok \in BOOLEAN, CompleteOp(k, ok)
        PROVE  CInv'
    BY <2>3, CompleteOpInv
  <2>4. QED
    BY <2>1, <2>2, <2>3, RunInv, DispatchInv, ReturnFromRunInv, ResetStateInv,
       HandleResolveInv, SetOptionInv, HandleConnectInv, HandleLoginInv, HandleWatchInv,
       HandleReadInv, HandleSendKeepAliveInv, HandleBeaconInv, CheckDeadlineInv,
       HandleTimedConnectInv, HandleUnwatchInv, ScheduleStopInv, StopUnwatchedInv, StopIoInv,
       Zenon DEF Next, Terminated
<1>3. QED
  BY <1>1, <1>2, PTL DEF Spec

\* The variables of Client keep their types.
THEOREM ClientTypeCorrect == Spec => []TypeOK
<1>1. CInv => TypeOK
  BY DEF CInv
<1>2. QED
  BY <1>1, CInvInvariant, PTL

\* A client that connects has one attempt under way and a client that runs has one
\* read and no attempt, for any number of beacons: reconnect, which cancels the
\* operations of the old connection, never leaves one behind that a handler takes
\* for one of the new connection.
THEOREM OneActivityAlways == Spec => []OneActivity
<1>1. CInv => OneActivity
  <2>1. \A X : InFlight(X) = Flying(m_connector, current, X)
    BY Zenon DEF InFlight, Flying, Waiting
  <2>2. QED
    BY <2>1 DEF CInv, Fit, ConnectingFit, RunningFit, OneActivity
<1>2. QED
  BY <1>1, CInvInvariant, PTL

\* A running client of a kind with a timer has one wait of it under way.
THEOREM OneTimerLoopAlways == Spec => []OneTimerLoop
<1>1. CInv => OneTimerLoop
  <2>1. InFlight(TimerOps) = Flying(m_connector, current, TimerOps)
    BY Zenon DEF InFlight, Flying, Waiting
  <2>2. QED
    BY <2>1 DEF CInv, Fit, RunningFit, OneTimerLoop
<1>2. QED
  BY <1>1, CInvInvariant, PTL

\* The client's thread never runs out of work: m_connector->run() returns only
\* when it was stopped.
THEOREM ReturnsOnlyWhenStoppedAlways == Spec => []ReturnsOnlyWhenStopped
<1>1. CInv => ReturnsOnlyWhenStopped
  BY DEF CInv, Control, ReturnsOnlyWhenStopped
<1>2. QED
  BY <1>1, CInvInvariant, PTL

\* The exception of set_option in the noexcept handler, which ends the program,
\* is thrown only while ClientManager::stop stops the client.
THEOREM AbortsOnlyInStopAlways == Spec => []AbortsOnlyInStop
<1>1. CInv => AbortsOnlyInStop
  BY DEF CInv, Control, AfterStop, AbortsOnlyInStop
<1>2. QED
  BY <1>1, CInvInvariant, PTL
=============================================================================
