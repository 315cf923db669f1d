------------------------- MODULE AircraftDataProofs -------------------------
(***************************************************************************)
(* Proofs about AircraftData for all sets of ids, priorities and time      *)
(* stamps and all thresholds: type correctness, the agreement of m_index   *)
(* and m_container, the properties of single aircraft and of the reports,  *)
(* and that AircraftData implements AircraftStore.                         *)
(***************************************************************************)
EXTENDS AircraftDataRefinement, SequenceLemmas

\* What vector::erase leaves: the elements behind the erased one move up.
LEMMA WithoutElements ==
    ASSUME NEW S, NEW s \in Seq(S), NEW i \in 1 .. Len(s)
    PROVE  /\ Without(s, i) \in Seq(S)
           /\ Len(Without(s, i)) = Len(s) - 1
           /\ \A k \in 1 .. Len(s) - 1 :
                 Without(s, i)[k] = IF k < i THEN s[k] ELSE s[k + 1]
<1> DEFINE front == SubSeq(s, 1, i - 1)
           back  == SubSeq(s, i + 1, Len(s))
<1>1. front \in Seq(S) /\ Len(front) = i - 1
      /\ \A k \in 1 .. i - 1 : front[k] = s[k]
  OBVIOUS
<1>2. back \in Seq(S) /\ Len(back) = Len(s) - i
      /\ \A k \in 1 .. Len(s) - i : back[k] = s[i + k]
  OBVIOUS
<1>3. Without(s, i) = front \o back
  BY DEF Without
<1> HIDE DEF front, back
<1>4. Without(s, i) \in Seq(S) /\ Len(Without(s, i)) = Len(s) - 1
  BY <1>1, <1>2, <1>3
<1>5. ASSUME NEW k \in 1 .. Len(s) - 1
      PROVE  Without(s, i)[k] = IF k < i THEN s[k] ELSE s[k + 1]
  <2>1. CASE k < i
    BY <1>1, <1>2, <1>3, <2>1
  <2>2. CASE k >= i
    <3>1. k - (i - 1) \in 1 .. Len(s) - i
      BY <2>2
    <3>2. (front \o back)[k] = back[k - (i - 1)]
      BY <1>1, <1>2, <2>2
    <3>3. back[k - (i - 1)] = s[i + (k - (i - 1))]
      BY <1>2, <3>1
    <3> QED
      BY <1>3, <2>2, <3>2, <3>3
  <2> QED
    BY <2>1, <2>2
<1> QED
  BY <1>4, <1>5

-----------------------------------------------------------------------------
\* An aircraft stays an aircraft when it ages and when it is processed.
LEMMA OlderType ==
    ASSUME NEW a \in Aircraft
    PROVE  /\ Older(a) \in Aircraft
           /\ Older(a).id = a.id
           /\ Older(a).ts = a.ts
           /\ Older(a).prio = a.prio
           /\ Older(a).serialized = a.serialized
           /\ Older(a).age = a.age + 1
           /\ Older(a).targetType = IF a.age + 1 = OBJ_OUTDATED
                                    THEN "TRANSPONDER" ELSE a.targetType
<1> DEFINE older == Aged(a)
<1>1. /\ older \in Aircraft
      /\ older.id = a.id /\ older.ts = a.ts /\ older.prio = a.prio
      /\ older.serialized = a.serialized /\ older.age = a.age + 1
      /\ older.targetType = a.targetType
  BY DEF Aged, Aircraft
<1>2. Older(a) = IF older.age = OBJ_OUTDATED
                 THEN [older EXCEPT !.targetType = "TRANSPONDER"] ELSE older
  BY DEF Older, AC_NO_FLARM_THRESHOLD
<1> HIDE DEF older
<1> QED
  BY <1>1, <1>2 DEF Aircraft, TargetType

\* AircraftProcessor::process changes nothing but the report.
LEMMA ProcessType ==
    ASSUME NEW a \in Aircraft, NEW inRange \in BOOLEAN
    PROVE  /\ Process(a, inRange) \in Aircraft
           /\ Process(a, inRange).id = a.id
           /\ Process(a, inRange).ts = a.ts
           /\ Process(a, inRange).prio = a.prio
           /\ Process(a, inRange).age = a.age
           /\ Process(a, inRange).targetType = a.targetType
           /\ Process(a, inRange).serialized \in {<< >>, <<Report(a.id, a.ts)>>}
BY DEF Process, Aircraft, Serialized

\* Aircraft::assign takes over everything: the update has the id and no age.
LEMMA AssignType ==
    ASSUME NEW a \in Aircraft, NEW u \in Update, u.id = a.id
    PROVE  Assign(a, u) = u
BY DEF Assign, Update

\* What a feed hands over is an aircraft.
LEMMA UpdateType == Update \subseteq Aircraft
BY DEF Update, Aircraft, Serialized

-----------------------------------------------------------------------------
\* The steps, described by what they do to lengths, elements and ids.
LEMMA TryUpdateEffect ==
    ASSUME IInv, NEW u \in Update, TryUpdate(u)
    PROVE  \E p \in DOMAIN m_container :
              /\ m_container[p].id = u.id
              /\ CanUpdate(u, m_container[p])
              /\ m_container' = [m_container EXCEPT ![p] = u]
              /\ m_container' \in Seq(Aircraft)
              /\ Len(m_container') = Len(m_container)
<1>1. PICK p \in DOMAIN m_container : m_container[p].id = u.id
  BY DEF TryUpdate, IInv, LoopInv
<1>2. m_index[u.id] + 1 = p
  BY <1>1 DEF TryUpdate, IInv, LoopInv, TypeOK
<1>3. m_container[p] \in Aircraft
  BY <1>1 DEF IInv, TypeOK
<1>4. /\ CanUpdate(u, m_container[p])
      /\ m_container' = [m_container EXCEPT ![p] = Assign(m_container[p], u)]
  BY <1>2 DEF TryUpdate
<1>5. Assign(m_container[p], u) = u
  BY <1>1, <1>3, AssignType
<1>6. u \in Aircraft
  BY UpdateType
<1>7. m_container' = [m_container EXCEPT ![p] = u]
  BY <1>4, <1>5
<1>8. m_container' \in Seq(Aircraft) /\ Len(m_container') = Len(m_container)
  BY <1>1, <1>6, <1>7 DEF IInv, TypeOK
<1> QED
  BY <1>1, <1>4, <1>7, <1>8

\* What an iteration that keeps its aircraft does to the vector.
LEMMA KeepEffect ==
    ASSUME IInv, KeepAircraft
    PROVE  \E a \in Aircraft :
              /\ it \in DOMAIN m_container
              /\ a.id = m_container[it].id
              /\ a.ts = m_container[it].ts
              /\ a.prio = m_container[it].prio
              /\ a.age = m_container[it].age + 1
              /\ a.age < AC_DELETE_THRESHOLD
              /\ a.targetType = Older(m_container[it]).targetType
              /\ a.serialized \in {m_container[it].serialized, << >>,
                                   <<Report(a.id, a.ts)>>}
              /\ m_container' = [m_container EXCEPT ![it] = a]
              /\ m_container' \in Seq(Aircraft)
              /\ Len(m_container') = Len(m_container)
<1> DEFINE old == Older(m_container[it])
<1>1. it \in DOMAIN m_container /\ m_container[it] \in Aircraft
  BY DEF IInv, TypeOK, KeepAircraft
<1>2. /\ old \in Aircraft
      /\ old.id = m_container[it].id
      /\ old.ts = m_container[it].ts
      /\ old.prio = m_container[it].prio
      /\ old.serialized = m_container[it].serialized
      /\ old.age = m_container[it].age + 1
  BY <1>1, OlderType
<1>3. old.age < AC_DELETE_THRESHOLD
  BY DEF KeepAircraft
<1>4. PICK inRange \in BOOLEAN :
        m_container' = [m_container EXCEPT ![it] =
            IF old.age = 1 THEN Process(old, inRange) ELSE old]
  BY DEF KeepAircraft
<1> DEFINE a == IF old.age = 1 THEN Process(old, inRange) ELSE old
<1>5. /\ a \in Aircraft /\ a.id = old.id /\ a.ts = old.ts /\ a.prio = old.prio
      /\ a.age = old.age /\ a.targetType = old.targetType
      /\ a.serialized \in {old.serialized, << >>, <<Report(a.id, a.ts)>>}
  <2> HIDE DEF old
  <2> QED BY <1>2, ProcessType
<1> HIDE DEF old, a
<1>6. m_container' = [m_container EXCEPT ![it] = a]
  BY <1>4 DEF a
<1>7. m_container' \in Seq(Aircraft) /\ Len(m_container') = Len(m_container)
  BY <1>1, <1>5, <1>6 DEF IInv, TypeOK
<1>8. a.targetType = Older(m_container[it]).targetType
  BY <1>5 DEF old
<1> QED
  BY <1>1, <1>2, <1>3, <1>5, <1>6, <1>7, <1>8

-----------------------------------------------------------------------------
\* The invariant holds of the empty container.
LEMMA InitIInv == Init => IInv
<1> SUFFICES ASSUME Init PROVE IInv
  OBVIOUS
<1>1. DOMAIN m_container = {} /\ DOMAIN m_index = {} /\ Len(m_container) = 0
  BY DEF Init
<1>2. TypeOK
  <2>1. m_container \in Seq(Aircraft)
    BY DEF Init
  <2>2. it \in 1 .. Len(m_container) + 1 /\ index \in Nat
    BY <1>1 DEF Init
  <2>3. del \in BOOLEAN /\ mutex \in {"free", "process"}
    BY DEF Init
  <2> QED
    BY <1>1, <2>1, <2>2, <2>3 DEF TypeOK
<1>3. LoopInv
  BY <1>1 DEF Init, LoopInv
<1>4. StoredAircraftSound /\ FlarmIsFresh
  BY <1>1 DEF StoredAircraftSound, FlarmIsFresh
<1> QED
  BY <1>2, <1>3, <1>4 DEF IInv

\* update of a known aircraft preserves the invariant.
LEMMA TryUpdateIInv == ASSUME IInv, NEW u \in Update, TryUpdate(u) PROVE IInv'
<1>1. PICK p \in DOMAIN m_container :
        /\ m_container[p].id = u.id
        /\ CanUpdate(u, m_container[p])
        /\ m_container' = [m_container EXCEPT ![p] = u]
        /\ m_container' \in Seq(Aircraft)
        /\ Len(m_container') = Len(m_container)
  BY TryUpdateEffect
<1>2. u \in Aircraft /\ u.age = 0 /\ u.serialized = << >>
  BY UpdateType DEF Update
<1>3. UNCHANGED <<m_index, mutex, it, index, del>>
  BY DEF TryUpdate, loop
<1>4. /\ DOMAIN m_container' = DOMAIN m_container
      /\ \A k \in DOMAIN m_container :
            m_container'[k] = IF k = p THEN u ELSE m_container[k]
      /\ \A k \in DOMAIN m_container : m_container'[k].id = m_container[k].id
  BY <1>1 DEF IInv, TypeOK
<1>5. TypeOK'
  BY <1>1, <1>3 DEF IInv, TypeOK
<1>6. LoopInv'
  BY <1>3, <1>4 DEF IInv, LoopInv
<1>7. StoredAircraftSound'
  BY <1>2, <1>4, AircraftAssumption, OutdatedAssumption
  DEF IInv, StoredAircraftSound
<1>8. FlarmIsFresh'
  BY <1>2, <1>4, OutdatedAssumption
  DEF IInv, FlarmIsFresh, AC_NO_FLARM_THRESHOLD
<1> QED
  BY <1>5, <1>6, <1>7, <1>8 DEF IInv

\* insert preserves the invariant.
LEMMA InsertIInv == ASSUME IInv, NEW u \in Update, Insert(u) PROVE IInv'
<1>1. u \in Aircraft /\ u.age = 0 /\ u.serialized = << >> /\ u.id \in Ids
  BY UpdateType DEF Update
<1>2. UNCHANGED <<mutex, it, index, del>>
  BY DEF Insert, loop
<1>3. /\ m_container' \in Seq(Aircraft)
      /\ Len(m_container') = Len(m_container) + 1
      /\ DOMAIN m_container' = DOMAIN m_container \cup {Len(m_container) + 1}
      /\ \A k \in DOMAIN m_container : m_container'[k] = m_container[k]
      /\ m_container'[Len(m_container) + 1] = u
  BY <1>1 DEF Insert, IInv, TypeOK
<1>4. /\ DOMAIN m_index' = DOMAIN m_index \cup {u.id}
      /\ m_index'[u.id] = Len(m_container)
      /\ \A id \in DOMAIN m_index : m_index'[id] = m_index[id]
      /\ u.id \notin DOMAIN m_index
  BY DEF Insert
<1>5. Len(m_container) \in Nat /\ DOMAIN m_container = 1 .. Len(m_container)
  BY DEF IInv, TypeOK
<1>6. TypeOK'
  BY <1>1, <1>2, <1>3, <1>4, <1>5 DEF IInv, TypeOK
<1>7. mutex = "free" /\ u.id \notin {m_container[k].id : k \in DOMAIN m_container}
  BY <1>4 DEF Insert, IInv, LoopInv
<1>8. LoopInv'
  <2>1. ASSUME NEW k \in DOMAIN m_container'
        PROVE  m_index'[m_container'[k].id] = k - 1
    <3>1. CASE k \in DOMAIN m_container
      <4>1. /\ m_container'[k].id = m_container[k].id
            /\ m_container[k].id \in DOMAIN m_index
        BY <1>3, <3>1 DEF IInv, LoopInv
      <4>2. m_index[m_container[k].id] = k - 1
        BY <1>7, <3>1 DEF IInv, LoopInv
      <4> QED
        BY <1>4, <4>1, <4>2
    <3>2. CASE k = Len(m_container) + 1
      BY <1>3, <1>4, <1>5, <3>2
    <3> QED
      BY <1>3, <3>1, <3>2
  <2>2. \A j, k \in DOMAIN m_container' :
           m_container'[j].id = m_container'[k].id => j = k
    BY <1>3, <1>5, <1>7 DEF IInv, LoopInv
  <2>3. DOMAIN m_index' = {m_container'[k].id : k \in DOMAIN m_container'}
    BY <1>3, <1>4, <1>5 DEF IInv, LoopInv
  <2>4. index' = it' - 1
    BY <1>2 DEF IInv, LoopInv
  <2> QED
    BY <2>1, <2>2, <2>3, <2>4 DEF LoopInv
<1>9. StoredAircraftSound'
  BY <1>1, <1>3, AircraftAssumption, OutdatedAssumption
  DEF IInv, StoredAircraftSound
<1>10. FlarmIsFresh'
  BY <1>1, <1>3, OutdatedAssumption
  DEF IInv, FlarmIsFresh, AC_NO_FLARM_THRESHOLD
<1> QED
  BY <1>6, <1>8, <1>9, <1>10 DEF IInv

\* The start of processAircrafts preserves the invariant.
LEMMA BeginProcessIInv == ASSUME IInv, BeginProcess PROVE IInv'
<1>1. /\ m_container' = m_container /\ m_index' = m_index
      /\ mutex = "free" /\ mutex' = "process"
      /\ it' = 1 /\ index' = 0 /\ del' = FALSE
  BY DEF BeginProcess
<1>2. TypeOK'
  <2>1. it' \in 1 .. Len(m_container') + 1 /\ index' \in Nat
    BY <1>1 DEF IInv, TypeOK
  <2>2. del' \in BOOLEAN /\ mutex' \in {"free", "process"}
    BY <1>1
  <2> QED
    BY <1>1, <2>1, <2>2 DEF IInv, TypeOK
<1>3. LoopInv'
  BY <1>1 DEF IInv, LoopInv
<1>4. StoredAircraftSound' /\ FlarmIsFresh'
  BY <1>1 DEF IInv, StoredAircraftSound, FlarmIsFresh
<1> QED
  BY <1>2, <1>3, <1>4 DEF IInv

\* The end of processAircrafts preserves the invariant: at the end of the vector all
\* positions have been repaired.
LEMMA EndProcessIInv == ASSUME IInv, EndProcess PROVE IInv'
<1>1. /\ m_container' = m_container /\ m_index' = m_index
      /\ it > Len(m_container) /\ mutex' = "free"
      /\ it' = 1 /\ index' = 0 /\ del' = FALSE
  BY DEF EndProcess
<1>2. TypeOK'
  <2>1. it' \in 1 .. Len(m_container') + 1 /\ index' \in Nat
    BY <1>1 DEF IInv, TypeOK
  <2>2. del' \in BOOLEAN /\ mutex' \in {"free", "process"}
    BY <1>1
  <2> QED
    BY <1>1, <2>1, <2>2 DEF IInv, TypeOK
<1>3. LoopInv'
  <2>1. \A k \in DOMAIN m_container : k <= it
    BY <1>1 DEF IInv, TypeOK
  <2> QED
    BY <1>1, <2>1 DEF IInv, LoopInv
<1>4. StoredAircraftSound' /\ FlarmIsFresh'
  BY <1>1 DEF IInv, StoredAircraftSound, FlarmIsFresh
<1> QED
  BY <1>2, <1>3, <1>4 DEF IInv

\* An iteration that keeps its aircraft preserves the invariant.
LEMMA KeepAircraftIInv == ASSUME IInv, KeepAircraft PROVE IInv'
<1>1. PICK a \in Aircraft :
        /\ it \in DOMAIN m_container
        /\ a.id = m_container[it].id
        /\ a.ts = m_container[it].ts
        /\ a.age = m_container[it].age + 1
        /\ a.age < AC_DELETE_THRESHOLD
        /\ a.targetType = Older(m_container[it]).targetType
        /\ a.serialized \in {m_container[it].serialized, << >>,
                             <<Report(a.id, a.ts)>>}
        /\ m_container' = [m_container EXCEPT ![it] = a]
        /\ m_container' \in Seq(Aircraft)
        /\ Len(m_container') = Len(m_container)
  BY KeepEffect
<1>2. /\ DOMAIN m_container = 1 .. Len(m_container)
      /\ Len(m_container) \in Nat
      /\ m_container[it] \in Aircraft
      /\ index = it - 1
  BY <1>1 DEF IInv, TypeOK, LoopInv
<1>3. /\ DOMAIN m_container' = DOMAIN m_container
      /\ \A k \in DOMAIN m_container :
            m_container'[k] = IF k = it THEN a ELSE m_container[k]
      /\ \A k \in DOMAIN m_container : m_container'[k].id = m_container[k].id
  BY <1>1, <1>2 DEF IInv, TypeOK
<1>4. /\ mutex = "process" /\ mutex' = mutex /\ del' = del
      /\ it' = it + 1 /\ index' = index + 1
      /\ m_index' = IF del /\ it + 1 <= Len(m_container)
                    THEN [m_index EXCEPT ![m_container[it + 1].id] = index + 1]
                    ELSE m_index
  BY DEF KeepAircraft, Reindex
<1>5. TypeOK'
  <2>1. DOMAIN m_index' = DOMAIN m_index
    BY <1>4
  <2>2. \A id \in DOMAIN m_index : m_index'[id] \in Nat
    BY <1>4 DEF IInv, TypeOK
  <2> QED
    BY <1>1, <1>2, <1>4, <2>1, <2>2 DEF IInv, TypeOK
<1>6. LoopInv'
  <2>1. DOMAIN m_index' = {m_container'[k].id : k \in DOMAIN m_container'}
    BY <1>3, <1>4 DEF IInv, LoopInv
  <2>2. ASSUME NEW k \in DOMAIN m_container', ~del \/ k <= it + 1
        PROVE  m_index'[m_container'[k].id] = k - 1
    <3>1. k \in DOMAIN m_container /\ m_container[k].id \in DOMAIN m_index
      BY <1>3 DEF IInv, LoopInv
    <3>2. CASE del /\ k = it + 1
      <4>1. it + 1 <= Len(m_container) /\ index + 1 = k - 1
        BY <1>1, <1>2, <3>1, <3>2
      <4>2. m_index' = [m_index EXCEPT ![m_container[k].id] = k - 1]
        BY <1>4, <3>2, <4>1
      <4> QED
        BY <1>3, <3>1, <4>2
    <3>3. CASE ~(del /\ k = it + 1)
      <4>1. ~del \/ k <= it
        BY <1>1, <1>2, <2>2, <3>1, <3>3
      <4>2. m_index[m_container[k].id] = k - 1
        BY <3>1, <4>1 DEF IInv, LoopInv
      <4>3. m_index'[m_container[k].id] = m_index[m_container[k].id]
        <5>1. CASE del /\ it + 1 <= Len(m_container)
          <6>1. it + 1 \in DOMAIN m_container /\ k # it + 1
            BY <1>2, <3>3, <5>1, <1>1
          <6>2. m_container[k].id # m_container[it + 1].id
            BY <3>1, <6>1 DEF IInv, LoopInv
          <6> QED
            BY <1>4, <3>1, <5>1, <6>2
        <5>2. CASE ~(del /\ it + 1 <= Len(m_container))
          BY <1>4, <5>2
        <5> QED
          BY <5>1, <5>2
      <4> QED
        BY <1>3, <3>1, <4>2, <4>3
    <3> QED
      BY <3>2, <3>3
  <2>3. \A j, k \in DOMAIN m_container' :
           m_container'[j].id = m_container'[k].id => j = k
    BY <1>3 DEF IInv, LoopInv
  <2>4. index' = it' - 1
    BY <1>1, <1>2, <1>4
  <2> QED
    BY <1>4, <2>1, <2>2, <2>3, <2>4 DEF LoopInv
<1>7. StoredAircraftSound'
  <2>1. a.serialized # << >> =>
           a.serialized = <<Report(a.id, a.ts)>> /\ a.age >= 1
    BY <1>1, <1>2 DEF IInv, StoredAircraftSound, Aircraft
  <2> QED
    BY <1>1, <1>3, <2>1 DEF IInv, StoredAircraftSound
<1>8. FlarmIsFresh'
  <2>1. a.targetType = "FLARM" => a.age < OBJ_OUTDATED
    <3>1. a.targetType = IF m_container[it].age + 1 = OBJ_OUTDATED
                         THEN "TRANSPONDER" ELSE m_container[it].targetType
      BY <1>1, <1>2, OlderType
    <3>2. m_container[it].targetType = "FLARM" => m_container[it].age < OBJ_OUTDATED
      BY <1>1 DEF IInv, FlarmIsFresh, AC_NO_FLARM_THRESHOLD
    <3> QED
      BY <1>1, <1>2, <3>1, <3>2, OutdatedAssumption DEF Aircraft
  <2> QED
    BY <1>3, <2>1 DEF IInv, FlarmIsFresh, AC_NO_FLARM_THRESHOLD
<1> QED
  BY <1>5, <1>6, <1>7, <1>8 DEF IInv

\* Old position of the aircraft that stands at k once position p is erased.
Shift(k, p) == IF k < p THEN k ELSE k + 1

\* What an iteration that erases its aircraft does to vector and index.
LEMMA EraseEffect ==
    ASSUME IInv, EraseAircraft
    PROVE  /\ it \in DOMAIN m_container
           /\ m_container' \in Seq(Aircraft)
           /\ Len(m_container') = Len(m_container) - 1
           /\ \A k \in DOMAIN m_container' :
                 /\ Shift(k, it) \in DOMAIN m_container
                 /\ Shift(k, it) # it
                 /\ m_container'[k] = m_container[Shift(k, it)]
           /\ \A k \in DOMAIN m_container :
                 k # it => \E j \in DOMAIN m_container' : k = Shift(j, it)
<1>1. it \in 1 .. Len(m_container) /\ m_container \in Seq(Aircraft)
  BY DEF IInv, TypeOK, EraseAircraft
<1>2. m_container' = Without(m_container, it)
  BY DEF EraseAircraft
<1>3. /\ m_container' \in Seq(Aircraft)
      /\ Len(m_container') = Len(m_container) - 1
      /\ \A k \in 1 .. Len(m_container) - 1 :
            m_container'[k] = IF k < it THEN m_container[k] ELSE m_container[k + 1]
  BY <1>1, <1>2, WithoutElements
<1>4. /\ DOMAIN m_container = 1 .. Len(m_container)
      /\ DOMAIN m_container' = 1 .. Len(m_container) - 1
      /\ Len(m_container) \in Nat
  BY <1>1, <1>3
<1>5. \A k \in DOMAIN m_container' :
        /\ Shift(k, it) \in DOMAIN m_container
        /\ Shift(k, it) # it
        /\ m_container'[k] = m_container[Shift(k, it)]
  BY <1>1, <1>3, <1>4 DEF Shift
<1>6. ASSUME NEW k \in DOMAIN m_container, k # it
      PROVE  \E j \in DOMAIN m_container' : k = Shift(j, it)
  <2>1. CASE k < it
    BY <1>1, <1>4, <2>1 DEF Shift
  <2>2. CASE k > it
    <3>1. k - 1 \in DOMAIN m_container' /\ k = Shift(k - 1, it)
      BY <1>1, <1>4, <2>2 DEF Shift
    <3> QED
      BY <3>1
  <2> QED
    BY <1>1, <1>4, <1>6, <2>1, <2>2
<1> QED
  BY <1>1, <1>3, <1>4, <1>5, <1>6

\* An iteration that erases its aircraft preserves the invariant.
LEMMA EraseAircraftIInv == ASSUME IInv, EraseAircraft PROVE IInv'
<1> DEFINE gone == m_container[it].id
           others == [id \in DOMAIN m_index \ {gone} |-> m_index[id]]
<1>1. /\ it \in DOMAIN m_container
      /\ m_container' \in Seq(Aircraft)
      /\ Len(m_container') = Len(m_container) - 1
      /\ \A k \in DOMAIN m_container' :
            /\ Shift(k, it) \in DOMAIN m_container
            /\ Shift(k, it) # it
            /\ m_container'[k] = m_container[Shift(k, it)]
      /\ \A k \in DOMAIN m_container :
            k # it => \E j \in DOMAIN m_container' : k = Shift(j, it)
  BY EraseEffect
<1>2. /\ DOMAIN m_container = 1 .. Len(m_container)
      /\ DOMAIN m_container' = 1 .. Len(m_container')
      /\ Len(m_container) \in Nat
      /\ m_container[it] \in Aircraft
      /\ index = it - 1
      /\ gone \in DOMAIN m_index
  BY <1>1 DEF IInv, TypeOK, LoopInv
<1>3. /\ mutex = "process" /\ mutex' = mutex /\ it' = it /\ index' = index
      /\ del' = TRUE
      /\ m_index' = IF it <= Len(m_container')
                    THEN [others EXCEPT ![m_container'[it].id] = index]
                    ELSE others
  <2>1. Older(m_container[it]).id = gone
    BY <1>2, OlderType
  <2> QED
    BY <2>1 DEF EraseAircraft, Reindex
<1>4. /\ DOMAIN m_index' = DOMAIN m_index \ {gone}
      /\ \A id \in DOMAIN m_index' : m_index'[id] \in Nat
  BY <1>3 DEF IInv, TypeOK
<1>5. TypeOK'
  <2>1. it' \in 1 .. Len(m_container') + 1 /\ index' \in Nat
    BY <1>1, <1>2, <1>3
  <2>2. del' \in BOOLEAN /\ mutex' \in {"free", "process"}
    BY <1>3
  <2> QED
    BY <1>1, <1>4, <2>1, <2>2 DEF IInv, TypeOK
<1>6. LoopInv'
  <2>1. \A j, k \in DOMAIN m_container' :
           m_container'[j].id = m_container'[k].id => j = k
    <3> SUFFICES ASSUME NEW j \in DOMAIN m_container', NEW k \in DOMAIN m_container',
                        m_container'[j].id = m_container'[k].id
                 PROVE  j = k
      OBVIOUS
    <3>1. Shift(j, it) = Shift(k, it)
      BY <1>1 DEF IInv, LoopInv
    <3> QED
      BY <1>1, <1>2, <3>1 DEF Shift
  <2>2. DOMAIN m_index' = {m_container'[k].id : k \in DOMAIN m_container'}
    <3>1. ASSUME NEW id \in DOMAIN m_index'
          PROVE  \E k \in DOMAIN m_container' : m_container'[k].id = id
      <4>1. PICK i \in DOMAIN m_container : m_container[i].id = id
        BY <1>4, <3>1 DEF IInv, LoopInv
      <4>2. i # it
        BY <1>4, <3>1, <4>1
      <4> QED
        BY <1>1, <4>1, <4>2
    <3>2. ASSUME NEW k \in DOMAIN m_container'
          PROVE  m_container'[k].id \in DOMAIN m_index'
      <4>1. m_container'[k].id # gone
        BY <1>1 DEF IInv, LoopInv
      <4>2. m_container'[k].id \in DOMAIN m_index
        BY <1>1 DEF IInv, LoopInv
      <4> QED
        BY <1>4, <4>1, <4>2
    <3> QED
      BY <3>1, <3>2
  <2>3. ASSUME NEW k \in DOMAIN m_container', k <= it
        PROVE  m_index'[m_container'[k].id] = k - 1
    <3>0. m_container'[k].id \in DOMAIN others
      BY <1>4, <2>2
    <3>1. CASE k = it
      <4>1. it <= Len(m_container')
        BY <1>2, <3>1
      <4> QED
        BY <1>2, <1>3, <3>0, <3>1, <4>1
    <3>2. CASE k < it
      <4>1. m_container'[k] = m_container[k] /\ k \in DOMAIN m_container
        BY <1>1, <3>2 DEF Shift
      <4>2. m_index[m_container[k].id] = k - 1
        BY <2>3, <4>1 DEF IInv, LoopInv
      <4>3. m_index'[m_container'[k].id] = others[m_container'[k].id]
        <5>1. CASE it <= Len(m_container')
          <6>1. it \in DOMAIN m_container'
            BY <1>1, <1>2, <5>1
          <6>2. m_container'[it].id # m_container'[k].id
            BY <2>1, <3>2, <6>1, <1>1, <1>2
          <6> QED
            BY <1>3, <3>0, <5>1, <6>2
        <5>2. CASE ~(it <= Len(m_container'))
          BY <1>3, <5>2
        <5> QED
          BY <5>1, <5>2
      <4> QED
        BY <3>0, <4>1, <4>2, <4>3
    <3> QED
      BY <1>1, <1>2, <2>3, <3>1, <3>2
  <2>4. index' = it' - 1
    BY <1>2, <1>3
  <2> QED
    BY <1>3, <2>1, <2>2, <2>3, <2>4 DEF LoopInv
<1>7. StoredAircraftSound'
  BY <1>1 DEF IInv, StoredAircraftSound
<1>8. FlarmIsFresh'
  BY <1>1 DEF IInv, FlarmIsFresh
<1> QED
  BY <1>5, <1>6, <1>7, <1>8 DEF IInv

\* Every step preserves the invariant.
LEMMA NextIInv == IInv /\ [Next]_vars => IInv'
<1> SUFFICES ASSUME IInv, [Next]_vars PROVE IInv'
  OBVIOUS
<1>1. CASE \E u \in Update : TryUpdate(u)
  BY <1>1, TryUpdateIInv
<1>2. CASE \E u \in Update : Insert(u)
  BY <1>2, InsertIInv
<1>3. CASE BeginProcess
  BY <1>3, BeginProcessIInv
<1>4. CASE EraseAircraft
  BY <1>4, EraseAircraftIInv
<1>5. CASE KeepAircraft
  BY <1>5, KeepAircraftIInv
<1>6. CASE EndProcess
  BY <1>6, EndProcessIInv
<1>7. CASE UNCHANGED vars
  BY <1>7 DEF vars, loop, IInv, TypeOK, LoopInv, StoredAircraftSound, FlarmIsFresh
<1> QED
  BY <1>1, <1>2, <1>3, <1>4, <1>5, <1>6, <1>7 DEF Next

\* The inductive invariant holds throughout, whatever the feeds deliver and
\* wherever the loop of processAircrafts stands.
THEOREM Invariance == Spec => []IInv
  BY InitIInv, NextIInv, PTL DEF Spec

\* Every variable keeps its type: no position outside the vector is used.
THEOREM TypeCorrect == Spec => []TypeOK
<1>1. IInv => TypeOK
  BY DEF IInv
<1> QED
  BY <1>1, Invariance, PTL

\* m_index and m_container agree whenever a thread can see them, after any
\* sequence of inserts, updates and erasing rounds.
THEOREM IndexAlwaysConsistent == Spec => []IndexConsistent
<1>1. IInv => IndexConsistent
  BY DEF IInv, LoopInv, IndexConsistent
<1> QED
  BY <1>1, Invariance, PTL

\* No aircraft keeps FLARM status beyond the threshold, and no stored report
\* is older than the data stored with it.
THEOREM StoredAircraftAlwaysSound == Spec => [](StoredAircraftSound /\ FlarmIsFresh)
<1>1. IInv => StoredAircraftSound /\ FlarmIsFresh
  BY DEF IInv
<1> QED
  BY <1>1, Invariance, PTL
-----------------------------------------------------------------------------
\* The reports get_serialized walks over: one part for each aircraft, empty if
\* the aircraft is outdated or was filtered out.
Parts ==
    [k \in DOMAIN m_container |->
        IF m_container[k].age < OBJ_OUTDATED
        THEN m_container[k].serialized ELSE << >>]

\* A part that is not empty is the report of the data its aircraft holds now.
LEMMA PartsSound ==
    ASSUME IInv
    PROVE  /\ Parts \in Seq(Seq([id : Ids, ts : TimeStamps]))
           /\ Len(Parts) = Len(m_container)
           /\ \A k \in 1 .. Len(m_container) :
                 \/ Parts[k] = << >>
                 \/ /\ Parts[k] = <<Report(m_container[k].id, m_container[k].ts)>>
                    /\ m_container[k].age \in 1 .. OBJ_OUTDATED - 1
<1> DEFINE R == [id : Ids, ts : TimeStamps]
<1>1. m_container \in Seq(Aircraft) /\ DOMAIN m_container = 1 .. Len(m_container)
      /\ Len(m_container) \in Nat
  BY LenProperties DEF IInv, TypeOK
<1>2. ASSUME NEW k \in 1 .. Len(m_container)
      PROVE  /\ Parts[k] \in Seq(R)
             /\ \/ Parts[k] = << >>
                \/ /\ Parts[k] = <<Report(m_container[k].id, m_container[k].ts)>>
                   /\ m_container[k].age \in 1 .. OBJ_OUTDATED - 1
  <2> DEFINE a == m_container[k]
  <2>1. a \in Aircraft /\ a.id \in Ids /\ a.ts \in TimeStamps /\ a.age \in Nat
    <3>1. a \in Aircraft
      BY <1>1, ElementOfSeq
    <3> HIDE DEF a
    <3>2. QED
      BY <3>1 DEF Aircraft
  <2>2. a.serialized # << >> => a.serialized = <<Report(a.id, a.ts)>> /\ a.age >= 1
    BY <1>1 DEF IInv, StoredAircraftSound
  <2>3. Parts[k] = IF a.age < OBJ_OUTDATED THEN a.serialized ELSE << >>
    BY <1>1 DEF Parts
  <2>4. Report(a.id, a.ts) \in R
    BY <2>1 DEF Report
  <2> HIDE DEF a, R
  <2>5. << >> \in Seq(R) /\ <<Report(a.id, a.ts)>> \in Seq(R)
    BY <2>4
  <2>6. CASE Parts[k] = << >>
    BY <2>5, <2>6
  <2>7. CASE Parts[k] # << >>
    <3>1. a.age < OBJ_OUTDATED /\ Parts[k] = <<Report(a.id, a.ts)>> /\ a.age >= 1
      BY <2>2, <2>3, <2>7
    <3>2. a.age \in 1 .. OBJ_OUTDATED - 1
      BY <2>1, <3>1, OutdatedAssumption
    <3>3. QED
      BY <2>5, <3>1, <3>2 DEF a
  <2>8. QED
    BY <2>6, <2>7
<1>3. Parts = [k \in 1 .. Len(m_container) |-> Parts[k]]
  BY <1>1 DEF Parts
<1> HIDE DEF R
<1>4. Parts \in Seq(Seq(R)) /\ Len(Parts) = Len(m_container)
  BY <1>1, <1>2, <1>3, IsASeq
<1>5. QED
  BY <1>2, <1>4 DEF R

\* Every message is made of current reports, one for each aircraft at most:
\* what get_serialized appends was rendered from the data held at that moment.
THEOREM ReportsAlwaysCurrent == Spec => []ReportsCurrent
<1>1. ASSUME IInv PROVE ReportsCurrent
  <2> DEFINE R == [id : Ids, ts : TimeStamps]
             N == 1 .. Len(get_serialized)
  <2>1. get_serialized = Flattened(Parts)
    BY DEF get_serialized, Parts
  <2>2. /\ Parts \in Seq(Seq(R)) /\ Len(Parts) = Len(m_container)
        /\ \A k \in 1 .. Len(m_container) :
              \/ Parts[k] = << >>
              \/ /\ Parts[k] = <<Report(m_container[k].id, m_container[k].ts)>>
                 /\ m_container[k].age \in 1 .. OBJ_OUTDATED - 1
    BY <1>1, PartsSound
  <2>3. DOMAIN m_container = 1 .. Len(m_container)
    BY <1>1, LenProperties DEF IInv, TypeOK
  <2>4. \A k \in 1 .. Len(Parts) : Len(Parts[k]) <= 1
    <3> SUFFICES ASSUME NEW k \in 1 .. Len(m_container) PROVE Len(Parts[k]) <= 1
      BY <2>2
    <3>1. CASE Parts[k] = << >>
      BY <3>1
    <3>2. CASE Parts[k] = <<Report(m_container[k].id, m_container[k].ts)>>
      BY <3>2
    <3>3. QED
      BY <2>2, <3>1, <3>2
  <2> HIDE DEF R
  <2>5. /\ get_serialized \in Seq(R)
        /\ \E o : Sources(o, Parts, get_serialized)
    BY <2>1, <2>2, <2>4, FlattenSources
  <2>6. PICK o : Sources(o, Parts, get_serialized)
    BY <2>5
  <2>7. DOMAIN get_serialized = N
    BY <2>5, LenProperties
  <2>8. ASSUME NEW n \in N
        PROVE  /\ o[n] \in DOMAIN m_container
               /\ get_serialized[n] = Report(m_container[o[n]].id, m_container[o[n]].ts)
               /\ m_container[o[n]].age \in 1 .. OBJ_OUTDATED - 1
    <3>1. o[n] \in 1 .. Len(m_container) /\ Parts[o[n]] = <<get_serialized[n]>>
      BY <2>2, <2>6 DEF Sources
    <3>2. Parts[o[n]] # << >>
      BY <3>1
    <3> DEFINE r == Report(m_container[o[n]].id, m_container[o[n]].ts)
    <3>3. Parts[o[n]] = <<r>> /\ m_container[o[n]].age \in 1 .. OBJ_OUTDATED - 1
      BY <2>2, <3>1, <3>2
    <3> HIDE DEF r
    <3>4. get_serialized[n] = r
      <4>1. <<get_serialized[n]>> = <<r>>
        BY <3>1, <3>3
      <4>2. QED
        BY <4>1
    <3>5. QED
      BY <2>3, <3>1, <3>3, <3>4 DEF r
  <2>9. ASSUME NEW m \in N, NEW n \in N, get_serialized[m].id = get_serialized[n].id
        PROVE  m = n
    <3>1. m_container[o[m]].id = m_container[o[n]].id
      <4>1. /\ get_serialized[m] = Report(m_container[o[m]].id, m_container[o[m]].ts)
            /\ get_serialized[n] = Report(m_container[o[n]].id, m_container[o[n]].ts)
        BY <2>8
      <4>2. \A i, t : Report(i, t).id = i
        BY DEF Report
      <4>3. get_serialized[m].id = m_container[o[m]].id
        BY <4>1, <4>2
      <4>4. get_serialized[n].id = m_container[o[n]].id
        BY <4>1, <4>2
      <4>5. QED
        BY <2>9, <4>3, <4>4
    <3>2. o[m] = o[n]
      BY <1>1, <2>8, <3>1 DEF IInv, LoopInv
    <3>3. QED
      BY <2>6, <3>2 DEF Sources
  <2> HIDE DEF N
  <2>10. QED
    BY <2>7, <2>8, <2>9 DEF ReportsCurrent
<1>2. IInv => ReportsCurrent
  BY <1>1
<1> QED
  BY <1>2, Invariance, PTL

-----------------------------------------------------------------------------
(***************************************************************************)
(* AircraftData implements AircraftStore.  Each step is compared, id by    *)
(* id, with the step of the abstract store it stands for: an update is an  *)
(* Accept, locking the mutex in processAircrafts is a Round, and the       *)
(* iterations of its loop change nothing that AircraftStore sees.          *)
(***************************************************************************)
UniqueIds(c) == \A j, k \in DOMAIN c : c[j].id = c[k].id => j = k

\* The abstract content of an id, read off any position that holds it.
LEMMA StoreOfStored ==
    ASSUME NEW c \in Seq(Aircraft), UniqueIds(c), NEW pending,
           NEW p \in DOMAIN c
    PROVE  StoreOf(c, pending)[c[p].id] = AbstractAircraft(Seen(c, pending, p))
<1>0. c[p] \in Aircraft
  OBVIOUS
<1>1. c[p].id \in Ids
  BY <1>0 DEF Aircraft
<1>2. (CHOOSE k \in DOMAIN c : c[k].id = c[p].id) = p
  BY DEF UniqueIds
<1> QED
  BY <1>1, <1>2 DEF StoreOf

\* An id that no aircraft of the vector has is absent.
LEMMA StoreOfMissing ==
    ASSUME NEW c, NEW pending, NEW id \in Ids, \A k \in DOMAIN c : c[k].id # id
    PROVE  StoreOf(c, pending)[id] = [known |-> FALSE]
BY DEF StoreOf

\* Two vectors with the same content for every id are the same store.
LEMMA StoreOfEqual ==
    ASSUME NEW c, NEW d, NEW m, NEW n,
           \A id \in Ids : StoreOf(c, m)[id] = StoreOf(d, n)[id]
    PROVE  StoreOf(c, m) = StoreOf(d, n)
BY DEF StoreOf

\* What the invariant says of the positions in the vector.
LEMMA Positions ==
    ASSUME IInv
    PROVE  /\ m_container \in Seq(Aircraft)
           /\ UniqueIds(m_container)
           /\ DOMAIN m_container = 1 .. Len(m_container)
           /\ Len(m_container) \in Nat
           /\ \A k \in DOMAIN m_container : m_container[k] \in Aircraft
BY DEF IInv, TypeOK, LoopInv, UniqueIds

\* An aircraft below the delete threshold is known, with the data it has.
LEMMA FreshStored ==
    ASSUME NEW a \in Aircraft, a.age < AC_DELETE_THRESHOLD
    PROVE  AbstractAircraft(a) = [known |-> TRUE, targetType |-> a.targetType,
                                  prio |-> a.prio, ts |-> a.ts, age |-> a.age]
BY AircraftAssumption DEF AbstractAircraft, Aircraft

-----------------------------------------------------------------------------
\* The empty container is the store that knows no aircraft.
LEMMA InitStore == Init => Store!Init
BY DEF Init, Store!Init, Store!Absent, AbstractStore, StoreOf

\* Vector d is vector c with update u put at position p; nothing is pending.
Puts(c, m, d, n, p, u) ==
    /\ c \in Seq(Aircraft) /\ UniqueIds(c) /\ m \in Nat /\ m > Len(c)
    /\ d \in Seq(Aircraft) /\ UniqueIds(d) /\ n \in Nat /\ n > Len(d)
    /\ u \in Update
    /\ p \in DOMAIN d /\ d[p] = u
    /\ \A k \in DOMAIN d \ {p} : k \in DOMAIN c /\ d[k] = c[k]
    /\ \A k \in DOMAIN c : k \in DOMAIN d \ {p} \/ c[k].id = u.id

StorePut(store, u) ==
    [store EXCEPT ![u.id] = [known |-> TRUE, targetType |-> u.targetType,
                             prio |-> u.prio, ts |-> u.ts, age |-> 0]]

\* Storing u where id u.id belongs changes the abstract store at u.id only.
LEMMA StoreOfUpdated ==
    ASSUME NEW c, NEW m, NEW d, NEW n, NEW p, NEW u, Puts(c, m, d, n, p, u)
    PROVE  StoreOf(d, n) = StorePut(StoreOf(c, m), u)
<1> DEFINE new == [known |-> TRUE, targetType |-> u.targetType, prio |-> u.prio,
                   ts |-> u.ts, age |-> 0]
<1> USE DEF Puts
<1>1. u \in Aircraft /\ u.age = 0 /\ u.id \in Ids
  BY UpdateType DEF Update
<1>2. /\ DOMAIN c = 1 .. Len(c) /\ Len(c) \in Nat
      /\ DOMAIN d = 1 .. Len(d) /\ Len(d) \in Nat
  OBVIOUS
<1>3. StoreOf(d, n)[u.id] = new
  <2>1. StoreOf(d, n)[u.id] = AbstractAircraft(Seen(d, n, p))
    BY StoreOfStored
  <2>2. Seen(d, n, p) = u
    BY <1>2 DEF Seen
  <2>3. AbstractAircraft(u) = new
    BY <1>1, FreshStored, AircraftAssumption, OutdatedAssumption
  <2> QED
    BY <2>1, <2>2, <2>3
<1>4. ASSUME NEW id \in Ids, id # u.id
      PROVE  StoreOf(d, n)[id] = StoreOf(c, m)[id]
  <2>1. CASE \E k \in DOMAIN d : d[k].id = id
    <3>1. PICK k \in DOMAIN d : d[k].id = id
      BY <2>1
    <3>2. k # p /\ k \in DOMAIN c /\ d[k] = c[k]
      BY <1>4, <3>1
    <3>3. Seen(d, n, k) = c[k] /\ Seen(c, m, k) = c[k]
      BY <1>2, <3>2 DEF Seen
    <3>4. StoreOf(d, n)[d[k].id] = AbstractAircraft(Seen(d, n, k))
      BY StoreOfStored
    <3>5. StoreOf(c, m)[c[k].id] = AbstractAircraft(Seen(c, m, k))
      BY <3>2, StoreOfStored
    <3> QED
      BY <3>1, <3>2, <3>3, <3>4, <3>5
  <2>2. CASE \A k \in DOMAIN d : d[k].id # id
    <3>1. \A k \in DOMAIN c : c[k].id # id
      BY <1>4, <2>2
    <3> QED
      BY <2>2, <3>1, StoreOfMissing
  <2> QED
    BY <2>1, <2>2
<1> HIDE DEF new
<1>5. StoreOf(d, n) = [StoreOf(c, m) EXCEPT ![u.id] = new]
  <2>1. DOMAIN StoreOf(d, n) = Ids /\ DOMAIN StoreOf(c, m) = Ids
    BY DEF StoreOf
  <2>2. StoreOf(d, n) = [id \in Ids |-> StoreOf(d, n)[id]]
    BY DEF StoreOf
  <2> QED
    BY <1>1, <1>3, <1>4, <2>1, <2>2
<1> QED
  BY <1>5 DEF new, StorePut

\* update of a known aircraft is an abstract Accept.
LEMMA TryUpdateRefines ==
    ASSUME IInv, IInv', NEW u \in Update, TryUpdate(u)
    PROVE  Store!Accept(u.id, u.targetType, u.prio, u.ts)
<1>1. PICK p \in DOMAIN m_container :
        /\ m_container[p].id = u.id
        /\ CanUpdate(u, m_container[p])
        /\ m_container' = [m_container EXCEPT ![p] = u]
        /\ m_container' \in Seq(Aircraft)
        /\ Len(m_container') = Len(m_container)
  BY TryUpdateEffect
<1>2. /\ m_container \in Seq(Aircraft) /\ UniqueIds(m_container)
      /\ DOMAIN m_container = 1 .. Len(m_container)
      /\ Len(m_container) \in Nat
      /\ m_container[p] \in Aircraft
  BY <1>1, Positions
<1>3. UniqueIds(m_container')
  BY DEF IInv, LoopInv, UniqueIds
<1>4. /\ Pending = Len(m_container) + 1
      /\ Pending' = Len(m_container') + 1
  BY DEF TryUpdate, Pending
<1>5. AbstractStore' = StorePut(AbstractStore, u)
  <2>1. /\ p \in DOMAIN m_container' /\ m_container'[p] = u
        /\ \A k \in DOMAIN m_container' \ {p} :
              k \in DOMAIN m_container /\ m_container'[k] = m_container[k]
        /\ \A k \in DOMAIN m_container :
              k \in DOMAIN m_container' \ {p} \/ m_container[k].id = u.id
    BY <1>1, <1>2
  <2>2. /\ Pending \in Nat /\ Pending > Len(m_container)
        /\ Pending' \in Nat /\ Pending' > Len(m_container')
    BY <1>1, <1>2, <1>4
  <2>3. StoreOf(m_container', Pending') = StorePut(StoreOf(m_container, Pending), u)
    <3>1. Puts(m_container, Pending, m_container', Pending', p, u)
      BY <1>1, <1>2, <1>3, <2>1, <2>2 DEF Puts
    <3> QED
      BY <3>1, StoreOfUpdated
  <2> QED
    BY <2>3 DEF AbstractStore
<1>6. AbstractStore[u.id] = [known |-> TRUE,
         targetType |-> m_container[p].targetType, prio |-> m_container[p].prio,
         ts |-> m_container[p].ts, age |-> m_container[p].age]
  <2>1. AbstractStore[m_container[p].id] = AbstractAircraft(Seen(m_container, Pending, p))
    BY <1>2, StoreOfStored DEF AbstractStore
  <2>2. Seen(m_container, Pending, p) = m_container[p]
    BY <1>2, <1>4 DEF Seen
  <2>3. m_container[p].age < AC_DELETE_THRESHOLD
    BY DEF IInv, StoredAircraftSound
  <2> QED
    BY <1>1, <1>2, <2>1, <2>2, <2>3, FreshStored
<1>7. Store!Supersedes(u.targetType, u.prio, u.ts, AbstractStore[u.id])
  BY <1>1, <1>2, <1>6, OutdatedAssumption, UpdateType
  DEF Store!Supersedes, CanUpdate, ObjectCanUpdate, Aircraft, TargetType, Update
<1> QED
  BY <1>5, <1>7 DEF StorePut, Store!Accept, Store!Known

\* insert is an abstract Accept of an absent aircraft.
LEMMA InsertRefines ==
    ASSUME IInv, IInv', NEW u \in Update, Insert(u)
    PROVE  Store!Accept(u.id, u.targetType, u.prio, u.ts)
<1>1. /\ m_container \in Seq(Aircraft) /\ UniqueIds(m_container)
      /\ DOMAIN m_container = 1 .. Len(m_container)
      /\ Len(m_container) \in Nat
  BY Positions
<1>2. m_container' \in Seq(Aircraft) /\ UniqueIds(m_container')
  BY DEF IInv, TypeOK, LoopInv, UniqueIds
<1>3. /\ Pending = Len(m_container) + 1
      /\ Pending' = Len(m_container') + 1
  BY DEF Insert, Pending
<1>4. u \in Aircraft /\ u.id \in Ids
  BY UpdateType DEF Update
<1>5. m_container' = Append(m_container, u)
  BY DEF Insert
<1> DEFINE p == Len(m_container) + 1
<1>6. /\ p \in DOMAIN m_container' /\ m_container'[p] = u
      /\ \A k \in DOMAIN m_container' \ {p} :
            k \in DOMAIN m_container /\ m_container'[k] = m_container[k]
      /\ \A k \in DOMAIN m_container :
            k \in DOMAIN m_container' \ {p} \/ m_container[k].id = u.id
  BY <1>1, <1>4, <1>5
<1>7. /\ Pending \in Nat /\ Pending > Len(m_container)
      /\ Pending' \in Nat /\ Pending' > Len(m_container')
  BY <1>1, <1>2, <1>3
<1> HIDE DEF p
<1>8. AbstractStore' = StorePut(AbstractStore, u)
  <2>1. StoreOf(m_container', Pending') = StorePut(StoreOf(m_container, Pending), u)
    <3>1. Puts(m_container, Pending, m_container', Pending', p, u)
      BY <1>1, <1>2, <1>6, <1>7 DEF Puts
    <3> QED
      BY <3>1, StoreOfUpdated
  <2> QED
    BY <2>1 DEF AbstractStore
<1>9. AbstractStore[u.id] = [known |-> FALSE]
  <2>1. \A k \in DOMAIN m_container : m_container[k].id # u.id
    BY DEF Insert, IInv, LoopInv
  <2> QED
    BY <1>4, <2>1, StoreOfMissing DEF AbstractStore
<1> QED
  BY <1>8, <1>9 DEF StorePut, Store!Accept, Store!Known

\* Ageing one aircraft is what the abstract round does to it.
LEMMA OlderIsRoundOlder ==
    ASSUME NEW a \in Aircraft, a.age < AC_DELETE_THRESHOLD,
           a.targetType = "FLARM" => a.age < OBJ_OUTDATED
    PROVE  AbstractAircraft(Older(a)) = Store!RoundOlder(AbstractAircraft(a))
<1> DEFINE o == Older(a)
<1>1. /\ o \in Aircraft
      /\ o.age = a.age + 1 /\ o.prio = a.prio /\ o.ts = a.ts
      /\ o.targetType = IF a.age + 1 = OBJ_OUTDATED
                        THEN "TRANSPONDER" ELSE a.targetType
  BY OlderType
<1>2. AbstractAircraft(a) = [known |-> TRUE, targetType |-> a.targetType,
                             prio |-> a.prio, ts |-> a.ts, age |-> a.age]
  BY FreshStored
<1>3. o.targetType = IF a.age + 1 >= OBJ_OUTDATED
                     THEN "TRANSPONDER" ELSE a.targetType
  BY <1>1, OutdatedAssumption DEF Aircraft, TargetType
<1> HIDE DEF o
<1>4. ASSUME o.age >= AC_DELETE_THRESHOLD
      PROVE  AbstractAircraft(o) = Store!RoundOlder(AbstractAircraft(a))
  BY <1>1, <1>2, <1>4 DEF AbstractAircraft, Store!RoundOlder, Store!Absent
<1>5. ASSUME o.age < AC_DELETE_THRESHOLD
      PROVE  AbstractAircraft(o) = Store!RoundOlder(AbstractAircraft(a))
  <2>1. AbstractAircraft(o) = [known |-> TRUE, targetType |-> o.targetType,
                               prio |-> o.prio, ts |-> o.ts, age |-> o.age]
    BY <1>1, <1>5, FreshStored
  <2>2. ~(a.age + 1 >= AC_DELETE_THRESHOLD)
    BY <1>1, <1>5, AircraftAssumption DEF Aircraft
  <2> QED
    BY <1>1, <1>2, <1>3, <2>1, <2>2 DEF Store!RoundOlder, Store!Known
<1>6. o.age \in Nat
  BY <1>1 DEF Aircraft
<1> QED
  BY <1>4, <1>5, <1>6, AircraftAssumption DEF o

\* The start of processAircrafts is the abstract Round.
LEMMA BeginProcessRefines ==
    ASSUME IInv, IInv', BeginProcess
    PROVE  Store!Round
<1>1. /\ m_container \in Seq(Aircraft) /\ UniqueIds(m_container)
      /\ DOMAIN m_container = 1 .. Len(m_container)
      /\ Len(m_container) \in Nat
      /\ \A k \in DOMAIN m_container : m_container[k] \in Aircraft
  BY Positions
<1>2. /\ Pending = Len(m_container) + 1
      /\ Pending' = 1
      /\ m_container' = m_container
  BY DEF BeginProcess, Pending
<1>3. ASSUME NEW id \in Ids
      PROVE  StoreOf(m_container, 1)[id] =
                Store!RoundOlder(StoreOf(m_container, Len(m_container) + 1)[id])
  <2>1. CASE \E k \in DOMAIN m_container : m_container[k].id = id
    <3>1. PICK k \in DOMAIN m_container : m_container[k].id = id
      BY <2>1
    <3>2. /\ Seen(m_container, 1, k) = Older(m_container[k])
          /\ Seen(m_container, Len(m_container) + 1, k) = m_container[k]
      BY <1>1 DEF Seen
    <3>3. /\ StoreOf(m_container, 1)[id] = AbstractAircraft(Older(m_container[k]))
          /\ StoreOf(m_container, Len(m_container) + 1)[id]
                = AbstractAircraft(m_container[k])
      BY <1>1, <3>1, <3>2, StoreOfStored
    <3>4. /\ m_container[k].age < AC_DELETE_THRESHOLD
          /\ m_container[k].targetType = "FLARM" => m_container[k].age < OBJ_OUTDATED
      BY DEF IInv, StoredAircraftSound, FlarmIsFresh, AC_NO_FLARM_THRESHOLD
    <3> QED
      BY <1>1, <3>3, <3>4, OlderIsRoundOlder
  <2>2. CASE \A k \in DOMAIN m_container : m_container[k].id # id
    BY <2>2, StoreOfMissing DEF Store!RoundOlder, Store!Absent
  <2> QED
    BY <2>1, <2>2
<1>4. AbstractStore = StoreOf(m_container, Len(m_container) + 1)
  BY <1>2 DEF AbstractStore
<1>5. AbstractStore' = StoreOf(m_container, 1)
  BY <1>2 DEF AbstractStore
<1>6. StoreOf(m_container, 1) = [id \in Ids |-> StoreOf(m_container, 1)[id]]
  BY DEF StoreOf
<1> QED
  BY <1>3, <1>4, <1>5, <1>6 DEF Store!Round

\* An iteration that keeps its aircraft is a stutter.
LEMMA KeepAircraftRefines ==
    ASSUME IInv, IInv', KeepAircraft
    PROVE  AbstractStore' = AbstractStore
<1>1. PICK a \in Aircraft :
        /\ it \in DOMAIN m_container
        /\ a.id = m_container[it].id
        /\ a.ts = m_container[it].ts
        /\ a.prio = m_container[it].prio
        /\ a.age = m_container[it].age + 1
        /\ a.targetType = Older(m_container[it]).targetType
        /\ m_container' = [m_container EXCEPT ![it] = a]
  BY KeepEffect
<1>2. /\ m_container \in Seq(Aircraft) /\ UniqueIds(m_container)
      /\ DOMAIN m_container = 1 .. Len(m_container)
      /\ Len(m_container) \in Nat
      /\ m_container[it] \in Aircraft
  BY <1>1, Positions
<1>3. m_container' \in Seq(Aircraft) /\ UniqueIds(m_container')
  BY DEF IInv, TypeOK, LoopInv, UniqueIds
<1>4. Pending = it /\ Pending' = it + 1
  BY DEF KeepAircraft, Pending
<1>5. /\ DOMAIN m_container' = DOMAIN m_container
      /\ m_container'[it] = a
      /\ \A k \in DOMAIN m_container \ {it} : m_container'[k] = m_container[k]
  BY <1>1, <1>2
<1>6. AbstractAircraft(a) = AbstractAircraft(Older(m_container[it]))
  BY <1>1, <1>2, OlderType DEF AbstractAircraft
<1>7. ASSUME NEW id \in Ids
      PROVE  StoreOf(m_container', it + 1)[id] = StoreOf(m_container, it)[id]
  <2>1. CASE \E k \in DOMAIN m_container : m_container[k].id = id
    <3>1. PICK k \in DOMAIN m_container : m_container[k].id = id
      BY <2>1
    <3>2. k \in DOMAIN m_container' /\ m_container'[k].id = id
      BY <1>1, <1>5, <3>1
    <3>3. AbstractAircraft(Seen(m_container', it + 1, k))
            = AbstractAircraft(Seen(m_container, it, k))
      <4>1. CASE k = it
        BY <1>1, <1>2, <1>5, <1>6, <4>1 DEF Seen
      <4>2. CASE k # it
        BY <1>1, <1>2, <1>5, <4>2 DEF Seen
      <4> QED
        BY <4>1, <4>2
    <3>4. StoreOf(m_container, it)[m_container[k].id]
            = AbstractAircraft(Seen(m_container, it, k))
      BY <1>2, StoreOfStored
    <3>5. StoreOf(m_container', it + 1)[m_container'[k].id]
            = AbstractAircraft(Seen(m_container', it + 1, k))
      BY <1>3, <3>2, StoreOfStored
    <3> QED
      BY <3>1, <3>2, <3>3, <3>4, <3>5
  <2>2. CASE \A k \in DOMAIN m_container : m_container[k].id # id
    <3>1. \A k \in DOMAIN m_container' : m_container'[k].id # id
      BY <1>1, <1>5, <2>2
    <3> QED
      BY <2>2, <3>1, StoreOfMissing
  <2> QED
    BY <2>1, <2>2
<1>8. StoreOf(m_container', it + 1) = StoreOf(m_container, it)
  BY <1>7, StoreOfEqual
<1> QED
  BY <1>4, <1>8 DEF AbstractStore

\* An iteration that erases its aircraft is a stutter.
LEMMA EraseAircraftRefines ==
    ASSUME IInv, IInv', EraseAircraft
    PROVE  AbstractStore' = AbstractStore
<1>1. /\ it \in DOMAIN m_container
      /\ \A k \in DOMAIN m_container' :
            /\ Shift(k, it) \in DOMAIN m_container
            /\ Shift(k, it) # it
            /\ m_container'[k] = m_container[Shift(k, it)]
      /\ \A k \in DOMAIN m_container :
            k # it => \E j \in DOMAIN m_container' : k = Shift(j, it)
  BY EraseEffect
<1>2. /\ m_container \in Seq(Aircraft) /\ UniqueIds(m_container)
      /\ DOMAIN m_container = 1 .. Len(m_container)
      /\ Len(m_container) \in Nat
      /\ m_container[it] \in Aircraft
  BY <1>1, Positions
<1>3. /\ m_container' \in Seq(Aircraft) /\ UniqueIds(m_container')
      /\ DOMAIN m_container' = 1 .. Len(m_container')
      /\ Len(m_container') \in Nat
  BY DEF IInv, TypeOK, LoopInv, UniqueIds
<1>4. Pending = it /\ Pending' = it
  BY DEF EraseAircraft, Pending
<1>5. Older(m_container[it]).age >= AC_DELETE_THRESHOLD
  BY DEF EraseAircraft
<1>6. ASSUME NEW id \in Ids
      PROVE  StoreOf(m_container', it)[id] = StoreOf(m_container, it)[id]
  <2>1. CASE id = m_container[it].id
    <3>1. \A k \in DOMAIN m_container' : m_container'[k].id # id
      BY <1>1, <1>2, <2>1 DEF UniqueIds
    <3>2. StoreOf(m_container', it)[id] = [known |-> FALSE]
      BY <3>1, StoreOfMissing
    <3>3. StoreOf(m_container, it)[m_container[it].id]
            = AbstractAircraft(Seen(m_container, it, it))
      BY <1>1, <1>2, StoreOfStored
    <3>4. AbstractAircraft(Seen(m_container, it, it)) = [known |-> FALSE]
      BY <1>1, <1>2, <1>5 DEF Seen, AbstractAircraft
    <3> QED
      BY <2>1, <3>2, <3>3, <3>4
  <2>2. CASE id # m_container[it].id /\ \E k \in DOMAIN m_container : m_container[k].id = id
    <3>1. PICK k \in DOMAIN m_container : m_container[k].id = id
      BY <2>2
    <3>2. PICK j \in DOMAIN m_container' : k = Shift(j, it)
      BY <1>1, <2>2, <3>1
    <3>3. m_container'[j] = m_container[k]
      BY <1>1, <3>2
    <3>4. Seen(m_container', it, j) = Seen(m_container, it, k)
      BY <1>1, <1>2, <1>3, <3>2, <3>3 DEF Seen, Shift
    <3>5. StoreOf(m_container, it)[m_container[k].id]
            = AbstractAircraft(Seen(m_container, it, k))
      BY <1>2, StoreOfStored
    <3>6. StoreOf(m_container', it)[m_container'[j].id]
            = AbstractAircraft(Seen(m_container', it, j))
      BY <1>3, StoreOfStored
    <3> QED
      BY <3>1, <3>3, <3>4, <3>5, <3>6
  <2>3. CASE \A k \in DOMAIN m_container : m_container[k].id # id
    <3>1. \A k \in DOMAIN m_container' : m_container'[k].id # id
      BY <1>1, <2>3
    <3> QED
      BY <2>3, <3>1, StoreOfMissing
  <2> QED
    BY <2>1, <2>2, <2>3
<1>7. StoreOf(m_container', it) = StoreOf(m_container, it)
  BY <1>6, StoreOfEqual
<1> QED
  BY <1>4, <1>7 DEF AbstractStore

\* The end of processAircrafts is a stutter.
LEMMA EndProcessRefines ==
    ASSUME IInv, EndProcess
    PROVE  AbstractStore' = AbstractStore
<1>1. it \in Nat /\ Len(m_container) \in Nat /\ it = Len(m_container) + 1
  BY DEF EndProcess, IInv, TypeOK
<1>2. m_container' = m_container /\ Pending = it /\ Pending' = it
  BY <1>1 DEF EndProcess, Pending
<1> QED
  BY <1>2 DEF AbstractStore

\* AircraftData implements AircraftStore: the vector, the index and the
\* erasing loop are together indistinguishable from a map with atomic rounds.
THEOREM Refinement == Spec => ImplementsStore
<1>1. Init => Store!Init
  BY InitStore
<1>2. IInv /\ IInv' /\ [Next]_vars => [Store!Next]_AbstractStore
  <2> SUFFICES ASSUME IInv, IInv', [Next]_vars
               PROVE  Store!Next \/ AbstractStore' = AbstractStore
    OBVIOUS
  <2>1. ASSUME NEW u \in Update, TryUpdate(u) \/ Insert(u)
        PROVE  Store!Next
    <3>1. Store!Accept(u.id, u.targetType, u.prio, u.ts)
      BY <2>1, TryUpdateRefines, InsertRefines
    <3>2. /\ u.id \in Ids /\ u.targetType \in {"FLARM", "TRANSPONDER"}
          /\ u.prio \in Priorities /\ u.ts \in TimeStamps
      BY DEF Update, TargetType
    <3> QED
      BY <3>1, <3>2 DEF Store!Next
  <2>2. CASE BeginProcess
    BY <2>2, BeginProcessRefines DEF Store!Next
  <2>3. CASE EraseAircraft
    BY <2>3, EraseAircraftRefines
  <2>4. CASE KeepAircraft
    BY <2>4, KeepAircraftRefines
  <2>5. CASE EndProcess
    BY <2>5, EndProcessRefines
  <2>6. CASE UNCHANGED vars
    BY <2>6 DEF vars, loop, AbstractStore, Pending
  <2> QED
    BY <2>1, <2>2, <2>3, <2>4, <2>5, <2>6 DEF Next
<1> QED
  BY <1>1, <1>2, Invariance, PTL DEF Spec, ImplementsStore, Store!Spec
=============================================================================
