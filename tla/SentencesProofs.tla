-------------------------- MODULE SentencesProofs --------------------------
(***************************************************************************)
(* Proofs about the way of a sentence through the program: the line that   *)
(* is read (ReadBuffer), the object that is filled (Parsers), its time     *)
(* stamp (TimeStamp), its coordinates (Coordinates) and its checksum       *)
(* (Checksum), each for all values of its constants, and of all of them    *)
(* together (MCSentences).                                                 *)
(***************************************************************************)
EXTENDS MCSentences, SequenceLemmas, FiniteSetTheorems

-----------------------------------------------------------------------------
(***************************************************************************)
(* ReadBuffer                                                              *)
(***************************************************************************)
\* A buffer that has CR LF has an LF, and std::getline stops at the first.
LEMMA LineEndFirst ==
    ASSUME NEW bytes \in Seq(Byte), HasDelimiter(bytes)
    PROVE  /\ LineEnd(bytes) \in 1 .. Len(bytes)
           /\ bytes[LineEnd(bytes)].char = "LF"
           /\ \A k \in 1 .. LineEnd(bytes) - 1 : bytes[k].char # "LF"
<1> DEFINE E == {k \in 1 .. Len(bytes) : bytes[k].char = "LF"}
<1>1. Len(bytes) \in Nat /\ E \in SUBSET Nat
  BY LenProperties
<1>2. E # {}
  <2>1. PICK k \in 1 .. Len(bytes) - 1 : bytes[k + 1].char = "LF"
    BY DEF HasDelimiter
  <2>2. k + 1 \in E
    BY <1>1, <2>1
  <2>3. QED
    BY <2>2
<1>3. LineEnd(bytes) = CHOOSE m \in E : \A k \in E : m <= k
  BY DEF LineEnd, FirstOf
<1>4. \E m \in E : \A k \in E : m <= k
  <2> HIDE DEF E
  <2>1. QED
    BY <1>1, <1>2, LeastElement
<1>5. LineEnd(bytes) \in E /\ \A k \in E : LineEnd(bytes) <= k
  <2> HIDE DEF E
  <2>1. QED
    BY <1>3, <1>4
<1>6. QED
  BY <1>1, <1>5

\* The two parts std::getline makes of the buffer.
LEMMA LineAndRest ==
    ASSUME NEW bytes \in Seq(Byte), NEW n \in 1 .. Len(bytes),
           NEW line, line = SubSeq(bytes, 1, n),
           NEW rest, rest = SubSeq(bytes, n + 1, Len(bytes))
    PROVE  /\ line \in Seq(Byte) /\ Len(line) = n
           /\ rest \in Seq(Byte) /\ Len(rest) = Len(bytes) - n
           /\ line \o rest = bytes
           /\ \A k \in 1 .. n : line[k] = bytes[k]
           /\ \A k \in 1 .. Len(bytes) - n : rest[k] = bytes[n + k]
<1>1. Len(bytes) \in Nat /\ \A k \in 1 .. Len(bytes) : bytes[k] \in Byte
  BY LenProperties, ElementOfSeq
<1>2. line \in Seq(Byte) /\ Len(line) = n /\ \A k \in 1 .. n : line[k] = bytes[k]
  BY <1>1
<1>3. /\ rest \in Seq(Byte) /\ Len(rest) = Len(bytes) - n
      /\ \A k \in 1 .. Len(bytes) - n : rest[k] = bytes[n + k]
  BY <1>1
<1>4. line \o rest = bytes
  <2>1. 1 \in 1 .. Len(bytes) + 1 /\ n \in 1 - 1 .. Len(bytes) /\ Len(bytes) \in n .. Len(bytes)
    BY <1>1
  <2>2. line \o rest = SubSeq(bytes, 1, Len(bytes))
    BY <2>1, ConcatAdjacentSubSeq
  <2>3. QED
    BY <2>2, SubSeqFull
<1>5. QED
  BY <1>2, <1>3, <1>4, Zenon

\* No byte of the first sequence came over a later connection than one of the
\* second.
NotNewer(first, second) ==
    \A a \in DOMAIN first, b \in DOMAIN second : first[a].from <= second[b].from

\* The order of the connections is the order of the bytes, in the lines, from
\* line to line and in the buffer.
BytesOrdered ==
    /\ \A k, l \in DOMAIN taken : k < l => NotNewer(taken[k], taken[l])
    /\ \A k \in DOMAIN taken : NotNewer(taken[k], m_buffer)
    /\ \A a, b \in DOMAIN m_buffer : a <= b => m_buffer[a].from <= m_buffer[b].from
    /\ \A k \in DOMAIN taken : \A a \in DOMAIN taken[k] :
          taken[k][a].from <= connection
    /\ \A a \in DOMAIN m_buffer : m_buffer[a].from <= connection

\* The inductive invariant of the buffer.
BufferInv ==
    /\ ReadBufferTypeOK
    /\ Flattened(taken) \in Seq(Byte)
    /\ TakesLines
    /\ BytesOrdered

\* It holds when the first read is posted.
LEMMA BufferInvInit == ReadBufferInit => BufferInv
<1> SUFFICES ASSUME ReadBufferInit PROVE BufferInv
  OBVIOUS
<1>1. /\ m_buffer = << >> /\ m_response = << >> /\ received = << >> /\ taken = << >>
      /\ connection = 1 /\ m_state = "RUNNING" /\ reading = TRUE /\ ignored = {}
  BY DEF ReadBufferInit
<1>2. << >> \in Seq(Byte) /\ << >> \in Seq(Seq(Byte)) /\ << >> \o << >> = << >>
      /\ DOMAIN << >> = {}
  BY EmptySeq, ConcatEmptySeq
<1>3. ReadBufferTypeOK
  BY <1>1, <1>2, ReadBufferAssumption DEF ReadBufferTypeOK
<1>4. Flattened(taken) \in Seq(Byte) /\ TakesLines
  BY <1>1, <1>2, FlattenEmpty, Zenon DEF TakesLines
<1>5. BytesOrdered
  BY <1>1, <1>2 DEF BytesOrdered
<1>6. QED
  BY <1>3, <1>4, <1>5 DEF BufferInv

\* What async_read_until appends came over the connection it reads from.
LEMMA ReadSomeBuffer == ASSUME BufferInv, ReadSome PROVE BufferInv'
<1>1. PICK n \in 1 .. MAX_CHUNK : \E c \in [1 .. n -> {b \in Byte : b.from = connection}] :
          m_buffer' = m_buffer \o c /\ received' = received \o c
  BY Zenon DEF ReadSome
<1>2. PICK c \in [1 .. n -> {b \in Byte : b.from = connection}] :
          m_buffer' = m_buffer \o c /\ received' = received \o c
  BY <1>1, Zenon
<1> DEFINE l == Len(m_buffer)
<1>3. /\ c \in Seq(Byte) /\ Len(c) = n /\ n \in Nat
      /\ \A k \in 1 .. n : c[k].from = connection
  BY <1>2, ReadBufferAssumption
<1>4. /\ UNCHANGED <<connection, m_state, reading, m_response, taken, ignored>>
      /\ m_buffer \in Seq(Byte) /\ received \in Seq(Byte) /\ l \in Nat
      /\ connection \in Nat
  BY LenProperties DEF ReadSome, BufferInv, ReadBufferTypeOK
<1>5. /\ m_buffer' \in Seq(Byte) /\ Len(m_buffer') = l + n
      /\ \A k \in 1 .. l + n : m_buffer'[k] = IF k <= l THEN m_buffer[k] ELSE c[k - l]
  BY <1>2, <1>3, <1>4, ConcatProperties
<1> HIDE DEF l
<1>6. ReadBufferTypeOK'
  BY <1>2, <1>3, <1>4, <1>5, ConcatProperties DEF BufferInv, ReadBufferTypeOK
<1>7. TakesLines' /\ Flattened(taken)' \in Seq(Byte)
  <2>1. Flattened(taken) \in Seq(Byte) /\ Flattened(taken) \o m_buffer = received
    BY DEF BufferInv, TakesLines
  <2>2. Flattened(taken) \o m_buffer' = received'
    <3>1. (Flattened(taken) \o m_buffer) \o c = Flattened(taken) \o (m_buffer \o c)
      <4>1. Flattened(taken) \in Seq(Byte) /\ m_buffer \in Seq(Byte) /\ c \in Seq(Byte)
        BY <1>3, <1>4, <2>1
      <4>2. \A s, t, u \in Seq(Byte) : (s \o t) \o u = s \o (t \o u)
        BY ConcatAssociative
      <4>3. QED
        BY <4>1, <4>2, Zenon
    <3>2. QED
      BY <1>2, <2>1, <3>1, Zenon
  <2>3. QED
    BY <1>4, <2>1, <2>2 DEF BufferInv, TakesLines
<1>8. BytesOrdered'
  <2>1. DOMAIN m_buffer = 1 .. l /\ DOMAIN m_buffer' = 1 .. l + n
    BY <1>4, <1>5, LenProperties DEF l
  <2>2. \A k \in 1 .. l : m_buffer'[k] = m_buffer[k] /\ m_buffer[k].from <= connection
    <3>1. \A k \in 1 .. l : k \in 1 .. l + n /\ k <= l
      BY <1>3, <1>4
    <3>2. \A k \in 1 .. l : m_buffer[k].from <= connection
      BY <2>1 DEF BufferInv, BytesOrdered
    <3>3. QED
      BY <1>5, <3>1, <3>2
  <2>3. \A k \in 1 .. l + n : k > l => m_buffer'[k].from = connection
    <3> SUFFICES ASSUME NEW k \in 1 .. l + n, k > l PROVE m_buffer'[k].from = connection
      OBVIOUS
    <3>1. k - l \in 1 .. n /\ ~(k <= l)
      BY <1>3, <1>4
    <3>2. QED
      BY <1>3, <1>5, <3>1
  <2>4. \A k \in DOMAIN taken : NotNewer(taken[k], m_buffer')
    <3> SUFFICES ASSUME NEW k \in DOMAIN taken, NEW a \in DOMAIN taken[k],
                        NEW b \in 1 .. l + n
                 PROVE  taken[k][a].from <= m_buffer'[b].from
      BY <2>1 DEF NotNewer
    <3>1. CASE b <= l
      <4>1. b \in 1 .. l
        BY <1>3, <1>4, <3>1
      <4>2. taken[k][a].from <= m_buffer[b].from
        BY <2>1, <4>1 DEF BufferInv, BytesOrdered, NotNewer
      <4>3. QED
        BY <2>2, <4>1, <4>2
    <3>2. CASE ~(b <= l)
      <4>1. m_buffer'[b].from = connection
        BY <1>3, <1>4, <2>3, <3>2
      <4>2. taken[k][a].from <= connection
        BY DEF BufferInv, BytesOrdered
      <4>3. QED
        BY <4>1, <4>2
    <3>3. QED
      BY <3>1, <3>2
  <2>5. \A a, b \in 1 .. l + n : a <= b => m_buffer'[a].from <= m_buffer'[b].from
    <3> SUFFICES ASSUME NEW a \in 1 .. l + n, NEW b \in 1 .. l + n, a <= b
                 PROVE  m_buffer'[a].from <= m_buffer'[b].from
      OBVIOUS
    <3>1. CASE b <= l
      <4>1. a \in 1 .. l /\ b \in 1 .. l
        BY <1>3, <1>4, <3>1
      <4>2. m_buffer[a].from <= m_buffer[b].from
        BY <2>1, <4>1 DEF BufferInv, BytesOrdered
      <4>3. QED
        BY <2>2, <4>1, <4>2
    <3>2. CASE ~(b <= l) /\ a <= l
      <4>1. a \in 1 .. l /\ b > l
        BY <1>3, <1>4, <3>2
      <4>2. m_buffer'[a].from <= connection /\ m_buffer'[b].from = connection
        BY <2>2, <2>3, <4>1
      <4>3. QED
        BY <4>2
    <3>3. CASE ~(a <= l)
      <4>1. a > l /\ b > l
        BY <1>3, <1>4, <3>3
      <4>2. m_buffer'[a].from = connection /\ m_buffer'[b].from = connection
        BY <2>3, <4>1
      <4>3. QED
        BY <1>4, <4>2
    <3>4. QED
      BY <3>1, <3>2, <3>3
  <2>6. \A a \in 1 .. l + n : m_buffer'[a].from <= connection
    <3> SUFFICES ASSUME NEW a \in 1 .. l + n PROVE m_buffer'[a].from <= connection
      OBVIOUS
    <3>1. a \in 1 .. l \/ a > l
      BY <1>3, <1>4
    <3>2. connection <= connection
      BY <1>4
    <3>3. QED
      BY <2>2, <2>3, <3>1, <3>2
  <2>7. QED
    BY <1>4, <2>1, <2>4, <2>5, <2>6 DEF BufferInv, BytesOrdered
<1>9. QED
  BY <1>6, <1>7, <1>8 DEF BufferInv
\* The line std::getline takes is the front of the buffer up to its first LF.
LEMMA HandleReadBuffer == ASSUME BufferInv, HandleRead PROVE BufferInv'
<1> DEFINE line == m_response'
           n == LineEnd(m_buffer)
           d == Len(taken)
           lines == Append(taken, line)
<1>1. /\ UNCHANGED <<connection, m_state, received>>
      /\ HasDelimiter(m_buffer)
      /\ line = SubSeq(m_buffer, 1, n)
      /\ m_buffer' = SubSeq(m_buffer, n + 1, Len(m_buffer))
      /\ taken' = lines
  BY DEF HandleRead, getline
<1>2. /\ m_buffer \in Seq(Byte) /\ Len(m_buffer) \in Nat /\ DOMAIN m_buffer = 1 .. Len(m_buffer)
      /\ taken \in Seq(Seq(Byte)) /\ d \in Nat /\ DOMAIN taken = 1 .. d
  BY LenProperties DEF BufferInv, ReadBufferTypeOK
<1>3. /\ n \in 1 .. Len(m_buffer) /\ m_buffer[n].char = "LF"
      /\ \A k \in 1 .. n - 1 : m_buffer[k].char # "LF"
  BY <1>1, <1>2, LineEndFirst
<1> HIDE DEF n, line
<1>4. /\ line \in Seq(Byte) /\ Len(line) = n
      /\ m_buffer' \in Seq(Byte) /\ Len(m_buffer') = Len(m_buffer) - n
      /\ line \o m_buffer' = m_buffer
      /\ \A k \in 1 .. n : line[k] = m_buffer[k]
      /\ \A k \in 1 .. Len(m_buffer) - n : m_buffer'[k] = m_buffer[n + k]
  <2> DEFINE rest == m_buffer'
  <2>1. /\ m_buffer \in Seq(Byte) /\ n \in 1 .. Len(m_buffer)
        /\ line = SubSeq(m_buffer, 1, n) /\ rest = SubSeq(m_buffer, n + 1, Len(m_buffer))
    BY <1>1, <1>2, <1>3
  <2> HIDE DEF rest
  <2>2. /\ line \in Seq(Byte) /\ Len(line) = n
        /\ rest \in Seq(Byte) /\ Len(rest) = Len(m_buffer) - n
        /\ line \o rest = m_buffer
        /\ \A k \in 1 .. n : line[k] = m_buffer[k]
        /\ \A k \in 1 .. Len(m_buffer) - n : rest[k] = m_buffer[n + k]
    BY <2>1, LineAndRest
  <2>3. QED
    BY <2>2 DEF rest
<1>5. DOMAIN line = 1 .. n /\ DOMAIN m_buffer' = 1 .. Len(m_buffer) - n
  BY <1>4, LenProperties
<1>6. /\ lines \in Seq(Seq(Byte)) /\ Len(lines) = d + 1 /\ DOMAIN lines = 1 .. d + 1
      /\ lines[d + 1] = line /\ \A k \in 1 .. d : lines[k] = taken[k]
  BY <1>2, <1>4, AppendProperties, LenProperties
<1> HIDE DEF d, lines
<1>7. ReadBufferTypeOK'
  <2>1. Len(taken') \in Nat /\ connection \in 1 .. MAX_CONN
    BY <1>1, <1>2, <1>6 DEF BufferInv, ReadBufferTypeOK
  <2>2. reading' \in BOOLEAN /\ (m_state' = "RUNNING" => reading')
    BY Zenon DEF HandleRead, BufferInv, ReadBufferTypeOK
  <2>3. ignored' \subseteq Nat \X (1 .. MAX_CONN)
    <3>1. ignored \subseteq Nat \X (1 .. MAX_CONN)
      BY DEF BufferInv, ReadBufferTypeOK
    <3>2. <<Len(taken'), connection>> \in Nat \X (1 .. MAX_CONN)
      BY <2>1
    <3>3. ignored' = ignored \/ ignored' = ignored \cup {<<Len(taken'), connection>>}
      BY Zenon DEF HandleRead
    <3>4. QED
      BY <3>1, <3>2, <3>3, Zenon
  <2>4. QED
    BY <1>1, <1>4, <1>6, <2>2, <2>3, Zenon DEF BufferInv, ReadBufferTypeOK, line
<1>8. /\ Flattened(lines) \in Seq(Byte)
      /\ Flattened(lines) \o m_buffer' = received
  <2>1. /\ Flattened(taken) \in Seq(Byte)
        /\ Flattened(taken) \o m_buffer = received
    BY DEF BufferInv, TakesLines
  <2>2. Flattened(lines) = Flattened(taken) \o line
    BY <1>2, <1>4, FlattenAppend DEF lines
  <2>3. (Flattened(taken) \o line) \o m_buffer' = Flattened(taken) \o (line \o m_buffer')
    <3>1. \A s, t, u \in Seq(Byte) : (s \o t) \o u = s \o (t \o u)
      BY ConcatAssociative
    <3>2. QED
      BY <1>4, <2>1, <3>1, Zenon
  <2>4. Flattened(taken) \o line \in Seq(Byte)
    BY <1>4, <2>1, ConcatProperties
  <2>5. QED
    BY <1>4, <2>1, <2>2, <2>3, <2>4, Zenon
<1>9. line # << >> /\ \A a \in 1 .. n : line[a].char = "LF" <=> a = n
  <2>1. line # << >>
    BY <1>3, <1>4
  <2>2. ASSUME NEW a \in 1 .. n PROVE line[a].char = "LF" <=> a = n
    <3>1. a = n \/ a \in 1 .. n - 1
      BY <1>2, <1>3
    <3>2. QED
      BY <1>3, <1>4, <3>1
  <2>3. QED
    BY <2>1, <2>2
<1>10. TakesLines'
  <2>1. ASSUME NEW k \in 1 .. d + 1
        PROVE  /\ lines[k] # << >>
               /\ \A a \in DOMAIN lines[k] : lines[k][a].char = "LF" <=> a = Len(lines[k])
    <3>1. CASE k = d + 1
      BY <1>4, <1>5, <1>6, <1>9, <3>1
    <3>2. CASE k \in 1 .. d
      BY <1>2, <1>6, <3>2, Zenon DEF BufferInv, TakesLines
    <3>3. QED
      BY <1>2, <3>1, <3>2
  <2>2. QED
    BY <1>1, <1>6, <1>8, <2>1, Zenon DEF TakesLines
<1>11. BytesOrdered'
  <2> DEFINE Rest == 1 .. Len(m_buffer) - n
  <2>1. /\ \A a \in 1 .. n : a \in 1 .. Len(m_buffer)
        /\ \A b \in Rest : n + b \in 1 .. Len(m_buffer)
        /\ \A a \in 1 .. n, b \in Rest : a <= n + b
        /\ \A a, b \in Rest : a <= b => n + a <= n + b
    BY <1>2, <1>3
  <2>2. /\ \A k, l \in 1 .. d : k < l => NotNewer(taken[k], taken[l])
        /\ \A k \in 1 .. d : NotNewer(taken[k], m_buffer)
        /\ \A a, b \in 1 .. Len(m_buffer) : a <= b => m_buffer[a].from <= m_buffer[b].from
        /\ \A k \in 1 .. d : \A a \in DOMAIN taken[k] : taken[k][a].from <= connection
        /\ \A a \in 1 .. Len(m_buffer) : m_buffer[a].from <= connection
    BY <1>2, Zenon DEF BufferInv, BytesOrdered
  <2> HIDE DEF Rest
  <2>3. NotNewer(line, m_buffer')
    BY <1>4, <1>5, <2>1, <2>2 DEF NotNewer, Rest
  <2>4. \A k \in 1 .. d : NotNewer(taken[k], line)
    BY <1>2, <1>4, <1>5, <2>1, <2>2 DEF NotNewer
  <2>5. \A k \in 1 .. d : NotNewer(taken[k], m_buffer')
    <3> SUFFICES ASSUME NEW k \in 1 .. d, NEW a \in DOMAIN taken[k], NEW b \in Rest
                 PROVE  taken[k][a].from <= m_buffer'[b].from
      BY <1>5 DEF NotNewer, Rest
    <3>1. n + b \in DOMAIN m_buffer /\ m_buffer'[b] = m_buffer[n + b]
      BY <1>2, <1>4, <2>1 DEF Rest
    <3>2. QED
      BY <2>2, <3>1 DEF NotNewer
  <2>6. \A k \in 1 .. d + 1 : k = d + 1 \/ k \in 1 .. d
    BY <1>2
  <2>7. \A k, l \in 1 .. d + 1 : k < l => NotNewer(lines[k], lines[l])
    <3> SUFFICES ASSUME NEW k \in 1 .. d + 1, NEW l \in 1 .. d + 1, k < l
                 PROVE  NotNewer(lines[k], lines[l])
      OBVIOUS
    <3>1. k \in 1 .. d
      BY <1>2
    <3>2. CASE l \in 1 .. d
      BY <1>6, <2>2, <3>1, <3>2
    <3>3. CASE l = d + 1
      BY <1>6, <2>4, <3>1, <3>3
    <3>4. QED
      BY <2>6, <3>2, <3>3
  <2>8. \A k \in 1 .. d + 1 : NotNewer(lines[k], m_buffer')
    BY <1>6, <2>3, <2>5, <2>6
  <2>9. \A a, b \in Rest : a <= b => m_buffer'[a].from <= m_buffer'[b].from
    <3> SUFFICES ASSUME NEW a \in Rest, NEW b \in Rest, a <= b
                 PROVE  m_buffer'[a].from <= m_buffer'[b].from
      OBVIOUS
    <3>1. n + a \in 1 .. Len(m_buffer) /\ n + b \in 1 .. Len(m_buffer) /\ n + a <= n + b
      BY <2>1
    <3>2. m_buffer'[a] = m_buffer[n + a] /\ m_buffer'[b] = m_buffer[n + b]
      BY <1>4 DEF Rest
    <3>3. QED
      BY <2>2, <3>1, <3>2
  <2>10. \A k \in 1 .. d + 1 : \A a \in DOMAIN lines[k] : lines[k][a].from <= connection
    <3>1. \A a \in 1 .. n : line[a].from <= connection
      BY <1>4, <2>1, <2>2
    <3>2. QED
      BY <1>5, <1>6, <2>2, <2>6, <3>1, Zenon
  <2>11. \A a \in Rest : m_buffer'[a].from <= connection
    BY <1>4, <2>1, <2>2 DEF Rest
  <2>12. QED
    BY <1>1, <1>5, <1>6, <2>7, <2>8, <2>9, <2>10, <2>11, Zenon DEF BytesOrdered, Rest
<1>12. QED
  BY <1>1, <1>7, <1>8, <1>10, <1>11 DEF BufferInv
\* Every step preserves the invariant: losing a connection and making a new one
\* touch neither the buffer nor what was taken from it.
LEMMA BufferInvNext == BufferInv /\ [ReadBufferNext]_readBuffer => BufferInv'
<1> SUFFICES ASSUME BufferInv, [ReadBufferNext]_readBuffer PROVE BufferInv'
  OBVIOUS
<1>1. CASE ReadSome
  BY <1>1, ReadSomeBuffer
<1>2. CASE HandleRead
  BY <1>2, HandleReadBuffer
<1>3. CASE HandleReadError \/ Reconnect
  BY <1>3, Zenon DEF HandleReadError, Reconnect, BufferInv, ReadBufferTypeOK, TakesLines, BytesOrdered
<1>4. CASE HandleConnect
  <2>1. /\ connection \in 1 .. MAX_CONN /\ connection' = connection + 1 /\ connection < MAX_CONN
        /\ UNCHANGED <<m_buffer, m_response, received, taken, ignored>>
        /\ m_state' = "RUNNING" /\ reading' = TRUE
    BY <1>4 DEF HandleConnect, BufferInv, ReadBufferTypeOK
  <2>2. ReadBufferTypeOK'
    BY <2>1, ReadBufferAssumption DEF BufferInv, ReadBufferTypeOK
  <2>3. TakesLines' /\ Flattened(taken)' \in Seq(Byte)
    BY <2>1 DEF BufferInv, TakesLines
  <2>4. \A k \in DOMAIN taken : \A a \in DOMAIN taken[k] :
            taken[k][a].from <= connection + 1
    <3> SUFFICES ASSUME NEW k \in DOMAIN taken, NEW a \in DOMAIN taken[k]
                 PROVE  taken[k][a].from <= connection + 1
      OBVIOUS
    <3>1. taken[k][a] \in Byte
      BY ElementOfSeq, LenProperties DEF BufferInv, ReadBufferTypeOK
    <3>2. taken[k][a].from \in Int /\ taken[k][a].from <= connection
      BY <3>1, ReadBufferAssumption DEF BufferInv, BytesOrdered, Byte
    <3>3. QED
      BY <2>1, <3>2
  <2>5. \A a \in DOMAIN m_buffer : m_buffer[a].from <= connection + 1
    <3> SUFFICES ASSUME NEW a \in DOMAIN m_buffer PROVE m_buffer[a].from <= connection + 1
      OBVIOUS
    <3>1. m_buffer[a] \in Byte
      BY ElementOfSeq, LenProperties DEF BufferInv, ReadBufferTypeOK
    <3>2. m_buffer[a].from \in Int /\ m_buffer[a].from <= connection
      BY <3>1, ReadBufferAssumption DEF BufferInv, BytesOrdered, Byte
    <3>3. QED
      BY <2>1, <3>2
  <2>6. BytesOrdered'
    BY <2>1, <2>4, <2>5 DEF BufferInv, BytesOrdered
  <2>7. QED
    BY <2>2, <2>3, <2>6 DEF BufferInv
<1>5. CASE UNCHANGED readBuffer
  BY <1>5 DEF readBuffer, BufferInv, ReadBufferTypeOK, TakesLines, BytesOrdered
<1>6. QED
  BY <1>1, <1>2, <1>3, <1>4, <1>5 DEF ReadBufferNext

\* The invariant holds throughout, over any number of connections and whatever
\* the sizes of the chunks.
THEOREM BufferInvariant == ReadBufferSpec => []BufferInv
  BY BufferInvInit, BufferInvNext, PTL DEF ReadBufferSpec

\* The inductive invariant of the lines that are ignored: while a read of the
\* connection may still deliver a line, none of the connection has been ignored.
IgnoredInv ==
    /\ \A p \in ignored : p[2] <= connection
    /\ reading => \A p \in ignored : p[2] # connection
    /\ \A p, q \in ignored : p[2] = q[2] => p = q

\* Every step preserves it: after an ignored line nothing is read before the
\* next connection is made.
LEMMA IgnoredInvNext ==
    BufferInv /\ IgnoredInv /\ [ReadBufferNext]_readBuffer => IgnoredInv'
<1> SUFFICES ASSUME BufferInv, IgnoredInv, [ReadBufferNext]_readBuffer PROVE IgnoredInv'
  OBVIOUS
<1>1. connection \in Nat /\ \A p \in ignored : p[2] \in Nat
  BY ReadBufferAssumption DEF BufferInv, ReadBufferTypeOK
<1>2. CASE ReadSome \/ HandleReadError \/ Reconnect \/ UNCHANGED readBuffer
  BY <1>2 DEF ReadSome, HandleReadError, Reconnect, readBuffer, IgnoredInv
<1>3. CASE HandleRead /\ UNCHANGED ignored
  BY <1>3 DEF HandleRead, IgnoredInv
<1>4. CASE HandleRead /\ ignored' # ignored
  <2> DEFINE new == <<Len(taken'), connection>>
  <2>1. /\ reading /\ reading' = FALSE /\ connection' = connection
        /\ ignored' = ignored \cup {new}
    BY <1>4, Zenon DEF HandleRead
  <2>2. new[2] = connection
    OBVIOUS
  <2> HIDE DEF new
  <2>3. \A p \in ignored : p[2] # connection
    BY <2>1 DEF IgnoredInv
  <2>4. \A p, q \in ignored' : p[2] = q[2] => p = q
    BY <2>1, <2>2, <2>3 DEF IgnoredInv
  <2>5. \A p \in ignored' : p[2] <= connection
    BY <1>1, <2>1, <2>2 DEF IgnoredInv
  <2>6. QED
    BY <2>1, <2>4, <2>5 DEF IgnoredInv
<1>5. CASE HandleConnect
  <2>1. connection' = connection + 1 /\ UNCHANGED ignored
    BY <1>5 DEF HandleConnect
  <2>2. \A p \in ignored : p[2] <= connection + 1 /\ p[2] # connection + 1
    BY <1>1 DEF IgnoredInv
  <2>3. QED
    BY <2>1, <2>2 DEF IgnoredInv
<1>6. QED
  BY <1>2, <1>3, <1>4, <1>5 DEF ReadBufferNext

\* Client::handleRead gets the lines of the bytes received, none lost, doubled or
\* moved, each with its only LF at its end, and passes over one line at most per
\* connection.
THEOREM LinesAlwaysDelivered == ReadBufferSpec => []DeliversLines
<1>1. ReadBufferInit => IgnoredInv
  BY DEF ReadBufferInit, IgnoredInv
<1>2. ReadBufferSpec => []IgnoredInv
  BY <1>1, IgnoredInvNext, BufferInvariant, PTL DEF ReadBufferSpec
<1>3. BufferInv /\ IgnoredInv => DeliversLines
  BY DEF BufferInv, IgnoredInv, DeliversLines
<1>4. QED
  BY <1>2, <1>3, BufferInvariant, PTL

\* A connection's bytes follow those of an older one in one response at most.
LEMMA OneMixedLine ==
    ASSUME BufferInv, NEW c \in 1 .. MAX_CONN,
           NEW k \in DOMAIN taken, Mixes(taken[k], c),
           NEW l \in DOMAIN taken, Mixes(taken[l], c)
    PROVE  ~(k < l)
<1> SUFFICES ASSUME k < l PROVE FALSE
  OBVIOUS
<1>1. PICK a \in DOMAIN taken[k] : taken[k][a].from = c
  BY DEF Mixes
<1>2. PICK b \in DOMAIN taken[l] : taken[l][b].from < c
  BY DEF Mixes
<1>3. taken[k][a].from <= taken[l][b].from
  BY DEF BufferInv, BytesOrdered, NotNewer
<1>4. taken[l][b].from \in Int
  <2>1. taken[l][b] \in Byte
    BY ElementOfSeq, LenProperties DEF BufferInv, ReadBufferTypeOK
  <2>2. QED
    BY <2>1, ReadBufferAssumption DEF Byte
<1>5. QED
  BY <1>1, <1>2, <1>3, <1>4, ReadBufferAssumption

\* What a lost connection leaves in m_buffer spoils at most one line of every
\* later connection, because getline takes the bytes in the order they came.
THEOREM RemnantAlwaysSpoilsOneLine == ReadBufferSpec => []RemnantSpoilsOneLine
<1>1. ASSUME BufferInv, NEW c \in 1 .. MAX_CONN
      PROVE  Cardinality({k \in DOMAIN taken : Mixes(taken[k], c)}) <= 1
  <2> DEFINE Mixed == {k \in DOMAIN taken : Mixes(taken[k], c)}
  <2>1. CASE Mixed = {}
    BY <2>1, FS_EmptySet
  <2>2. CASE Mixed # {}
    <3>1. PICK k \in Mixed : TRUE
      BY <2>2
    <3>2. \A l \in Mixed : l = k
      <4> SUFFICES ASSUME NEW l \in Mixed PROVE l = k
        OBVIOUS
      <4>1. k \in Int /\ l \in Int
        BY <1>1, LenProperties DEF BufferInv, ReadBufferTypeOK
      <4>2. ~(k < l) /\ ~(l < k)
        BY <1>1, OneMixedLine
      <4>3. QED
        BY <4>1, <4>2
    <3>3. Mixed = {k}
      BY <3>1, <3>2
    <3> HIDE DEF Mixed
    <3>4. Cardinality(Mixed) = 1
      BY <3>3, FS_Singleton
    <3>5. QED
      BY <3>4 DEF Mixed
  <2>3. QED
    BY <2>1, <2>2
<1>2. BufferInv => RemnantSpoilsOneLine
  BY <1>1 DEF RemnantSpoilsOneLine
<1>3. QED
  BY <1>2, BufferInvariant, PTL
-----------------------------------------------------------------------------
(***************************************************************************)
(* Parsers                                                                 *)
(***************************************************************************)
\* All objects a parser can fill.
Objects ==
    [id : Origins, time : Origins, position : Origins, altitude : Int, movement : Origins,
     fullInfo : BOOLEAN, serialized : Origins, pressure : Origins,
     idType : 0 .. 3, aircraftType : 0 .. 15, targetType : {"TRANSPONDER", "FLARM"}]

\* What holds of an object that is handed to Data::update.
Sound(o) == o.altitude <= s_maxHeight /\ o.position # "uninitialized"

\* The inductive invariant: in the loop of SbsParser::unpack every field before
\* the current one has been read, because the first that does not convert ends
\* the loop.
ParseInv ==
    /\ object \in Objects /\ updated \in Objects
    /\ pos \in [{"latitude", "longitude", "altitude"} -> Origins]
    /\ i \in 2 .. 16
    /\ parserPc \in {"idle", "unpack", "loop", "accepted", "rejected"}
    /\ parserPc # "idle" => sentence \in Sentences
    /\ parserPc \in {"idle", "unpack"} => object = NewObject /\ pos = NoPosition /\ i = 2
    /\ parserPc = "loop" =>
          /\ sentence.protocol = "SBS"
          /\ object.fullInfo = FALSE
          /\ i > 4 => object.id = "read"
          /\ i > 7 => object.time = "read"
          /\ i > 11 => pos.altitude = "read"
          /\ i > 14 => pos.latitude = "read"
          /\ i > 15 => pos.longitude = "read"
    /\ parserPc = "accepted" =>
          Sound(object) /\ \A part \in Parts(sentence.protocol) : object[part] = "read"
    /\ Sound(updated)
    /\ object.fullInfo => object.movement = "read"

\* The invariant gives the types and the property.
LEMMA ParseInvSound == ParseInv => ParsersTypeOK /\ StoredIsSound
  BY DEF ParseInv, Objects, ParsersTypeOK, StoredIsSound, Sound

\* The object a constructor makes.
LEMMA NewObjectSound == NewObject \in Objects /\ NewObject.fullInfo = FALSE /\ Sound(NewObject)
  BY ParserAssumption DEF NewObject, Objects, Origins, Sound

\* A local Position is not initialized.
LEMMA NoPositionType == NoPosition \in [{"latitude", "longitude", "altitude"} -> Origins]
  BY DEF NoPosition, Origins

\* A sentence has the fields its protocol says.
LEMMA SentenceKinds ==
    ASSUME NEW s \in Sentences
    PROVE  /\ s.protocol \in {"SBS", "APRS", "GPS", "ATMOSPHERE", "WIND"}
           /\ s.protocol = "SBS" => s.altitude \in Altitudes
           /\ s.protocol = "APRS" => /\ s.altitude \in Altitudes /\ s.typeCode \in TypeCodes
                                     /\ s.movement \in BOOLEAN
<1>1. CASE s \in SbsSentences
  BY <1>1 DEF SbsSentences
<1>2. CASE s \in AprsSentences
  BY <1>2 DEF AprsSentences
<1>3. CASE s \in GpsSentences
  BY <1>3 DEF GpsSentences
<1>4. CASE s \in AtmosphereSentences
  BY <1>4 DEF AtmosphereSentences
<1>5. CASE s \in WindSentences
  BY <1>5 DEF WindSentences
<1>6. QED
  BY <1>1, <1>2, <1>3, <1>4, <1>5 DEF Sentences

\* It holds before the first sentence.
LEMMA ParseInvInit == ParsersInit => ParseInv
  BY NewObjectSound, NoPositionType DEF ParsersInit, ParseInv

\* A sentence arrives; SbsParser::unpack enters its loop.
LEMMA ReceiveParse == ASSUME ParseInv, Receive \/ SbsStart PROVE ParseInv'
<1>1. CASE Receive
  BY <1>1 DEF ParseInv, Receive
<1>2. CASE SbsStart
  <2>1. /\ parserPc = "unpack" /\ sentence.protocol = "SBS"
        /\ parserPc' \in {"loop", "rejected"}
        /\ UNCHANGED <<sentence, object, pos, i, updated>>
    BY <1>2 DEF SbsStart
  <2>2. object.fullInfo = FALSE /\ i = 2
    BY <2>1, NewObjectSound DEF ParseInv
  <2>3. CASE parserPc' = "loop"
    BY <2>1, <2>2, <2>3 DEF ParseInv
  <2>4. CASE parserPc' = "rejected"
    BY <2>1, <2>2, <2>4 DEF ParseInv
  <2>5. QED
    BY <2>1, <2>3, <2>4
<1>3. QED
  BY <1>1, <1>2

\* What the loop over the fields of an SBS sentence has read before field k.
LoopRead(k, o, p) ==
    /\ o \in Objects /\ o.fullInfo = FALSE
    /\ p \in [{"latitude", "longitude", "altitude"} -> Origins]
    /\ k > 4 => o.id = "read"
    /\ k > 7 => o.time = "read"
    /\ k > 11 => p.altitude = "read"
    /\ k > 14 => p.latitude = "read"
    /\ k > 15 => p.longitude = "read"

\* It is all that the invariant says of the loop's variables.
LEMMA LoopGoesOn ==
    ASSUME ParseInv, parserPc = "loop", UNCHANGED <<parserPc, sentence, updated>>,
           i' \in 2 .. 16, LoopRead(i', object', pos')
    PROVE  ParseInv'
  BY DEF ParseInv, LoopRead

\* One field of an SBS sentence.
LEMMA SbsParseFieldParse == ASSUME ParseInv, SbsParseField PROVE ParseInv'
<1> DEFINE part == SbsField(i)
<1>1. /\ parserPc = "loop" /\ i \in 2 .. 15 /\ i' = i + 1
      /\ UNCHANGED <<sentence, updated>>
  <2>1. parserPc = "loop" /\ i < 16 /\ i' = i + 1 /\ UNCHANGED <<sentence, updated>>
    BY DEF SbsParseField
  <2>2. i \in 2 .. 16
    BY DEF ParseInv
  <2>3. QED
    BY <2>1, <2>2
<1>2. CASE i \in sentence.broken
  <2>1. parserPc' = "rejected" /\ UNCHANGED <<object, pos>>
    BY <1>2 DEF SbsParseField
  <2>2. i' \in 2 .. 16
    BY <1>1
  <2>3. QED
    BY <1>1, <2>1, <2>2 DEF ParseInv
<1>3. CASE i \notin sentence.broken
  <2>1. /\ object' = IF part \in {"id", "time"} THEN [object EXCEPT ![part] = "read"] ELSE object
        /\ pos' = IF part \in DOMAIN pos THEN [pos EXCEPT ![part] = "read"] ELSE pos
        /\ UNCHANGED parserPc
    BY <1>3 DEF SbsParseField
  <2>2. DOMAIN pos = {"latitude", "longitude", "altitude"} /\ "read" \in Origins
    BY DEF ParseInv, Origins
  <2>read. LoopRead(i, object, pos) /\ i' \in 2 .. 16
    BY <1>1, SMTT(30) DEF ParseInv, LoopRead
  <2> SUFFICES LoopRead(i', object', pos')
    BY <1>1, <2>read, <2>1, LoopGoesOn
  <2>3. CASE i = 4
    <3>1. object' = [object EXCEPT !["id"] = "read"] /\ UNCHANGED pos
      <4>1. part = "id"
        BY <2>3 DEF SbsField
      <4> HIDE DEF part
      <4>2. QED
        BY <2>1, <2>2, <4>1
    <3>2. object' \in Objects /\ object'.id = "read" /\ object'.fullInfo = object.fullInfo
      BY <2>2, <3>1 DEF ParseInv, Objects
    <3>3. QED
      BY <1>1, <2>read, <2>3, <3>1, <3>2 DEF LoopRead
  <2>4. CASE i = 7
    <3>1. object' = [object EXCEPT !["time"] = "read"] /\ UNCHANGED pos
      <4>1. part = "time"
        BY <2>4 DEF SbsField
      <4> HIDE DEF part
      <4>2. QED
        BY <2>1, <2>2, <4>1
    <3>2. /\ object' \in Objects /\ object'.time = "read" /\ object'.fullInfo = object.fullInfo
          /\ object'.id = object.id
      BY <2>2, <3>1 DEF ParseInv, Objects
    <3>3. QED
      BY <1>1, <2>read, <2>4, <3>1, <3>2 DEF LoopRead
  <2>5. CASE i = 11
    <3>1. UNCHANGED object /\ pos' = [pos EXCEPT !["altitude"] = "read"]
      BY <2>1, <2>2, <2>5 DEF SbsField
    <3>2. QED
      BY <1>1, <2>read, <2>2, <2>5, <3>1 DEF LoopRead
  <2>6. CASE i = 14
    <3>1. UNCHANGED object /\ pos' = [pos EXCEPT !["latitude"] = "read"]
      BY <2>1, <2>2, <2>6 DEF SbsField
    <3>2. QED
      BY <1>1, <2>read, <2>2, <2>6, <3>1 DEF LoopRead
  <2>7. CASE i = 15
    <3>1. UNCHANGED object /\ pos' = [pos EXCEPT !["longitude"] = "read"]
      BY <2>1, <2>2, <2>7 DEF SbsField
    <3>2. QED
      BY <1>1, <2>read, <2>2, <2>7, <3>1 DEF LoopRead
  <2>8. CASE i \notin {4, 7, 11, 14, 15}
    <3>1. UNCHANGED <<object, pos>>
      BY <2>1, <2>2, <2>8 DEF SbsField
    <3>2. QED
      BY <1>1, <2>read, <2>8, <3>1 DEF LoopRead
  <2>9. QED
    BY <2>3, <2>4, <2>5, <2>6, <2>7, <2>8
<1>4. QED
  BY <1>2, <1>3

\* Behind the loop: an object is accepted with all its fields read and its
\* altitude, the one of the sentence, within the filter.
LEMMA SbsEndParse == ASSUME ParseInv, SbsEnd PROVE ParseInv'
<1>1. /\ parserPc = "loop" /\ UNCHANGED <<sentence, pos, i, updated>>
      /\ sentence.protocol = "SBS" /\ sentence \in Sentences
  BY DEF SbsEnd, ParseInv
<1>2. PICK alt \in IF pos.altitude = "read" THEN {sentence.altitude} ELSE Altitudes :
        /\ object' = [object EXCEPT !.position = Completeness(pos), !.altitude = alt,
                                    !.targetType = "TRANSPONDER",
                                    !.aircraftType = 8, !.idType = 1]
        /\ Return(SbsReturn(alt))
  BY DEF SbsEnd
<1>3. alt \in Int
  BY <1>1, <1>2, SentenceKinds, ParserAssumption
<1>4. Completeness(pos) \in Origins
  BY DEF Completeness, Origins
<1>5. /\ object' \in Objects
      /\ object'.position = Completeness(pos) /\ object'.altitude = alt
      /\ object'.id = object.id /\ object'.time = object.time
      /\ object'.fullInfo = FALSE
  <2> DEFINE p == Completeness(pos)
  <2>1. object \in Objects /\ object.fullInfo = FALSE
    BY <1>1 DEF ParseInv
  <2>2. /\ object' = [object EXCEPT !.position = p, !.altitude = alt,
                                    !.targetType = "TRANSPONDER",
                                    !.aircraftType = 8, !.idType = 1]
        /\ p \in Origins
    BY <1>2, <1>4
  <2> HIDE DEF p
  <2>3. 8 \in 0 .. 15 /\ 1 \in 0 .. 3
    OBVIOUS
  <2>4. object' \in Objects
    BY <1>3, <2>1, <2>2, <2>3 DEF Objects
  <2>5. /\ object'.position = p /\ object'.altitude = alt
        /\ object'.id = object.id /\ object'.time = object.time
        /\ object'.fullInfo = FALSE
    BY <2>1, <2>2 DEF Objects
  <2>6. QED
    BY <2>4, <2>5 DEF p
<1>6. ASSUME parserPc' = "accepted"
      PROVE  /\ Sound(object')
             /\ \A part \in Parts(sentence.protocol) : object'[part] = "read"
  <2>1. i = 16 /\ alt <= s_maxHeight
    BY <1>2, <1>6 DEF Return, SbsReturn
  <2>2. /\ object.id = "read" /\ object.time = "read"
        /\ pos.altitude = "read" /\ pos.latitude = "read" /\ pos.longitude = "read"
        /\ DOMAIN pos = {"latitude", "longitude", "altitude"}
    BY <1>1, <2>1 DEF ParseInv
  <2>3. Completeness(pos) = "read"
    BY <2>2 DEF Completeness
  <2>4. Parts(sentence.protocol) = {"id", "time", "position"}
    BY <1>1 DEF Parts
  <2>5. QED
    BY <1>5, <2>1, <2>2, <2>3, <2>4 DEF Sound
<1>7. parserPc' \in {"accepted", "rejected"}
  BY <1>2 DEF Return
<1>8. QED
  BY <1>1, <1>5, <1>6, <1>7 DEF ParseInv
\* The bit fields of the type code fit those of the aircraft.
LEMMA TypeCodeFields ==
    ASSUME NEW c \in 0 .. 255
    PROVE  set_idType(c % 4) \in 0 .. 3 /\ set_aircraftType((c \div 4) % 32) \in 0 .. 15
<1>1. c % 4 \in 0 .. 3 /\ (c \div 4) % 32 \in 0 .. 31
  OBVIOUS
<1>2. QED
  BY <1>1 DEF set_idType, set_aircraftType

\* An object with the position of the sentence.
LEMMA ObjectPositioned ==
    ASSUME NEW o \in Objects, sentence.altitude \in Int
    PROVE  /\ parsePosition(o) \in Objects /\ parsePosition(o).fullInfo = o.fullInfo
           /\ parsePosition(o).position = "read"
           /\ parsePosition(o).altitude = sentence.altitude
<1> DEFINE height == sentence.altitude
           d == parsePosition(o)
<1>1. d = [o EXCEPT !.position = "read", !.altitude = height]
  BY Zenon DEF parsePosition
<1>2. "read" \in Origins /\ height \in Int
  BY DEF Origins
<1> HIDE DEF d, height
<1>3. d \in Objects /\ d.fullInfo = o.fullInfo /\ d.position = "read" /\ d.altitude = height
  BY <1>1, <1>2, Zenon DEF Objects
<1>4. QED
  BY <1>3, Zenon DEF d, height

\* An object with another movement.
LEMMA ObjectMoved ==
    ASSUME NEW o \in Objects, NEW mv \in Origins, NEW full \in BOOLEAN, NEW d,
           d = [o EXCEPT !.movement = mv, !.fullInfo = full, !.targetType = "FLARM"]
    PROVE  d \in Objects
  BY Zenon DEF Objects

\* AprsParser::unpack accepts only what has passed the filter and was read in
\* all its parts.
LEMMA UnpackAprsParse == ASSUME ParseInv, UnpackAprs PROVE ParseInv'
<1> DEFINE located == ~sentence.banner /\ sentence.matches
           timed == located /\ sentence.altitude <= s_maxHeight /\ sentence.time
           identified == timed /\ sentence.extension
           withPosition == IF located THEN parsePosition(object) ELSE object
           withTime == IF timed THEN [withPosition EXCEPT !.time = "read"] ELSE withPosition
           commented == parseComment(withTime)
<1>1. /\ sentence.protocol = "APRS" /\ UNCHANGED <<sentence, pos, i, updated>>
      /\ object = NewObject /\ sentence \in Sentences
      /\ object' = IF identified
                   THEN [commented EXCEPT
                            !.movement = IF sentence.movement THEN "read" ELSE @,
                            !.fullInfo = parseMovement,
                            !.targetType = "FLARM"]
                   ELSE withTime
      /\ Return(identified)
  BY DEF UnpackAprs, ParseInv
<1>2. /\ sentence.altitude \in Int /\ sentence.typeCode \in 0 .. 255
      /\ sentence.movement \in BOOLEAN
  BY <1>1, SentenceKinds, ParserAssumption
<1>3. /\ object \in Objects /\ object.fullInfo = FALSE
      /\ "read" \in Origins
  BY <1>1, NewObjectSound DEF Origins
<1>4. /\ withPosition \in Objects /\ withPosition.fullInfo = FALSE
      /\ located => /\ withPosition.position = "read"
                    /\ withPosition.altitude = sentence.altitude
  <2>1. /\ parsePosition(object) \in Objects /\ parsePosition(object).fullInfo = FALSE
        /\ parsePosition(object).position = "read"
        /\ parsePosition(object).altitude = sentence.altitude
    BY <1>2, <1>3, ObjectPositioned, Zenon
  <2>2. QED
    BY <1>3, <2>1
<1> HIDE DEF withPosition, located
<1>5. /\ withTime \in Objects /\ withTime.fullInfo = FALSE
      /\ timed => /\ withTime.time = "read" /\ withTime.position = "read"
                  /\ withTime.altitude <= s_maxHeight
  <2> DEFINE w == [withPosition EXCEPT !.time = "read"]
  <2>1. /\ w \in Objects /\ w.fullInfo = FALSE /\ w.time = "read"
        /\ w.position = withPosition.position /\ w.altitude = withPosition.altitude
    BY <1>3, <1>4 DEF Objects
  <2> HIDE DEF w
  <2>2. withTime = IF timed THEN w ELSE withPosition
    BY DEF w
  <2>3. QED
    BY <1>4, <2>1, <2>2
<1> HIDE DEF withTime, timed
<1>6. /\ commented \in Objects /\ commented.id = "read" /\ commented.time = withTime.time
      /\ commented.position = withTime.position /\ commented.altitude = withTime.altitude
  <2> DEFINE idT == set_idType(sentence.typeCode % 4)
             acT == set_aircraftType((sentence.typeCode \div 4) % 32)
  <2>1. idT \in 0 .. 3 /\ acT \in 0 .. 15
    BY <1>2, TypeCodeFields
  <2>2. commented = [withTime EXCEPT !.id = "read", !.idType = idT, !.aircraftType = acT]
    BY DEF parseComment
  <2> HIDE DEF idT, acT, commented
  <2>3. QED
    BY <1>3, <1>5, <2>1, <2>2 DEF Objects
<1> HIDE DEF commented
<1>7. CASE identified
  <2> DEFINE mv == IF sentence.movement THEN "read" ELSE commented.movement
  <2>1. object' = [commented EXCEPT !.movement = mv, !.fullInfo = sentence.movement,
                                    !.targetType = "FLARM"]
    BY <1>1, <1>6, <1>7 DEF parseMovement, Objects
  <2>2. mv \in Origins /\ (sentence.movement => mv = "read")
    BY <1>3, <1>6 DEF Objects
  <2> HIDE DEF mv
  <2>3. /\ object' \in Objects /\ object'.id = "read" /\ object'.time = commented.time
        /\ object'.position = commented.position /\ object'.altitude = commented.altitude
        /\ object'.movement = mv /\ object'.fullInfo = sentence.movement
    <3>1. object' \in Objects
      BY <1>2, <1>6, <2>1, <2>2, ObjectMoved, Zenon
    <3>2. /\ object'.id = commented.id /\ object'.time = commented.time
          /\ object'.position = commented.position /\ object'.altitude = commented.altitude
      BY <1>6, <2>1 DEF Objects
    <3>3. object'.movement = mv /\ object'.fullInfo = sentence.movement
      BY <1>6, <2>1 DEF Objects
    <3>4. QED
      BY <1>6, <3>1, <3>2, <3>3
  <2>4. parserPc' = "accepted" /\ timed
    BY <1>1, <1>7 DEF Return
  <2>5. Parts(sentence.protocol) = {"id", "time", "position"}
    BY <1>1 DEF Parts
  <2>6. Sound(object') /\ \A part \in Parts(sentence.protocol) : object'[part] = "read"
    BY <1>5, <1>6, <2>3, <2>4, <2>5 DEF Sound
  <2>7. QED
    BY <1>1, <2>2, <2>3, <2>4, <2>6 DEF ParseInv
<1>8. CASE ~identified
  <2>1. object' = withTime /\ parserPc' = "rejected"
    BY <1>1, <1>8 DEF Return
  <2>2. QED
    BY <1>1, <1>5, <2>1 DEF ParseInv
<1>9. QED
  BY <1>7, <1>8

\* The parsers of GPS, atmosphere and wind sentences.
LEMMA UnpackSensorsParse ==
    ASSUME ParseInv, UnpackGps \/ UnpackAtmosphere \/ UnpackWind
    PROVE  ParseInv'
<1>1. /\ parserPc = "unpack" /\ UNCHANGED <<sentence, pos, i, updated>>
      /\ object = NewObject /\ sentence \in Sentences
  BY DEF ParseInv, UnpackGps, UnpackAtmosphere, UnpackWind
<1>2. /\ object \in Objects /\ object.fullInfo = FALSE /\ Sound(object) /\ "read" \in Origins
  BY <1>1, NewObjectSound DEF Origins
<1>3. CASE UnpackGps
  <2> DEFINE matched == sentence.checksum /\ sentence.matches
             p == IF matched THEN "read" ELSE object.position
             t == IF matched /\ sentence.time THEN "read" ELSE object.time
  <2>1. /\ sentence.protocol = "GPS"
        /\ object' = [object EXCEPT !.position = p, !.time = t]
        /\ Return(matched /\ sentence.time)
    BY <1>2, <1>3 DEF UnpackGps, Objects
  <2>2. p \in Origins /\ t \in Origins
    BY <1>2 DEF Objects
  <2>3. matched /\ sentence.time => p = "read" /\ t = "read"
    OBVIOUS
  <2>4. Parts(sentence.protocol) = {"time", "position"}
    BY <2>1 DEF Parts
  <2>5. parserPc' = IF matched /\ sentence.time THEN "accepted" ELSE "rejected"
    BY <2>1 DEF Return
  <2> HIDE DEF p, t, matched
  <2>6. /\ object' \in Objects /\ object'.position = p /\ object'.time = t
        /\ object'.fullInfo = FALSE /\ object'.altitude = object.altitude
    BY <1>2, <2>1, <2>2 DEF Objects
  <2>7. QED
    BY <1>1, <1>2, <2>3, <2>4, <2>5, <2>6 DEF ParseInv, Sound
<1>4. CASE UnpackAtmosphere
  <2> DEFINE matches == sentence.checksum /\ sentence.keyword /\ sentence.number
             full == [object EXCEPT !.serialized = "read", !.pressure = "read"]
  <2>1. /\ sentence.protocol = "ATMOSPHERE"
        /\ object' = IF matches THEN full ELSE object
        /\ parserPc' = IF matches THEN "accepted" ELSE "rejected"
    BY <1>4 DEF UnpackAtmosphere, Return
  <2>2. Parts(sentence.protocol) = {"serialized", "pressure"}
    BY <2>1 DEF Parts
  <2>3. /\ full \in Objects /\ full.serialized = "read" /\ full.pressure = "read"
        /\ full.fullInfo = FALSE /\ full.altitude = object.altitude
        /\ full.position = object.position
    BY <1>2 DEF Objects
  <2> HIDE DEF full, matches
  <2>4. QED
    BY <1>1, <1>2, <2>1, <2>2, <2>3 DEF ParseInv, Sound
<1>5. CASE UnpackWind
  <2> DEFINE matches == sentence.checksum /\ sentence.keyword
             full == [object EXCEPT !.serialized = "read"]
  <2>1. /\ sentence.protocol = "WIND"
        /\ object' = IF matches THEN full ELSE object
        /\ parserPc' = IF matches THEN "accepted" ELSE "rejected"
    BY <1>5 DEF UnpackWind, Return
  <2>2. Parts(sentence.protocol) = {"serialized"}
    BY <2>1 DEF Parts
  <2>3. /\ full \in Objects /\ full.serialized = "read"
        /\ full.fullInfo = FALSE /\ full.altitude = object.altitude
        /\ full.position = object.position
    BY <1>2 DEF Objects
  <2> HIDE DEF full, matches
  <2>4. QED
    BY <1>1, <1>2, <2>1, <2>2, <2>3 DEF ParseInv, Sound
<1>6. QED
  BY <1>3, <1>4, <1>5

\* Every step preserves the invariant.
LEMMA ParseInvNext == ParseInv /\ [ParsersNext]_parsing => ParseInv'
<1> SUFFICES ASSUME ParseInv, [ParsersNext]_parsing PROVE ParseInv'
  OBVIOUS
<1>1. CASE Receive \/ SbsStart
  BY <1>1, ReceiveParse
<1>2. CASE SbsParseField
  BY <1>2, SbsParseFieldParse
<1>3. CASE SbsEnd
  BY <1>3, SbsEndParse
<1>4. CASE UnpackAprs
  BY <1>4, UnpackAprsParse
<1>5. CASE UnpackGps \/ UnpackAtmosphere \/ UnpackWind
  BY <1>5, UnpackSensorsParse
<1>6. CASE Process
  <2>1. /\ object' = NewObject /\ pos' = NoPosition /\ i' = 2 /\ parserPc' = "idle"
        /\ updated' = IF parserPc = "accepted" THEN object ELSE updated
    BY <1>6 DEF Process, Leave
  <2>2. updated' \in Objects /\ Sound(updated')
    BY <2>1 DEF ParseInv
  <2>3. object' \in Objects /\ object'.fullInfo = FALSE
    BY <2>1, NewObjectSound
  <2>4. pos' \in [{"latitude", "longitude", "altitude"} -> Origins] /\ i' \in 2 .. 16
    BY <2>1, NoPositionType
  <2>5. QED
    BY <2>1, <2>2, <2>3, <2>4 DEF ParseInv
<1>7. CASE UNCHANGED parsing
  BY <1>7 DEF parsing, ParseInv
<1>8. QED
  BY <1>1, <1>2, <1>3, <1>4, <1>5, <1>6, <1>7 DEF ParsersNext

\* Whatever sentences arrive, and wherever they break off, what reaches the
\* data was read from its sentence in all its parts and passes the filter; the
\* bit fields of the type code stay within those of the aircraft.
THEOREM StoredAlwaysSound == ParsersSpec => [](ParsersTypeOK /\ StoredIsSound)
<1>1. ParsersSpec => []ParseInv
  BY ParseInvInit, ParseInvNext, PTL DEF ParsersSpec
<1>2. QED
  BY <1>1, ParseInvSound, PTL
-----------------------------------------------------------------------------
(***************************************************************************)
(* TimeStamp                                                               *)
(***************************************************************************)
\* What holds between the two readings of the clock: at most one midnight has
\* passed, and the report is less than a day old.
Reading ==
    /\ m_day \in FIRST_DAY .. day
    /\ m_day = IF midnight THEN day - 1 ELSE day
    /\ sent.value = m_value
    /\ sent.day \in {m_day - 1, m_day}
    /\ After(DaysLater(sent, 1), Now)

\* The inductive invariant.
TInv ==
    /\ TimeStampTypeOK
    /\ NotInFuture
    /\ NotAfterSending
    /\ stampPc = "dayRead" => Reading

\* The length of a day is all that the proofs use of it.
LEMMA DayLength == DAY \in Nat /\ DAY > 0
  BY SMT DEF DAY

\* A well-formed time is less than a day.
LEMMA WellFormedBounded ==
    ASSUME NEW h \in Int, NEW m \in Int, NEW s \in Int, NEW f \in Int,
           WellFormed(h, m, s, f)
    PROVE  Milliseconds(h, m, s, f) \in Int /\ Milliseconds(h, m, s, f) < DAY
  BY SMT DEF WellFormed, Milliseconds, DAY

\* The invariant holds initially.
LEMMA TInvInit == TimeStampInit => TInv
<1> SUFFICES ASSUME TimeStampInit PROVE TInv
  OBVIOUS
<1>1. stampPc # "dayRead" /\ midnight \in BOOLEAN
  BY DEF TimeStampInit
<1>2. stored \in Instant /\ now \in 0 .. DAY - 1
  BY TimeAssumption DEF TimeStampInit, Instant
<1>3. TimeStampTypeOK
  BY <1>1, <1>2, TimeAssumption, DayLength DEF TimeStampInit, TimeStampTypeOK
<1>4. NotInFuture /\ NotAfterSending
  BY <1>2, TimeAssumption, DayLength DEF TimeStampInit, NotInFuture, NotAfterSending, After, Now
<1>5. QED
  BY <1>1, <1>3, <1>4 DEF TInv

\* Reading the day starts a construction that satisfies Reading.
LEMMA ReadDayStep ==
    ASSUME TInv, NEW h \in Hours, NEW m \in Minutes, NEW s \in Seconds, NEW f \in Millis,
           ReadDay(h, m, s, f)
    PROVE  TInv'
<1>1. /\ m_value' \in Int /\ m_value' < DAY
      /\ day \in FIRST_DAY .. LAST_DAY /\ day > 1 /\ now \in Int
  <2>1. h \in Int /\ m \in Int /\ s \in Int /\ f \in Int
    BY TimeAssumption
  <2>2. m_value' = Milliseconds(h, m, s, f) /\ WellFormed(h, m, s, f)
    BY DEF ReadDay
  <2>3. m_value' \in Int /\ m_value' < DAY
    BY <2>1, <2>2, WellFormedBounded
  <2>4. day \in FIRST_DAY .. LAST_DAY /\ now \in 0 .. DAY - 1
    BY DEF TInv, TimeStampTypeOK
  <2>5. QED
    BY <2>3, <2>4, DayLength, TimeAssumption
<1>2. PICK d \in {day - 1, day} :
          /\ sent' = [day |-> d, value |-> m_value']
          /\ d = day - 1 => m_value' > now
  <2>1. PICK d \in IF m_value' <= now THEN {day} ELSE {day - 1, day} :
            sent' = [day |-> d, value |-> m_value']
    BY DEF ReadDay
  <2>2. d \in {day - 1, day} /\ (d = day - 1 => m_value' > now)
    BY <1>1, <2>1
  <2>3. QED
    BY <2>1, <2>2, Zenon
<1>3. Reading'
  <2>1. m_day' = day /\ midnight' = FALSE /\ day' = day /\ now' = now
    BY DEF ReadDay, clock
  <2>2. d + 1 > day \/ (d + 1 = day /\ m_value' > now)
    BY <1>1, <1>2, TimeAssumption
  <2>3. After(DaysLater(sent', 1), Now')
    BY <1>2, <2>1, <2>2 DEF After, DaysLater, Now
  <2>4. m_day' \in FIRST_DAY .. day'
    BY <1>1, <2>1, TimeAssumption
  <2>5. QED
    BY <1>2, <2>1, <2>3, <2>4 DEF Reading
<1>4. sent' \in Instant
  BY <1>1, <1>2, TimeAssumption DEF Instant
<1>5. TimeStampTypeOK'
  <2>1. midnight' \in BOOLEAN
    BY DEF ReadDay
  <2>2. m_day' \in Nat
    <3>1. m_day' = day
      BY DEF ReadDay
    <3>2. QED
      BY <1>1, <3>1, TimeAssumption
  <2>3. QED
    BY <1>1, <1>4, <2>1, <2>2 DEF ReadDay, TInv, TimeStampTypeOK, clock
<1>6. QED
  BY <1>3, <1>5 DEF ReadDay, TInv, NotInFuture, NotAfterSending, After, Now, clock

\* What ReadNow makes of the stamp.
LEMMA ReadNowStamp ==
    ASSUME TInv, ReadNow
    PROVE  /\ Stamp' = [day |-> m_day', value |-> m_value]
           /\ Stamp' \in Instant /\ m_value < DAY
           /\ After(Now, Stamp')
           /\ ~After(Stamp', sent)
           /\ ~After(Now, DaysLater(Stamp', IF midnight THEN 2 ELSE 1))
           /\ ~midnight /\ After(Now, sent) => Stamp' = sent
<1>1. Stamp' = [day |-> m_day', value |-> m_value]
  BY DEF ReadNow, Stamp
<1>2. /\ m_day \in Int /\ m_day > 1 /\ day \in Int /\ m_value \in Int /\ now \in Int
      /\ m_value < DAY
      /\ m_day' = IF m_value >= now THEN m_day - 1 ELSE m_day
      /\ m_day = IF midnight THEN day - 1 ELSE day
      /\ midnight \in BOOLEAN
      /\ sent = [day |-> sent.day, value |-> m_value]
      /\ sent.day \in {m_day - 1, m_day} /\ sent.value = m_value
      /\ After(DaysLater(sent, 1), Now)
  BY DayLength, TimeAssumption DEF ReadNow, TInv, TimeStampTypeOK, Reading, Instant
<1>3. Stamp' \in Instant
  BY <1>1, <1>2 DEF Instant
<1>4. After(Now, Stamp') /\ ~After(Stamp', sent)
  BY <1>1, <1>2 DEF After, Now, DaysLater
<1>5. ~After(Now, DaysLater(Stamp', IF midnight THEN 2 ELSE 1))
  BY <1>1, <1>2 DEF After, Now, DaysLater
<1>6. ~midnight /\ After(Now, sent) => m_day' = sent.day
  BY <1>2 DEF After, Now, DaysLater
<1>7. QED
  BY <1>1, <1>2, <1>3, <1>4, <1>5, <1>6

\* Dating a report keeps the invariant.
LEMMA ReadNowStep ==
    ASSUME TInv, ReadNow
    PROVE  TInv'
<1>1. /\ Stamp' = [day |-> m_day', value |-> m_value]
      /\ Stamp' \in Instant /\ After(Now, Stamp') /\ ~After(Stamp', sent)
  BY ReadNowStamp
<1>2. CASE stored' = Stamp' /\ storedSent' = sent
  BY <1>1, <1>2 DEF ReadNow, TInv, TimeStampTypeOK, NotInFuture, NotAfterSending, After, Now,
                    clock, Instant
<1>3. CASE UNCHANGED <<stored, storedSent>>
  BY <1>1, <1>3 DEF ReadNow, TInv, TimeStampTypeOK, NotInFuture, NotAfterSending, After, Now,
                    clock, Instant
<1>4. QED
  BY <1>1, <1>2, <1>3 DEF ReadNow

\* The passing of time keeps the invariant.
LEMMA TickStep ==
    ASSUME TInv, NEW moment \in Moments, Tick(moment)
    PROVE  TInv'
<1>1. /\ day \in FIRST_DAY .. LAST_DAY /\ now \in 0 .. DAY - 1
      /\ moment \in 0 .. DAY - 1 /\ now' = moment
      /\ day' = (IF moment > now THEN day ELSE day + 1)
      /\ day' \in FIRST_DAY .. LAST_DAY
      /\ stored \in Instant /\ sent \in Instant
      /\ UNCHANGED <<stampPc, m_day, m_value, stored, sent, storedSent>>
  BY DayLength, TimeAssumption DEF Tick, TInv, TimeStampTypeOK
<1>2. TimeStampTypeOK'
  BY <1>1 DEF Tick, TInv, TimeStampTypeOK
<1>3. NotInFuture'
  BY <1>1 DEF TInv, NotInFuture, After, Now, Instant
<1>4. NotAfterSending'
  BY <1>1 DEF TInv, NotAfterSending, After
<1>5. ASSUME stampPc = "dayRead" PROVE Reading'
  <2>1. Reading /\ After(DaysLater(sent, 1), [day |-> day', value |-> moment])
    BY <1>5 DEF TInv, Tick
  <2>2. m_day' = IF midnight' THEN day' - 1 ELSE day'
    <3>1. midnight \in BOOLEAN /\ (midnight' <=> midnight \/ day' # day)
      BY DEF Tick, TInv, TimeStampTypeOK
    <3>2. m_day \in Int /\ m_day = (IF midnight THEN day - 1 ELSE day)
      BY <1>1, <2>1, TimeAssumption DEF Reading
    <3>3. day' <= sent.day + 1 /\ sent.day \in Int
      BY <1>1, <2>1 DEF After, DaysLater, Instant
    <3>4. day' <= m_day + 1
      BY <1>1, <2>1, <3>2, <3>3 DEF Reading
    <3>5. CASE midnight
      BY <1>1, <3>1, <3>2, <3>4, <3>5
    <3>6. CASE ~midnight
      BY <1>1, <3>1, <3>2, <3>4, <3>6
    <3>7. QED
      BY <3>1, <3>5, <3>6
  <2>3. After(DaysLater(sent', 1), Now')
    BY <1>1, <2>1 DEF After, DaysLater, Now, Tick
  <2>4. m_day' \in FIRST_DAY .. day'
    BY <1>1, <2>1, TimeAssumption DEF Reading
  <2>5. QED
    BY <1>1, <2>1, <2>2, <2>3, <2>4 DEF Reading
<1>6. QED
  BY <1>1, <1>2, <1>3, <1>4, <1>5 DEF TInv

\* Every step keeps the invariant.
LEMMA TInvStep == TInv /\ [TimeStampNext]_timeStamp => TInv'
<1> SUFFICES ASSUME TInv, [TimeStampNext]_timeStamp PROVE TInv'
  OBVIOUS
<1>1. CASE UNCHANGED timeStamp
  BY <1>1 DEF timeStamp, clock, history, TInv, TimeStampTypeOK, NotInFuture, NotAfterSending, Reading,
              After, Now, DaysLater
<1>2. CASE TimeStampNext
  BY <1>2, ReadDayStep, ReadNowStep, TickStep DEF TimeStampNext
<1>3. QED
  BY <1>1, <1>2

\* The inductive invariant of TimeStamp.
THEOREM TimeStampInvariance == TimeStampSpec => []TInv
  BY TInvInit, TInvStep, PTL DEF TimeStampSpec

\* No stored time stamp is ever in the future, and none is later than the time
\* its report was sent, whatever the clock does between day() and now().
THEOREM NeverInFuture == TimeStampSpec => [](NotInFuture /\ NotAfterSending)
<1>1. TInv => NotInFuture /\ NotAfterSending
  BY DEF TInv
<1>2. QED
  BY <1>1, TimeStampInvariance, PTL

\* A time of day is dated to its last occurrence, or to the day before that
\* when midnight passes while the stamp is made.
THEOREM DatedWithinADay == TimeStampSpec => DatedToLastOccurrence
<1>1. TInv /\ [TimeStampNext]_timeStamp =>
        [stampPc = "dayRead" /\ stampPc' = "dated" =>
            /\ After(Now, Stamp')
            /\ ~After(Now, DaysLater(Stamp', IF midnight THEN 2 ELSE 1))]_timeStamp
  BY ReadNowStamp DEF TimeStampNext, ReadDay, Tick
<1>2. QED
  BY <1>1, TimeStampInvariance, PTL DEF TimeStampSpec, DatedToLastOccurrence

\* A report that was sent after the stored one replaces it, however that one
\* was dated.
THEOREM LaterReportAlwaysWins == TimeStampSpec => LaterReportWins
<1>1. ASSUME TInv, ReadNow, ~midnight, After(Now, sent), After(sent, storedSent)
      PROVE  stored' = sent
  <2>1. Stamp' = [day |-> m_day', value |-> m_value] /\ Stamp' = sent
    BY <1>1, ReadNowStamp
  <2>2. After(sent, stored)
    BY <1>1 DEF TInv, TimeStampTypeOK, NotAfterSending, After, Instant
  <2>3. QED
    BY <1>1, <2>1, <2>2 DEF ReadNow
<1>2. TInv /\ [TimeStampNext]_timeStamp =>
        [/\ stampPc = "dayRead" /\ stampPc' = "dated"
         /\ ~midnight
         /\ After(Now, sent) /\ After(sent, storedSent)
         => stored' = sent]_timeStamp
  BY <1>1 DEF TimeStampNext, ReadDay, Tick
<1>3. QED
  BY <1>2, TimeStampInvariance, PTL DEF TimeStampSpec, LaterReportWins

-----------------------------------------------------------------------------
(***************************************************************************)
(* Coordinates                                                             *)
(***************************************************************************)
\* The coordinate received, without its direction.
Magnitude == (degMin \div DM) * DEG + (degMin % DM)

\* The inductive invariant: the value of a positive coordinate is off by one part
\* at most, its parts together by two, and the minutes printed are the nearest.
CInv ==
    /\ CoordinatesTypeOK
    /\ coordinatePc # "parse" /\ direction = "positive" =>
          value >= 0 /\ Abs(value - Magnitude * SUB) <= 1
    /\ coordinatePc \in {"append", "sent"} /\ direction = "positive" =>
          /\ m_direction = "positive"
          /\ Abs(m_deg * DEG * SUB + m_min - Magnitude * SUB) <= 2 /\ m_min <= DEG * SUB
    /\ coordinatePc = "sent" =>
          2 * Abs(gga * SUB - m_min) <= SUB /\ 2 * Abs(rmc * 100 * SUB - m_min) <= 100 * SUB

\* The units are numbers.
LEMMA Units == DEG = 600000 /\ DM = 1000000 /\ SUB = 8 /\ DEG * SUB = 4800000
  BY SMT DEF DEG, DM, SUB

\* A rounded number is off by one at most, and on the same side of zero.
LEMMA RoundedNear ==
    ASSUME NEW n \in Int, NEW m \in Rounded(n)
    PROVE  m \in Int /\ m - n <= 1 /\ n - m <= 1 /\ (n >= 0 => m >= 0)
<1>1. CASE n = 0
  BY <1>1, SMT DEF Rounded
<1>2. CASE n # 0
  BY <1>2, SMT DEF Rounded
<1>3. QED
  BY <1>1, <1>2

\* The coordinate received is a natural number.
LEMMA MagnitudeType ==
    ASSUME degMin \in Nat
    PROVE  Magnitude \in Nat /\ degMin \div DM \in Nat /\ degMin % DM \in Nat
<1>1. degMin \div DM \in Nat /\ degMin % DM \in Nat
  BY Units, SMT
<1>2. QED
  BY <1>1, Units, SMT DEF Magnitude

\* dmToDeg returns the degrees and the minutes, off by one part at most.
LEMMA DmToDeg ==
    ASSUME degMin \in Nat, NEW v \in dmToDeg(degMin)
    PROVE  v \in Nat /\ v - Magnitude * SUB <= 1 /\ Magnitude * SUB - v <= 1
<1> DEFINE d == degMin \div DM
           r == degMin % DM
<1>1. d \in Nat /\ r \in Nat /\ Magnitude = d * DEG + r
  BY MagnitudeType DEF Magnitude
<1>2. Abs(degMin) = degMin
  BY SMT DEF Abs
<1>3. PICK m \in Rounded(r * SUB) : v = d * DEG * SUB + m
  BY <1>2 DEF dmToDeg
<1> HIDE DEF d, r
<1>4. r * SUB \in Int /\ r * SUB >= 0
  BY <1>1, Units, SMT
<1>5. m \in Int /\ m - r * SUB <= 1 /\ r * SUB - m <= 1 /\ m >= 0
  BY <1>4, RoundedNear
<1>6. QED
  BY <1>1, <1>3, <1>5, Units, SMT

\* A number of parts is split into whole degrees and less than one degree.
LEMMA SplitDegrees ==
    ASSUME NEW v \in Int
    PROVE  /\ v \div (DEG * SUB) \in Int
           /\ v >= 0 => v \div (DEG * SUB) >= 0
           /\ v - (v \div (DEG * SUB)) * DEG * SUB >= 0
           /\ v - (v \div (DEG * SUB)) * DEG * SUB < DEG * SUB
<1> DEFINE q == v \div 4800000
           r == v % 4800000
<1>1. q \in Int /\ r \in Int /\ r >= 0 /\ r < 4800000 /\ v = q * 4800000 + r /\ (v >= 0 => q >= 0)
  BY SMT
<1>2. v \div (DEG * SUB) = q
  BY Units, SMT
<1> HIDE DEF q, r
<1>3. q * DEG * SUB = q * 4800000
  BY <1>1, Units, SMT
<1>4. QED
  BY <1>1, <1>2, <1>3, Units, SMT

\* A printed number is a natural number and one of the nearest.
LEMMA NearestNear ==
    ASSUME NEW n \in Nat, NEW d \in Nat \ {0}, NEW q \in Nearest(n, d)
    PROVE  q \in Nat /\ 2 * Abs(q * d - n) <= d
<1>1. n \div d \in Nat
  BY SMT
<1>2. QED
  BY <1>1 DEF Nearest

\* Two numbers each next to a third are at most two apart.
LEMMA NearSum ==
    ASSUME NEW a \in Int, NEW b \in Int, NEW m \in Int, NEW v \in Int,
           Abs(v - b) <= 1, a + m - v <= 1, v - (a + m) <= 1
    PROVE  Abs(a + m - b) <= 2
  BY SMT DEF Abs

\* A number within fifty of zero.
LEMMA TwiceAbs ==
    ASSUME NEW x \in Int, x <= 50, -x <= 50
    PROVE  2 * Abs(x) <= 100
  BY SMT DEF Abs

\* d degrees and m parts are v up to two parts, and g and r are m as printed.
PartsNear(d, m, g, r, v) ==
    /\ Abs(d * DEG * SUB + m - v * SUB) <= 2 /\ m <= DEG * SUB
    /\ 2 * Abs(g * SUB - m) <= SUB /\ 2 * Abs(r * 100 * SUB - m) <= 100 * SUB

\* d degrees with the minutes g, or r hundreds of them, are v as printed.
PrintsNear(d, g, r, v) ==
    /\ d * DEG + g = v /\ g <= DEG
    /\ 2 * Abs(d * DEG + r * 100 - v) <= 100

\* An error of two parts is too small to reach the last digit printed.
LEMMA PrintedNear ==
    ASSUME NEW d \in Nat, NEW m \in Nat, NEW g \in Nat, NEW r \in Nat, NEW v \in Nat,
           PartsNear(d, m, g, r, v)
    PROVE  PrintsNear(d, g, r, v)
<1>1. g * 8 - m <= 4 /\ m - g * 8 <= 4
  BY Units, SMT DEF Abs, PartsNear
<1>2. r * 800 - m <= 400 /\ m - r * 800 <= 400
  BY Units, SMT DEF Abs, PartsNear
<1>3. d * 4800000 + m - v * 8 <= 2 /\ v * 8 - d * 4800000 - m <= 2
  BY Units, SMT DEF Abs, PartsNear
<1>4. d * DEG + g = v /\ g <= DEG
  BY <1>1, <1>3, Units, SMT DEF PartsNear
<1>5. d * DEG + r * 100 - v <= 50 /\ -(d * DEG + r * 100 - v) <= 50
  BY <1>2, <1>3, Units, SMT
<1>6. d * DEG + r * 100 - v \in Int
  BY Units, SMT
<1>7. 2 * Abs(d * DEG + r * 100 - v) <= 100
  BY <1>5, <1>6, TwiceAbs
<1>8. QED
  BY <1>4, <1>7, SMT DEF PrintsNear

\* The invariant holds initially.
LEMMA CInvInit == CoordinatesInit => CInv
<1> SUFFICES ASSUME CoordinatesInit PROVE CInv
  OBVIOUS
<1>1. degMin \in Nat
  <2>1. PICK d \in Degrees, m \in MinuteParts : degMin = d * DM + m
    BY DEF CoordinatesInit
  <2>2. QED
    <3>1. d \in Nat /\ m \in Nat
      BY CoordinateAssumption, SMT
    <3>2. QED
      BY <2>1, <3>1, SMT DEF DM
<1>2. QED
  BY <1>1 DEF CoordinatesInit, CInv, CoordinatesTypeOK

\* parsePosition yields the coordinate received, up to a part.
LEMMA ParseStep == CInv /\ parseCoordinate => CInv'
<1> SUFFICES ASSUME CInv, parseCoordinate PROVE CInv'
  OBVIOUS
<1>1. degMin \in Nat /\ direction \in {"positive", "negative"}
  BY DEF CInv, CoordinatesTypeOK
<1>2. PICK v \in dmToDeg(degMin) : value' = IF direction = "negative" THEN -v ELSE v
  BY DEF parseCoordinate
<1>3. v \in Nat /\ v - Magnitude * SUB <= 1 /\ Magnitude * SUB - v <= 1
  BY <1>1, DmToDeg
<1>4. value' \in Int
  BY <1>2, <1>3, SMT
<1>5. direction = "positive" => value' >= 0 /\ Abs(value' - Magnitude * SUB) <= 1
  <2> SUFFICES ASSUME direction = "positive" PROVE value' >= 0 /\ Abs(value' - Magnitude * SUB) <= 1
    OBVIOUS
  <2>1. value' = v /\ Magnitude \in Nat
    BY <1>1, <1>2, MagnitudeType
  <2>2. QED
    BY <1>3, <2>1, Units, SMT DEF Abs
<1>6. Magnitude' = Magnitude
  BY DEF parseCoordinate, Magnitude
<1>7. QED
  BY <1>4, <1>5, <1>6 DEF CInv, CoordinatesTypeOK, parseCoordinate

\* evalPosition splits a coordinate that is not negative, up to another part.
LEMMA EvalStep == CInv /\ evalPosition => CInv'
<1> SUFFICES ASSUME CInv, evalPosition PROVE CInv'
  OBVIOUS
<1> DEFINE q == value \div (DEG * SUB)
           n == value - m_deg' * DEG * SUB
<1>1. /\ value \in Int /\ degMin \in Nat /\ coordinatePc = "eval" /\ coordinatePc' = "append"
      /\ m_deg' = Abs(q)
      /\ UNCHANGED <<degMin, direction, value, gga, rmc>>
  BY DEF CInv, CoordinatesTypeOK, evalPosition
<1>2. PICK m \in Rounded(n) : m_min' = Abs(m)
  BY DEF evalPosition
<1>3. /\ q \in Int /\ (value >= 0 => q >= 0)
      /\ value - q * DEG * SUB >= 0 /\ value - q * DEG * SUB < DEG * SUB
  BY <1>1, SplitDegrees
<1> HIDE DEF q
<1>4. m_deg' \in Nat /\ (q >= 0 => m_deg' = q)
  BY <1>1, <1>3, SMT DEF Abs
<1>5. n \in Int
  BY <1>1, <1>4, Units, SMT
<1>6. m \in Int /\ m - n <= 1 /\ n - m <= 1 /\ (n >= 0 => m >= 0)
  BY <1>2, <1>5, RoundedNear
<1>7. m_min' \in Nat /\ (n >= 0 => m_min' = m)
  BY <1>2, <1>6, SMT DEF Abs
<1>8. Magnitude' = Magnitude /\ Magnitude \in Nat
  BY <1>1, MagnitudeType DEF Magnitude
<1>9. ASSUME direction = "positive"
      PROVE  /\ m_direction' = "positive"
             /\ Abs(m_deg' * DEG * SUB + m_min' - Magnitude * SUB) <= 2 /\ m_min' <= DEG * SUB
  <2>1. value >= 0 /\ Abs(value - Magnitude * SUB) <= 1
    BY <1>1, <1>9 DEF CInv
  <2>2. m_deg' = q /\ n = value - q * DEG * SUB
    BY <1>3, <1>4, <2>1
  <2>3. m_min' = m /\ n < DEG * SUB
    BY <1>3, <1>7, <2>2
  <2>4. m_min' <= DEG * SUB
    BY <1>5, <1>6, <2>3, Units, SMT
  <2>5. m_deg' * DEG * SUB \in Int /\ Magnitude * SUB \in Int
    BY <1>4, <1>8, Units, SMT
  <2>6. m_deg' * DEG * SUB + m_min' - value <= 1 /\ value - (m_deg' * DEG * SUB + m_min') <= 1
    BY <1>1, <1>6, <2>3, <2>5, SMT
  <2>7. Abs(m_deg' * DEG * SUB + m_min' - Magnitude * SUB) <= 2
    BY <1>1, <1>7, <2>1, <2>5, <2>6, NearSum
  <2>8. m_direction' = "positive"
    <3>1. ~(value < 0)
      BY <1>1, <2>1, SMT
    <3>2. QED
      BY <3>1 DEF evalPosition
  <2>9. QED
    BY <2>4, <2>7, <2>8
<1>10. m_direction' \in {"x", "positive", "negative"}
  BY Zenon DEF evalPosition
<1>11. CoordinatesTypeOK'
  BY <1>1, <1>4, <1>7, <1>10 DEF CInv, CoordinatesTypeOK
<1> HIDE DEF n
<1>12. QED
  BY <1>1, <1>8, <1>9, <1>11 DEF CInv

\* append prints the minutes.
LEMMA AppendStep == CInv /\ append => CInv'
<1> SUFFICES ASSUME CInv, append PROVE CInv'
  OBVIOUS
<1>1. /\ m_min \in Nat /\ gga' \in Nearest(m_min, SUB) /\ rmc' \in Nearest(m_min, 100 * SUB)
      /\ SUB \in Nat \ {0} /\ 100 * SUB \in Nat \ {0}
  BY Units, SMT DEF CInv, CoordinatesTypeOK, append
<1>2. /\ coordinatePc = "append" /\ coordinatePc' = "sent"
      /\ UNCHANGED <<degMin, direction, value, m_direction, m_deg, m_min>>
  BY DEF append
<1>3. gga' \in Nat /\ 2 * Abs(gga' * SUB - m_min) <= SUB
  BY <1>1, NearestNear
<1>4. rmc' \in Nat /\ 2 * Abs(rmc' * (100 * SUB) - m_min) <= 100 * SUB
  BY <1>1, NearestNear
<1>5. rmc' * 100 * SUB = rmc' * (100 * SUB)
  BY <1>4, Units, SMT
<1>6. CoordinatesTypeOK'
  BY <1>2, <1>3, <1>4 DEF CInv, CoordinatesTypeOK
<1>7. Magnitude' = Magnitude
  BY <1>2 DEF Magnitude
<1>8. QED
  BY <1>2, <1>3, <1>4, <1>5, <1>6, <1>7 DEF CInv

\* CInv is an invariant.
LEMMA CInvInvariant == CoordinatesSpec => []CInv
<1>1. CInv /\ [CoordinatesNext]_coordinates => CInv'
  <2> SUFFICES ASSUME CInv, [CoordinatesNext]_coordinates PROVE CInv'
    OBVIOUS
  <2>1. CASE CoordinatesNext
    BY <2>1, ParseStep, EvalStep, AppendStep DEF CoordinatesNext
  <2>2. CASE UNCHANGED coordinates
    BY <2>2 DEF coordinates, CInv, CoordinatesTypeOK, Magnitude
  <2>3. QED
    BY <2>1, <2>2
<1>2. QED
  BY <1>1, CInvInit, PTL DEF CoordinatesSpec

\* However the calculations in double are rounded, a northern or eastern
\* coordinate is printed in the GGA sentence as it was received, and in the RMC
\* sentence with an error of half its last digit at most, whatever its degrees
\* and minutes.
THEOREM PositiveAlwaysRoundTrips == CoordinatesSpec => []PositiveRoundTrip
<1>1. CInv => PositiveRoundTrip
  <2> SUFFICES ASSUME CInv, coordinatePc = "sent", direction = "positive"
               PROVE  /\ Printed(gga) = Received /\ gga <= DEG
                      /\ 2 * Abs(Printed(rmc * 100) - Received) <= 100
    BY DEF PositiveRoundTrip
  <2>1. /\ degMin \in Nat /\ m_deg \in Nat /\ m_min \in Nat /\ gga \in Nat /\ rmc \in Nat
        /\ m_direction = "positive"
        /\ Abs(m_deg * DEG * SUB + m_min - Magnitude * SUB) <= 2 /\ m_min <= DEG * SUB
        /\ 2 * Abs(gga * SUB - m_min) <= SUB /\ 2 * Abs(rmc * 100 * SUB - m_min) <= 100 * SUB
    BY DEF CInv, CoordinatesTypeOK
  <2>2. /\ Printed(gga) = m_deg * DEG + gga /\ Printed(rmc * 100) = m_deg * DEG + rmc * 100
        /\ Received = Magnitude /\ Magnitude \in Nat
    BY <2>1, MagnitudeType DEF Printed, Received, Magnitude
  <2>3. PartsNear(m_deg, m_min, gga, rmc, Magnitude)
    BY <2>1 DEF PartsNear
  <2>4. PrintsNear(m_deg, gga, rmc, Magnitude)
    BY <2>1, <2>2, <2>3, PrintedNear, Zenon
  <2>5. Printed(rmc * 100) - Received = m_deg * DEG + rmc * 100 - Magnitude
    BY <2>1, <2>2, Units, SMT
  <2>6. 2 * Abs(Printed(rmc * 100) - Received) <= 100
    BY <2>4, <2>5 DEF PrintsNear
  <2>7. QED
    BY <2>2, <2>4, <2>6 DEF PrintsNear
<1>2. QED
  BY <1>1, CInvInvariant, PTL
-----------------------------------------------------------------------------
(***************************************************************************)
(* Checksum                                                                *)
(***************************************************************************)
\* What is on the line from '$' to the last '*'.
Line(s) ==
    /\ s \in Seq(Chars \cup Noise \cup {DOLLAR, STAR}) /\ Len(s) >= 3
    /\ s[Len(s)] = STAR
    /\ \A k \in 2 .. Len(s) - 1 : s[k] \subseteq Bits

\* A sentence that finishSentence gets, with characters of Chars in between.
Sentence(s) == Line(s) /\ \A k \in 2 .. Len(s) - 1 : s[k] \in Chars

\* t is s with the character at position k changed.
ChangedAt(s, t, k) ==
    /\ k \in 2 .. Len(s) - 1 /\ Len(t) = Len(s)
    /\ s[k] # t[k] /\ \A j \in 1 .. Len(s) : j # k => s[j] = t[j]

\* math::checksum sums up to the first '*' or NUL.
LEMMA SummedUpTo ==
    ASSUME NEW s, Len(s) \in Nat, NEW e \in 2 .. Len(s), s[e] \in Ends,
           \A k \in 2 .. e - 1 : s[k] \notin Ends
    PROVE  Summed(s) = 2 .. e - 1
<1>1. \A k \in 2 .. Len(s) : (\A j \in 2 .. k : s[j] \notin Ends) <=> k <= e - 1
  <2> SUFFICES ASSUME NEW k \in 2 .. Len(s)
               PROVE  (\A j \in 2 .. k : s[j] \notin Ends) <=> k <= e - 1
    OBVIOUS
  <2>1. CASE k <= e - 1
    <3>1. \A j \in 2 .. k : j \in 2 .. e - 1
      BY <2>1
    <3>2. QED
      BY <2>1, <3>1, Zenon
  <2>2. CASE ~(k <= e - 1)
    <3>1. e \in 2 .. k
      BY <2>2
    <3>2. QED
      BY <2>2, <3>1, Zenon
  <2>3. QED
    BY <2>1, <2>2, Zenon
<1>2. \A k : k \in 2 .. e - 1 <=> k \in 2 .. Len(s) /\ k <= e - 1
  OBVIOUS
<1>3. QED
  BY <1>1, <1>2, Zenon DEF Summed

\* Of a line without another '*' or NUL all characters in between are summed.
LEMMA SummedBody ==
    ASSUME NEW s, Line(s), \A k \in 2 .. Len(s) - 1 : s[k] \notin Ends
    PROVE  Summed(s) = 2 .. Len(s) - 1
<1>1. Len(s) \in Nat /\ Len(s) \in 2 .. Len(s) /\ s[Len(s)] \in Ends
  BY LenProperties DEF Line, Ends
<1>2. QED
  BY <1>1, SummedUpTo, Zenon

\* A bit that one more character has changes in the exclusive or.
LEMMA BitFlips ==
    ASSUME NEW S, IsFiniteSet(S), NEW k \in S, NEW s, NEW t, NEW b \in Bits,
           \A j \in S : j # k => s[j] = t[j],
           b \in s[k], b \notin t[k]
    PROVE  b \in Xor(s, S) <=> b \notin Xor(t, S)
<1> DEFINE A == {j \in S : b \in s[j]}
           B == {j \in S : b \in t[j]}
<1>1. A = B \cup {k} /\ k \notin B
  OBVIOUS
<1>2. IsFiniteSet(B)
  BY FS_Subset
<1>3. Cardinality(A) = Cardinality(B) + 1 /\ Cardinality(B) \in Nat
  <2> HIDE DEF A, B
  <2>1. QED
    BY <1>1, <1>2, FS_AddElement, FS_CardinalityType
<1>4. /\ b \in Xor(s, S) <=> Cardinality(A) % 2 = 1
      /\ b \in Xor(t, S) <=> Cardinality(B) % 2 = 1
  BY Zenon DEF Xor
<1>5. ASSUME NEW m \in Nat PROVE ((m + 1) % 2 = 1) <=> ~(m % 2 = 1)
  OBVIOUS
<1> HIDE DEF A, B
<1>6. QED
  BY <1>3, <1>4, <1>5

\* The exclusive or of two disjoint sets of positions, bit by bit.
LEMMA XorUnion ==
    ASSUME NEW A, NEW B, IsFiniteSet(A), IsFiniteSet(B), A \cap B = {}, NEW s, NEW b \in Bits
    PROVE  b \in Xor(s, A \cup B) <=> ~(b \in Xor(s, A) <=> b \in Xor(s, B))
<1> DEFINE P == {k \in A : b \in s[k]}
           Q == {k \in B : b \in s[k]}
           R == {k \in A \cup B : b \in s[k]}
<1>1. R = P \cup Q /\ P \cap Q = {}
  OBVIOUS
<1>2. IsFiniteSet(P) /\ IsFiniteSet(Q)
  BY FS_Subset
<1>3. /\ b \in Xor(s, A) <=> Cardinality(P) % 2 = 1
      /\ b \in Xor(s, B) <=> Cardinality(Q) % 2 = 1
      /\ b \in Xor(s, A \cup B) <=> Cardinality(R) % 2 = 1
  BY Zenon DEF Xor
<1> HIDE DEF P, Q, R
<1>4. Cardinality(P) \in Nat /\ Cardinality(Q) \in Nat
  BY <1>2, FS_CardinalityType
<1>5. Cardinality(R) = Cardinality(P) + Cardinality(Q)
  <2>1. Cardinality(P \cap Q) = 0
    BY <1>1, FS_EmptySet
  <2>2. Cardinality(R) = Cardinality(P) + Cardinality(Q) - Cardinality(P \cap Q)
    BY <1>1, <1>2, FS_Union
  <2>3. QED
    BY <1>4, <2>1, <2>2
<1>6. ASSUME NEW p \in Nat, NEW q \in Nat
      PROVE  ((p + q) % 2 = 1) <=> ~((p % 2 = 1) <=> (q % 2 = 1))
  OBVIOUS
<1>7. QED
  BY <1>3, <1>4, <1>5, <1>6

\* math::checksum tells two lines apart that differ in one character, if that
\* is not an end of the sum.
LEMMA ChangeDetected ==
    ASSUME NEW s, NEW t, Sentence(s), Line(t), NEW k, ChangedAt(s, t, k), t[k] \notin Ends
    PROVE  checksum(s) # checksum(t)
<1> DEFINE S == 2 .. Len(s) - 1
<1>1. Len(s) \in Nat /\ k \in S /\ Len(t) = Len(s) /\ Line(s)
  BY LenProperties DEF Line, Sentence, ChangedAt
<1>2. IsFiniteSet(S)
  BY <1>1, FS_Interval
<1>3. \A j \in S : j # k => s[j] = t[j]
  BY <1>1 DEF ChangedAt
<1>4. \A j \in S : s[j] \notin Ends
  BY ChecksumAssumption DEF Sentence
<1>5. \A j \in S : t[j] \notin Ends
  BY <1>3, <1>4
<1>6. checksum(s) = Xor(s, S) /\ checksum(t) = Xor(t, S)
  BY <1>1, <1>4, <1>5, SummedBody, Zenon DEF checksum
<1>7. s[k] \in SUBSET Bits /\ t[k] \in SUBSET Bits /\ s[k] # t[k]
  BY <1>1 DEF Line, ChangedAt
<1>8. PICK b \in Bits : ~(b \in s[k] <=> b \in t[k])
  BY <1>7
<1> HIDE DEF S
<1>9. CASE b \in s[k]
  BY <1>1, <1>2, <1>3, <1>6, <1>8, <1>9, BitFlips, Zenon
<1>10. CASE b \notin s[k]
  <2>1. \A j \in S : j # k => t[j] = s[j]
    BY <1>3, Zenon
  <2>2. b \in t[k]
    BY <1>8, <1>10, Zenon
  <2>3. QED
    BY <1>1, <1>2, <1>6, <1>10, <2>1, <2>2, BitFlips, Zenon
<1>11. QED
  BY <1>9, <1>10

\* It does not tell the written line from one cut short, just if the rest of the
\* characters cancel out.
LEMMA CutDetected ==
    ASSUME NEW s, NEW t, Sentence(s), Line(t), NEW k, ChangedAt(s, t, k), t[k] \in Ends
    PROVE  checksum(s) = checksum(t) <=> Xor(s, k .. Len(s) - 1) = NUL
<1> DEFINE A == 2 .. k - 1
           B == k .. Len(s) - 1
<1>1. /\ Len(s) \in Nat /\ k \in 2 .. Len(s) - 1 /\ k \in Nat /\ Len(t) = Len(s) /\ Line(s)
      /\ k \in 2 .. Len(t)
  BY LenProperties DEF Line, Sentence, ChangedAt
<1>2. /\ IsFiniteSet(A) /\ IsFiniteSet(B) /\ A \cap B = {}
      /\ A \cup B = 2 .. Len(s) - 1 /\ A \subseteq 2 .. Len(s) - 1
  <2>1. Len(s) - 1 \in Int /\ k - 1 \in Int
    BY <1>1
  <2>2. IsFiniteSet(A) /\ IsFiniteSet(B)
    BY <1>1, <2>1, FS_Interval
  <2>3. A \cap B = {} /\ A \cup B = 2 .. Len(s) - 1 /\ A \subseteq 2 .. Len(s) - 1
    BY <1>1
  <2>4. QED
    BY <2>2, <2>3
<1>3. \A j \in 2 .. Len(s) - 1 : s[j] \notin Ends
  BY ChecksumAssumption DEF Sentence
<1>4. \A j \in A : s[j] = t[j]
  BY <1>1 DEF ChangedAt
<1>5. \A j \in A : t[j] \notin Ends
  BY <1>2, <1>3, <1>4
<1>6. checksum(s) = Xor(s, A \cup B)
  BY <1>1, <1>2, <1>3, SummedBody, Zenon DEF checksum
<1>7. checksum(t) = Xor(t, A)
  BY <1>1, <1>5, SummedUpTo, Zenon DEF checksum
<1> HIDE DEF A, B
<1>8. Xor(t, A) = Xor(s, A)
  <2>1. \A b : {j \in A : b \in t[j]} = {j \in A : b \in s[j]}
    BY <1>4, Zenon
  <2>2. QED
    BY <2>1, Zenon DEF Xor
<1>9. \A b \in Bits : b \in Xor(s, A \cup B) <=> ~(b \in Xor(s, A) <=> b \in Xor(s, B))
  BY <1>2, XorUnion, Zenon
<1>10. Xor(s, A) \subseteq Bits /\ Xor(s, B) \subseteq Bits /\ Xor(s, A \cup B) \subseteq Bits
  BY Zenon DEF Xor
<1>11. Xor(s, A \cup B) = Xor(s, A) <=> Xor(s, B) = {}
  <2> DEFINE X == Xor(s, A)
             Y == Xor(s, B)
             Z == Xor(s, A \cup B)
  <2>1. /\ X \subseteq Bits /\ Y \subseteq Bits /\ Z \subseteq Bits
        /\ \A b \in Bits : b \in Z <=> ~(b \in X <=> b \in Y)
    BY <1>9, <1>10, Zenon
  <2> HIDE DEF X, Y, Z
  <2>2. Z = X <=> Y = {}
    BY <2>1
  <2>3. QED
    BY <2>2 DEF X, Y, Z
<1>12. QED
  BY <1>6, <1>7, <1>8, <1>11 DEF B, NUL

\* What is on the line is the sentence as it was written, or that with one
\* character changed; the sum is that of what was written.
SumInv ==
    /\ Line(text)
    /\ sum \subseteq Bits /\ errors \in {0, 1} /\ valid \in BOOLEAN
    /\ checksumPc \in {"write", "line", "read"}
    /\ checksumPc = "write" => errors = 0 /\ Sentence(text)
    /\ checksumPc # "write" =>
          /\ Sentence(written) /\ sum = checksum(written)
          /\ errors = 0 => text = written
          /\ errors = 1 => \E k : ChangedAt(written, text, k)
    /\ checksumPc = "read" => (valid <=> sum = checksum(text))

\* It holds of the written sentences.
LEMMA SumInvInit == ChecksumInit => SumInv
<1> SUFFICES ASSUME ChecksumInit PROVE SumInv
  OBVIOUS
<1> DEFINE Codes == Chars \cup Noise \cup {DOLLAR, STAR}
<1>1. PICK n \in 1 .. MAX_LENGTH : \E body \in [1 .. n -> Chars] : text = <<DOLLAR>> \o body \o <<STAR>>
  BY Zenon DEF ChecksumInit, Bodies
<1>2. PICK body \in [1 .. n -> Chars] : text = <<DOLLAR>> \o body \o <<STAR>>
  BY <1>1
<1>3. n \in Nat \ {0}
  BY ChecksumAssumption
<1>4. body \in Seq(Codes) /\ Len(body) = n /\ \A k \in 1 .. n : body[k] \in Chars
  BY <1>3
<1>5. DOLLAR \in Codes /\ STAR \in Codes
  OBVIOUS
<1> HIDE DEF Codes
<1>6. Sentence(text)
  <2> DEFINE front == <<DOLLAR>> \o body
  <2>1. /\ front \in Seq(Codes) /\ Len(front) = n + 1 /\ front[1] = DOLLAR
        /\ \A k \in 2 .. n + 1 : front[k] = body[k - 1]
    <3>1. front \in Seq(Codes)
      BY <1>4, <1>5
    <3>2. Len(front) = n + 1
      BY <1>3, <1>4
    <3>3. front[1] = DOLLAR /\ \A k \in 2 .. n + 1 : front[k] = body[k - 1]
      BY <1>3, <1>4
    <3>4. QED
      BY <3>1, <3>2, <3>3
  <2> HIDE DEF front
  <2>2. /\ text \in Seq(Codes) /\ Len(text) = n + 2 /\ text[n + 2] = STAR
        /\ \A k \in 1 .. n + 1 : text[k] = front[k]
    <3>1. text = front \o <<STAR>>
      BY <1>2 DEF front
    <3>2. text = Append(front, STAR)
      BY <2>1, <3>1
    <3>3. QED
      BY <1>3, <1>5, <2>1, <3>2
  <2>3. \A k \in 2 .. Len(text) - 1 : text[k] \in Chars
    BY <1>3, <1>4, <2>1, <2>2
  <2>4. \A k \in 2 .. Len(text) - 1 : text[k] \subseteq Bits
    BY <2>3, ChecksumAssumption
  <2>5. Len(text) >= 3 /\ text[Len(text)] = STAR
    BY <1>3, <2>2
  <2>6. QED
    BY <2>2, <2>3, <2>4, <2>5 DEF Sentence, Line, Codes
<1>7. QED
  BY <1>6, Zenon DEF ChecksumInit, SumInv, Sentence

\* Transmission and checking keep it.
LEMMA SumInvNext == SumInv /\ [ChecksumNext]_checked => SumInv'
<1> SUFFICES ASSUME SumInv, [ChecksumNext]_checked PROVE SumInv'
  OBVIOUS
<1>1. CASE finishSentence
  <2>1. checksum(text) \subseteq Bits
    BY DEF checksum, Xor
  <2>2. QED
    BY <1>1, <2>1 DEF finishSentence, SumInv
<1>2. CASE Corrupt
  <2>1. PICK k \in 2 .. Len(text) - 1, c \in Noise : c # text[k] /\ text' = [text EXCEPT ![k] = c]
    BY <1>2, Zenon DEF Corrupt
  <2>2. /\ text \in Seq(Chars \cup Noise \cup {DOLLAR, STAR})
        /\ Len(text) \in Nat /\ Len(text) >= 3
    BY LenProperties DEF SumInv, Line
  <2>3. /\ text' \in Seq(Chars \cup Noise \cup {DOLLAR, STAR}) /\ Len(text') = Len(text)
        /\ text'[k] = c /\ \A j \in 1 .. Len(text) : j # k => text[j] = text'[j]
    <3> DEFINE Codes == Chars \cup Noise \cup {DOLLAR, STAR}
    <3>1. k \in 1 .. Len(text) /\ c \in Codes /\ text \in Seq(Codes)
      BY <2>2
    <3> HIDE DEF Codes
    <3>2. text' \in Seq(Codes) /\ Len(text') = Len(text)
      BY <2>1, <3>1
    <3>3. text'[k] = c /\ \A j \in 1 .. Len(text) : j # k => text[j] = text'[j]
      BY <2>1, <3>1
    <3>4. QED
      BY <3>2, <3>3 DEF Codes
  <2>4. Line(text')
    <3>1. c \subseteq Bits
      BY <2>1, ChecksumAssumption
    <3>2. \A j \in 2 .. Len(text') - 1 : text'[j] \subseteq Bits
      <4>1. \A j \in 2 .. Len(text) - 1 : text[j] \subseteq Bits
        BY Zenon DEF SumInv, Line
      <4>2. SUFFICES ASSUME NEW j \in 2 .. Len(text) - 1 PROVE text'[j] \subseteq Bits
        BY <2>3, Zenon
      <4>3. j \in 1 .. Len(text)
        BY <2>2
      <4>4. QED
        BY <2>3, <3>1, <4>1, <4>3, Zenon
    <3>3. text'[Len(text')] = STAR
      BY <2>1, <2>2, <2>3 DEF SumInv, Line
    <3>4. QED
      BY <2>2, <2>3, <3>2, <3>3 DEF Line
  <2>5. ChangedAt(text, text', k)
    BY <2>1, <2>2, <2>3 DEF ChangedAt
  <2>6. text = written /\ Sentence(written) /\ sum = checksum(written)
    BY <1>2 DEF Corrupt, SumInv
  <2>7. /\ checksumPc' = "line" /\ errors' = 1
        /\ sum' = sum /\ written' = written /\ valid' = valid
    BY <1>2 DEF Corrupt
  <2>8. \E l : ChangedAt(written', text', l)
    BY <2>5, <2>6, <2>7, Zenon
  <2>9. sum \subseteq Bits /\ valid \in BOOLEAN
    BY DEF SumInv
  <2>10. QED
    BY <2>4, <2>6, <2>7, <2>8, <2>9 DEF SumInv
<1>3. CASE unpack
  BY <1>3, Zenon DEF unpack, SumInv
<1>4. CASE UNCHANGED checked
  BY <1>4 DEF checked, SumInv
<1>5. QED
  BY <1>1, <1>2, <1>3, <1>4 DEF ChecksumNext

\* The checksum's invariant holds always.
LEMMA SumInvariant == ChecksumSpec => []SumInv
BY SumInvInit, SumInvNext, PTL DEF ChecksumSpec

\* The sentence on the line keeps its characters, and its sum seven bits.
LEMMA ChecksumTypeCorrect == ChecksumSpec => []ChecksumTypeOK
<1>1. SumInv => ChecksumTypeOK
  <2> SUFFICES ASSUME SumInv PROVE ChecksumTypeOK
    OBVIOUS
  <2>1. \A k \in DOMAIN text : text[k] \in Chars \cup Noise \cup {DOLLAR, STAR}
    BY ElementOfSeq, LenProperties DEF SumInv, Line
  <2>2. QED
    BY <2>1 DEF SumInv, ChecksumTypeOK
<1>2. QED
  BY <1>1, SumInvariant, PTL

\* For sentences of any length and over any characters, the parsers' condition
\* accepts what finishSentence wrote, and what differs from it in one character
\* just where that is an end of the sum and the rest cancels out.
THEOREM AlwaysAcceptedAsWritten == ChecksumSpec => []AcceptedAsWritten
<1>1. SumInv => AcceptedAsWritten
  <2> SUFFICES ASSUME SumInv, checksumPc = "read" PROVE valid <=> text = written \/ CutUnnoticed
    BY DEF AcceptedAsWritten
  <2>1. /\ Line(text) /\ Sentence(written) /\ sum = checksum(written)
        /\ valid <=> sum = checksum(text)
    BY DEF SumInv
  <2>2. CASE errors = 0
    BY <2>1, <2>2 DEF SumInv
  <2>3. CASE errors = 1
    <3>1. PICK k : ChangedAt(written, text, k)
      BY <2>3 DEF SumInv
    <3>2. text # written /\ k \in 2 .. Len(written) - 1
      BY <3>1 DEF ChangedAt
    <3>3. \A j \in 2 .. Len(written) - 1 : j # k => text[j] \notin Ends
      <4>1. \A j \in 2 .. Len(written) - 1 : j \in 1 .. Len(written) /\ written[j] \notin Ends
        BY <2>1, ChecksumAssumption, LenProperties DEF Sentence, Line
      <4>2. QED
        BY <3>1, <4>1, Zenon DEF ChangedAt
    <3>4. CutUnnoticed <=> text[k] \in Ends /\ Xor(written, k .. Len(written) - 1) = NUL
      BY <3>2, <3>3, Zenon DEF CutUnnoticed
    <3>5. CASE text[k] \notin Ends
      BY <2>1, <3>1, <3>2, <3>4, <3>5, ChangeDetected, Zenon
    <3>6. CASE text[k] \in Ends
      BY <2>1, <3>1, <3>2, <3>4, <3>6, CutDetected, Zenon
    <3>7. QED
      BY <3>5, <3>6
  <2>4. QED
    BY <2>2, <2>3 DEF SumInv
<1>2. QED
  BY <1>1, SumInvariant, PTL
-----------------------------------------------------------------------------
(***************************************************************************)
(* The modules together, as TLC checks them                                *)
(***************************************************************************)
\* A behaviour of MCSentences is one of each module, so that all theorems of
\* this module hold in it.
LEMMA Projections ==
    Spec => /\ ReadBufferSpec /\ ParsersSpec /\ TimeStampSpec
            /\ CoordinatesSpec /\ ChecksumSpec
<1>1. Init => /\ ReadBufferInit /\ ParsersInit /\ TimeStampInit
              /\ CoordinatesInit /\ ChecksumInit
  BY Zenon DEF Init
<1>2. [Next]_vars => [ReadBufferNext]_readBuffer
  BY Zenon DEF Next, vars
<1>3. [Next]_vars => [ParsersNext]_parsing
  BY Zenon DEF Next, vars
<1>4. [Next]_vars => [TimeStampNext]_timeStamp
  BY Zenon DEF Next, vars
<1>5. [Next]_vars => [CoordinatesNext]_coordinates
  BY Zenon DEF Next, vars
<1>6. [Next]_vars => [ChecksumNext]_checked
  BY Zenon DEF Next, vars
<1>7. QED
  BY <1>1, <1>2, <1>3, <1>4, <1>5, <1>6, PTL
  DEF Spec, ReadBufferSpec, ParsersSpec, TimeStampSpec, CoordinatesSpec, ChecksumSpec

\* Whatever arrives, what the buffer, the parsers, the time stamp, the
\* coordinates and the checksum hold is within its type: an aircraft's type and
\* the kind of its id fit their bits, and a time is one of its day.
THEOREM SentencesTypeCorrect == Spec => []TypeOK
<1>1. BufferInv => ReadBufferTypeOK
  BY DEF BufferInv
<1>2. TInv => TimeStampTypeOK
  BY DEF TInv
<1>3. CInv => CoordinatesTypeOK
  BY DEF CInv
<1>4. (ReadBufferTypeOK /\ ChecksumTypeOK /\ ParsersTypeOK /\ TimeStampTypeOK /\ CoordinatesTypeOK)
          => TypeOK
  BY DEF TypeOK
<1>5. QED
  BY <1>1, <1>2, <1>3, <1>4, Projections, BufferInvariant, StoredAlwaysSound,
     TimeStampInvariance, CInvInvariant, ChecksumTypeCorrect, PTL
=============================================================================
