----------------------------- MODULE ReadBuffer -----------------------------
(***************************************************************************)
(* The bytes a client reads: ConnectorImplBoost::m_buffer, which           *)
(* async_read_until fills from the socket, and from which handleRead takes *)
(* one line at a time for Client::handleRead.  The delimiter of the read   *)
(* is CR LF, the one of std::getline is LF alone; the buffer belongs to    *)
(* the connector and outlives its connections.  The client reconnects when *)
(* a read fails and, while a read is pending or complete, when its beacon  *)
(* fails or its deadline passes (module Client); that it is stopped ends   *)
(* the behaviour.                                                          *)
(***************************************************************************)
EXTENDS FiniteSets, ListOps

CONSTANTS MAX_BYTES,  \* bound: bytes received on all connections
          MAX_CHUNK,  \* bound: bytes one read of the socket returns
          MAX_CONN    \* bound: connections

ASSUME ReadBufferAssumption ==
    MAX_BYTES \in Nat /\ MAX_CHUNK \in Nat \ {0} /\ MAX_CONN \in Nat \ {0}

VARIABLES connection,  \* number of the last connection made
          m_state,     \* Client::m_state: RUNNING or CONNECTING
          reading,     \* handleRead will be called by async_read_until
          m_buffer,    \* the bytes, each with the connection it came from
          m_response,  \* the last line taken
          received,    \* history: all bytes received, in order
          taken,       \* history: the lines Client::handleRead was given
          ignored      \* history: those of them that no feed processed, each by
                       \* its place in taken and the connection it was read on

readBuffer == <<connection, m_state, reading, m_buffer, m_response, received, taken, ignored>>

Byte == [char : {"CR", "LF", "other"}, from : 1 .. MAX_CONN]

ReadBufferTypeOK ==
    /\ connection \in 1 .. MAX_CONN
    /\ m_state \in {"RUNNING", "CONNECTING"}
    /\ reading \in BOOLEAN /\ (m_state = "RUNNING" => reading)
    /\ m_buffer \in Seq(Byte) /\ m_response \in Seq(Byte)
    /\ received \in Seq(Byte) /\ taken \in Seq(Seq(Byte))
    /\ ignored \subseteq Nat \X (1 .. MAX_CONN)

\* The first connection is made and the first read posted.
ReadBufferInit ==
    /\ connection = 1 /\ m_state = "RUNNING" /\ reading = TRUE
    /\ m_buffer = << >> /\ m_response = << >> /\ received = << >>
    /\ taken = << >> /\ ignored = {}

HasDelimiter(bytes) ==
    \E k \in 1 .. Len(bytes) - 1 : bytes[k].char = "CR" /\ bytes[k + 1].char = "LF"

\* The first LF, of bytes that have one.
LineEnd(bytes) == FirstOf({k \in 1 .. Len(bytes) : bytes[k].char = "LF"})

\* async_read_until reads from the socket, which is open just in the state
\* RUNNING, while the buffer has no CR LF.
ReadSome ==
    /\ reading /\ m_state = "RUNNING" /\ ~HasDelimiter(m_buffer)
    /\ \E n \in 1 .. MAX_CHUNK :
          /\ Len(received) + n <= MAX_BYTES
          /\ \E chunk \in [1 .. n -> {b \in Byte : b.from = connection}] :
                /\ m_buffer' = m_buffer \o chunk
                /\ received' = received \o chunk
    /\ UNCHANGED <<connection, m_state, reading, m_response, taken, ignored>>

\* Mutant: what follows the delimiter is thrown away with the line.
getlineDiscard ==
    /\ m_response' = SubSeq(m_buffer, 1, LineEnd(m_buffer))
    /\ m_buffer' = << >>

\* Mutant: the line is added to the last one.
getlineAppend ==
    /\ m_response' = m_response \o SubSeq(m_buffer, 1, LineEnd(m_buffer))
    /\ m_buffer' = SubSeq(m_buffer, LineEnd(m_buffer) + 1, Len(m_buffer))

\* std::getline and the append of the "\n" it removes
getline ==
    /\ m_response' = SubSeq(m_buffer, 1, LineEnd(m_buffer))
    /\ m_buffer' = SubSeq(m_buffer, LineEnd(m_buffer) + 1, Len(m_buffer))

\* handleRead(SUCCESS) takes the line.  Client::handleRead has the feeds process
\* it and reads again if the client is running, and does nothing otherwise.
HandleRead ==
    /\ reading /\ HasDelimiter(m_buffer)
    /\ getline
    /\ taken' = Append(taken, m_response')
    /\ IF m_state = "RUNNING" THEN UNCHANGED <<reading, ignored>>
       ELSE reading' = FALSE /\ ignored' = ignored \cup {<<Len(taken'), connection>>}
    /\ UNCHANGED <<connection, m_state, received>>

\* handleRead(FAILURE).  Client::handleRead reconnects, which closes the socket,
\* unless that is done already and has cancelled the read.
HandleReadError ==
    /\ reading /\ ~HasDelimiter(m_buffer)
    /\ reading' = FALSE /\ m_state' = "CONNECTING"
    /\ UNCHANGED <<connection, m_buffer, m_response, received, taken, ignored>>

\* Client::reconnect by another handler (GpsdClient, AprscClient, a timeout): the
\* call of handleRead, with a line or cancelled, is still to come.
Reconnect ==
    /\ m_state = "RUNNING" /\ m_state' = "CONNECTING"
    /\ UNCHANGED <<connection, reading, m_buffer, m_response, received, taken, ignored>>

\* The timed connect has succeeded, after the handlers that were queued before
\* it: the next read is posted.
HandleConnect ==
    /\ m_state = "CONNECTING" /\ ~reading /\ connection < MAX_CONN
    /\ connection' = connection + 1
    /\ m_state' = "RUNNING" /\ reading' = TRUE
    /\ UNCHANGED <<m_buffer, m_response, received, taken, ignored>>

ReadBufferNext == ReadSome \/ HandleRead \/ HandleReadError \/ Reconnect \/ HandleConnect

ReadBufferSpec == ReadBufferInit /\ [][ReadBufferNext]_readBuffer

-----------------------------------------------------------------------------
TakesLines ==
    /\ Flattened(taken) \o m_buffer = received
    /\ \A k \in DOMAIN taken :
          /\ taken[k] # << >>
          /\ \A i \in DOMAIN taken[k] : taken[k][i].char = "LF" <=> i = Len(taken[k])

\* Over any number of connections and whatever the chunks, Client::handleRead
\* gets the lines of the bytes received, one at a time, also where a line ends
\* with LF alone: no byte is lost, doubled or moved, and a response has one LF,
\* its last byte.  The feeds process all of them but at most one per connection:
\* the line whose handler is called when another one has begun to reconnect.
DeliversLines ==
    /\ TakesLines
    /\ \A p, q \in ignored : p[2] = q[2] => p = q

Mixes(line, c) ==
    /\ \E i \in DOMAIN line : line[i].from = c
    /\ \E i \in DOMAIN line : line[i].from < c

\* What a lost connection leaves in m_buffer spoils at most one line of the
\* next connections: a connection's bytes follow older ones in one response.
RemnantSpoilsOneLine ==
    \A c \in 1 .. MAX_CONN : Cardinality({k \in DOMAIN taken : Mixes(taken[k], c)}) <= 1
=============================================================================
