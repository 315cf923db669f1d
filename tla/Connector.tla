----------------------------- MODULE Connector -----------------------------
(***************************************************************************)
(* ConnectorImplBoost: one io_service with a resolver, a socket and a      *)
(* timer.  Its state is a record that the operations below transform:      *)
(*                                                                         *)
(*   pending   operations under way, in the order they were started        *)
(*   queue     completed operations whose handler has not been called,     *)
(*             in the order they completed                                 *)
(*   open      m_socket.is_open()                                          *)
(*   armed     the timer has an expiry time (FALSE: pos_infin)             *)
(*   stopped   m_ioService.stopped()                                       *)
(*                                                                         *)
(* An operation is named after the callback it was started with.  What the *)
(* io_service does with them is external: cancelling or closing completes  *)
(* an operation with an error, a completed one is never cancelled, and     *)
(* handlers are called one at a time in the order of completion.           *)
(***************************************************************************)
EXTENDS ListOps

TimerOps  == {"timedConnect", "keepAlive", "deadline"}
WriteOps  == {"login", "watch", "beacon", "unwatch"}
SocketOps == {"connect", "read"} \cup WriteOps
Ops       == {"resolve"} \cup SocketOps \cup TimerOps

\* A completed operation: its callback is called with SUCCESS or FAILURE.
Completion(op, ok) == [op |-> op, ok |-> ok]

IdleConnector ==
    [pending |-> << >>, queue |-> << >>, open |-> FALSE, armed |-> FALSE,
     stopped |-> FALSE]

Start(c, op) == [c EXCEPT !.pending = Append(@, op)]

Complete(c, k, ok) ==
    [c EXCEPT !.pending = Without(@, k),
              !.queue = Append(@, Completion(c.pending[k], ok))]

Cancel(c, ops) ==
    LET cancelled == Filtered(c.pending, ops)
    IN  [c EXCEPT !.pending = Filtered(@, Ops \ ops),
                  !.queue = @ \o [k \in DOMAIN cancelled |->
                                     Completion(cancelled[k], FALSE)]]

close(c) ==
    LET noTimer == [Cancel(c, TimerOps) EXCEPT !.armed = FALSE]
    IN  IF c.open
        THEN [Cancel(noTimer, SocketOps) EXCEPT !.open = FALSE]
        ELSE noTimer

stop(c) == [close(c) EXCEPT !.stopped = TRUE]

onConnect(c) == Start(c, "resolve")

\* handleResolve after success: async_connect opens the socket.
startConnect(c) == Start([c EXCEPT !.open = TRUE], "connect")

onRead(c) == IF c.open THEN Start(c, "read") ELSE c

onWrite(c, op) == IF c.open THEN Start(c, op) ELSE c

\* A new expiry time cancels the waits for the old one.
resetTimer(c) == [Cancel(c, TimerOps) EXCEPT !.armed = TRUE]

\* onTimeout with a timeout, and with timeout 0.
onTimeout(c, op) == Start(resetTimer(c), op)
onTimeoutAgain(c, op) == Start(c, op)

\* Operations that the network, the resolver or the clock may complete now.
\* A read and a write may succeed or fail at any time, a wait of an armed
\* timer ends when the time has come.
MayComplete(c, k, ok) ==
    c.pending[k] \in TimerOps => c.armed /\ ok
=============================================================================
