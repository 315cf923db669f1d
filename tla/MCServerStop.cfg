\* One slot is enough for a client that comes during stop.
CONSTANTS
    Addresses = {p1, p2}
    NoPeer = NoPeer
    S_MAX_CLIENTS = 1
    COUNTER_MOD = 8
SPECIFICATION ServerSpec
INVARIANT StopsAllConnections
