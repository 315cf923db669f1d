\* More addresses than slots, so that the server gets full.  COUNTER_MOD is 2^8
\* in the code; here it is the least that can count all slots.  No symmetry: it is not
\* sound for liveness.
CONSTANTS
    Addresses = {p1, p2, p3, p4}
    NoPeer = NoPeer
    S_MAX_CLIENTS = 3
    COUNTER_MOD = 4
SPECIFICATION FairServerSpec
INVARIANTS CountsConnections KeepsListening StopLeavesAtMostOne
PROPERTIES StopReturns AcceptsForever
