\* Three chunks, two to a packet, over a socket pair that holds one; two openings
\* of the device, two streams and one fault of any kind.
CONSTANTS
    Conns = 2
    Count = 3
    PktLen = 2
    SockRoom = 1
    MaxOpens = 2
    MaxFaults = 1
SPECIFICATION Spec
INVARIANTS PendingAlive LateThreadsHarmless  NobodyWaits
CHECK_DEADLOCK FALSE
