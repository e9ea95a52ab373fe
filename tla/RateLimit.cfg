\* Five calls of one key, threads of a process, with and without Redis;
\* its commands are late, by any time up to MaxTime, or fail.
CONSTANTS
    c1 = c1
    c2 = c2
    c3 = c3
    c4 = c4
    c5 = c5
    s1 = s1
    Calls <- MCCalls
    Servers = {s1}
    Home <- MCHome
    Limit = 2
    Window = 2
    MaxFaults = 1
    MaxTime = 3
SYMMETRY MCSymmetry
SPECIFICATION Spec
INVARIANTS
    RedisLimit
    MemoryLimit
CHECK_DEADLOCK FALSE
