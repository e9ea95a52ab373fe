\* Two requests in two processes, two revocations of one right, and two
\* faults: crashes, commits that fail, commits without acknowledgement.
\* A process may have started, and start again, with or without Redis.
CONSTANTS
    q1 = q1  q2 = q2  q3 = q3  v1 = v1  v2 = v2  p1 = p1  p2 = p2
    gate = gate  alice = alice  bob = bob
    move = move  enter = enter  back = back  k1 = k1
    Requests = {q1, q2}
    Revokers = {v1, v2}
    Target <- MCTarget2
    Processes = {p1, p2}
    Rights = {gate}
    Users = {alice, bob}
    NoUser = NoUser
    Tokens = {move, enter}
    Claims <- MCClaimsFaults
    Keys = {k1}
    NoKey = NoKey
    Redis = Redis
    RedisAtStart = {TRUE, FALSE}
    Nobody = Nobody
    Ended = Ended
    Calls <- MCCallsFaults
    Quota = 2
    FailClosed = TRUE
    MaxFaults = 2
SYMMETRY Symmetric
SPECIFICATION Spec
CHECK_DEADLOCK FALSE
INVARIANTS
    EveryDecisionIsBilledOnce
    NoLostUpdate
    OneDecisionPerToken
    AnswerIsOnRecord
