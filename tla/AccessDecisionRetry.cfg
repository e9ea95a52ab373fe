\* One access sent three times, Redis failing open: marks and cached answers
\* of two processes, one crash or failing commit, and a revocation.
CONSTANTS
    q1 = q1  q2 = q2  q3 = q3  v1 = v1  v2 = v2  p1 = p1  p2 = p2
    gate = gate  alice = alice  bob = bob
    move = move  enter = enter  back = back  k1 = k1
    Requests = {q1, q2, q3}
    Revokers = {v1}
    Target <- MCTarget1
    Processes = {p1, p2}
    Rights = {gate}
    Users = {alice, bob}
    NoUser = NoUser
    Tokens = {enter}
    Claims <- MCClaimsEnter
    Keys = {k1}
    NoKey = NoKey
    Redis = Redis
    RedisAtStart = {TRUE}
    Nobody = Nobody
    Ended = Ended
    Calls <- MCCallsRetry
    Quota = 2
    FailClosed = FALSE
    MaxFaults = 1
SYMMETRY Symmetric
SPECIFICATION Spec
CHECK_DEADLOCK FALSE
INVARIANTS
    AnswerIsOnRecord
    CachedVersionIsUsable
PROPERTIES
    ImplementsLedger
