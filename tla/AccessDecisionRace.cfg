\* Three requests in two processes and a revocation of the right they use,
\* Redis failing closed, a quota that one of the requests cannot have.
CONSTANTS
    q1 = q1  q2 = q2  q3 = q3  v1 = v1  v2 = v2  p1 = p1  p2 = p2
    gate = gate  alice = alice  bob = bob
    move = move  enter = enter  back = back  k1 = k1
    Requests = {q1, q2, q3}
    Revokers = {v1}
    Target <- MCTarget1
    Processes = {p1, p2}
    Rights = {gate}
    Users = {alice, bob}
    NoUser = NoUser
    Tokens = {move, enter, back}
    Claims <- MCClaims
    Keys = {k1}
    NoKey = NoKey
    Redis = Redis
    RedisAtStart = {TRUE}
    Nobody = Nobody
    Ended = Ended
    Calls <- MCCallsRace
    Quota = 2
    FailClosed = TRUE
    MaxFaults = 0
SYMMETRY Symmetric
SPECIFICATION Spec
CHECK_DEADLOCK FALSE
INVARIANTS
    TypeOK
    EveryDecisionIsBilledOnce
    NoLostUpdate
    AnswerIsOnRecord
PROPERTIES
    OnlyOwnerUsesRight
    ImplementsLedger
