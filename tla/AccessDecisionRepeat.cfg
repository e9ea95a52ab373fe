\* A transfer and its repetition under the same Idempotency-Key.
CONSTANTS
    q1 = q1  q2 = q2  q3 = q3  v1 = v1  v2 = v2  p1 = p1  p2 = p2
    gate = gate  alice = alice  bob = bob
    move = move  enter = enter  back = back  k1 = k1
    Requests = {q1, q2}
    Revokers = {}
    Target <- MCNoTarget
    Processes = {p1, p2}
    Rights = {gate}
    Users = {alice, bob}
    NoUser = NoUser
    Tokens = {move}
    Claims <- MCClaimsMove
    Keys = {k1}
    NoKey = NoKey
    Redis = Redis
    RedisAtStart = {TRUE}
    Nobody = Nobody
    Ended = Ended
    Calls <- MCCallsRepeat
    Quota = 2
    FailClosed = TRUE
    MaxFaults = 0
SPECIFICATION Spec
CHECK_DEADLOCK FALSE
PROPERTIES
    RepeatedCallIsRecognized
