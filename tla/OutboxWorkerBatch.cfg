\* One worker goes through two events one at a time: neither starves behind
\* the other while it is retried.
CONSTANTS
    Workers = {w1}
    Events <- MCEvents2
    Subs = {s1}
    Audience <- MCAudience
    Tokens = {t1, t2, t3}
    NoToken = NoToken
    NoEvent = NoEvent
    NoSub = NoSub
    Lease = 2
    BatchSize = 1
    MaxAttempts = 3
    BackoffCap = 3
    MaxLag = 0
    LatestDue = 1
    MaxCrashes = 1
    MaxSlips = 1
SPECIFICATION FairSpec
PROPERTIES
    EventuallySettled
