\* Two workers and one event: it settles although one worker may crash, one
\* lease may slip and the subscriber may never answer 2xx.
CONSTANTS
    Workers = {w1, w2}
    Events <- MCEvents1
    Subs = {s1}
    Audience <- MCAudience
    Tokens = {t1, t2, t3}
    NoToken = NoToken
    NoEvent = NoEvent
    NoSub = NoSub
    Lease = 2
    BatchSize = 1
    MaxAttempts = 2
    BackoffCap = 1
    MaxLag = 0
    LatestDue = 0
    MaxCrashes = 1
    MaxSlips = 1
SPECIFICATION FairSpec
PROPERTIES
    EventuallySettled
