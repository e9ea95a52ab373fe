\* Two workers compete for one event with two subscriptions.
CONSTANTS
    Workers = {w1, w2}
    Events <- MCEvents1
    Subs = {s1, s2}
    Audience <- MCAudience
    Tokens = {t1, t2, t3}
    NoToken = NoToken
    NoEvent = NoEvent
    NoSub = NoSub
    Lease = 2
    BatchSize = 1
    MaxAttempts = 2
    BackoffCap = 1
    MaxLag = 1
    LatestDue = 0
    MaxCrashes = 1
    MaxSlips = 1
SYMMETRY Symmetric
SPECIFICATION Spec
INVARIANTS
    TypeOK
    OneSuccessPerSubscription
    AttemptNumberIsFresh
    EveryAttemptIsAccountedFor
    DeadLetterAtLastAttempt
    OwnerNeverRepostsSuccess
PROPERTIES
    SettledIsFinal
    LiveClaimNotStolen
    DeliveredReachesSubscribers
    ImplementsOutbox
