\* Two calls in two processes, two secrets, a rotation from key 1 to key 2:
\* no secret is lost, labels tell the truth, claims end, and in the end
\* every secret is under the new key.
CONSTANTS
    c1 = c1
    c2 = c2
    s1 = s1
    s2 = s2
    Calls = {c1, c2}
    Servers = {s1, s2}
    Home <- MCHome
    Hooks <- MCHooks
    Keys <- MCKeys
    LostKey = LostKey
    NoKey = NoKey
    Nobody = Nobody
    Lease = 1
    Limits = {2}
    MaxAge = 1
    MaxFaults = 1
    MaxLosses = 1
SPECIFICATION FairSpec
INVARIANTS
    SecretsReadable
    LabelsTruthful
    NoOrphanClaims
PROPERTIES
    LiveClaimKept
    EventuallyCurrent
