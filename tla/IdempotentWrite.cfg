SPECIFICATION FairSpec
CONSTANTS
    Requests = {r0, r1, r2}
    Keys = {k1, k2}
    ConditionalKeys = {k1}
    Digests = {d1, d2}
    Nobody = Nobody
    NoMatch = NoMatch
    Gone = r0
    GoneDigest = d1
    Horizon = 2
    Lease = 1
    MaxClaimRounds = 2
    MaxTransactionAttempts = 2
    MaxClock = 2
ACTION_CONSTRAINT GoneFirst
INVARIANTS NoLostUpdate OneWritePerHorizon ReplayIsFaithful
PROPERTIES
    EveryRequestEnds
    KeepsPromise
CHECK_DEADLOCK FALSE
