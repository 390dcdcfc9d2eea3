\* Three requests of any kind for one account, the clock and one failed statement.
SPECIFICATION Spec
CONSTANTS
    Handlers = {h1, h2, h3}
    None = None
    MaxSessions = 4
    MaxChallenges = 2
    MaxSecrets = 2
    MaxBatches = 2
    CodeCount = 1
    TTL = 2
    ChallengeTTL = 1
    MaxTime = 1
    MaxFaults = 1
SYMMETRY HandlerSymmetry
CHECK_DEADLOCK FALSE
INVARIANTS
    SingleUse
    RetiredFactorIsWorthless
    RenewalReplaces
    ActiveSecretProven
