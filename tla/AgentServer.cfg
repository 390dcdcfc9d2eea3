\* Duplicates of three requests across a restart, room for two nonces.
SPECIFICATION Spec
CONSTANTS
    Requests = {m1, m2, m3}
    NoRequest = NoRequest
    Handlers = {h1, h2}
    MaxClockSkew = 1
    NonceTTL = 4
    MaxEntries = 2
    MaxConcurrent = 1
    HandleTime = 1
    MaxTime = 6
    MaxFaults = 1
SYMMETRY AgentSymmetry
CHECK_DEADLOCK FALSE
INVARIANTS
    AtMostOnce
    SlotsAccounted
    FileLoads
