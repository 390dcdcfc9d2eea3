\* Three deliveries of one key, two bodies, expiry and one fault.
SPECIFICATION FairSpec
CONSTANTS
    Requests = {q1, q2, q3}
    NoRequest = NoRequest
    Keys = {k1}
    Actors = {a1}
    Bodies = {b1, b2}
    NoBody = NoBody
    TTL = 2
    MaxTime = 2
    MaxFaults = 1
CHECK_DEADLOCK FALSE
INVARIANTS
    OneEffectPerKey
    ReplayIsOriginal
PROPERTY RequestsAnswered
