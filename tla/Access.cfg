\* Two clients of one account, two failures to the lock, two periods of the
\* lock; and every operation, method and role, with at most one thing wrong, with
\* and without a timer.  A goroutine that hangs is the end of its behaviour.
SPECIFICATION AccessSpec
CONSTANTS
    Logins = {l1, l2}
    Threshold = 2
    LockFor = 2
    Never = Never
    MaxTime = 4
    MaxFaults = 1
    Duties <- MCDuties
    Asked <- MCAll
CHECK_DEADLOCK FALSE
INVARIANTS
    GuessesBounded
    EffectIsEntitled
PROPERTY RequestsAnswered
