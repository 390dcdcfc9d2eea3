\* Every kind of database found at the first start, and two stops; while the
\* API serves, two writers of its audit log, a failed statement, and changes of
\* the file by other means, which can also replace links and hashes.
SPECIFICATION ServiceSpec
CONSTANTS
    OldRows = {r1}
    MaxCrashes = 2
    Writers = {w1, w2}
    NoWriter = NoWriter
    MaxRows = 3
    MaxFaults = 1
    MaxEdits = 3
CHECK_DEADLOCK FALSE
INVARIANTS
    MigrationsReplay
    EmergencyAccountAvailable
    VerifyIsExact
