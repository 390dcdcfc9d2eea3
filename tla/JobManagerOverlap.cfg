\* A command told to stop that outlives the waits before the next call.
SPECIFICATION Spec
CONSTANTS
    Jobs = {j1, j2}
    Resources = {r1}
    NoJob = NoJob
    NoResource = NoResource
    StepWait <- MCStepWait
    LockTTL = 6
    RunBudget = 6
    AbortTime = 4
    RollbackFlags = {TRUE}
    Unlucky = {j1}
    MaxFaults = 0
    MaxCrashes = 0
INVARIANTS
    ResourceExclusive
