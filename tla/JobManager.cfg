\* Two jobs on one resource, a restart and failing statements of one job.
SPECIFICATION FairSpec
CONSTANTS
    Jobs = {j1, j2}
    Resources = {r1}
    NoJob = NoJob
    NoResource = NoResource
    StepWait <- MCStepWait
    LockTTL = 6
    RunBudget = 6
    AbortTime = 4
    RollbackFlags = {TRUE}
    Unlucky = {j1}
    MaxFaults = 1
    MaxCrashes = 1
INVARIANTS
    TypeOK
    AgentExclusive
    EarlyCancelPreventsRun
    CleanExit
PROPERTIES
    StaleLockNeverBlocks
    OldJobsStayPut
    ImplementsLifecycle
    JobsSettle
