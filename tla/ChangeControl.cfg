\* Two requests, two users, the clock and one fault; it rests when the clock stops.
SPECIFICATION FairSpec
CONSTANTS
    Changes = {c1, c2}
    Users = {u1, u2}
    NoUser = NoUser
    Jobs = {j1, j2}
    NoJob = NoJob
    NoChange = NoChange
    Resources = {r1}
    NoResource = NoResource
    GatedOps = {"share.delete"}
    FreeOps = {"share.update"}
    CapableOps = {"share.delete"}
    MaxTime = 2
    MaxFaults = 1
CHECK_DEADLOCK FALSE
INVARIANTS
    TypeOK
    SeparationOfDuties
    OneExecutionPerApproval
    OutcomeAgrees
PROPERTIES
    DecisionFinal
    NeverBeforeWindow
    LateApprovalIsVoid
    ChangeSettles
