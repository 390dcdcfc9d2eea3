\* Is the window looked at again right before the agent starts?
SPECIFICATION Spec
CONSTANTS
    Changes = {c1}
    Users = {u1, u2}
    NoUser = NoUser
    Jobs = {j1}
    NoJob = NoJob
    NoChange = NoChange
    Resources = {r1}
    NoResource = NoResource
    GatedOps = {"share.delete"}
    FreeOps = {"share.update"}
    CapableOps = {"share.delete", "share.update"}
    MaxTime = 2
    MaxFaults = 0
CHECK_DEADLOCK FALSE
PROPERTY BeginsInWindow
