\* Every pair of environments, and one restart with another one.
SPECIFICATION DispatchSpec
CONSTANTS
    Capabilities = {"system.inspect", "samba.testparm", "service.status", "acl.nfsv4.read"}
    MaxRestarts = 1
CHECK_DEADLOCK FALSE
INVARIANTS
    MutationOnlySimulated
    HandlersFitCatalogue
