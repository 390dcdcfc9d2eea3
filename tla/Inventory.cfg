\* Every adapter and executor, any two commands of the host failing; a fixture
\* collected on a host with a fault and a change.
SPECIFICATION Spec
CONSTANTS
    Capabilities = {"system.inspect", "capabilities.inspect", "filesystem.inspect", "samba.inspect",
                    "domain.member.diagnose", "cups.inspect"}
    MaxBroken = 2
    MaxCollected = 1
    MaxChanges = 1
CHECK_DEADLOCK FALSE
INVARIANTS
    ListsCoverProvider
    AnswerFollowsProbe
    SteadyHostReplays
    ReplayInventsNothing
