\* Sessions one after another, each of whose steps may raise, crash or wait in vain.
SPECIFICATION FairSpec
CONSTANTS
    Sessions = {1, 2}
    NoOne = NoOne
    Owner = Owner
    CapSets = {{"helper-extension", "proxy-intercept"}, {}}
    Faults = {"crash", "reap", "diskFull"}
INVARIANTS
    TypeOK
    OwnersFileComesBack
    ClosedLeavesNothing
    LeftoverDaemonIsOverdue
PROPERTIES
    EverySessionResolves
CHECK_DEADLOCK FALSE
