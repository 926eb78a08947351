SPECIFICATION Spec
CONSTANTS
    c1 = c1
    c2 = c2
    u1 = u1
    u2 = u2
    pinned = pinned
    Clients <- TwoClients
    Users <- TwoUsers
    Pinned = pinned
    MaxConfigs = 1
    MaxSets = 1
    MaxOps = 2
    MaxRestarts = 0
SYMMETRY Symmetry
INVARIANTS PinnedSessionPersists
CHECK_DEADLOCK FALSE
