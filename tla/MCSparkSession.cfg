SPECIFICATION Spec
CONSTANTS
    c1 = c1
    c2 = c2
    u1 = u1
    u2 = u2
    pinned = pinned
    Clients <- TwoClients
    Users <- TwoUsers
    Pinned = pinned
    MaxConfigs = 2
    MaxSets = 2
    MaxOps = 2
    MaxRestarts = 1
SYMMETRY Symmetry
INVARIANTS ReleasesItsSession 
PROPERTIES IdentityKept
CHECK_DEADLOCK FALSE
