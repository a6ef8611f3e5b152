SPECIFICATION Spec
CONSTANTS
    m1 = m1
    m2 = m2
    a1 = a1
    Minds <- MCMinds
    Approvals <- MCApprovals
    NoFile = NoFile
    p1 = p1
    p2 = p2
    Places <- MCPlaces
    MaxArchives = 2
    MaxForks = 0
    MaxFaults = 2
INVARIANT
    RecoveryNeverStuck
