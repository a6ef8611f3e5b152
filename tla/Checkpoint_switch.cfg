SPECIFICATION FairSpec
CONSTANTS
    m1 = m1
    m2 = m2
    a1 = a1
    Minds <- MCMinds
    Approvals <- NoApprovals
    NoFile = NoFile
    p1 = p1
    p2 = p2
    Places <- MCPlaces
    MaxArchives = 3
    MaxForks = 1
    MaxFaults = 1
INVARIANT
    RecoveryNeverStuck
PROPERTIES
    ReplacedAtOnce
    AnchorAdvances
    RestoreResolves
