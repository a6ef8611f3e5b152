SPECIFICATION Spec
CONSTANTS
    m1 = m1
    m2 = m2
    a1 = a1
    Minds <- OneMind
    Approvals <- MCApprovals
    NoFile = NoFile
    p1 = p1
    p2 = p2
    Places <- MCPlaces
    MaxArchives = 3
    MaxForks = 1
    MaxFaults = 2
INVARIANTS
    TypeOK
    HeadAgrees
    HeadPublished
    ApprovalOnce
    EvidenceKept
