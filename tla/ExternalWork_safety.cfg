\* One item, three events, two faults, two submit calls.
SPECIFICATION FairSpec
CONSTANTS
    shop = shop
    paid1 = paid1
    paid2 = paid2
    gift = gift
    Items <- MCOneItem
    Opportunities = {shop}
    OpportunityOf <- MCOneOpportunityOf
    Events = {paid1, paid2, gift}
    SignedFor <- MCSignedFor
    NoItem = 0
    NoEvent = NoEvent
    NoCopy = NoCopy
    MaxSends = 2
    MaxFaults = 2
INVARIANTS TypeOK NotNarrated RealizedBacked RollbackPossible
PROPERTIES NoBlindSend TruthForward SubmissionProjected
CHECK_DEADLOCK FALSE
