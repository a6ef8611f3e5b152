\* A transition that realized a paid item is rolled back.
SPECIFICATION Spec
CONSTANTS
    shop = shop
    paid1 = paid1
    paid2 = paid2
    gift = gift
    Items <- MCOneItem
    Opportunities = {shop}
    OpportunityOf <- MCOneOpportunityOf
    Events = {paid1}
    SignedFor <- MCPaidOnce
    NoItem = 0
    NoEvent = NoEvent
    NoCopy = NoCopy
    MaxSends = 1
    MaxFaults = 1
PROPERTY SubmissionKept
CHECK_DEADLOCK FALSE
