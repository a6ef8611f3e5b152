\* accept() raises after its commit point, in the middle of its cleanup.
SPECIFICATION CleanupSpec
CONSTANTS
    Data = {d1}
    d1 = d1
    d2 = d2
    a1 = a1
    a2 = a2
    submit = submit
    click = click
    NoFile = NoFile
    None = None
    Intents = {1, 2}
    Actions = {submit}
    ActionOf <- MCTwoOf
    Approvals = {}
    ApprovalFor <- MCNoApproval
    ApprovalRequired = {}
    MaxChronicle = 0
    MaxFaults = 2
INVARIANT EvidenceKept
