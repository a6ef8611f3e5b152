\* Two approved attempts at one action, three faults, every crash point; the
\* operator reconciles at any moment, also during a guard and a rollback.
SPECIFICATION FairSpec
CONSTANTS
    Data = {d1}
    d1 = d1
    d2 = d2
    a1 = a1
    a2 = a2
    submit = submit
    click = click
    NoFile = NoFile
    None = None
    Intents = {1, 2}
    Actions = {submit}
    ActionOf <- MCTwoOf
    Approvals = {a1, a2}
    ApprovalFor <- MCTwoApprovals
    ApprovalRequired = {submit}
    MaxChronicle = 1
    MaxFaults = 3
INVARIANTS TypeOK AlwaysRecoverable EvidenceKept OneApprovalOneCall
PROPERTIES AcceptedAtomically RecoveryCompletes NoBlindRetry
