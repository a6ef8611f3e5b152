\* Four launches, one reset, two faults; the witness raises before its write.
SPECIFICATION FairSpec
CONSTANTS
    Threshold = 3
    NoNonce = NoNonce
    AnchorFaults = {"before"}
    MaxLaunches = 4
    MaxResets = 1
    MaxFaults = 2
INVARIANTS TypeOK DatasetNotBehind LaunchesBounded
PROPERTIES WitnessChain LaunchTrusted LaunchResolved
CHECK_DEADLOCK FALSE
