\* A supervised child and an orphan of an earlier supervisor, two faults.
SPECIFICATION FairSpec
CONSTANTS
    Children = {c1, c2}
    Resident = Resident
    None = None
    Budget = 3
    MaxCycles = 2
    MaxFaults = 2
INVARIANTS TypeOK BusHonest
PROPERTY WakesHonoured
