\* A kill dies after a concurrent clear overwrote its sidecar.
SPECIFICATION Spec
CONSTANTS
    p1 = p1
    p2 = p2
    Controls = {p1, p2}
    Organism = Organism
    Free = Free
    NoRow = NoRow
    MaxCommands = 2
    MaxFaults = 1
INVARIANT StopNotLost
