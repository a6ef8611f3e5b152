\* Two commands racing the organism, one death, timeout or exception.
SPECIFICATION FairSpec
CONSTANTS
    p1 = p1
    p2 = p2
    Controls = {p1, p2}
    Organism = organism
    Free = free
    NoRow = NoRow
    MaxCommands = 3
    MaxFaults = 1
INVARIANTS TypeOK StoresAgree OwnerControlSurvives
PROPERTIES StopObserved StopPublished ConstructorProceeds
