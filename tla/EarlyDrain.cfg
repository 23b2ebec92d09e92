SPECIFICATION HttpSpec
CONSTANTS
    c1 = c1
    c2 = c2
    Dummy = Dummy
    None = None
    Clients <- TwoClients
    Pieces = 2
    Backlog = 2
    WaitCycles = 2
SYMMETRY ClientSymmetry
INVARIANTS
    InFlightDrained
CHECK_DEADLOCK FALSE
