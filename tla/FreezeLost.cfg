SPECIFICATION Spec
CONSTANTS
    t1 = t1
    t2 = t2
    t3 = t3
    None = None
    Threads <- TwoThreads
    MaxInFlight = 2
    Requests <- DisputeRequests
    Names <- MCNames
    Empty = ""
    Fold <- MCFold
    Overlaps <- MCOverlaps
    Handles <- MCHandles
    ExternalHolder = "Beneficiary"
    ExternalIds <- MCExternalIds
    EmployeeIds <- MCEmployeeIds
    ComplaintIds = {"CMP-1", "CMP-2"}
    SeedAccounts <- MCAccounts
    SeedUsers <- NoUsers
SYMMETRY PairSymmetry
PROPERTIES
    FreezeHolds
CHECK_DEADLOCK FALSE
