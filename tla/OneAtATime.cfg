SPECIFICATION Spec
CONSTANTS
    t1 = t1
    t2 = t2
    t3 = t3
    None = None
    Threads <- ThreeThreads
    MaxInFlight = 1
    Requests <- AllRequests
    Names <- MCNames
    Empty = ""
    Fold <- MCFold
    Overlaps <- MCOverlaps
    Handles <- MCHandles
    ExternalHolder = "Beneficiary"
    ExternalIds <- MCExternalIds
    EmployeeIds <- MCEmployeeIds
    ComplaintIds = {"CMP-1", "CMP-2"}
    SeedAccounts <- MCAccounts
    SeedUsers <- MCUsers
SYMMETRY ThreadSymmetry
INVARIANTS
    TwoComplaintsFlag
    ComplaintSuspectExists
    TokensGenuine
PROPERTIES
    FreezeHolds
    DecidedByRules
    SignedUpCanLogIn
CHECK_DEADLOCK FALSE
