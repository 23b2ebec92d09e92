SPECIFICATION Spec
CONSTANTS
    t1 = t1
    t2 = t2
    t3 = t3
    None = None
    Threads <- ThreeThreads
    MaxInFlight = 3
    Requests <- ContendingRequests
    Names <- MCNames
    Empty = ""
    Fold <- MCFold
    Overlaps <- MCOverlaps
    Handles <- MCHandles
    ExternalHolder = "Beneficiary"
    ExternalIds <- MCExternalIds
    EmployeeIds <- MCEmployeeIds
    ComplaintIds = {"CMP-1", "CMP-2"}
    SeedAccounts <- MCAccounts
    SeedUsers <- NoUsers
SYMMETRY ThreadSymmetry
INVARIANTS
    NoOverdraft
    BalancesReconcile
    TransferAnsweredOnce
    IndexExact
    FlagsExplainStatus
    NoTaintLost
    ComplaintOwnership
    HandlesSound
    SafeIsNotHeld
PROPERTIES
    FrozenUntouched
    ImplementsLedger
CHECK_DEADLOCK FALSE
