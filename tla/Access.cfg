SPECIFICATION SystemSpec
CONSTANTS
    t1 = t1
    t2 = t2
    t3 = t3
    None = None
    Threads <- AccessThreads
    MaxInFlight = 1
    Requests <- AccessRequests
    Calls <- AccessCalls
    Lifetime = 0
    MaxTime = 1
    MaxRestarts = 1
    Dataset <- AccessDataset
    DatasetPays <- AccessPays
    Rupee = 10
    Names <- AccessNames
    Empty = ""
    Fold <- AccessFold
    Overlaps <- AccessOverlaps
    Handles <- AccessHandles
    ExternalHolder = "Beneficiary"
    ExternalIds = {"EXT-ACC-1"}
    EmployeeIds = {"EMP-1"}
    ComplaintIds = {"CMP-100", "CMP-101", "CMP-102", "CMP-1"}
    SeedAccounts <- NoAccounts
    SeedUsers <- NoAccounts
SYMMETRY AccessSymmetry
INVARIANTS
    AccessTypeOK
    StoreSound
    DemoUsersKnown
    
PROPERTIES
    OwnMoneyOnly
    SessionHolds
CHECK_DEADLOCK FALSE
