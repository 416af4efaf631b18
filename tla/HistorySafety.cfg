SPECIFICATION HistorySpec
CONSTANTS
    cash = cash
    bank = bank
    r1 = r1
    r2 = r2
    r3 = r3
    c1 = c1
    NoRequest = NoRequest
    AnyAccount = AnyAccount
    Accounts <- TwoAccounts
    OpenAccounts <- TwoAccounts
    Requests <- ThreeRequests
    Clients <- OneClient
    Jobs <- HistoryJobs
    Queries <- HistoryQueries
    MaxConns = 2
    MaxInt = 7
    DefaultLimit = 2
    MaxInt32 = 2
    MaxOffset = 4
SYMMETRY Symmetry
INVARIANTS
    HistoryTypeOK
    ShownWhole
    NothingSkipped
