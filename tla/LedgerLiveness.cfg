SPECIFICATION FairSpec
CONSTANTS
    cash = cash
    bank = bank
    card = card
    r1 = r1
    r2 = r2
    r3 = r3
    NoRequest = NoRequest
    Accounts <- TwoAccounts
    OpenAccounts <- TwoAccounts
    Requests <- ThreeRequests
    Jobs <- LivenessJobs
    MaxConns = 2
    MaxInt = 7
PROPERTIES
    EveryRequestAnswered
