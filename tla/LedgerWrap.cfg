SPECIFICATION Spec
CONSTANTS
    cash = cash
    bank = bank
    card = card
    r1 = r1
    r2 = r2
    r3 = r3
    NoRequest = NoRequest
    Accounts <- AllAccounts
    OpenAccounts <- AllAccounts
    Requests <- OneRequest
    Jobs <- WrappingJobs
    MaxConns = 3
    MaxInt = 3
INVARIANTS
    JournalBalanced
