SPECIFICATION Spec
CONSTANTS
    cash = cash
    bank = bank
    card = card
    r1 = r1
    r2 = r2
    r3 = r3
    NoRequest = NoRequest
    Accounts <- AllAccounts
    OpenAccounts <- OpenAtStart
    Requests <- ThreeRequests
    Jobs <- SafetyJobs
    MaxConns = 3
    MaxInt = 3
SYMMETRY Symmetry
INVARIANTS
    TypeOK
    RowsUnderLock
    AnswerMatchesJournal
PROPERTIES
    DriftOnlyByHand
    NoLostUpdate
    ClosedEmptyUnlessMoved
    BookSpec
