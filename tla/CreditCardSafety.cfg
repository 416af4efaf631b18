SPECIFICATION Spec
CONSTANTS
    visa = visa
    cash = cash
    r1 = r1
    r2 = r2
    r3 = r3
    r4 = r4
    NoRequest = NoRequest
    Accounts <- TwoAccounts
    Cards <- OneCard
    WithSettings <- OneCard
    Requests <- FourRequests
    Jobs <- CardJobs
SYMMETRY Symmetry
INVARIANTS
    TypeOK
    SettingsOfCards
PROPERTIES
    LostOnlyByRecreation
