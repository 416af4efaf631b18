SPECIFICATION FairSpec
CONSTANTS
    ann = ann
    mailA = mailA
    mailB = mailB
    p0 = p0
    p1 = p1
    p2 = p2
    r1 = r1
    r2 = r2
    r3 = r3
    NoRequest = NoRequest
    Requests <- ThreeRequests
    FirstUsers <- OneUser
    Emails <- TwoEmails
    FirstEmail <- EmailOfAnn
    Passwords <- ThreePasswords
    FirstPassword = p0
    Jobs <- UserJobs
INVARIANTS
    TypeOK
    LoginUnambiguous
    NeverHalfSeeded
PROPERTIES
    PasswordByOwner
    NoProfileLost
    EveryRequestAnswered
