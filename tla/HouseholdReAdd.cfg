SPECIFICATION Spec
CONSTANTS
    home = home
    flat = flat
    ann = ann
    bob = bob
    cid = cid
    dan = dan
    r1 = r1
    r2 = r2
    r3 = r3
    NoRequest = NoRequest
    Requests <- TwoRequests
    Households <- TwoHouseholds
    Users <- AllUsers
    FirstUsers <- UsersAtStart
    FirstHouse = home
    Founders <- TwoAdmins
    Jobs <- SafetyJobs
PROPERTY
    AddRefusedOnlyIfActive
