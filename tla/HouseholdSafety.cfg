SPECIFICATION Spec
CONSTANTS
    home = home
    flat = flat
    ann = ann
    bob = bob
    cid = cid
    dan = dan
    r1 = r1
    r2 = r2
    r3 = r3
    NoRequest = NoRequest
    Requests <- ThreeRequests
    Households <- TwoHouseholds
    Users <- AllUsers
    FirstUsers <- UsersAtStart
    FirstHouse = home
    Founders <- TwoAdmins
    Jobs <- SafetyJobs
SYMMETRY Symmetry
INVARIANTS
    TypeOK
    BornWithMember
PROPERTIES
    ActsForAdmin
    LastAdminOnlyByOverlap
    AbleAdminLostOnlySo
    ClosedForGood
    NoRenameLost
