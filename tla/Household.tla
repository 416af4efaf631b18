----------------------------- MODULE Household -----------------------------
(***************************************************************************)
(* Households and their members: concurrent HTTP requests that create a    *)
(* household, add and remove members, create a user inside a household,    *)
(* rename and deactivate it, and deactivate a user, one database statement *)
(* at a time.                                                              *)
(*                                                                         *)
(* Creating a household and deactivating a user take any caller.  Every    *)
(* other operation passes the admin guard of the routes, and adding and    *)
(* removing check the caller again.  Each of these checks is a SELECT of   *)
(* its own: nothing keeps what it read true until the write.  None of them *)
(* asks whether the household or a user has been deactivated.              *)
(*                                                                         *)
(* External, modelled from how the code uses it: PostgreSQL under READ     *)
(* COMMITTED.  The only transactions of several statements insert rows     *)
(* under new ids, so nothing here waits for a row lock.                    *)
(***************************************************************************)
EXTENDS Integers, FiniteSets

CONSTANTS
    Requests,   \* the HTTP requests in flight
    Households, \* household ids, used and to be used
    Users,      \* user ids, used and to be used
    FirstUsers, \* the users that exist at the start
    FirstHouse, \* the household that exists at the start
    Founders,   \* its members at the start, all of them ADMIN
    Jobs,       \* what a request may ask for
    NoRequest   \* the name of a household nobody has renamed

(***************************************************************************)
(* The role of an AddMember body is not checked before the INSERT, so it   *)
(* can be a word the table does not know.  target and role are of no       *)
(* meaning to the operations that take none.                               *)
(***************************************************************************)
Roles == {"ADMIN", "MEMBER"}

AdminOps == {"add", "remove", "createUser", "rename", "deactivate"}

OpenOps == {"create", "closeUser"}

Job == [op : AdminOps \cup OpenOps, house : Households, caller : FirstUsers,
        target : Users, role : Roles \cup {"OTHER"}]

ASSUME HouseholdAssumption ==
    /\ IsFiniteSet(Users)
    /\ FirstUsers \subseteq Users
    /\ FirstHouse \in Households
    /\ Founders \subseteq FirstUsers /\ Founders # {}
    /\ Jobs \subseteq Job
    /\ NoRequest \notin Requests

VARIABLES
    house,    \* house[h]: the row of household h; its name is who wrote it
    users,    \* the rows of table users
    member,   \* member[h][u]: the row of table household_members, if any
    closed,   \* the users whose row has its deleted_at set
    tx,       \* tx[r]: the rows inserted by r's open transaction
    job,      \* job[r]: what request r asks for
    pc,       \* pc[r]: the statement r sends next
    counted,  \* counted[r]: the admins RemoveMember counted
    seen,     \* seen[r]: the household row r's client read
    reply     \* reply[r]: the class of the HTTP answer

vars == <<house, users, member, closed, tx, job, pc, counted, seen, reply>>
rows == <<house, users, member, closed>>

HouseRow == [status : {"absent", "active", "deleted"}, version : Nat,
             name : Requests \cup {NoRequest}]

NoHouse  == [status |-> "absent", version |-> 0, name |-> NoRequest]
NewHouse == [status |-> "active", version |-> 1, name |-> NoRequest]

\* A removed membership stays in the table, with its deleted_at set.
Standing == Roles \cup {"none", "removed"}

Inserts == [houses : SUBSET Households, users : SUBSET Users,
            members : SUBSET (Households \X Users \X Roles)]

NoInserts == [houses |-> {}, users |-> {}, members |-> {}]

Steps == {"start", "read", "caller", "count", "target", "write",
          "insertHouse", "insertUser", "insertMember", "commit", "done"}

Replies == {"none", "ok", "invalid", "forbidden", "notFound", "conflict", "error"}

TypeOK ==
    /\ house \in [Households -> HouseRow]
    /\ users \subseteq Users
    /\ member \in [Households -> [Users -> Standing]]
    /\ closed \subseteq users
    /\ tx \in [Requests -> Inserts]
    /\ job \in [Requests -> Jobs]
    /\ pc \in [Requests -> Steps]
    /\ counted \in [Requests -> Nat]
    /\ seen \in [Requests -> HouseRow]
    /\ reply \in [Requests -> Replies]

Init ==
    /\ house = [h \in Households |-> IF h = FirstHouse THEN NewHouse ELSE NoHouse]
    /\ users = FirstUsers
    /\ member = [h \in Households |-> [u \in Users |->
                   IF h = FirstHouse /\ u \in Founders THEN "ADMIN" ELSE "none"]]
    /\ closed = {}
    /\ tx = [r \in Requests |-> NoInserts]
    /\ job \in [Requests -> Jobs]
    /\ pc = [r \in Requests |-> "start"]
    /\ counted = [r \in Requests |-> 0]
    /\ seen = [r \in Requests |-> NoHouse]
    /\ reply = [r \in Requests |-> "none"]

-----------------------------------------------------------------------------
\* Common parts of the steps.

Goto(r, step) ==
    /\ pc' = [pc EXCEPT ![r] = step]
    /\ UNCHANGED reply

Answer(r, class) ==
    /\ pc' = [pc EXCEPT ![r] = "done"]
    /\ reply' = [reply EXCEPT ![r] = class]

\* A write that has committed: its answer can still be lost on the way.
AnswerWritten(r) == \E class \in {"ok", "error"} : Answer(r, class)

\* FindMembership, ListMembers and FindRole see rows that are not removed.
RoleIn(h, u) == IF member[h][u] \in Roles THEN member[h][u] ELSE "none"

Admins(h) == {u \in Users : RoleIn(h, u) = "ADMIN"}

IsMember(h, u) == RoleIn(h, u) # "none"

IsAdmin(h, u) == RoleIn(h, u) = "ADMIN"

-----------------------------------------------------------------------------
\* The ends of RunAtomic.

RollbackKeepsRows(r) ==
    /\ house' = [h \in Households |-> IF h \in tx[r].houses THEN NewHouse ELSE house[h]]
    /\ users' = users \cup tx[r].users
    /\ tx' = [tx EXCEPT ![r] = NoInserts]
    /\ UNCHANGED <<member, closed>>

\* What was inserted and not committed was never there for the others.
Rollback(r) ==
    /\ tx' = [tx EXCEPT ![r] = NoInserts]
    /\ UNCHANGED rows

Publish(r) ==
    /\ house' = [h \in Households |-> IF h \in tx[r].houses THEN NewHouse ELSE house[h]]
    /\ users' = users \cup tx[r].users
    /\ member' = [h \in Households |-> [u \in Users |->
                    IF \E role \in Roles : <<h, u, role>> \in tx[r].members
                    THEN CHOOSE role \in Roles : <<h, u, role>> \in tx[r].members
                    ELSE member[h][u]]]
    /\ tx' = [tx EXCEPT ![r] = NoInserts]
    /\ UNCHANGED closed

CommitTx(r) ==
    /\ pc[r] = "commit"
    /\ Publish(r)
    /\ AnswerWritten(r)
    /\ UNCHANGED <<job, counted, seen>>

-----------------------------------------------------------------------------
\* The admin guard of the routes, and the handlers before their first statement.

AfterGuard(op) ==
    CASE op \in {"add", "remove"} -> "caller"
      [] op = "createUser"        -> "insertUser"
      [] OTHER                    -> "write"

\* Operations with a body, which may not decode or not validate.
HasBody(op) == op \in {"add", "createUser", "rename"}

\* A client that renames has read the household, through the member guard.
ReadForRename(r) ==
    LET h == job[r].house
    IN  /\ pc[r] = "start"
        /\ job[r].op = "rename"
        /\ seen' = [seen EXCEPT ![r] = house[h]]
        /\ IF ~IsMember(h, job[r].caller) THEN Answer(r, "forbidden")
           ELSE IF house[h].status # "active" THEN Answer(r, "notFound")
           ELSE Goto(r, "read")
        /\ UNCHANGED <<rows, tx, job, counted>>

Guard(r) ==
    /\ \/ pc[r] = "read"
       \/ pc[r] = "start" /\ job[r].op \in AdminOps \ {"rename"}
    /\ \/ IF IsAdmin(job[r].house, job[r].caller)
            THEN Goto(r, AfterGuard(job[r].op))
            ELSE Answer(r, "forbidden")
       \/ /\ IsAdmin(job[r].house, job[r].caller)
          /\ HasBody(job[r].op)
          /\ Answer(r, "invalid")
    /\ UNCHANGED <<rows, tx, job, counted, seen>>

-----------------------------------------------------------------------------
\* HouseholdLogic.AddMember and RemoveMember.

\* FindMembership of the caller.  ErrHouseholdNotAdmin has no HTTP status of
\* its own: it answers 500.
CheckCaller(r) ==
    /\ pc[r] = "caller"
    /\ IF IsAdmin(job[r].house, job[r].caller)
         THEN Goto(r, IF job[r].op = "add" THEN "write" ELSE "count")
         ELSE Answer(r, "error")
    /\ UNCHANGED <<rows, tx, job, counted, seen>>

\* The CHECK on column role.
RoleAcceptedAny(role) == TRUE

RoleAccepted(role) == role \in Roles

\* The primary key (household_id, user_id), which a removed membership keeps.
KeyFree(h, u) == member[h][u] = "none"

AddMember(r) ==
    LET h == job[r].house
        u == job[r].target
    IN  /\ pc[r] = "write"
        /\ job[r].op = "add"
        /\ IF ~RoleAccepted(job[r].role) \/ u \notin users
             THEN Answer(r, "error") /\ UNCHANGED rows
             ELSE IF ~KeyFree(h, u)
             THEN Answer(r, "conflict") /\ UNCHANGED rows
             ELSE /\ member' = [member EXCEPT ![h][u] = job[r].role]
                  /\ AnswerWritten(r)
                  /\ UNCHANGED <<house, users, closed>>
        /\ UNCHANGED <<tx, job, counted, seen>>

\* ListMembers, and the count of its admins: a deactivated user is still one.
CountAdmins(r) ==
    /\ pc[r] = "count"
    /\ counted' = [counted EXCEPT ![r] = Cardinality(Admins(job[r].house))]
    /\ Goto(r, "target")
    /\ UNCHANGED <<rows, tx, job, seen>>

IsLastNever(r) == FALSE

IsLastOfNone(r) == IsAdmin(job[r].house, job[r].target) /\ counted[r] < 1

IsLast(r) == IsAdmin(job[r].house, job[r].target) /\ counted[r] <= 1

\* FindMembership of the target: one that is not there counts as removed.
CheckTarget(r) ==
    /\ pc[r] = "target"
    /\ IF RoleIn(job[r].house, job[r].target) = "none" THEN Answer(r, "ok")
       ELSE IF IsLast(r) THEN Answer(r, "conflict")
       ELSE Goto(r, "write")
    /\ UNCHANGED <<rows, tx, job, counted, seen>>

\* The UPDATE looks at neither the count nor the role again.
RemoveMember(r) ==
    LET h == job[r].house
        u == job[r].target
    IN  /\ pc[r] = "write"
        /\ job[r].op = "remove"
        /\ member' = IF RoleIn(h, u) = "none" THEN member
                     ELSE [member EXCEPT ![h][u] = "removed"]
        /\ AnswerWritten(r)
        /\ UNCHANGED <<house, users, closed, tx, job, counted, seen>>

-----------------------------------------------------------------------------
\* Household rows: Create, UpdateName, Deactivate.

\* Name validation, then the first INSERT of the transaction.
SubmitCreate(r) ==
    /\ pc[r] = "start"
    /\ job[r].op = "create"
    /\ \/ Answer(r, "invalid")
       \/ Goto(r, "insertHouse")
    /\ UNCHANGED <<rows, tx, job, counted, seen>>

InsertHousehold(r) ==
    /\ pc[r] = "insertHouse"
    /\ \E h \in Households :
         /\ house[h].status = "absent"
         /\ \A s \in Requests : h \notin tx[s].houses
         /\ tx' = [tx EXCEPT ![r].houses = {h}]
    /\ Goto(r, "insertMember")
    /\ UNCHANGED <<rows, job, counted, seen>>

\* The membership of the founder, or of the user inserted before it.
InsertMember(r) ==
    /\ pc[r] = "insertMember"
    /\ tx' = [tx EXCEPT ![r].members =
                IF job[r].op = "create"
                THEN {<<h, job[r].caller, "ADMIN">> : h \in tx[r].houses}
                ELSE {<<job[r].house, u, "MEMBER">> : u \in tx[r].users}]
    /\ Goto(r, "commit")
    /\ UNCHANGED <<rows, job, counted, seen>>

RenamedSameVersion(old, name) == [old EXCEPT !.name = name]

Renamed(old, name) == [old EXCEPT !.name = name, !.version = @ + 1]

RenameAnyStatus(r) ==
    LET h == job[r].house
    IN  /\ pc[r] = "write"
        /\ job[r].op = "rename"
        /\ IF house[h].version = seen[r].version
             THEN /\ house' = [house EXCEPT ![h] = Renamed(@, r)]
                  /\ AnswerWritten(r)
             ELSE /\ Answer(r, "conflict")
                  /\ UNCHANGED house
        /\ UNCHANGED <<users, member, closed, tx, job, counted, seen>>

UpdateHouseholdName(r) ==
    LET h == job[r].house
    IN  /\ pc[r] = "write"
        /\ job[r].op = "rename"
        /\ IF house[h].status = "active" /\ house[h].version = seen[r].version
             THEN /\ house' = [house EXCEPT ![h] = Renamed(@, r)]
                  /\ AnswerWritten(r)
             ELSE /\ Answer(r, "conflict")
                  /\ UNCHANGED house
        /\ UNCHANGED <<users, member, closed, tx, job, counted, seen>>

DeactivateHousehold(r) ==
    LET h == job[r].house
    IN  /\ pc[r] = "write"
        /\ job[r].op = "deactivate"
        /\ house' = IF house[h].status = "active"
                    THEN [house EXCEPT ![h].status = "deleted"]
                    ELSE house
        /\ AnswerWritten(r)
        /\ UNCHANGED <<users, member, closed, tx, job, counted, seen>>

-----------------------------------------------------------------------------
\* HouseholdMemberLogic.CreateHouseholdUser: UserLogic.Register inside the
\* transaction, which validates again and may find the email taken.
InsertUser(r) ==
    /\ pc[r] = "insertUser"
    /\ \/ \E class \in {"invalid", "conflict"} : Answer(r, class) /\ UNCHANGED tx
       \/ /\ \E u \in Users \ users :
               /\ \A s \in Requests : u \notin tx[s].users
               /\ tx' = [tx EXCEPT ![r].users = {u}]
          /\ Goto(r, "insertMember")
    /\ UNCHANGED <<rows, job, counted, seen>>

-----------------------------------------------------------------------------
\* UserLogic.Deactivate: behind no guard, whoever the user is and whatever
\* households count on it.  An id that is no user, or no longer, is answered alike.
DeactivateUser(r) ==
    /\ pc[r] = "start"
    /\ job[r].op = "closeUser"
    /\ closed' = closed \cup ({job[r].target} \cap users)
    /\ AnswerWritten(r)
    /\ UNCHANGED <<house, users, member, tx, job, counted, seen>>

-----------------------------------------------------------------------------
\* A statement fails, the connection breaks, the client goes away or the
\* handler panics.  The guard answers 403 whatever its SELECT failed of.
Fail(r) ==
    /\ pc[r] # "done"
    /\ \E class \in {"error", "forbidden"} :
         /\ class = "forbidden" => pc[r] \in {"start", "read"}
         /\ Answer(r, class)
    /\ Rollback(r)
    /\ UNCHANGED <<job, counted, seen>>

Handle(r) ==
    \/ ReadForRename(r)
    \/ Guard(r)
    \/ CheckCaller(r)
    \/ AddMember(r)
    \/ CountAdmins(r)
    \/ CheckTarget(r)
    \/ RemoveMember(r)
    \/ SubmitCreate(r)
    \/ InsertHousehold(r)
    \/ InsertUser(r)
    \/ InsertMember(r)
    \/ CommitTx(r)
    \/ UpdateHouseholdName(r)
    \/ DeactivateHousehold(r)
    \/ DeactivateUser(r)
    \/ Fail(r)

\* The end of a bounded run, so that only real deadlocks count as such.
Finished == (\A r \in Requests : pc[r] = "done") /\ UNCHANGED vars

Next == (\E r \in Requests : Handle(r)) \/ Finished

Spec == Init /\ [][Next]_vars

-----------------------------------------------------------------------------
\* Properties.

\* A household and its first membership appear together, and so do a user
\* created inside a household and that user's membership, whatever fails between
\* the two INSERTs or at the COMMIT: no household nobody belongs to, no user
\* without a household.
BornWithMember ==
    /\ \A h \in Households :
          house[h].status # "absent" <=> \E u \in Users : member[h][u] # "none"
    /\ \A u \in users \ FirstUsers : \E h \in Households : member[h][u] # "none"

\* What a request does to a household is done for one who is its admin, or who was
\* when the request was checked and has been removed since; never for one who has
\* been a plain member or a stranger all along.
ActsForAdminStep ==
    \A r \in Requests :
        /\ pc[r] # "done" /\ pc'[r] = "done"
        /\ job[r].op \in AdminOps
        /\ rows' # rows
        => member[job[r].house][job[r].caller] \in {"ADMIN", "removed"}

ActsForAdmin == [][ActsForAdminStep]_vars

\* RemoveMember takes the last admin away only when another removal came between
\* its count of the admins and its UPDATE: that race is the only way.
LastAdminStep ==
    \A r \in Requests :
        /\ RemoveMember(r)
        /\ Cardinality(Admins(job[r].house)) = 1
        /\ job[r].target \in Admins(job[r].house)
        => counted[r] > 1

LastAdminOnlyByOverlap == [][LastAdminStep]_vars

\* The admins of a household who can still log in.
AbleAdmins(h) == Admins(h) \ closed

\* A household that somebody can administer is left without such a one only where
\* a user is deactivated, which no household is asked about, or by a removal that
\* had counted two admins: one of the two deactivated, or removed since.
AbleAdminStep ==
    \A h \in Households :
        AbleAdmins(h) # {} /\ AbleAdmins(h)' = {} =>
            \E r \in Requests :
                \/ DeactivateUser(r)
                \/ RemoveMember(r) /\ counted[r] > 1

AbleAdminLostOnlySo == [][AbleAdminStep]_vars

\* A deactivated household's row never changes again, although deactivating takes
\* no new version: not even by a rename whose client read it when it was active.
ClosedStep == \A h \in Households : house[h].status = "deleted" => house'[h] = house[h]

ClosedForGood == [][ClosedStep]_vars

\* A rename never replaces a name its client has not seen, whatever renames came
\* between the client's read and the UPDATE.
RenameStep ==
    \A r \in Requests :
        UpdateHouseholdName(r) /\ house' # house
            => house[job[r].house].name = seen[r].name

NoRenameLost == [][RenameStep]_vars

-----------------------------------------------------------------------------
\* What comments of the code say and its steps do not keep.

\* "removing the target would not leave the household without any admins": a
\* household that is active has an admin.
HasAdmin == \A h \in Households : house[h].status = "active" => Admins(h) # {}

\* "ErrHouseholdMemberExists is returned when adding a member who already has an
\* active membership": a user who has none is not refused on that ground.
AddRefusedOnlyIfActive ==
    [][\A r \in Requests :
          AddMember(r) /\ reply'[r] = "conflict"
              => RoleIn(job[r].house, job[r].target) # "none"]_vars
=============================================================================
