-------------------------- MODULE HouseholdProofs --------------------------
(***************************************************************************)
(* Theorems about Household for every set of households, users, requests   *)
(* and jobs.                                                               *)
(***************************************************************************)
EXTENDS Household, FiniteSetTheorems, TLAPS

\* Where a request stands tells what it asked for.
StepInv ==
    \A r \in Requests :
        /\ pc[r] = "read" => job[r].op = "rename"
        /\ pc[r] = "caller" => job[r].op \in {"add", "remove"}
        /\ pc[r] \in {"count", "target"} => job[r].op = "remove"
        /\ pc[r] = "write" => job[r].op \in {"add", "remove", "rename", "deactivate"}
        /\ pc[r] = "insertHouse" => job[r].op = "create"
        /\ pc[r] = "insertUser" => job[r].op = "createUser"
        /\ pc[r] \in {"insertMember", "commit"} => job[r].op \in {"create", "createUser"}

\* An open transaction inserts rows under new ids, one kind of them.
TxInv ==
    \A r \in Requests :
        /\ pc[r] \notin {"insertMember", "commit"} => tx[r] = NoInserts
        /\ job[r].op = "create" => tx[r].users = {}
        /\ job[r].op # "create" => tx[r].houses = {}
        /\ \A h \in tx[r].houses : house[h].status = "absent"
        /\ \A u \in tx[r].users : u \notin users

\* No id is inserted by two transactions.
Apart ==
    \A r, s \in Requests : r # s =>
        /\ tx[r].houses \cap tx[s].houses = {}
        /\ tx[r].users \cap tx[s].users = {}

\* When it commits, each row it inserted has its membership.
Complete ==
    \A r \in Requests :
        pc[r] = "commit" =>
            tx[r].members =
                IF job[r].op = "create"
                THEN {<<h, job[r].caller, "ADMIN">> : h \in tx[r].houses}
                ELSE {<<job[r].house, u, "MEMBER">> : u \in tx[r].users}

MembersAreUsers ==
    /\ FirstUsers \subseteq users
    /\ \A h \in Households, u \in Users : member[h][u] # "none" => u \in users

\* A request past the guard was its household's admin then.
Guarded ==
    \A r \in Requests :
        /\ pc[r] \notin {"start", "read", "done"}
        /\ job[r].op \in AdminOps
        => member[job[r].house][job[r].caller] \in {"ADMIN", "removed"}

Safe == TypeOK /\ StepInv

Inv == Safe /\ TxInv /\ Apart /\ Complete /\ BornWithMember /\ MembersAreUsers /\ Guarded

-----------------------------------------------------------------------------
\* A job is one of Job.
LEMMA JobType ==
    ASSUME TypeOK, NEW r \in Requests
    PROVE  /\ job[r].op \in AdminOps \cup OpenOps
           /\ job[r].house \in Households
           /\ job[r].caller \in Users /\ job[r].caller \in FirstUsers
           /\ job[r].target \in Users
BY HouseholdAssumption DEF TypeOK, Job

\* The count of admins is a number.
LEMMA CountType ==
    ASSUME NEW h \in Households PROVE Cardinality(Admins(h)) \in Nat
<1>1. Admins(h) \subseteq Users
  BY DEF Admins
<1> QED
  BY <1>1, HouseholdAssumption, FS_Subset, FS_CardinalityType

\* What the UPDATEs of a household's row make of it is a row.
LEMMA HouseEdits ==
    ASSUME NEW old \in HouseRow
    PROVE  /\ \A r \in Requests : Renamed(old, r) \in HouseRow
           /\ [old EXCEPT !.status = "deleted"] \in HouseRow
<1>1. old.version + 1 \in Nat
  BY DEF HouseRow
<1>2. ASSUME NEW r \in Requests PROVE Renamed(old, r) \in HouseRow
  BY <1>1 DEF HouseRow, Renamed
<1>3. [old EXCEPT !.status = "deleted"] \in HouseRow
  BY DEF HouseRow
<1> QED
  BY <1>2, <1>3

\* What an INSERT adds to a transaction leaves it one.
LEMMA InsertEdits ==
    ASSUME NEW t \in Inserts
    PROVE  /\ \A S \in SUBSET Households : [t EXCEPT !.houses = S] \in Inserts
           /\ \A S \in SUBSET Users : [t EXCEPT !.users = S] \in Inserts
           /\ \A S \in SUBSET (Households \X Users \X Roles) :
                 [t EXCEPT !.members = S] \in Inserts
BY DEF Inserts

\* The initial states have the invariant.
LEMMA InitInv == Init => Inv
<1> SUFFICES ASSUME Init PROVE Inv
  OBVIOUS
<1>1. TypeOK
  BY HouseholdAssumption
  DEF Init, TypeOK, HouseRow, NewHouse, NoHouse, Standing, Roles, Inserts,
      NoInserts, Steps, Replies
<1>2. StepInv /\ TxInv /\ Apart /\ Complete /\ Guarded
  BY DEF Init, StepInv, TxInv, Apart, Complete, Guarded, NoInserts
<1>3. BornWithMember
  BY HouseholdAssumption DEF Init, BornWithMember, NewHouse, NoHouse
<1>4. MembersAreUsers
  BY HouseholdAssumption DEF Init, MembersAreUsers
<1> QED
  BY <1>1, <1>2, <1>3, <1>4 DEF Inv, Safe

-----------------------------------------------------------------------------
\* Types.

\* What the end of a transaction leaves has its type.
LEMMA PublishTypes ==
    ASSUME TypeOK, NEW r \in Requests, Publish(r)
    PROVE  /\ house' \in [Households -> HouseRow]
           /\ users' \subseteq Users
           /\ member' \in [Households -> [Users -> Standing]]
           /\ closed' \subseteq users'
           /\ tx' \in [Requests -> Inserts]
<1>1. tx[r] \in Inserts
  BY DEF TypeOK
<1>2. house' \in [Households -> HouseRow]
  BY DEF TypeOK, Publish, NewHouse, HouseRow
<1>3. users' \subseteq Users
  BY <1>1 DEF TypeOK, Publish, Inserts
<1>4. ASSUME NEW h \in Households, NEW u \in Users
      PROVE  (IF \E role \in Roles : <<h, u, role>> \in tx[r].members
              THEN CHOOSE role \in Roles : <<h, u, role>> \in tx[r].members
              ELSE member[h][u]) \in Standing
  BY DEF TypeOK, Standing
<1>5. member' \in [Households -> [Users -> Standing]]
  BY <1>4 DEF Publish
<1>6. tx' \in [Requests -> Inserts]
  BY DEF TypeOK, Publish, NoInserts, Inserts
<1>7. closed' \subseteq users'
  BY DEF TypeOK, Publish
<1> QED
  BY <1>2, <1>3, <1>5, <1>6, <1>7

\* Every step keeps the types and the order of the statements.
LEMMA NextSafe == Safe /\ [Next]_vars => Safe'
<1> SUFFICES ASSUME Safe, [Next]_vars PROVE Safe'
  OBVIOUS
<1>1. CASE UNCHANGED vars
  BY <1>1 DEF vars, Safe, TypeOK, StepInv
<1>2. ASSUME NEW r \in Requests, Handle(r) PROVE Safe'
  <2> USE DEF Goto, Answer, AnswerWritten, rows, Steps, Replies
  <2>0. TypeOK /\ StepInv
    BY DEF Safe
  <2>1. CASE ReadForRename(r)
    <3>1. seen' \in [Requests -> HouseRow]
      BY <2>0, <2>1, JobType DEF ReadForRename, TypeOK
    <3>2. TypeOK'
      BY <3>1, <2>0, <2>1 DEF ReadForRename, TypeOK
    <3>3. StepInv'
      BY <2>0, <2>1 DEF ReadForRename, TypeOK, StepInv
    <3> QED
      BY <3>2, <3>3 DEF Safe
  <2>2. CASE Guard(r)
    <3>1. AfterGuard(job[r].op) \in Steps /\ job[r].op \in AdminOps
      BY <2>0, <2>2, JobType DEF Guard, AfterGuard, AdminOps, StepInv
    <3>2. TypeOK'
      BY <3>1, <2>0, <2>2 DEF Guard, TypeOK
    <3>3. StepInv'
      BY <3>1, <2>0, <2>2 DEF Guard, AfterGuard, AdminOps, TypeOK, StepInv
    <3> QED
      BY <3>2, <3>3 DEF Safe
  <2>3. CASE CheckCaller(r)
    BY <2>0, <2>3 DEF CheckCaller, Safe, TypeOK, StepInv
  <2>4. CASE AddMember(r)
    <3>1. member' \in [Households -> [Users -> Standing]]
      <4>1. CASE member' = member
        BY <4>1, <2>0 DEF TypeOK
      <4>2. CASE /\ job[r].role \in Roles
                 /\ member' = [member EXCEPT ![job[r].house][job[r].target] = job[r].role]
        BY <4>2, <2>0, JobType DEF TypeOK, Standing
      <4> QED
        BY <4>1, <4>2, <2>4 DEF AddMember, RoleAccepted
    <3>2. house' = house /\ users' = users /\ closed' = closed
      BY <2>4 DEF AddMember
    <3>3. /\ UNCHANGED <<tx, job, counted, seen>>
          /\ \E class \in Replies :
                /\ pc' = [pc EXCEPT ![r] = "done"]
                /\ reply' = [reply EXCEPT ![r] = class]
      BY <2>4 DEF AddMember
    <3> QED
      BY <3>1, <3>2, <3>3, <2>0 DEF Safe, TypeOK, StepInv
  <2>5. CASE CountAdmins(r)
    BY <2>0, <2>5, JobType, CountType DEF CountAdmins, Safe, TypeOK, StepInv
  <2>6. CASE CheckTarget(r)
    BY <2>0, <2>6 DEF CheckTarget, Safe, TypeOK, StepInv
  <2>7. CASE RemoveMember(r)
    <3>1. member' \in [Households -> [Users -> Standing]]
      BY <2>0, <2>7, JobType DEF RemoveMember, TypeOK, Standing
    <3> QED
      BY <3>1, <2>0, <2>7 DEF RemoveMember, Safe, TypeOK, StepInv
  <2>8. CASE SubmitCreate(r)
    BY <2>0, <2>8 DEF SubmitCreate, Safe, TypeOK, StepInv
  <2>9. CASE InsertHousehold(r)
    <3>1. tx' \in [Requests -> Inserts]
      <4>1. PICK h \in Households : tx' = [tx EXCEPT ![r].houses = {h}]
        BY <2>9 DEF InsertHousehold
      <4>2. [tx[r] EXCEPT !.houses = {h}] \in Inserts
        BY <2>0, InsertEdits DEF TypeOK
      <4> QED
        BY <4>1, <4>2, <2>0 DEF TypeOK
    <3> QED
      BY <3>1, <2>0, <2>9 DEF InsertHousehold, Safe, TypeOK, StepInv
  <2>10. CASE InsertUser(r)
    <3>1. tx' \in [Requests -> Inserts]
      <4>1. CASE tx' = tx
        BY <4>1, <2>0 DEF TypeOK
      <4>2. ASSUME NEW u \in Users, tx' = [tx EXCEPT ![r].users = {u}]
            PROVE  tx' \in [Requests -> Inserts]
        <5>1. [tx[r] EXCEPT !.users = {u}] \in Inserts
          BY <2>0, InsertEdits DEF TypeOK
        <5> QED
          BY <4>2, <5>1, <2>0 DEF TypeOK
      <4> QED
        BY <4>1, <4>2, <2>10 DEF InsertUser
    <3> QED
      BY <3>1, <2>0, <2>10 DEF InsertUser, Safe, TypeOK, StepInv
  <2>11. CASE InsertMember(r)
    <3>1. tx' \in [Requests -> Inserts]
      <4> DEFINE S == IF job[r].op = "create"
                      THEN {<<h, job[r].caller, "ADMIN">> : h \in tx[r].houses}
                      ELSE {<<job[r].house, u, "MEMBER">> : u \in tx[r].users}
      <4>1. S \in SUBSET (Households \X Users \X Roles)
        BY <2>0, JobType DEF TypeOK, Inserts, Roles
      <4>2. [tx[r] EXCEPT !.members = S] \in Inserts
        BY <4>1, <2>0, InsertEdits DEF TypeOK
      <4>3. tx' = [tx EXCEPT ![r].members = S]
        BY <2>11 DEF InsertMember
      <4> QED
        BY <4>2, <4>3, <2>0 DEF TypeOK
    <3> QED
      BY <3>1, <2>0, <2>11 DEF InsertMember, Safe, TypeOK, StepInv
  <2>12. CASE CommitTx(r)
    <3>1. Publish(r)
      BY <2>12 DEF CommitTx
    <3> QED
      BY <3>1, <2>0, <2>12, PublishTypes DEF CommitTx, Safe, TypeOK, StepInv
  <2>13. CASE UpdateHouseholdName(r)
    <3>1. house' \in [Households -> HouseRow]
      <4>1. Renamed(house[job[r].house], r) \in HouseRow
        BY <2>0, HouseEdits, JobType DEF TypeOK
      <4> QED
        BY <4>1, <2>0, <2>13, JobType DEF UpdateHouseholdName, TypeOK
    <3> QED
      BY <3>1, <2>0, <2>13 DEF UpdateHouseholdName, Safe, TypeOK, StepInv
  <2>14. CASE DeactivateHousehold(r)
    <3>1. house' \in [Households -> HouseRow]
      BY <2>0, <2>14, HouseEdits, JobType DEF DeactivateHousehold, TypeOK
    <3> QED
      BY <3>1, <2>0, <2>14 DEF DeactivateHousehold, Safe, TypeOK, StepInv
  <2>15. CASE DeactivateUser(r)
    BY <2>0, <2>15 DEF DeactivateUser, Safe, TypeOK, StepInv
  <2>16. CASE Fail(r)
    BY <2>0, <2>16 DEF Fail, Rollback, Safe, TypeOK, StepInv, NoInserts, Inserts
  <2> QED
    BY <1>2, <2>1, <2>2, <2>3, <2>4, <2>5, <2>6, <2>7, <2>8, <2>9, <2>10, <2>11,
       <2>12, <2>13, <2>14, <2>15, <2>16 DEF Handle
<1> QED
  BY <1>1, <1>2 DEF Next, Finished
-----------------------------------------------------------------------------
\* How the committed rows move on.

\* A membership is made once, for a user and in a household that exist, keeps its
\* role, and is removed for good.
MemberStep(h, u) ==
    \/ member'[h][u] = member[h][u]
    \/ /\ member[h][u] = "none" /\ member'[h][u] \in Roles
       /\ house'[h].status # "absent"
       /\ u \in users'
    \/ member[h][u] \in Roles /\ member'[h][u] = "removed"

\* A household appears with a member; a new name takes a new version; only an
\* active one changes.
HouseStep(r, h) ==
    \/ house'[h] = house[h]
    \/ /\ h \in tx[r].houses
       /\ house'[h] = NewHouse
       /\ \E u \in Users : member'[h][u] # "none"
    \/ /\ house[h].status = "active" /\ house'[h].status # "absent"
       /\ house'[h].version >= house[h].version
       /\ house'[h].version = house[h].version => house'[h].name = house[h].name

UserStep(r) ==
    /\ users \subseteq users'
    /\ \A u \in users' \ users :
          u \in tx[r].users /\ \E h \in Households : member'[h][u] # "none"

RowsStep(r) ==
    /\ \A h \in Households, u \in Users : MemberStep(h, u)
    /\ \A h \in Households : HouseStep(r, h)
    /\ UserStep(r)

\* The household of a request past the guard exists.
LEMMA GuardedHouse ==
    ASSUME Inv, NEW r \in Requests,
           pc[r] \notin {"start", "read", "done"}, job[r].op \in AdminOps
    PROVE  house[job[r].house].status # "absent"
<1>1. job[r].house \in Households /\ job[r].caller \in Users
  BY JobType DEF Inv, Safe
<1>2. member[job[r].house][job[r].caller] # "none"
  BY DEF Inv, Guarded
<1> QED
  BY <1>1, <1>2 DEF Inv, BornWithMember

\* COMMIT of the founding of a household: the rows of tx[r] enter together.
LEMMA FoundingPublished ==
    ASSUME Inv, NEW r \in Requests, pc[r] = "commit", Publish(r), job[r].op = "create"
    PROVE  RowsStep(r)
<1> DEFINE c == job[r].caller
<1>1. c \in Users /\ c \in users /\ tx[r].houses \subseteq Households
  BY JobType DEF Inv, Safe, MembersAreUsers, TypeOK, Inserts
<1>2. tx[r].members = {<<h, c, "ADMIN">> : h \in tx[r].houses}
  BY DEF Inv, Complete
<1>3. tx[r].users = {} /\ users' = users
  BY DEF Inv, TxInv, Publish
<1>4. ASSUME NEW h \in Households, NEW u \in Users
      PROVE  member'[h][u] = IF h \in tx[r].houses /\ u = c
                             THEN "ADMIN" ELSE member[h][u]
  <2>1. \A role \in Roles : <<h, u, role>> \in tx[r].members
                              <=> h \in tx[r].houses /\ u = c /\ role = "ADMIN"
    BY <1>2
  <2>2. member'[h][u] = IF \E role \in Roles : <<h, u, role>> \in tx[r].members
                        THEN CHOOSE role \in Roles : <<h, u, role>> \in tx[r].members
                        ELSE member[h][u]
    BY DEF Publish
  <2>3. CASE h \in tx[r].houses /\ u = c
    <3>1. \E role \in Roles : <<h, u, role>> \in tx[r].members
      BY <2>1, <2>3 DEF Roles
    <3>2. (CHOOSE role \in Roles : <<h, u, role>> \in tx[r].members) = "ADMIN"
      BY <2>1, <3>1
    <3> QED
      BY <2>2, <2>3, <3>1, <3>2
  <2>4. CASE ~(h \in tx[r].houses /\ u = c)
    BY <2>1, <2>2, <2>4
  <2> QED
    BY <2>3, <2>4
<1>5. \A h \in tx[r].houses, u \in Users : member[h][u] = "none"
  BY <1>1 DEF Inv, TxInv, BornWithMember
<1>6. \A h \in Households :
        house'[h] = IF h \in tx[r].houses THEN NewHouse ELSE house[h]
  BY DEF Publish
<1>7. ASSUME NEW h \in Households, NEW u \in Users PROVE MemberStep(h, u)
  BY <1>1, <1>3, <1>4, <1>5, <1>6 DEF MemberStep, Roles, NewHouse
<1>8. ASSUME NEW h \in Households PROVE HouseStep(r, h)
  BY <1>1, <1>4, <1>6 DEF HouseStep
<1> QED
  BY <1>3, <1>7, <1>8 DEF RowsStep, UserStep

\* COMMIT of a user created inside a household.
LEMMA CreationPublished ==
    ASSUME Inv, NEW r \in Requests, pc[r] = "commit", Publish(r),
           job[r].op = "createUser"
    PROVE  RowsStep(r)
<1> DEFINE g == job[r].house
<1>1. g \in Households /\ tx[r].users \subseteq Users
  BY JobType DEF Inv, Safe, TypeOK, Inserts
<1>2. tx[r].members = {<<g, u, "MEMBER">> : u \in tx[r].users}
  BY DEF Inv, Complete
<1>3. tx[r].houses = {} /\ users' = users \cup tx[r].users
  BY DEF Inv, TxInv, Publish
<1>4. ASSUME NEW h \in Households, NEW u \in Users
      PROVE  member'[h][u] = IF h = g /\ u \in tx[r].users
                             THEN "MEMBER" ELSE member[h][u]
  <2>1. \A role \in Roles : <<h, u, role>> \in tx[r].members
                              <=> h = g /\ u \in tx[r].users /\ role = "MEMBER"
    BY <1>2
  <2>2. member'[h][u] = IF \E role \in Roles : <<h, u, role>> \in tx[r].members
                        THEN CHOOSE role \in Roles : <<h, u, role>> \in tx[r].members
                        ELSE member[h][u]
    BY DEF Publish
  <2>3. CASE h = g /\ u \in tx[r].users
    <3>1. \E role \in Roles : <<h, u, role>> \in tx[r].members
      BY <2>1, <2>3 DEF Roles
    <3>2. (CHOOSE role \in Roles : <<h, u, role>> \in tx[r].members) = "MEMBER"
      BY <2>1, <3>1
    <3> QED
      BY <2>2, <2>3, <3>1, <3>2
  <2>4. CASE ~(h = g /\ u \in tx[r].users)
    BY <2>1, <2>2, <2>4
  <2> QED
    BY <2>3, <2>4
<1>5. \A u \in tx[r].users : member[g][u] = "none"
  BY <1>1 DEF Inv, TxInv, MembersAreUsers
<1>6. \A h \in Households : house'[h] = house[h]
  BY <1>3 DEF Publish
<1>7. house[g].status # "absent"
  BY GuardedHouse DEF AdminOps
<1>8. ASSUME NEW h \in Households, NEW u \in Users PROVE MemberStep(h, u)
  BY <1>3, <1>4, <1>5, <1>6, <1>7 DEF MemberStep, Roles
<1>9. UserStep(r)
  BY <1>1, <1>3, <1>4 DEF UserStep
<1> QED
  BY <1>6, <1>8, <1>9 DEF RowsStep, HouseStep

\* Every step moves the rows on.
LEMMA RowsMoveOn ==
    ASSUME Inv, NEW r \in Requests, Handle(r)
    PROVE  RowsStep(r)
<1>0. /\ TypeOK /\ StepInv
      /\ job[r].house \in Households /\ job[r].target \in Users
  BY JobType DEF Inv, Safe
<1>1. CASE UNCHANGED rows
  BY <1>1 DEF rows, RowsStep, MemberStep, HouseStep, UserStep
<1>2. CASE AddMember(r)
  <2>1. house[job[r].house].status # "absent"
    BY <1>0, <1>2, GuardedHouse DEF AddMember, AdminOps
  <2>2. CASE UNCHANGED rows
    BY <2>2, <1>1
  <2>3. CASE /\ job[r].target \in users /\ job[r].role \in Roles
             /\ member[job[r].house][job[r].target] = "none"
             /\ member' = [member EXCEPT ![job[r].house][job[r].target] = job[r].role]
             /\ UNCHANGED <<house, users>>
    <3>1. ASSUME NEW h \in Households, NEW u \in Users PROVE MemberStep(h, u)
      BY <1>0, <2>1, <2>3 DEF MemberStep, TypeOK
    <3> QED
      BY <2>3, <3>1 DEF RowsStep, HouseStep, UserStep
  <2> QED
    BY <1>2, <2>2, <2>3 DEF AddMember, RoleAccepted, KeyFree, rows
<1>3. CASE RemoveMember(r)
  <2>1. ASSUME NEW h \in Households, NEW u \in Users PROVE MemberStep(h, u)
    BY <1>0, <1>3 DEF RemoveMember, RoleIn, MemberStep, TypeOK
  <2>2. UNCHANGED <<house, users>>
    BY <1>3 DEF RemoveMember
  <2> QED
    BY <2>1, <2>2 DEF RowsStep, HouseStep, UserStep
<1>4. CASE CommitTx(r)
  <2>1. pc[r] = "commit" /\ Publish(r)
    BY <1>4 DEF CommitTx
  <2>2. job[r].op \in {"create", "createUser"}
    BY <1>0, <2>1 DEF StepInv
  <2> QED
    BY <2>1, <2>2, FoundingPublished, CreationPublished
<1>5. CASE UpdateHouseholdName(r) \/ DeactivateHousehold(r)
  <2>1. UNCHANGED <<users, member>>
    BY <1>5 DEF UpdateHouseholdName, DeactivateHousehold
  <2>2. ASSUME NEW h \in Households PROVE HouseStep(r, h)
    <3>1. house[h] \in HouseRow
      BY <1>0 DEF TypeOK
    <3>2. house[h].version \in Nat
      BY <3>1 DEF HouseRow
    <3>3. CASE UpdateHouseholdName(r)
      <4>1. CASE house' = house
        BY <4>1 DEF HouseStep
      <4>2. CASE /\ house[job[r].house].status = "active"
                 /\ house' = [house EXCEPT ![job[r].house] = Renamed(@, r)]
        <5>1. CASE h = job[r].house
          <6>1. house'[h] = [house[h] EXCEPT !.name = r, !.version = @ + 1]
            BY <4>2, <5>1, <1>0 DEF Renamed, TypeOK
          <6>2. /\ house'[h].status = house[h].status
                /\ house'[h].version = house[h].version + 1
            BY <3>1, <6>1 DEF HouseRow
          <6> QED
            BY <3>2, <6>2, <4>2, <5>1 DEF HouseStep
        <5>2. CASE h # job[r].house
          BY <4>2, <5>2, <1>0 DEF TypeOK, HouseStep
        <5> QED
          BY <5>1, <5>2
      <4> QED
        BY <3>3, <4>1, <4>2 DEF UpdateHouseholdName
    <3>4. CASE DeactivateHousehold(r)
      BY <3>1, <3>2, <3>4, <1>0 DEF DeactivateHousehold, HouseStep, TypeOK, HouseRow
    <3> QED
      BY <1>5, <3>3, <3>4
  <2> QED
    BY <2>1, <2>2 DEF RowsStep, MemberStep, UserStep
<1>6. CASE DeactivateUser(r)
  BY <1>6 DEF DeactivateUser, RowsStep, MemberStep, HouseStep, UserStep
<1> QED
  BY <1>1, <1>2, <1>3, <1>4, <1>5, <1>6
  DEF Handle, ReadForRename, Guard, CheckCaller, CountAdmins, CheckTarget,
      SubmitCreate, InsertHousehold, InsertUser, InsertMember, Fail, Rollback
-----------------------------------------------------------------------------
\* The invariant is kept.

\* No step changes what a request asks for.
LEMMA JobsStay == ASSUME NEW r, Handle(r) PROVE job' = job
BY DEF Handle, ReadForRename, Guard, CheckCaller, AddMember, CountAdmins, CheckTarget,
       RemoveMember, SubmitCreate, InsertHousehold, InsertUser, InsertMember, CommitTx,
       UpdateHouseholdName, DeactivateHousehold, DeactivateUser, Fail

\* A step of one request leaves the others where they are.
LEMMA OthersStay ==
    ASSUME TypeOK, NEW r \in Requests, Handle(r), NEW s \in Requests, s # r
    PROVE  /\ pc'[s] = pc[s]
           /\ tx'[s] = tx[s]
           /\ counted'[s] = counted[s]
           /\ seen'[s] = seen[s]
<1> USE DEF TypeOK, Goto, Answer, AnswerWritten, rows
<1>1. CASE ReadForRename(r) \/ Guard(r) \/ CheckCaller(r) \/ AddMember(r)
  BY <1>1 DEF ReadForRename, Guard, CheckCaller, AddMember
<1>2. CASE CountAdmins(r) \/ CheckTarget(r) \/ RemoveMember(r) \/ SubmitCreate(r)
  BY <1>2 DEF CountAdmins, CheckTarget, RemoveMember, SubmitCreate
<1>3. CASE InsertHousehold(r) \/ InsertUser(r) \/ InsertMember(r) \/ CommitTx(r)
  BY <1>3 DEF InsertHousehold, InsertUser, InsertMember, CommitTx, Publish
<1>4. CASE UpdateHouseholdName(r) \/ DeactivateHousehold(r) \/ Fail(r)
         \/ DeactivateUser(r)
  BY <1>4 DEF UpdateHouseholdName, DeactivateHousehold, DeactivateUser, Fail, Rollback
<1> QED
  BY <1>1, <1>2, <1>3, <1>4 DEF Handle

\* The transaction of the request that steps.
MoverTx(r) ==
    /\ pc'[r] \notin {"insertMember", "commit"} => tx'[r] = NoInserts
    /\ job[r].op = "create" => tx'[r].users = {}
    /\ job[r].op # "create" => tx'[r].houses = {}
    /\ \A h \in tx'[r].houses : house'[h].status = "absent"
    /\ \A u \in tx'[r].users : u \notin users'
    /\ pc'[r] = "commit" =>
         tx'[r].members =
             IF job[r].op = "create"
             THEN {<<h, job[r].caller, "ADMIN">> : h \in tx'[r].houses}
             ELSE {<<job[r].house, u, "MEMBER">> : u \in tx'[r].users}
    /\ \A s \in Requests \ {r} :
         /\ tx'[r].houses \cap tx[s].houses = {}
         /\ tx'[r].users \cap tx[s].users = {}

\* Each step keeps the rows of its transaction new, apart and complete.
LEMMA MoverTxKept ==
    ASSUME Inv, NEW r \in Requests, Handle(r)
    PROVE  MoverTx(r)
<1>0. TypeOK /\ StepInv /\ TxInv /\ Apart /\ Complete
  BY DEF Inv, Safe
<1>1. tx[r] \in Inserts
  BY <1>0 DEF TypeOK
<1> USE DEF Goto, Answer, AnswerWritten, rows
<1>2. CASE CommitTx(r) \/ Fail(r)
  <2>1. tx'[r] = NoInserts /\ pc'[r] = "done"
    BY <1>0, <1>2 DEF CommitTx, Publish, Fail, Rollback, TypeOK
  <2> QED
    BY <2>1 DEF MoverTx, NoInserts
<1>3. CASE InsertHousehold(r)
  <2>1. PICK h \in Households :
              /\ house[h].status = "absent"
              /\ \A s \in Requests : h \notin tx[s].houses
              /\ tx' = [tx EXCEPT ![r].houses = {h}]
    BY <1>3 DEF InsertHousehold
  <2>2. tx[r] = NoInserts /\ job[r].op = "create"
    BY <1>0, <1>3 DEF InsertHousehold, TxInv, StepInv
  <2>3. tx'[r].houses = {h} /\ tx'[r].users = {}
    BY <1>0, <2>1, <2>2 DEF TypeOK, NoInserts
  <2>4. pc'[r] = "insertMember" /\ UNCHANGED <<house, users>>
    BY <1>0, <1>3 DEF InsertHousehold, TypeOK
  <2> QED
    BY <2>1, <2>2, <2>3, <2>4 DEF MoverTx
<1>4. CASE InsertUser(r)
  <2>1. tx[r] = NoInserts /\ job[r].op = "createUser"
    BY <1>0, <1>4 DEF InsertUser, TxInv, StepInv
  <2>2. CASE tx' = tx /\ pc'[r] = "done"
    BY <1>0, <2>1, <2>2 DEF MoverTx, NoInserts
  <2>3. ASSUME NEW u \in Users \ users,
               \A s \in Requests : u \notin tx[s].users,
               tx' = [tx EXCEPT ![r].users = {u}], pc'[r] = "insertMember"
        PROVE  MoverTx(r)
    <3>1. tx'[r].houses = {} /\ tx'[r].users = {u}
      BY <1>0, <2>1, <2>3 DEF TypeOK, NoInserts
    <3>2. UNCHANGED <<house, users>>
      BY <1>4 DEF InsertUser
    <3> QED
      BY <2>1, <2>3, <3>1, <3>2 DEF MoverTx
  <2> QED
    BY <1>0, <1>4, <2>2, <2>3 DEF InsertUser, TypeOK
<1>5. CASE InsertMember(r)
  <2> DEFINE S == IF job[r].op = "create"
                  THEN {<<h, job[r].caller, "ADMIN">> : h \in tx[r].houses}
                  ELSE {<<job[r].house, u, "MEMBER">> : u \in tx[r].users}
  <2>1. tx' = [tx EXCEPT ![r].members = S]
    BY <1>5 DEF InsertMember
  <2>2. /\ tx'[r].houses = tx[r].houses
        /\ tx'[r].users = tx[r].users
        /\ tx'[r].members = S
    BY <1>0, <1>1, <2>1 DEF TypeOK, Inserts
  <2>3. pc'[r] = "commit" /\ UNCHANGED <<house, users>>
    BY <1>0, <1>5 DEF InsertMember, TypeOK
  <2> QED
    BY <1>0, <2>2, <2>3 DEF MoverTx, TxInv, Apart
<1>6. CASE /\ tx' = tx
           /\ pc[r] \notin {"insertMember", "commit"}
           /\ pc'[r] \notin {"insertMember", "commit"}
  BY <1>0, <1>6 DEF MoverTx, TxInv, NoInserts
<1>7. CASE ReadForRename(r) \/ Guard(r) \/ CheckCaller(r) \/ AddMember(r)
  BY <1>0, <1>6, <1>7
  DEF ReadForRename, Guard, AfterGuard, CheckCaller, AddMember, TypeOK
<1>8. CASE CountAdmins(r) \/ CheckTarget(r) \/ RemoveMember(r) \/ SubmitCreate(r)
  BY <1>0, <1>6, <1>8 DEF CountAdmins, CheckTarget, RemoveMember, SubmitCreate, TypeOK
<1>9. CASE UpdateHouseholdName(r) \/ DeactivateHousehold(r) \/ DeactivateUser(r)
  BY <1>0, <1>6, <1>9
  DEF UpdateHouseholdName, DeactivateHousehold, DeactivateUser, TypeOK
<1> QED
  BY <1>2, <1>3, <1>4, <1>5, <1>7, <1>8, <1>9 DEF Handle

\* Who is past the guard was let through, or was before.
LEMMA MoverGuarded ==
    ASSUME Inv, NEW r \in Requests, Handle(r),
           pc'[r] \notin {"start", "read", "done"}, job[r].op \in AdminOps
    PROVE  member[job[r].house][job[r].caller] \in {"ADMIN", "removed"}
<1>0. TypeOK /\ StepInv
  BY DEF Inv, Safe
<1>1. CASE pc[r] \notin {"start", "read", "done"}
  BY <1>1 DEF Inv, Guarded
<1>2. CASE Guard(r)
  BY <1>0, <1>2 DEF Guard, IsAdmin, RoleIn, Answer, TypeOK
<1>3. CASE ReadForRename(r)
  BY <1>0, <1>3 DEF ReadForRename, Answer, Goto, TypeOK
<1>4. CASE Fail(r)
  BY <1>0, <1>4 DEF Fail, Answer, TypeOK
<1> QED
  BY <1>1, <1>2, <1>3, <1>4
  DEF Handle, CheckCaller, AddMember, CountAdmins, CheckTarget, RemoveMember,
      SubmitCreate, InsertHousehold, InsertUser, InsertMember, CommitTx,
      UpdateHouseholdName, DeactivateHousehold, DeactivateUser, AdminOps

\* Every step keeps the invariant.
LEMMA NextInv == Inv /\ [Next]_vars => Inv'
<1> SUFFICES ASSUME Inv, [Next]_vars PROVE Inv'
  OBVIOUS
<1>0. TypeOK /\ StepInv /\ Safe'
  BY NextSafe DEF Inv, Safe
<1>1. CASE UNCHANGED vars
  <2>1. TxInv' /\ Apart'
    BY <1>1 DEF vars, Inv, TxInv, Apart
  <2>2. Complete' /\ Guarded'
    BY <1>1 DEF vars, Inv, Complete, Guarded
  <2>3. BornWithMember' /\ MembersAreUsers'
    BY <1>1 DEF vars, Inv, BornWithMember, MembersAreUsers
  <2> QED
    BY <1>0, <2>1, <2>2, <2>3 DEF Inv
<1>2. ASSUME NEW r \in Requests, Handle(r) PROVE Inv'
  <2>1. RowsStep(r) /\ MoverTx(r)
    BY <1>2, RowsMoveOn, MoverTxKept
  <2>2. /\ job' = job
        /\ \A s \in Requests \ {r} : pc'[s] = pc[s] /\ tx'[s] = tx[s]
    BY <1>0, <1>2, OthersStay, JobsStay
  <2>3. ASSUME NEW s \in Requests, s # r
        PROVE  /\ \A h \in tx[s].houses : house'[h].status = "absent"
               /\ \A u \in tx[s].users : u \notin users'
    <3>1. /\ tx[s].houses \subseteq Households
          /\ tx[r].houses \cap tx[s].houses = {}
          /\ tx[r].users \cap tx[s].users = {}
      BY <1>0, <2>3 DEF Inv, Apart, TypeOK, Inserts
    <3>2. /\ \A h \in tx[s].houses : house[h].status = "absent"
          /\ \A u \in tx[s].users : u \notin users
      BY DEF Inv, TxInv
    <3> QED
      BY <2>1, <3>1, <3>2 DEF RowsStep, HouseStep, UserStep
  <2>4. TxInv'
    BY <2>1, <2>2, <2>3 DEF Inv, TxInv, MoverTx
  <2>5. Apart'
    BY <2>1, <2>2 DEF Inv, Apart, MoverTx
  <2>6. Complete'
    <3>1. ASSUME NEW s \in Requests, s # r, pc'[s] = "commit"
          PROVE  tx'[s].members =
                     IF job'[s].op = "create"
                     THEN {<<h, job'[s].caller, "ADMIN">> : h \in tx'[s].houses}
                     ELSE {<<job'[s].house, u, "MEMBER">> : u \in tx'[s].users}
      <4>1. pc[s] = "commit" /\ tx'[s] = tx[s]
        BY <2>2, <3>1
      <4> QED
        BY <2>2, <4>1 DEF Inv, Complete
    <3>2. pc'[r] = "commit" =>
            tx'[r].members =
                IF job'[r].op = "create"
                THEN {<<h, job'[r].caller, "ADMIN">> : h \in tx'[r].houses}
                ELSE {<<job'[r].house, u, "MEMBER">> : u \in tx'[r].users}
      BY <2>1, <2>2 DEF MoverTx
    <3> QED
      BY <3>1, <3>2 DEF Complete
  <2>7. BornWithMember'
    <3>1. ASSUME NEW h \in Households
          PROVE  house'[h].status # "absent" <=> \E u \in Users : member'[h][u] # "none"
      <4>1. house[h].status # "absent" <=> \E u \in Users : member[h][u] # "none"
        BY DEF Inv, BornWithMember
      <4>2. \A u \in Users : MemberStep(h, u)
        BY <2>1 DEF RowsStep
      <4>3. \A u \in Users : member[h][u] # "none" => member'[h][u] # "none"
        BY <4>2 DEF MemberStep, Roles
      <4>4. HouseStep(r, h)
        BY <2>1 DEF RowsStep
      <4>5. house[h].status # "absent" => house'[h].status # "absent"
        BY <4>4 DEF HouseStep, NewHouse
      <4>6. ASSUME house'[h].status # "absent"
            PROVE  \E u \in Users : member'[h][u] # "none"
        BY <4>1, <4>3, <4>4, <4>6 DEF HouseStep
      <4>7. ASSUME NEW u \in Users, member'[h][u] # "none"
            PROVE  house'[h].status # "absent"
        BY <4>1, <4>2, <4>5, <4>7 DEF MemberStep, Roles
      <4> QED
        BY <4>6, <4>7
    <3>2. ASSUME NEW u \in users' \ FirstUsers
          PROVE  \E h \in Households : member'[h][u] # "none"
      <4>1. u \in Users
        BY <1>0 DEF Safe, TypeOK
      <4>2. CASE u \in users
        <5>1. PICK h \in Households : member[h][u] # "none"
          BY <3>2, <4>2 DEF Inv, BornWithMember
        <5>2. MemberStep(h, u)
          BY <2>1, <4>1 DEF RowsStep
        <5>3. member'[h][u] # "none"
          BY <5>1, <5>2 DEF MemberStep
        <5> QED
          BY <5>3
      <4>3. CASE u \notin users
        BY <2>1, <3>2, <4>3 DEF RowsStep, UserStep
      <4> QED
        BY <4>2, <4>3
    <3> QED
      BY <3>1, <3>2 DEF BornWithMember
  <2>8. MembersAreUsers'
    <3>1. users \subseteq users'
      BY <2>1 DEF RowsStep, UserStep
    <3>2. ASSUME NEW h \in Households, NEW u \in Users, member'[h][u] # "none"
          PROVE  u \in users'
      <4>1. MemberStep(h, u)
        BY <2>1 DEF RowsStep
      <4>2. member[h][u] # "none" => u \in users
        BY DEF Inv, MembersAreUsers
      <4> QED
        BY <3>1, <3>2, <4>1, <4>2 DEF MemberStep, Roles
    <3> QED
      BY <3>1, <3>2 DEF Inv, MembersAreUsers
  <2>9. Guarded'
    <3>1. ASSUME NEW s \in Requests, pc'[s] \notin {"start", "read", "done"},
                 job[s].op \in AdminOps
          PROVE  member'[job[s].house][job[s].caller] \in {"ADMIN", "removed"}
      <4>1. job[s].house \in Households /\ job[s].caller \in Users
        BY <1>0, JobType
      <4>2. member[job[s].house][job[s].caller] \in {"ADMIN", "removed"}
        BY <1>2, <2>2, <3>1, MoverGuarded DEF Inv, Guarded
      <4>3. MemberStep(job[s].house, job[s].caller)
        BY <2>1, <4>1 DEF RowsStep
      <4> QED
        BY <4>2, <4>3 DEF MemberStep, Roles
    <3> QED
      BY <2>2, <3>1 DEF Guarded
  <2> QED
    BY <1>0, <2>4, <2>5, <2>6, <2>7, <2>8, <2>9 DEF Inv
<1> QED
  BY <1>1, <1>2 DEF Next, Finished

\* The invariant holds in every reachable state.
LEMMA AlwaysInv == Spec => []Inv
BY InitInv, NextInv, PTL DEF Spec

\* Every variable has its type in every reachable state.
THEOREM TypeCorrect == Spec => []TypeOK
<1>1. Inv => TypeOK
  BY DEF Inv, Safe
<1> QED
  BY <1>1, AlwaysInv, PTL

\* A household is never there without a first member, nor a user created inside
\* one without a membership, wherever the transaction stops.
THEOREM BornTogether == Spec => []BornWithMember
<1>1. Inv => BornWithMember
  BY DEF Inv
<1> QED
  BY <1>1, AlwaysInv, PTL

\* What a request changes in a household, it changes for one who was its admin
\* when the request was let through.
THEOREM AdminsAct == Spec => ActsForAdmin
<1>1. ASSUME Inv, [Next]_vars PROVE [ActsForAdminStep]_vars
  <2>1. ASSUME NEW r \in Requests,
               pc[r] # "done", pc'[r] = "done", job[r].op \in AdminOps, rows' # rows
        PROVE  member[job[r].house][job[r].caller] \in {"ADMIN", "removed"}
    <3>0. TypeOK
      BY <1>1 DEF Inv, Safe
    <3>1. PICK s \in Requests : Handle(s)
      BY <1>1, <2>1 DEF Next, Finished, vars
    <3>2. s = r
      BY <2>1, <3>0, <3>1, OthersStay
    <3>3. pc[r] \notin {"start", "read"}
      <4> USE DEF rows
      <4>1. CASE ReadForRename(r) \/ Guard(r) \/ SubmitCreate(r) \/ Fail(r)
        BY <2>1, <4>1 DEF ReadForRename, Guard, SubmitCreate, Fail, Rollback
      <4>2. CASE DeactivateUser(r)
        BY <2>1, <4>2 DEF DeactivateUser, AdminOps
      <4> QED
        BY <3>1, <3>2, <4>1, <4>2
        DEF Handle, CheckCaller, AddMember, CountAdmins, CheckTarget, RemoveMember,
            InsertHousehold, InsertUser, InsertMember, CommitTx,
            UpdateHouseholdName, DeactivateHousehold
    <3> QED
      BY <1>1, <2>1, <3>3 DEF Inv, Guarded
  <2> QED
    BY <2>1 DEF ActsForAdminStep
<1> QED
  BY <1>1, AlwaysInv, PTL DEF Spec, ActsForAdmin
-----------------------------------------------------------------------------
\* The removal of admins, and renames.

\* A removal that has passed the checks either counted two admins or is of a user
\* who is none.  A plain member cannot become one, nor can a removed one return.
RemoveInv ==
    \A r \in Requests :
        pc[r] = "write" /\ job[r].op = "remove" =>
            \/ counted[r] > 1
            \/ member[job[r].house][job[r].target] \in {"MEMBER", "removed"}

\* Every step keeps what the removals rest on.
LEMMA NextRemove == Inv /\ RemoveInv /\ [Next]_vars => RemoveInv'
<1> SUFFICES ASSUME Inv, RemoveInv, [Next]_vars PROVE RemoveInv'
  OBVIOUS
<1>0. TypeOK /\ StepInv
  BY DEF Inv, Safe
<1>1. CASE UNCHANGED vars
  BY <1>1 DEF vars, RemoveInv
<1>2. ASSUME NEW r \in Requests, Handle(r) PROVE RemoveInv'
  <2>1. RowsStep(r) /\ job' = job
    BY <1>2, RowsMoveOn, JobsStay
  <2>2. ASSUME NEW s \in Requests, pc'[s] = "write", job[s].op = "remove"
        PROVE  \/ counted'[s] > 1
               \/ member'[job[s].house][job[s].target] \in {"MEMBER", "removed"}
    <3> DEFINE now == member[job[s].house][job[s].target]
    <3>1. job[s].house \in Households /\ job[s].target \in Users
      BY <1>0, JobType
    <3>2. now \in Standing
      BY <1>0, <3>1 DEF TypeOK
    <3>3. MemberStep(job[s].house, job[s].target)
      BY <2>1, <3>1 DEF RowsStep
    <3>4. now \in {"MEMBER", "removed"} =>
            member'[job[s].house][job[s].target] \in {"MEMBER", "removed"}
      <4>1. CASE now = "MEMBER"
        BY <2>1, <3>3, <4>1 DEF MemberStep, Roles
      <4>2. CASE now = "removed"
        BY <3>3, <4>2 DEF MemberStep, Roles
      <4> QED
        BY <4>1, <4>2
    <3>5. counted'[s] > 1 \/ now \in {"MEMBER", "removed"}
      <4>1. CASE s # r
        <5>1. pc'[s] = pc[s] /\ counted'[s] = counted[s]
          BY <1>0, <1>2, <4>1, OthersStay
        <5> QED
          BY <2>2, <5>1 DEF RemoveInv
      <4>2. CASE s = r
        <5> USE DEF Goto, Answer, AnswerWritten
        <5>1. CASE CheckTarget(r)
          <6>1. /\ RoleIn(job[r].house, job[r].target) # "none"
                /\ ~IsLast(r)
                /\ counted' = counted
            BY <1>0, <2>2, <4>2, <5>1 DEF CheckTarget, TypeOK
          <6>2. now \in Roles
            BY <4>2, <6>1 DEF RoleIn
          <6>3. now = "ADMIN" => counted[r] > 1
            <7>1. counted[r] \in Nat
              BY <1>0 DEF TypeOK
            <7> QED
              BY <4>2, <6>1, <7>1 DEF IsLast, IsAdmin, RoleIn, Roles
          <6> QED
            BY <4>2, <6>1, <6>2, <6>3 DEF Roles
        <5>2. CASE Guard(r) \/ ReadForRename(r) \/ CheckCaller(r) \/ CountAdmins(r)
          BY <1>0, <2>2, <4>2, <5>2
          DEF Guard, AfterGuard, AdminOps, ReadForRename, CheckCaller, CountAdmins,
              TypeOK, StepInv
        <5>3. CASE AddMember(r) \/ RemoveMember(r) \/ CommitTx(r) \/ Fail(r)
          BY <1>0, <2>2, <4>2, <5>3 DEF AddMember, RemoveMember, CommitTx, Fail, TypeOK
        <5>4. CASE SubmitCreate(r) \/ InsertHousehold(r) \/ InsertUser(r) \/ InsertMember(r)
          BY <1>0, <2>2, <4>2, <5>4
          DEF SubmitCreate, InsertHousehold, InsertUser, InsertMember, TypeOK
        <5>5. CASE UpdateHouseholdName(r) \/ DeactivateHousehold(r) \/ DeactivateUser(r)
          BY <1>0, <2>2, <4>2, <5>5
          DEF UpdateHouseholdName, DeactivateHousehold, DeactivateUser, TypeOK
        <5> QED
          BY <1>2, <5>1, <5>2, <5>3, <5>4, <5>5 DEF Handle
      <4> QED
        BY <4>1, <4>2
    <3> QED
      BY <3>4, <3>5
  <2> QED
    BY <2>1, <2>2 DEF RemoveInv
<1> QED
  BY <1>1, <1>2 DEF Next, Finished

\* The last admin is taken away only by a removal that had counted another.
THEOREM LastAdminByOverlap == Spec => LastAdminOnlyByOverlap
<1>1. Init => RemoveInv
  BY DEF Init, RemoveInv
<1>2. ASSUME Inv, RemoveInv, [Next]_vars PROVE [LastAdminStep]_vars
  <2>1. ASSUME NEW r \in Requests, RemoveMember(r), job[r].target \in Admins(job[r].house)
        PROVE  counted[r] > 1
    <3>1. member[job[r].house][job[r].target] = "ADMIN"
      BY <2>1 DEF Admins, RoleIn
    <3> QED
      BY <1>2, <2>1, <3>1 DEF RemoveMember, RemoveInv
  <2> QED
    BY <2>1 DEF LastAdminStep
<1> QED
  BY <1>1, <1>2, AlwaysInv, NextRemove, PTL DEF Spec, LastAdminOnlyByOverlap

\* A membership is removed by the removal that names it and by nothing else.
LEMMA OnlyRemovalRemoves ==
    ASSUME Inv, NEW r \in Requests, Handle(r), NEW h \in Households, NEW u \in Users,
           member[h][u] \in Roles, member'[h][u] = "removed"
    PROVE  RemoveMember(r) /\ job[r].house = h /\ job[r].target = u
<1>0. TypeOK /\ StepInv
  BY DEF Inv, Safe
<1>1. member' # member
  BY DEF Roles
<1>2. CASE RemoveMember(r)
  BY <1>0, <1>1, <1>2 DEF RemoveMember, Roles, TypeOK
<1>3. CASE AddMember(r)
  BY <1>0, <1>1, <1>3 DEF AddMember, RoleAccepted, Roles, TypeOK, rows
<1>4. CASE CommitTx(r)
  <2>1. member'[h][u] = IF \E role \in Roles : <<h, u, role>> \in tx[r].members
                        THEN CHOOSE role \in Roles : <<h, u, role>> \in tx[r].members
                        ELSE member[h][u]
    BY <1>4 DEF CommitTx, Publish
  <2> QED
    BY <2>1 DEF Roles
<1> QED
  BY <1>1, <1>2, <1>3, <1>4
  DEF Handle, ReadForRename, Guard, CheckCaller, CountAdmins, CheckTarget,
      SubmitCreate, InsertHousehold, InsertUser, InsertMember, UpdateHouseholdName,
      DeactivateHousehold, DeactivateUser, Fail, Rollback, rows

\* A household that can be administered stays so, but for the deactivation of a user
\* and for a removal that had counted two admins.
THEOREM AbleAdminLost == Spec => AbleAdminLostOnlySo
<1>1. Init => RemoveInv
  BY DEF Init, RemoveInv
<1>2. ASSUME Inv, RemoveInv, [Next]_vars PROVE [AbleAdminStep]_vars
  <2>1. ASSUME NEW h \in Households, AbleAdmins(h) # {}, AbleAdmins(h)' = {}
        PROVE  \E r \in Requests :
                   \/ DeactivateUser(r)
                   \/ RemoveMember(r) /\ counted[r] > 1
    <3>0. TypeOK /\ StepInv
      BY <1>2 DEF Inv, Safe
    <3>1. PICK u \in Users : member[h][u] = "ADMIN" /\ u \notin closed
      BY <2>1 DEF AbleAdmins, Admins, RoleIn
    <3>2. ~(member'[h][u] = "ADMIN" /\ u \notin closed')
      BY <2>1 DEF AbleAdmins, Admins, RoleIn, Roles
    <3>3. ~UNCHANGED vars
      BY <3>1, <3>2 DEF vars
    <3>4. PICK r \in Requests : Handle(r)
      BY <1>2, <3>3 DEF Next, Finished
    <3>5. CASE DeactivateUser(r)
      BY <3>5
    <3>6. CASE ~DeactivateUser(r)
      <4>1. closed' = closed
        BY <3>4, <3>6
        DEF Handle, ReadForRename, Guard, CheckCaller, AddMember, CountAdmins,
            CheckTarget, RemoveMember, SubmitCreate, InsertHousehold, InsertUser,
            InsertMember, CommitTx, Publish, UpdateHouseholdName,
            DeactivateHousehold, Fail, Rollback, rows
      <4>2. MemberStep(h, u)
        BY <1>2, <3>4, RowsMoveOn DEF RowsStep
      <4>3. member[h][u] \in Roles /\ member'[h][u] = "removed"
        BY <3>1, <3>2, <4>1, <4>2 DEF MemberStep
      <4>4. RemoveMember(r) /\ job[r].house = h /\ job[r].target = u
        BY <1>2, <3>0, <3>4, <4>3, OnlyRemovalRemoves
      <4>5. counted[r] > 1
        BY <1>2, <3>1, <4>4 DEF RemoveMember, RemoveInv
      <4> QED
        BY <4>4, <4>5
    <3> QED
      BY <3>5, <3>6
  <2> QED
    BY <2>1 DEF AbleAdminStep
<1> QED
  BY <1>1, <1>2, AlwaysInv, NextRemove, PTL DEF Spec, AbleAdminLostOnlySo

\* Nothing changes the row of a deactivated household.
THEOREM ClosedStaysClosed == Spec => ClosedForGood
<1>1. ASSUME Inv, [Next]_vars PROVE [ClosedStep]_vars
  <2>1. ASSUME NEW h \in Households, house[h].status = "deleted"
        PROVE  house'[h] = house[h]
    <3>1. CASE UNCHANGED vars
      BY <3>1 DEF vars
    <3>2. ASSUME NEW r \in Requests, Handle(r) PROVE house'[h] = house[h]
      <4>1. HouseStep(r, h)
        BY <1>1, <3>2, RowsMoveOn DEF RowsStep
      <4>2. h \notin tx[r].houses
        BY <1>1, <2>1 DEF Inv, TxInv
      <4> QED
        BY <2>1, <4>1, <4>2 DEF HouseStep
    <3> QED
      BY <1>1, <3>1, <3>2 DEF Next, Finished
  <2> QED
    BY <2>1 DEF ClosedStep
<1> QED
  BY <1>1, AlwaysInv, PTL DEF Spec, ClosedForGood

\* The row a renaming client read is not newer than the household's, and is the
\* same if the version is.
Pins(now, old) ==
    /\ now.status # "absent"
    /\ old.version <= now.version
    /\ old.version = now.version => old.name = now.name

SeenInv ==
    \A r \in Requests :
        pc[r] \in {"read", "write"} /\ job[r].op = "rename"
            => Pins(house[job[r].house], seen[r])

\* Whatever steps, the row a client read stays behind the household's.
LEMMA StepPins ==
    ASSUME Inv, NEW r \in Requests, RowsStep(r), NEW h \in Households,
           NEW old \in HouseRow, Pins(house[h], old), Safe'
    PROVE  Pins(house'[h], old)
<1>1. HouseStep(r, h)
  BY DEF RowsStep
<1>2. house[h] \in HouseRow
  BY DEF Inv, Safe, TypeOK
<1>3. /\ old.version \in Nat /\ house[h].version \in Nat
      /\ house'[h].version \in Nat
  <2>1. house'[h] \in HouseRow
    BY DEF Safe, TypeOK
  <2> QED
    BY <1>2, <2>1 DEF HouseRow
<1>4. CASE house'[h] = house[h]
  BY <1>4
<1>5. h \notin tx[r].houses
  BY DEF Inv, TxInv, Pins
<1>6. CASE /\ house'[h].status # "absent"
           /\ house'[h].version >= house[h].version
           /\ house'[h].version = house[h].version => house'[h].name = house[h].name
  BY <1>3, <1>6 DEF Pins
<1> QED
  BY <1>1, <1>4, <1>5, <1>6 DEF HouseStep

\* Every step keeps what the renames rest on.
LEMMA NextSeen == Inv /\ SeenInv /\ [Next]_vars => SeenInv'
<1> SUFFICES ASSUME Inv, SeenInv, [Next]_vars PROVE SeenInv'
  OBVIOUS
<1>0. TypeOK /\ StepInv /\ Safe'
  BY NextSafe DEF Inv, Safe
<1>1. CASE UNCHANGED vars
  BY <1>1 DEF vars, SeenInv, Pins
<1>2. ASSUME NEW r \in Requests, Handle(r) PROVE SeenInv'
  <2>1. RowsStep(r) /\ job' = job
    BY <1>2, RowsMoveOn, JobsStay
  <2>2. ASSUME NEW s \in Requests, pc'[s] \in {"read", "write"}, job[s].op = "rename"
        PROVE  Pins(house'[job[s].house], seen'[s])
    <3>1. job[s].house \in Households /\ seen[s] \in HouseRow
      BY <1>0, JobType DEF TypeOK
    <3>2. CASE pc[s] \in {"read", "write"} /\ seen'[s] = seen[s]
      BY <1>0, <2>1, <2>2, <3>1, <3>2, StepPins DEF SeenInv
    <3>3. CASE s # r
      BY <1>0, <1>2, <2>2, <3>2, <3>3, OthersStay
    <3>4. CASE s = r
      <4> USE DEF Goto, Answer, AnswerWritten
      <4>1. CASE ReadForRename(r)
        <5>1. /\ house[job[r].house].status = "active"
              /\ seen'[r] = house[job[r].house]
              /\ house' = house
          BY <1>0, <2>2, <3>4, <4>1 DEF ReadForRename, TypeOK, rows
        <5>2. house[job[r].house].version \in Nat
          <6>1. house[job[r].house] \in HouseRow
            BY <1>0, <3>1, <3>4 DEF TypeOK
          <6> QED
            BY <6>1 DEF HouseRow
        <5> QED
          BY <3>4, <5>1, <5>2 DEF Pins
      <4>2. CASE Guard(r)
        <5>1. pc[r] = "read" /\ seen' = seen
          BY <1>0, <2>2, <3>4, <4>2 DEF Guard
        <5> QED
          BY <3>2, <3>4, <5>1
      <4>3. CASE CheckCaller(r) \/ CountAdmins(r) \/ CheckTarget(r) \/ SubmitCreate(r)
        BY <1>0, <2>2, <3>4, <4>3
        DEF CheckCaller, CountAdmins, CheckTarget, SubmitCreate, TypeOK, StepInv
      <4>4. CASE AddMember(r) \/ RemoveMember(r) \/ CommitTx(r) \/ Fail(r)
        BY <1>0, <2>2, <3>4, <4>4 DEF AddMember, RemoveMember, CommitTx, Fail, TypeOK
      <4>5. CASE InsertHousehold(r) \/ InsertUser(r) \/ InsertMember(r)
        BY <1>0, <2>2, <3>4, <4>5
        DEF InsertHousehold, InsertUser, InsertMember, TypeOK
      <4>6. CASE UpdateHouseholdName(r) \/ DeactivateHousehold(r) \/ DeactivateUser(r)
        BY <1>0, <2>2, <3>4, <4>6
        DEF UpdateHouseholdName, DeactivateHousehold, DeactivateUser, TypeOK
      <4> QED
        BY <1>2, <4>1, <4>2, <4>3, <4>4, <4>5, <4>6 DEF Handle
    <3> QED
      BY <3>3, <3>4
  <2> QED
    BY <2>1, <2>2 DEF SeenInv
<1> QED
  BY <1>1, <1>2 DEF Next, Finished

\* A rename replaces the name its client read.
THEOREM RenamesSeen == Spec => NoRenameLost
<1>1. Init => SeenInv
  BY DEF Init, SeenInv
<1>2. ASSUME Inv, SeenInv, [Next]_vars PROVE [RenameStep]_vars
  <2>1. ASSUME NEW r \in Requests, UpdateHouseholdName(r), house' # house
        PROVE  house[job[r].house].name = seen[r].name
    <3>1. /\ pc[r] = "write" /\ job[r].op = "rename"
          /\ house[job[r].house].version = seen[r].version
      BY <2>1 DEF UpdateHouseholdName
    <3> QED
      BY <1>2, <3>1 DEF SeenInv, Pins
  <2> QED
    BY <2>1 DEF RenameStep
<1> QED
  BY <1>1, <1>2, AlwaysInv, NextSeen, PTL DEF Spec, NoRenameLost
=============================================================================
