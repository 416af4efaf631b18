---------------------------- MODULE UsersProofs ----------------------------
(***************************************************************************)
(* Theorems about Users for every set of users, addresses, passwords,      *)
(* requests and jobs.                                                      *)
(***************************************************************************)
EXTENDS Users, TLAPS

\* What the statements make of rows are rows.
LEMMA RowTypes ==
    /\ NoRow \in Row
    /\ \A e \in Emails, p \in Passwords : NewRow(e, p) \in Row
    /\ \A old \in Row :
          /\ \A r \in Requests : [Edited(old) EXCEPT !.name = r] \in Row
          /\ \A p \in Passwords : [Edited(old) EXCEPT !.password = p] \in Row
          /\ [old EXCEPT !.status = "deleted"] \in Row
<1>1. NoRow \in Row
  BY UsersAssumption DEF NoRow, Row
<1>2. \A e \in Emails, p \in Passwords : NewRow(e, p) \in Row
  BY DEF NewRow, Row
<1>3. ASSUME NEW old \in Row
      PROVE  /\ \A r \in Requests : [Edited(old) EXCEPT !.name = r] \in Row
             /\ \A p \in Passwords : [Edited(old) EXCEPT !.password = p] \in Row
             /\ [old EXCEPT !.status = "deleted"] \in Row
  <2>1. Edited(old) \in Row
    BY DEF Edited, Row
  <2> QED
    BY <2>1 DEF Row
<1> QED
  BY <1>1, <1>2, <1>3

\* The parts of a job are of their types.
LEMMA JobTypes ==
    ASSUME TypeOK, NEW r \in Requests
    PROVE  /\ job[r] \in Job
           /\ job[r].target \in Users
           /\ job[r].email \in Emails
           /\ job[r].new \in Passwords
           /\ r \in Users
  BY UsersAssumption DEF TypeOK, Job, Users

\* The values of every variable are of its type in every reachable state.
THEOREM TypeCorrect == Spec => []TypeOK
<1>1. Init => TypeOK
  <2> SUFFICES ASSUME Init PROVE TypeOK
    OBVIOUS
  <2>1. \A u \in FirstUsers : NewRow(FirstEmail[u], FirstPassword) \in Row
    BY RowTypes, UsersAssumption
  <2>2. user \in [Users -> Row]
    BY <2>1, RowTypes DEF Init
  <2> QED
    BY <2>2, RowTypes DEF Init, TypeOK, Steps, Replies, Users
<1>2. TypeOK /\ [Next]_vars => TypeOK'
  <2> SUFFICES ASSUME TypeOK, [Next]_vars PROVE TypeOK'
    OBVIOUS
  <2>1. CASE UNCHANGED vars
    BY <2>1 DEF TypeOK, vars
  <2>2. ASSUME NEW r \in Requests, Handle(r) \/ Fail(r) PROVE TypeOK'
    <3>1. CASE ReadUser(r)
      BY <3>1, JobTypes DEF TypeOK, ReadUser, rows, Goto, Answer, Steps, Replies
    <3>2. CASE FindAndVerify(r)
      BY <3>2 DEF TypeOK, FindAndVerify, rows, Goto, Answer, Steps, Replies
    <3>3. CASE VersionConflict(r)
      BY <3>3 DEF TypeOK, VersionConflict, rows, Answer, Steps, Replies
    <3>4. CASE UpdateUserProfile(r)
      BY <3>4, JobTypes, RowTypes
      DEF TypeOK, UpdateUserProfile, AnswerWritten, Answer, Steps, Replies
    <3>5. CASE ChangeUserPassword(r)
      BY <3>5, JobTypes, RowTypes
      DEF TypeOK, ChangeUserPassword, AnswerWritten, Answer, Steps, Replies
    <3>6. CASE DeactivateUser(r)
      BY <3>6, JobTypes, RowTypes
      DEF TypeOK, DeactivateUser, AnswerWritten, Answer, Steps, Replies
    <3>7. CASE SubmitRegister(r)
      BY <3>7 DEF TypeOK, SubmitRegister, rows, Goto, Answer, Steps, Replies
    <3>8. CASE AnyUserExists(r)
      BY <3>8 DEF TypeOK, AnyUserExists, rows, Goto, Answer, Steps, Replies
    <3>9. CASE CreateUser(r)
      BY <3>9 DEF TypeOK, CreateUser, Rollback, rows, Goto, Answer, Steps, Replies
    <3>10. CASE InsertHome(r)
      BY <3>10 DEF TypeOK, InsertHome, rows, Goto, Steps
    <3>11. CASE CommitTx(r)
      <4>1. Inserted(r) \in Row
        BY JobTypes, RowTypes DEF Inserted
      <4> QED
        BY <3>11, <4>1, JobTypes
        DEF TypeOK, CommitTx, AnswerWritten, Answer, Steps, Replies
    <3>12. CASE Fail(r)
      BY <3>12 DEF TypeOK, Fail, Rollback, rows, Answer, Steps, Replies
    <3> QED
      BY <2>2, <3>1, <3>2, <3>3, <3>4, <3>5, <3>6, <3>7, <3>8, <3>9, <3>10, <3>11, <3>12
      DEF Handle
  <2> QED
    BY <2>1, <2>2 DEF Next, Finished
<1> QED
  BY <1>1, <1>2, PTL DEF Spec

-----------------------------------------------------------------------------

(***************************************************************************)
(* Where a request stands: only an open transaction has inserted a user,   *)
(* and the id of a request is no user's before its COMMIT.                 *)
(***************************************************************************)
StepInv ==
    \A r \in Requests :
        /\ "users" \in tx[r] <=> pc[r] \in {"insertHome", "commit"}
        /\ pc[r] # "done" => user[r].status = "absent" /\ r \notin belongs

\* No two rows, be they committed or inserted by an open transaction, have one
\* address.
AddressInv ==
    /\ LoginUnambiguous
    /\ \A r \in Requests : "users" \in tx[r] =>
          /\ ~EmailTaken(job[r].email)
          /\ \A s \in Requests \ {r} : "users" \in tx[s] => job[s].email # job[r].email

\* A user appears at the COMMIT of its request, which ends it.
LEMMA NextStep == TypeOK /\ StepInv /\ [Next]_vars => StepInv'
<1> SUFFICES ASSUME TypeOK, StepInv, [Next]_vars PROVE StepInv'
  OBVIOUS
<1>1. CASE UNCHANGED vars
  BY <1>1 DEF StepInv, vars
<1>2. ASSUME NEW r \in Requests, Handle(r) \/ Fail(r) PROVE StepInv'
  <2>0. \A s \in Requests : s \in Users
    BY DEF Users
  <2>1. CASE ReadUser(r)
    BY <2>1 DEF TypeOK, StepInv, ReadUser, rows, Goto, Answer
  <2>2. CASE FindAndVerify(r)
    BY <2>2 DEF TypeOK, StepInv, FindAndVerify, rows, Goto, Answer
  <2>3. CASE VersionConflict(r)
    BY <2>3 DEF TypeOK, StepInv, VersionConflict, rows, Answer
  <2>4. ASSUME NEW u \in Users, Active(u),
               \A v \in Users \ {u} : user'[v] = user[v],
               UNCHANGED <<belongs, tx>>,
               pc[r] \in {"start", "write"}, pc' = [pc EXCEPT ![r] = "done"]
        PROVE  StepInv'
    BY <2>0, <2>4 DEF TypeOK, StepInv, Active
  <2>5. CASE UpdateUserProfile(r)
    BY <2>4, <2>5, JobTypes
    DEF UpdateUserProfile, MatchesExpected, AnswerWritten, Answer, TypeOK
  <2>6. CASE ChangeUserPassword(r)
    BY <2>4, <2>6, JobTypes
    DEF ChangeUserPassword, MatchesExpected, AnswerWritten, Answer, TypeOK
  <2>7. CASE DeactivateUser(r)
    <3>1. CASE Active(job[r].target)
      BY <2>4, <2>7, <3>1, JobTypes DEF DeactivateUser, AnswerWritten, Answer, TypeOK
    <3>2. CASE ~Active(job[r].target)
      BY <2>7, <3>2 DEF TypeOK, StepInv, DeactivateUser, AnswerWritten, Answer
    <3> QED
      BY <3>1, <3>2
  <2>8. CASE SubmitRegister(r)
    BY <2>8 DEF TypeOK, StepInv, SubmitRegister, rows, Goto, Answer
  <2>9. CASE AnyUserExists(r)
    BY <2>9 DEF TypeOK, StepInv, AnyUserExists, rows, Goto, Answer
  <2>10. CASE CreateUser(r)
    BY <2>10 DEF TypeOK, StepInv, CreateUser, Rollback, rows, Goto, Answer
  <2>11. CASE InsertHome(r)
    BY <2>11 DEF TypeOK, StepInv, InsertHome, rows, Goto
  <2>12. CASE CommitTx(r)
    BY <2>0, <2>12 DEF TypeOK, StepInv, CommitTx, AnswerWritten, Answer
  <2>13. CASE Fail(r)
    BY <2>13 DEF TypeOK, StepInv, Fail, Rollback, rows, Answer
  <2> QED
    BY <1>2, <2>1, <2>2, <2>3, <2>5, <2>6, <2>7, <2>8, <2>9, <2>10, <2>11, <2>12, <2>13
    DEF Handle
<1> QED
  BY <1>1, <1>2 DEF Next, Finished

\* It holds in every reachable state.
LEMMA AlwaysStep == Spec => []StepInv
<1>1. Init => StepInv
  BY UsersAssumption DEF Init, StepInv, NoRow, Users
<1> QED
  BY <1>1, NextStep, TypeCorrect, PTL DEF Spec

-----------------------------------------------------------------------------

\* A step that makes no user active, changes no address, and inserts none.
LEMMA AddressesKept ==
    ASSUME TypeOK, AddressInv,
           \A u \in Users : Active(u)' => Active(u) /\ user'[u].email = user[u].email,
           \A s \in Requests : "users" \in tx'[s] => "users" \in tx[s],
           UNCHANGED job
    PROVE  AddressInv'
  BY DEF AddressInv, LoginUnambiguous, EmailTaken, Active

\* The unique index keeps addresses apart, because an INSERT waits for every other
\* that has the address until it is known whether its row will be there.
LEMMA NextAddress == TypeOK /\ StepInv /\ AddressInv /\ [Next]_vars => AddressInv'
<1> SUFFICES ASSUME TypeOK, StepInv, AddressInv, [Next]_vars PROVE AddressInv'
  OBVIOUS
<1>1. CASE UNCHANGED vars
  BY <1>1, AddressesKept DEF vars, Active
<1>2. ASSUME NEW r \in Requests, Handle(r) \/ Fail(r) PROVE AddressInv'
  <2>0. UNCHANGED job
    BY <1>2 DEF Handle, ReadUser, FindAndVerify, VersionConflict, UpdateUserProfile,
                ChangeUserPassword, DeactivateUser, SubmitRegister, AnyUserExists,
                CreateUser, InsertHome, CommitTx, Fail
  <2>1. ASSUME UNCHANGED <<user, tx>> PROVE AddressInv'
    BY <2>0, <2>1, AddressesKept DEF Active
  <2>2. CASE \/ ReadUser(r) \/ FindAndVerify(r) \/ VersionConflict(r)
             \/ SubmitRegister(r) \/ AnyUserExists(r)
    BY <2>1, <2>2 DEF ReadUser, FindAndVerify, VersionConflict, SubmitRegister,
                      AnyUserExists, rows
  <2>3. CASE UpdateUserProfile(r) \/ ChangeUserPassword(r) \/ DeactivateUser(r)
    <3>1. \A u \in Users :
             Active(u)' => Active(u) /\ user'[u].email = user[u].email
      <4>1. job[r].target \in Users /\ user[job[r].target] \in Row
        BY JobTypes DEF TypeOK
      <4>2. CASE UpdateUserProfile(r)
        BY <4>1, <4>2 DEF UpdateUserProfile, MatchesExpected, Active, Edited, TypeOK, Row
      <4>3. CASE ChangeUserPassword(r)
        BY <4>1, <4>3 DEF ChangeUserPassword, MatchesExpected, Active, Edited, TypeOK, Row
      <4>4. CASE DeactivateUser(r)
        BY <4>1, <4>4 DEF DeactivateUser, Active, TypeOK, Row
      <4> QED
        BY <2>3, <4>2, <4>3, <4>4
    <3> QED
      BY <2>0, <2>3, <3>1, AddressesKept
      DEF UpdateUserProfile, ChangeUserPassword, DeactivateUser
  <2>4. CASE CreateUser(r)
    <3>1. CASE EmailTaken(job[r].email)
      BY <2>0, <2>4, <3>1, AddressesKept DEF CreateUser, Rollback, rows, Active, TypeOK
    <3>2. CASE ~EmailTaken(job[r].email)
      <4>1. UNCHANGED user /\ tx' = [tx EXCEPT ![r] = {"users"}]
        BY <2>4, <3>2 DEF CreateUser, rows
      <4>2. \A s \in Requests \ {r} : "users" \in tx[s] => job[s].email # job[r].email
        BY <2>4 DEF CreateUser, EmailSettled
      <4> QED
        BY <2>0, <3>2, <4>1, <4>2
        DEF TypeOK, AddressInv, LoginUnambiguous, EmailTaken, Active
    <3> QED
      BY <3>1, <3>2
  <2>5. CASE InsertHome(r)
    <3>1. "users" \in tx[r]
      BY <2>5 DEF InsertHome, StepInv
    <3> QED
      BY <2>0, <2>5, <3>1, AddressesKept DEF InsertHome, rows, Active, TypeOK
  <2>6. CASE CommitTx(r)
    <3>1. "users" \in tx[r]
      BY <2>6 DEF CommitTx, StepInv
    <3>2. /\ r \in Users
          /\ user' = [user EXCEPT ![r] = NewRow(job[r].email, job[r].new)]
          /\ tx' = [tx EXCEPT ![r] = {}]
      BY <2>6, JobTypes DEF CommitTx, Inserted
    <3>3. /\ user'[r].status = "active" /\ user'[r].email = job[r].email
          /\ \A u \in Users \ {r} : user'[u] = user[u]
      BY <3>2 DEF NewRow, TypeOK
    <3>4. LoginUnambiguous'
      BY <3>1, <3>3 DEF AddressInv, LoginUnambiguous, EmailTaken, Active
    <3>5. ASSUME NEW s \in Requests, "users" \in tx'[s]
          PROVE  /\ ~EmailTaken(job[s].email)'
                 /\ \A q \in Requests \ {s} : "users" \in tx'[q] => job[q].email # job[s].email
      <4>1. s # r /\ "users" \in tx[s]
        BY <3>2, <3>5 DEF TypeOK
      <4>2. job[s].email # job[r].email
        BY <3>1, <4>1 DEF AddressInv
      <4> QED
        BY <2>0, <3>2, <3>3, <4>1, <4>2 DEF AddressInv, EmailTaken, Active, TypeOK
    <3> QED
      BY <2>0, <3>4, <3>5 DEF AddressInv
  <2>7. CASE Fail(r)
    BY <2>0, <2>7, AddressesKept DEF Fail, Rollback, rows, Active, TypeOK
  <2> QED
    BY <1>2, <2>2, <2>3, <2>4, <2>5, <2>6, <2>7 DEF Handle
<1> QED
  BY <1>1, <1>2 DEF Next, Finished

\* There are never two active users of one address.
THEOREM NoSecondAddress == Spec => []LoginUnambiguous
<1>1. Init => AddressInv
  BY UsersAssumption
  DEF Init, AddressInv, LoginUnambiguous, EmailTaken, Active, NoRow, NewRow, Users
<1>2. AddressInv => LoginUnambiguous
  BY DEF AddressInv
<1> QED
  BY <1>1, <1>2, NextAddress, AlwaysStep, TypeCorrect, PTL DEF Spec

-----------------------------------------------------------------------------

\* Nobody leaves household_members, and whoever enters users enters it too.
LEMMA NextHome == TypeOK /\ StepInv /\ NeverHalfSeeded /\ [Next]_vars => NeverHalfSeeded'
<1> SUFFICES ASSUME TypeOK, StepInv, NeverHalfSeeded, [Next]_vars
             PROVE  NeverHalfSeeded'
  OBVIOUS
<1>1. CASE UNCHANGED vars
  BY <1>1 DEF NeverHalfSeeded, Active, vars
<1>2. ASSUME NEW r \in Requests, Handle(r) \/ Fail(r) PROVE NeverHalfSeeded'
  <2>1. CASE ReadUser(r)
    BY <2>1 DEF NeverHalfSeeded, Active, TypeOK, ReadUser, rows, Goto, Answer
  <2>2. CASE FindAndVerify(r)
    BY <2>2 DEF NeverHalfSeeded, Active, TypeOK, FindAndVerify, rows, Goto, Answer
  <2>3. CASE VersionConflict(r)
    BY <2>3 DEF NeverHalfSeeded, Active, TypeOK, VersionConflict, rows, Answer
  <2>4. ASSUME NEW u \in Users, Active(u), UNCHANGED belongs,
               \A v \in Users \ {u} : user'[v] = user[v],
               NEW class \in {"ok", "error"}, reply' = [reply EXCEPT ![r] = class]
        PROVE  NeverHalfSeeded'
    BY <2>4 DEF NeverHalfSeeded, Active, TypeOK
  <2>5. CASE UpdateUserProfile(r)
    BY <2>4, <2>5, JobTypes
    DEF UpdateUserProfile, MatchesExpected, AnswerWritten, Answer, TypeOK
  <2>6. CASE ChangeUserPassword(r)
    BY <2>4, <2>6, JobTypes
    DEF ChangeUserPassword, MatchesExpected, AnswerWritten, Answer, TypeOK
  <2>7. CASE DeactivateUser(r)
    <3>1. CASE Active(job[r].target)
      BY <2>4, <2>7, <3>1, JobTypes DEF DeactivateUser, AnswerWritten, Answer, TypeOK
    <3>2. CASE ~Active(job[r].target)
      BY <2>7, <3>2
      DEF NeverHalfSeeded, Active, TypeOK, DeactivateUser, AnswerWritten, Answer
    <3> QED
      BY <3>1, <3>2
  <2>8. CASE SubmitRegister(r)
    BY <2>8 DEF NeverHalfSeeded, Active, TypeOK, SubmitRegister, rows, Goto, Answer
  <2>9. CASE AnyUserExists(r)
    BY <2>9 DEF NeverHalfSeeded, Active, TypeOK, AnyUserExists, rows, Goto, Answer
  <2>10. CASE CreateUser(r)
    BY <2>10 DEF NeverHalfSeeded, Active, TypeOK, CreateUser, Rollback, rows, Goto, Answer
  <2>11. CASE InsertHome(r)
    BY <2>11 DEF NeverHalfSeeded, Active, TypeOK, InsertHome, rows, Goto
  <2>12. CASE CommitTx(r)
    BY <2>12 DEF NeverHalfSeeded, Active, TypeOK, CommitTx, AnswerWritten, Answer
  <2>13. CASE Fail(r)
    BY <2>13 DEF NeverHalfSeeded, Active, TypeOK, Fail, Rollback, rows, Answer
  <2> QED
    BY <1>2, <2>1, <2>2, <2>3, <2>5, <2>6, <2>7, <2>8, <2>9, <2>10, <2>11, <2>12, <2>13
    DEF Handle
<1> QED
  BY <1>1, <1>2 DEF Next, Finished

\* No run of the seeder and no registration leaves a user without a household, and
\* "already seeded" is said of a database that has one.
THEOREM SeedsWhole == Spec => []NeverHalfSeeded
<1>1. Init => NeverHalfSeeded
  BY UsersAssumption DEF Init, NeverHalfSeeded, Active, NoRow
<1> QED
  BY <1>1, NextHome, AlwaysStep, TypeCorrect, PTL DEF Spec

-----------------------------------------------------------------------------

(***************************************************************************)
(* The row a client has read and the row that is there now: a newer        *)
(* version, or the same in what the updates replace.                       *)
(***************************************************************************)
MovesOn(old, new) ==
    \/ new.version > old.version
    \/ /\ new.version = old.version
       /\ new.name = old.name
       /\ new.password = old.password

Editing(r) == pc[r] \in {"find", "write"} /\ job[r].op \in {"profile", "password"}

\* An edit that has passed its check holds the old password of the row it has seen,
\* unless that row is gone.
Pins(r) ==
    LET now == user[job[r].target]
    IN  /\ now.status # "absent"
        /\ MovesOn(seen[r], now)
        /\ pc[r] = "write" /\ job[r].op = "password" /\ now.version = seen[r].version
              => seen[r].password = job[r].old

SeenInv == \A r \in Requests : Editing(r) => Pins(r)

\* A change of rows by which every row that was there moves on.
LEMMA RowsMoveOn ==
    ASSUME TypeOK, TypeOK', SeenInv, NEW r \in Requests,
           \A u \in Users : user[u].status # "absent" =>
              user'[u].status # "absent" /\ MovesOn(user[u], user'[u]),
           NEW step \in Steps, pc' = [pc EXCEPT ![r] = step],
           step \notin {"find", "write"} \/ job[r].op \notin {"profile", "password"},
           UNCHANGED <<job, seen>>
    PROVE  SeenInv'
<1> SUFFICES ASSUME NEW s \in Requests, Editing(s)' PROVE Pins(s)'
  BY DEF SeenInv
<1>1. Editing(s) /\ pc'[s] = pc[s]
  BY DEF Editing, TypeOK
<1>2. Pins(s)
  BY <1>1 DEF SeenInv
<1>3. job[s].target \in Users
  BY JobTypes
<1>4. /\ seen[s].version \in Nat
      /\ user[job[s].target].version \in Nat
      /\ user'[job[s].target].version \in Nat
  BY <1>3 DEF TypeOK, Row
<1>5. MovesOn(user[job[s].target], user'[job[s].target])
  BY <1>2, <1>3 DEF Pins
<1> QED
  BY <1>1, <1>2, <1>3, <1>4, <1>5 DEF Pins, MovesOn

\* Each update takes a new version, and a row never goes back to an older one.
LEMMA NextSeen == TypeOK /\ TypeOK' /\ StepInv /\ SeenInv /\ [Next]_vars => SeenInv'
<1> SUFFICES ASSUME TypeOK, TypeOK', StepInv, SeenInv, [Next]_vars PROVE SeenInv'
  OBVIOUS
<1>1. CASE UNCHANGED vars
  BY <1>1 DEF SeenInv, Editing, Pins, MovesOn, vars
<1>2. ASSUME NEW r \in Requests, Handle(r) \/ Fail(r) PROVE SeenInv'
  <2>0. job[r].target \in Users /\ user[job[r].target] \in Row
    BY JobTypes DEF TypeOK
  <2>s. \A u \in Users : MovesOn(user[u], user[u])
    BY DEF MovesOn
  <2>1. CASE ReadUser(r)
    BY <2>0, <2>1
    DEF SeenInv, Editing, Pins, MovesOn, TypeOK, ReadUser, rows, Goto, Answer, Active
  <2>2. CASE FindAndVerify(r)
    <3>1. CASE Goto(r, "write")
      <4>1. UNCHANGED <<user, job, seen>> /\ pc[r] = "find"
        BY <2>2 DEF FindAndVerify, rows
      <4>2. user[job[r].target].password = job[r].old
        BY <2>2, <3>1 DEF FindAndVerify, Verified, Goto, Answer, TypeOK
      <4>3. ASSUME NEW s \in Requests, Editing(s)' PROVE Pins(s)'
        <5>1. Editing(s)
          BY <3>1, <4>1, <4>3 DEF Editing, Goto, TypeOK
        <5>2. Pins(s)
          BY <5>1 DEF SeenInv
        <5>3. CASE s = r
          <6>1. seen[r].version \in Nat /\ user[job[r].target].version \in Nat
            BY <2>0 DEF TypeOK, Row
          <6> QED
            BY <4>1, <4>2, <5>2, <5>3, <6>1 DEF Pins, MovesOn
        <5>4. CASE s # r
          BY <3>1, <4>1, <5>2, <5>4 DEF Pins, MovesOn, Goto, TypeOK
        <5> QED
          BY <5>3, <5>4
      <4> QED
        BY <4>3 DEF SeenInv
    <3>2. ASSUME NEW class \in {"notFound", "denied"}, Answer(r, class) PROVE SeenInv'
      BY <2>s, <2>2, <3>2, RowsMoveOn DEF FindAndVerify, rows, Answer, Steps
    <3> QED
      BY <2>2, <3>1, <3>2 DEF FindAndVerify
  <2>3. CASE VersionConflict(r)
    BY <2>s, <2>3, RowsMoveOn DEF VersionConflict, rows, Answer, Steps
  <2>4. CASE UpdateUserProfile(r)
    <3>1. \A u \in Users : user[u].status # "absent" =>
             user'[u].status # "absent" /\ MovesOn(user[u], user'[u])
      BY <2>0, <2>s, <2>4 DEF UpdateUserProfile, Edited, MovesOn, TypeOK, Row
    <3> QED
      BY <2>4, <3>1, RowsMoveOn DEF UpdateUserProfile, AnswerWritten, Answer, Steps
  <2>5. CASE ChangeUserPassword(r)
    <3>1. \A u \in Users : user[u].status # "absent" =>
             user'[u].status # "absent" /\ MovesOn(user[u], user'[u])
      BY <2>0, <2>s, <2>5 DEF ChangeUserPassword, Edited, MovesOn, TypeOK, Row
    <3> QED
      BY <2>5, <3>1, RowsMoveOn DEF ChangeUserPassword, AnswerWritten, Answer, Steps
  <2>6. CASE DeactivateUser(r)
    <3>1. \A u \in Users : user[u].status # "absent" =>
             user'[u].status # "absent" /\ MovesOn(user[u], user'[u])
      BY <2>0, <2>s, <2>6 DEF DeactivateUser, MovesOn, TypeOK, Row
    <3> QED
      BY <2>6, <3>1, RowsMoveOn DEF DeactivateUser, AnswerWritten, Answer, Steps
  <2>7. CASE SubmitRegister(r)
    BY <2>s, <2>7, RowsMoveOn DEF SubmitRegister, rows, Goto, Answer, Steps
  <2>8. CASE AnyUserExists(r)
    BY <2>s, <2>8, RowsMoveOn DEF AnyUserExists, rows, Goto, Answer, Steps
  <2>9. CASE CreateUser(r)
    BY <2>s, <2>9, RowsMoveOn DEF CreateUser, Rollback, rows, Goto, Answer, Steps
  <2>10. CASE InsertHome(r)
    BY <2>s, <2>10, RowsMoveOn DEF InsertHome, rows, Goto, Steps
  <2>11. CASE CommitTx(r)
    <3>1. user[r].status = "absent"
      BY <2>11 DEF CommitTx, StepInv
    <3>2. \A u \in Users : user[u].status # "absent" => user'[u] = user[u]
      BY <2>11, <3>1 DEF CommitTx, TypeOK
    <3> QED
      BY <2>s, <2>11, <3>2, RowsMoveOn DEF CommitTx, AnswerWritten, Answer, Steps
  <2>12. CASE Fail(r)
    BY <2>s, <2>12, RowsMoveOn DEF Fail, Rollback, rows, Answer, Steps
  <2> QED
    BY <1>2, <2>1, <2>2, <2>3, <2>4, <2>5, <2>6, <2>7, <2>8, <2>9, <2>10, <2>11, <2>12
    DEF Handle
<1> QED
  BY <1>1, <1>2 DEF Next, Finished

\* It holds in every reachable state.
LEMMA AlwaysSeen == Spec => []SeenInv
<1>1. Init => SeenInv
  BY DEF Init, SeenInv, Editing
<1> QED
  BY <1>1, NextSeen, AlwaysStep, TypeCorrect, PTL DEF Spec

\* An update goes through only on the version its client has seen, and that version
\* is of one name and one password.
LEMMA UpdateSees ==
    ASSUME TypeOK, SeenInv, NEW r \in Requests,
           UpdateUserProfile(r) \/ ChangeUserPassword(r)
    PROVE  /\ user[job[r].target].name = seen[r].name
           /\ user[job[r].target].password = seen[r].password
           /\ job[r].op = "password" => seen[r].password = job[r].old
<1>1. Pins(r) /\ pc[r] = "write"
  BY DEF SeenInv, Editing, UpdateUserProfile, ChangeUserPassword
<1>2. user[job[r].target].version = seen[r].version
  BY DEF UpdateUserProfile, ChangeUserPassword, MatchesExpected
<1>3. seen[r].version \in Nat
  BY DEF TypeOK, Row
<1> QED
  BY <1>1, <1>2, <1>3 DEF Pins, MovesOn

\* A password is replaced only by a request that gave the password it replaces.
THEOREM OwnersChangePasswords == Spec => PasswordByOwner
<1>1. TypeOK /\ SeenInv => PasswordStep
  BY UpdateSees DEF PasswordStep, ChangeUserPassword
<1> QED
  BY <1>1, AlwaysSeen, TypeCorrect, PTL DEF PasswordByOwner

\* An update of a profile runs over no name and no password its client has not seen.
THEOREM NoProfileUpdateLost == Spec => NoProfileLost
<1>1. TypeOK /\ SeenInv => ProfileStep
  BY UpdateSees DEF ProfileStep
<1> QED
  BY <1>1, AlwaysSeen, TypeCorrect, PTL DEF NoProfileLost
=============================================================================
