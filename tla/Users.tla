-------------------------------- MODULE Users --------------------------------
(***************************************************************************)
(* The table of users: requests that register a user inside a household,   *)
(* edit a profile, change a password and deactivate a user, and runs of    *)
(* pfm-seed, which creates the first user and household of an empty        *)
(* database.  One step is one database statement.                          *)
(*                                                                         *)
(* A run of the seeder is a request too: it can be started twice, be       *)
(* killed, and be started again while the server registers users.          *)
(*                                                                         *)
(* External, modelled from how the code uses it: PostgreSQL under READ     *)
(* COMMITTED.  An INSERT whose e-mail address an open transaction has      *)
(* inserted waits for the end of that transaction.                         *)
(***************************************************************************)
EXTENDS Integers, FiniteSets

CONSTANTS
    Requests,   \* the HTTP requests and the runs of the seeder
    FirstUsers, \* the users a database may hold at the start
    Emails,     \* e-mail addresses, up to the case of their letters
    FirstEmail, \* FirstEmail[u]: the address of u \in FirstUsers
    Passwords,
    FirstPassword,
    Jobs,       \* what a request may ask for
    NoRequest   \* the author of a display name nobody has changed

\* The server makes the id of a new user; it goes by the request that made it.
Users == FirstUsers \cup Requests

Ops == {"register", "seed", "profile", "password", "deactivate"}

(***************************************************************************)
(* target is the user edited; email and new are those of a user created;   *)
(* old and new the passwords of a change.  The rest is of no meaning.      *)
(***************************************************************************)
Job == [op : Ops, target : Users, email : Emails, old : Passwords, new : Passwords]

ASSUME UsersAssumption ==
    /\ FirstUsers \cap Requests = {}
    /\ NoRequest \notin Requests
    /\ Emails # {}
    /\ FirstEmail \in [FirstUsers -> Emails]
    /\ \A u, v \in FirstUsers : FirstEmail[u] = FirstEmail[v] => u = v
    /\ FirstPassword \in Passwords
    /\ Jobs \subseteq Job

VARIABLES
    user,     \* user[u]: the committed row of user u
    belongs,  \* the users with a row in household_members
    tx,       \* tx[r]: the tables r's open transaction has inserted into
    job,      \* job[r]: what request r asks for
    pc,       \* pc[r]: the statement r sends next
    seen,     \* seen[r]: the row r's client read
    reply     \* reply[r]: the class of the answer

vars == <<user, belongs, tx, job, pc, seen, reply>>
rows == <<user, belongs>>

Row == [status : {"absent", "active", "deleted"}, email : Emails,
        password : Passwords, name : Requests \cup {NoRequest}, version : Nat]

NewRow(email, password) ==
    [status |-> "active", email |-> email, password |-> password,
     name |-> NoRequest, version |-> 1]

Steps == {"start", "find", "write", "insertUser", "insertHome", "commit", "done"}

Replies == {"none", "ok", "already", "invalid", "denied", "notFound", "conflict", "error"}

TypeOK ==
    /\ user \in [Users -> Row]
    /\ belongs \subseteq Users
    /\ tx \in [Requests -> SUBSET {"users", "members"}]
    /\ job \in [Requests -> Jobs]
    /\ pc \in [Requests -> Steps]
    /\ seen \in [Requests -> Row]
    /\ reply \in [Requests -> Replies]

NoRow == [status |-> "absent", email |-> CHOOSE e \in Emails : TRUE,
          password |-> FirstPassword, name |-> NoRequest, version |-> 0]

\* A database with users in it, or an empty one.
Init ==
    /\ belongs \in SUBSET FirstUsers
    /\ user = [u \in Users |-> IF u \in belongs
                               THEN NewRow(FirstEmail[u], FirstPassword)
                               ELSE NoRow]
    /\ tx = [r \in Requests |-> {}]
    /\ job \in [Requests -> Jobs]
    /\ pc = [r \in Requests |-> "start"]
    /\ seen = [r \in Requests |-> NoRow]
    /\ reply = [r \in Requests |-> "none"]

-----------------------------------------------------------------------------
\* Common parts of the steps.

Goto(r, step) ==
    /\ pc' = [pc EXCEPT ![r] = step]
    /\ UNCHANGED reply

Answer(r, class) ==
    /\ pc' = [pc EXCEPT ![r] = "done"]
    /\ reply' = [reply EXCEPT ![r] = class]

\* A write that has committed: its answer can still be lost on the way.
AnswerWritten(r) == \E class \in {"ok", "error"} : Answer(r, class)

Active(u) == user[u].status = "active"

\* An error path that leaves what was inserted before it.
RollbackKeepsUser(r) ==
    /\ user' = IF "users" \in tx[r]
               THEN [user EXCEPT ![r] = NewRow(job[r].email, job[r].new)]
               ELSE user
    /\ tx' = [tx EXCEPT ![r] = {}]
    /\ UNCHANGED belongs

\* An error path that forgets to end the transaction.
RollbackForgotten(r) == UNCHANGED <<rows, tx>>

Rollback(r) ==
    /\ tx' = [tx EXCEPT ![r] = {}]
    /\ UNCHANGED rows

-----------------------------------------------------------------------------
\* UpdateProfile and ChangePassword.

\* The client reads the user, and sends back the version it saw.  The body, the
\* new name or the new password may not be valid.
ReadUser(r) ==
    LET u == job[r].target
    IN  /\ pc[r] = "start"
        /\ job[r].op \in {"profile", "password"}
        /\ seen' = [seen EXCEPT ![r] = user[u]]
        /\ \/ ~Active(u) /\ Answer(r, "notFound")
           \/ Active(u) /\ Answer(r, "invalid")
           \/ Active(u) /\ Goto(r, IF job[r].op = "password" THEN "find" ELSE "write")
        /\ UNCHANGED <<rows, tx, job>>

\* The old password, against the hash this request read and not the one in the
\* row when the UPDATE runs.
Verified(r) == user[job[r].target].password = job[r].old

FindAndVerify(r) ==
    /\ pc[r] = "find"
    /\ IF ~Active(job[r].target) THEN Answer(r, "notFound")
       ELSE IF ~Verified(r) THEN Answer(r, "denied")
       ELSE Goto(r, "write")
    /\ UNCHANGED <<rows, tx, job, seen>>

\* WHERE id AND version = expected_version AND deleted_at IS NULL.
MatchesExpected(r) ==
    Active(job[r].target) /\ user[job[r].target].version = seen[r].version

VersionConflict(r) ==
    /\ pc[r] = "write"
    /\ job[r].op \in {"profile", "password"}
    /\ ~MatchesExpected(r)
    /\ Answer(r, "conflict")
    /\ UNCHANGED <<rows, tx, job, seen>>

EditedSameVersion(row) == row

\* Both UPDATEs take a new version.
Edited(row) == [row EXCEPT !.version = @ + 1]

UpdateUserProfile(r) ==
    /\ pc[r] = "write"
    /\ job[r].op = "profile"
    /\ MatchesExpected(r)
    /\ user' = [user EXCEPT ![job[r].target] = [Edited(@) EXCEPT !.name = r]]
    /\ AnswerWritten(r)
    /\ UNCHANGED <<belongs, tx, job, seen>>

ChangeUserPassword(r) ==
    /\ pc[r] = "write"
    /\ job[r].op = "password"
    /\ MatchesExpected(r)
    /\ user' = [user EXCEPT ![job[r].target] = [Edited(@) EXCEPT !.password = job[r].new]]
    /\ AnswerWritten(r)
    /\ UNCHANGED <<belongs, tx, job, seen>>

\* One that is not there counts as deactivated.
DeactivateUser(r) ==
    LET u == job[r].target
    IN  /\ pc[r] = "start"
        /\ job[r].op = "deactivate"
        /\ user' = IF Active(u) THEN [user EXCEPT ![u].status = "deleted"] ELSE user
        /\ AnswerWritten(r)
        /\ UNCHANGED <<belongs, tx, job, seen>>

-----------------------------------------------------------------------------
\* CreateHouseholdUser, and the seeder's Run.

\* The guard lets an admin of the household pass, who may be any of its members
\* here: Household has the roles.  A user who was deactivated still is one.  The
\* body may not be valid.
SubmitRegister(r) ==
    /\ pc[r] = "start"
    /\ job[r].op = "register"
    /\ \/ belongs = {} /\ Answer(r, "denied")
       \/ belongs # {} /\ (Goto(r, "insertUser") \/ Answer(r, "invalid"))
    /\ UNCHANGED <<rows, tx, job, seen>>

\* AnyExists is a SELECT before the transaction it protects.
AnyUserExists(r) ==
    /\ pc[r] = "start"
    /\ job[r].op = "seed"
    /\ IF \E u \in Users : Active(u)
         THEN Answer(r, "already")
         ELSE Goto(r, "insertUser")
    /\ UNCHANGED <<rows, tx, job, seen>>

EmailFreeAsCommitted(r) == TRUE

\* The unique index: nobody else's open transaction has inserted the address.
EmailSettled(r) ==
    \A s \in Requests \ {r} : "users" \in tx[s] => job[s].email # job[r].email

EmailTaken(email) == \E u \in Users : Active(u) /\ user[u].email = email

CreateUser(r) ==
    /\ pc[r] = "insertUser"
    /\ EmailSettled(r)
    /\ IF EmailTaken(job[r].email)
         THEN /\ Answer(r, IF job[r].op = "seed" THEN "error" ELSE "conflict")
              /\ Rollback(r)
         ELSE /\ Goto(r, "insertHome")
              /\ tx' = [tx EXCEPT ![r] = {"users"}]
              /\ UNCHANGED rows
    /\ UNCHANGED <<job, seen>>

\* The membership, and the seeder's household before it.
InsertHome(r) ==
    /\ pc[r] = "insertHome"
    /\ tx' = [tx EXCEPT ![r] = @ \cup {"members"}]
    /\ Goto(r, "commit")
    /\ UNCHANGED <<rows, job, seen>>

\* The row of the user r has inserted, and one with its values swapped.
InsertedSwapped(r) == NewRow(job[r].new, job[r].email)

Inserted(r) == NewRow(job[r].email, job[r].new)

CommitTx(r) ==
    /\ pc[r] = "commit"
    /\ user' = [user EXCEPT ![r] = Inserted(r)]
    /\ belongs' = belongs \cup {r}
    /\ tx' = [tx EXCEPT ![r] = {}]
    /\ AnswerWritten(r)
    /\ UNCHANGED <<job, seen>>

-----------------------------------------------------------------------------
\* A statement fails, the connection breaks, the process is killed.
Fail(r) ==
    /\ pc[r] # "done"
    /\ Answer(r, "error")
    /\ Rollback(r)
    /\ UNCHANGED <<job, seen>>

Handle(r) ==
    \/ ReadUser(r)
    \/ FindAndVerify(r)
    \/ VersionConflict(r)
    \/ UpdateUserProfile(r)
    \/ ChangeUserPassword(r)
    \/ DeactivateUser(r)
    \/ SubmitRegister(r)
    \/ AnyUserExists(r)
    \/ CreateUser(r)
    \/ InsertHome(r)
    \/ CommitTx(r)

\* The end of a bounded run, so that only real deadlocks count as such.
Finished == (\A r \in Requests : pc[r] = "done") /\ UNCHANGED vars

Next == (\E r \in Requests : Handle(r) \/ Fail(r)) \/ Finished

Spec == Init /\ [][Next]_vars

(***************************************************************************)
(* Each request runs on a goroutine of its own, a seeder in a process of   *)
(* its own, and an INSERT that waits for another transaction goes on when  *)
(* it ends.  Nothing makes a failure happen.                               *)
(***************************************************************************)
FairSpec == Spec /\ \A r \in Requests : WF_vars(Handle(r))

-----------------------------------------------------------------------------
\* Properties.

\* FindUserByEmail takes the first row it finds (LIMIT 1): there is never a second,
\* whatever registrations, seeders and deactivations of the same address overlap.
LoginUnambiguous ==
    \A u, v \in Users :
        Active(u) /\ Active(v) /\ user[u].email = user[v].email => u = v

\* A user is never in the table without a household, so a seeder that says "already
\* seeded" leaves a database somebody can work in, even after runs of the seeder
\* that failed or were killed half-way.
NeverHalfSeeded ==
    /\ \A u \in Users : Active(u) => u \in belongs
    /\ \A r \in Requests : reply[r] = "already" => belongs # {}

\* A password is replaced only by a request that gave the password it replaces,
\* although it was verified against a hash read before the UPDATE.  (For clients
\* that send the version of a row they have read.)
PasswordStep ==
    \A r \in Requests :
        ChangeUserPassword(r) => user[job[r].target].password = job[r].old

PasswordByOwner == [][PasswordStep]_vars

\* An update of a profile never replaces a name, nor runs over a new password, that
\* its client has not seen.
ProfileStep ==
    \A r \in Requests :
        UpdateUserProfile(r)
            => /\ user[job[r].target].name = seen[r].name
               /\ user[job[r].target].password = seen[r].password

NoProfileLost == [][ProfileStep]_vars

\* Every request is answered, the INSERT that waits for somebody else's transaction
\* to end included: no two transactions ever wait for each other.
EveryRequestAnswered == \A r \in Requests : <>(pc[r] = "done")
=============================================================================
