------------------------------- MODULE Ledger -------------------------------
(***************************************************************************)
(* Accounts and the double-entry ledger: concurrent HTTP requests that     *)
(* post transactions and edit accounts, one database statement at a time,  *)
(* over PostgreSQL rows under READ COMMITTED with row locks.               *)
(*                                                                         *)
(* A request is one call of a handler of internal/adapter/http, run by a   *)
(* goroutine of its own through the domain logic and the repository.  Its  *)
(* steps are the statements it sends, since those are what other requests  *)
(* can come between.                                                       *)
(*                                                                         *)
(* External, modelled from how the code uses it: PostgreSQL (row versions, *)
(* row locks, foreign keys, CHECK and BIGINT range errors, deadlock        *)
(* detection, COMMIT and ROLLBACK) and the pgx pool (MaxConns).            *)
(***************************************************************************)
EXTENDS LedgerData, FiniteSets

CONSTANTS
    Requests,      \* the HTTP requests in flight
    OpenAccounts,  \* the accounts that are open at the start
    Jobs,          \* what a request may ask for
    MaxConns,      \* size of the connection pool
    NoRequest      \* the owner of a row that is not locked

(***************************************************************************)
(* A job is the decoded request: the operation, and the operation's        *)
(* inputs.  acct and balance are of no meaning to "post", entries to the   *)
(* others.  However long the server runs, the requests it has taken are    *)
(* finitely many.                                                          *)
(***************************************************************************)
Ops == {"post", "create", "setBalance", "rename", "deactivate"}

Job == [op : Ops, acct : Accounts, balance : Bigint, entries : Seq(Entry)]

ASSUME LedgerAssumption ==
    /\ OpenAccounts \subseteq Accounts
    /\ Jobs \subseteq Job
    /\ MaxConns \in Nat \ {0}
    /\ NoRequest \notin Requests
    /\ IsFiniteSet(Requests)

VARIABLES
    row,      \* row[a]: the newest committed version of account a's row
    head,     \* head[a]: its newest version, seen only by the lock's owner
    lock,     \* lock[a]: the transaction holding the row lock, or NoRequest
    journal,  \* journal[r]: the committed ledger_entries of r's transaction
    job,      \* job[r]: what request r asks for
    pc,       \* pc[r]: the statement r sends next
    idx,      \* idx[r]: the entry a posting works on
    seen,     \* seen[r]: the row of job[r].acct that r, or its client, read
    reply     \* reply[r]: the class of the HTTP answer

vars == <<row, head, lock, journal, job, pc, idx, seen, reply>>
rows == <<row, head, lock, journal>>

\* Steps of a posting that run inside its database transaction.
TxSteps == {"header", "entry", "adjust", "commit"}

Steps == TxSteps \cup {"start", "begin", "acquire", "update", "done"}

Replies == {"none", "ok", "invalid", "notFound", "conflict", "error"}

TypeOK ==
    /\ row \in [Accounts -> Row]
    /\ head \in [Accounts -> Row]
    /\ lock \in [Accounts -> Requests \cup {NoRequest}]
    /\ journal \in [Requests -> Seq(Entry)]
    /\ job \in [Requests -> Jobs]
    /\ pc \in [Requests -> Steps]
    /\ idx \in [Requests -> Nat]
    /\ seen \in [Requests -> Row]
    /\ reply \in [Requests -> Replies]

Init ==
    /\ row = [a \in Accounts |-> IF a \in OpenAccounts THEN NewRow ELSE NoRow]
    /\ head = row
    /\ lock = [a \in Accounts |-> NoRequest]
    /\ journal = [r \in Requests |-> <<>>]
    /\ job \in [Requests -> Jobs]
    /\ pc = [r \in Requests |-> "start"]
    /\ idx = [r \in Requests |-> 1]
    /\ seen = [r \in Requests |-> NoRow]
    /\ reply = [r \in Requests |-> "none"]

-----------------------------------------------------------------------------
\* Common parts of the steps.

Goto(r, step) ==
    /\ pc' = [pc EXCEPT ![r] = step]
    /\ UNCHANGED reply

Answer(r, class) ==
    /\ pc' = [pc EXCEPT ![r] = "done"]
    /\ reply' = [reply EXCEPT ![r] = class]

\* A request holds a connection from BEGIN to the end of its transaction, or
\* for the one statement it sends to the pool.
HoldsConn(r) == pc[r] \in TxSteps \cup {"update"}

ConnFree == Cardinality({r \in Requests : HoldsConn(r)}) < MaxConns

EntryOf(r) == job[r].entries[idx[r]]

\* The entries whose INSERT and UPDATE are behind r.
Written(r) == SubSeq(job[r].entries, 1, idx[r] - 1)

-----------------------------------------------------------------------------
\* PostTransaction: the handler and the domain logic, before any statement.

ValidPosting(es) ==
    /\ es # <<>>
    /\ \A i \in DOMAIN es : es[i].amount > 0

\* Without the comparison a one-sided posting would go through.
SumsAgreeUnchecked(es) == TRUE

\* Debits equal credits in the int64 arithmetic of the two loops.
SumsAgree(es) == GoSum(es, "DEBIT") = GoSum(es, "CREDIT")

SubmitPosting(r) ==
    /\ pc[r] = "start"
    /\ job[r].op = "post"
    /\ IF ValidPosting(job[r].entries) /\ SumsAgree(job[r].entries)
         THEN Goto(r, "begin")
         ELSE Answer(r, "invalid")
    /\ UNCHANGED <<rows, job, idx, seen>>

-----------------------------------------------------------------------------
\* The transaction of a posting.

\* RunAtomic: Begin waits for a connection of the pool.
BeginTx(r) ==
    /\ pc[r] = "begin"
    /\ ConnFree
    /\ Goto(r, "header")
    /\ UNCHANGED <<rows, job, idx, seen>>

\* An error path that forgets to end the transaction.
RollbackKeepsLocks(r) ==
    /\ head' = [a \in Accounts |-> IF lock[a] = r THEN row[a] ELSE head[a]]
    /\ UNCHANGED <<row, lock, journal>>

\* A repository that sends the INSERTs to the pool and not to the transaction.
RollbackKeepsEntries(r) ==
    /\ journal' = [journal EXCEPT ![r] = Written(r)]
    /\ head' = [a \in Accounts |-> IF lock[a] = r THEN row[a] ELSE head[a]]
    /\ lock' = [a \in Accounts |-> IF lock[a] = r THEN NoRequest ELSE lock[a]]
    /\ UNCHANGED row

\* The end of a transaction that leaves nothing behind: the row locks go and
\* the versions it made are dropped.
Rollback(r) ==
    /\ head' = [a \in Accounts |-> IF lock[a] = r THEN row[a] ELSE head[a]]
    /\ lock' = [a \in Accounts |-> IF lock[a] = r THEN NoRequest ELSE lock[a]]
    /\ UNCHANGED <<row, journal>>

\* The end of a transaction that makes its rows the committed ones.
Publish(r) ==
    /\ journal' = [journal EXCEPT ![r] = Written(r)]
    /\ row' = [a \in Accounts |-> IF lock[a] = r THEN head[a] ELSE row[a]]
    /\ lock' = [a \in Accounts |-> IF lock[a] = r THEN NoRequest ELSE lock[a]]
    /\ UNCHANGED head

\* The repository compares the sums again, then inserts the transaction row.
InsertTransaction(r) ==
    /\ pc[r] = "header"
    /\ IF SumsAgree(job[r].entries)
         THEN Goto(r, "entry") /\ UNCHANGED rows
         ELSE Answer(r, "invalid") /\ Rollback(r)
    /\ UNCHANGED <<job, idx, seen>>

\* The foreign key and the CHECKs of table ledger_entries.  The key is there
\* for a deleted account too.
EntryAccepted(e) ==
    /\ row[e.acct].status # "absent"
    /\ e.type \in EntryTypes
    /\ e.amount > 0

InsertLedgerEntry(r) ==
    /\ pc[r] = "entry"
    /\ IF EntryAccepted(EntryOf(r))
         THEN Goto(r, "adjust") /\ UNCHANGED rows
         ELSE Answer(r, "error") /\ Rollback(r)
    /\ UNCHANGED <<job, idx, seen>>

\* The row AdjustAccountBalance writes, and one that forgets the version.
AdjustedSameVersion(old, delta) == [old EXCEPT !.balance = @ + delta]

Adjusted(old, delta) == [old EXCEPT !.balance = @ + delta, !.version = @ + 1]

\* Column balance is a BIGINT: the server refuses a value out of its range.
FitsAnything(balance) == TRUE

Fits(balance) == balance \in Bigint

\* A loop that stops one entry short.
NextEntryStopsShort(r) ==
    /\ idx' = [idx EXCEPT ![r] = @ + 1]
    /\ Goto(r, IF idx[r] < Len(job[r].entries) - 1 THEN "entry" ELSE "commit")

NextEntry(r) ==
    /\ idx' = [idx EXCEPT ![r] = @ + 1]
    /\ Goto(r, IF idx[r] < Len(job[r].entries) THEN "entry" ELSE "commit")

\* UPDATE ... WHERE id AND deleted_at IS NULL finds no row of a deleted
\* account, and the repository does not look at the count.
AdjustNothing(r) ==
    /\ pc[r] = "adjust"
    /\ ~Active(row[EntryOf(r).acct])
    /\ NextEntry(r)
    /\ UNCHANGED <<rows, job, seen>>

\* Otherwise the statement waits for the row lock, and writes the newest row.
AdjustAccountBalance(r) ==
    LET e == EntryOf(r)
        a == EntryOf(r).acct
    IN  /\ pc[r] = "adjust"
        /\ Active(row[a])
        /\ lock[a] \in {r, NoRequest}
        /\ IF Fits(head[a].balance + Delta(e))
             THEN /\ NextEntry(r)
                  /\ head' = [head EXCEPT ![a] = Adjusted(@, Delta(e))]
                  /\ lock' = [lock EXCEPT ![a] = r]
                  /\ UNCHANGED <<row, journal>>
             ELSE /\ Answer(r, "error")
                  /\ Rollback(r)
                  /\ UNCHANGED idx
        /\ UNCHANGED <<job, seen>>

\* COMMIT.  The answer can be lost after the server has committed: RunAtomic
\* then reports an error.
CommitTx(r) ==
    /\ pc[r] = "commit"
    /\ Publish(r)
    /\ \E class \in {"ok", "error"} : Answer(r, class)
    /\ UNCHANGED <<job, idx, seen>>

-----------------------------------------------------------------------------
\* PostgreSQL's deadlock detector aborts a transaction on a cycle of waits.

WaitsFor(r) ==
    IF pc[r] = "adjust" /\ Active(row[EntryOf(r).acct])
    THEN lock[EntryOf(r).acct]
    ELSE NoRequest

OnWaitCycle(r) ==
    \E S \in SUBSET Requests :
        /\ r \in S
        /\ \A s \in S : WaitsFor(s) # s
        /\ {WaitsFor(s) : s \in S} = S

DeadlockVictim(r) ==
    /\ OnWaitCycle(r)
    /\ Answer(r, "error")
    /\ Rollback(r)
    /\ UNCHANGED <<job, idx, seen>>

-----------------------------------------------------------------------------
\* The account operations: one read, if any, and one UPDATE or INSERT that is a
\* transaction of its own, since their logic opens none.

\* The client of PUT .../balance and PUT .../accounts/{id} has read the account:
\* the version it sends is that of the row it saw.  A name may fail validation.
ReadForEdit(r) ==
    LET a == job[r].acct
    IN  /\ pc[r] = "start"
        /\ job[r].op \in {"setBalance", "rename"}
        /\ ConnFree
        /\ \/ Active(row[a]) /\ Goto(r, "acquire") /\ seen' = [seen EXCEPT ![r] = row[a]]
           \/ ~Active(row[a]) /\ Answer(r, "notFound") /\ UNCHANGED seen
           \/ job[r].op = "rename" /\ Answer(r, "invalid") /\ UNCHANGED seen
        /\ UNCHANGED <<rows, job, idx>>

MayDeactivateAlways(a) == TRUE

MayDeactivate(a) == row[a].balance = 0

\* Deactivate reads the account and refuses one that is not empty; one that is
\* not there counts as done.
ReadForDeactivate(r) ==
    LET a == job[r].acct
    IN  /\ pc[r] = "start"
        /\ job[r].op = "deactivate"
        /\ ConnFree
        /\ \/ ~Active(row[a]) /\ Answer(r, "ok") /\ UNCHANGED seen
           \/ /\ Active(row[a])
              /\ seen' = [seen EXCEPT ![r] = row[a]]
              /\ IF MayDeactivate(a)
                   THEN Goto(r, "acquire")
                   ELSE Answer(r, "conflict")
        /\ UNCHANGED <<rows, job, idx>>

SubmitCreate(r) ==
    /\ pc[r] = "start"
    /\ job[r].op = "create"
    /\ \/ Answer(r, "invalid")
       \/ Goto(r, "acquire")
    /\ UNCHANGED <<rows, job, idx, seen>>

AcquireConn(r) ==
    /\ pc[r] = "acquire"
    /\ ConnFree
    /\ Goto(r, "update")
    /\ UNCHANGED <<rows, job, idx, seen>>

\* A statement sent to the pool commits by itself.  Its answer can be lost too.
AutoCommit(r, a, new) ==
    /\ lock[a] = NoRequest
    /\ row' = [row EXCEPT ![a] = new]
    /\ head' = [head EXCEPT ![a] = new]
    /\ \E class \in {"ok", "error"} : Answer(r, class)
    /\ UNCHANGED <<lock, journal>>

\* INSERT INTO accounts, under a new id, unless the name is taken.
CreateAccount(r) ==
    /\ pc[r] = "update"
    /\ job[r].op = "create"
    /\ \/ Answer(r, "conflict") /\ UNCHANGED rows
       \/ \E a \in Accounts : row[a].status = "absent" /\ AutoCommit(r, a, NewRow)
    /\ UNCHANGED <<job, idx, seen>>

\* WHERE id AND version = expected_version AND deleted_at IS NULL.
MatchesExpected(r) ==
    LET a == job[r].acct
    IN  Active(row[a]) /\ row[a].version = seen[r].version

VersionConflict(r) ==
    /\ pc[r] = "update"
    /\ job[r].op \in {"setBalance", "rename"}
    /\ ~MatchesExpected(r)
    /\ Answer(r, "conflict")
    /\ UNCHANGED <<rows, job, idx, seen>>

UpdateAccountBalance(r) ==
    LET a == job[r].acct
    IN  /\ pc[r] = "update"
        /\ job[r].op = "setBalance"
        /\ MatchesExpected(r)
        /\ AutoCommit(r, a, [row[a] EXCEPT !.balance = job[r].balance,
                                           !.version = @ + 1])
        /\ UNCHANGED <<job, idx, seen>>

\* The new name may be another account's.
UpdateAccountName(r) ==
    LET a == job[r].acct
    IN  /\ pc[r] = "update"
        /\ job[r].op = "rename"
        /\ MatchesExpected(r)
        /\ \/ lock[a] = NoRequest /\ Answer(r, "conflict") /\ UNCHANGED rows
           \/ AutoCommit(r, a, [row[a] EXCEPT !.version = @ + 1])
        /\ UNCHANGED <<job, idx, seen>>

\* The UPDATE looks at neither the balance nor the version, and takes no new one.
DeactivateAccount(r) ==
    LET a == job[r].acct
    IN  /\ pc[r] = "update"
        /\ job[r].op = "deactivate"
        /\ IF Active(row[a])
             THEN AutoCommit(r, a, [row[a] EXCEPT !.status = "deleted"])
             ELSE Answer(r, "ok") /\ UNCHANGED rows
        /\ UNCHANGED <<job, idx, seen>>

-----------------------------------------------------------------------------
\* A statement fails, the connection breaks, the client goes away or the
\* handler panics: what was not committed is rolled back.
Fail(r) ==
    /\ pc[r] # "done"
    /\ Answer(r, "error")
    /\ Rollback(r)
    /\ UNCHANGED <<job, idx, seen>>

Posting(r) ==
    \/ SubmitPosting(r)
    \/ BeginTx(r)
    \/ InsertTransaction(r)
    \/ InsertLedgerEntry(r)
    \/ AdjustNothing(r)
    \/ AdjustAccountBalance(r)
    \/ CommitTx(r)

Editing(r) ==
    \/ ReadForEdit(r)
    \/ ReadForDeactivate(r)
    \/ SubmitCreate(r)
    \/ AcquireConn(r)
    \/ CreateAccount(r)
    \/ VersionConflict(r)
    \/ UpdateAccountBalance(r)
    \/ UpdateAccountName(r)
    \/ DeactivateAccount(r)

AllAnswered == \A r \in Requests : pc[r] = "done"

\* The end of a bounded run, so that only real deadlocks count as such.
Finished == AllAnswered /\ UNCHANGED vars

Next ==
    \/ \E r \in Requests : Posting(r) \/ Editing(r) \/ DeadlockVictim(r) \/ Fail(r)
    \/ Finished

Spec == Init /\ [][Next]_vars

(***************************************************************************)
(* Each request runs on a goroutine of its own, so whatever it can do it   *)
(* eventually does; a row lock is granted to a waiter once its owner ends; *)
(* and the server's detector breaks every cycle of waits.  Nothing makes a *)
(* failure happen.                                                         *)
(***************************************************************************)
Fairness ==
    \A r \in Requests : /\ WF_vars(Posting(r))
                        /\ WF_vars(Editing(r))
                        /\ WF_vars(DeadlockVictim(r))

FairSpec == Spec /\ Fairness

-----------------------------------------------------------------------------
\* Properties.

\* Transaction r has reached an entry that names account a.
Reached(r, a) ==
    \E i \in 1 .. Len(job[r].entries) : i < idx[r] /\ job[r].entries[i].acct = a

UnderLock(a) ==
    IF lock[a] = NoRequest
    THEN head[a] = row[a]
    ELSE /\ pc[lock[a]] \in TxSteps
         /\ Reached(lock[a], a)
         /\ Active(row[a]) /\ Active(head[a])
         /\ head[a].version > row[a].version

\* A row that no transaction has locked has no uncommitted version.  A locked one
\* belongs to a running posting that has reached an entry on it, is of an account
\* that is still open, and will be published under a newer version.  (What
\* RunAtomic's commit and rollback, and the WHERE of the UPDATEs, must keep.)
RowsUnderLock == \A a \in Accounts : UnderLock(a)

\* The answer to a posting tells what happened: "created" only if all its entries
\* are in the journal, a refusal only if none is.  After an error (HTTP 500) they
\* are either all there or all absent: the client cannot know which.
AnswerMatchesJournal ==
    \A r \in Requests :
        /\ reply[r] = "ok" /\ job[r].op = "post" => journal[r] = job[r].entries
        /\ reply[r] # "ok" => journal[r] = <<>> \/ journal[r] = job[r].entries
        /\ reply[r] \notin {"ok", "error"} => journal[r] = <<>>

\* What the journal says an account's balance has moved by.
Posted(a) == SumFunction([r \in Requests |-> Net(journal[r], a)])

\* A balance leaves the journal's total only by an UpdateBalance of that account,
\* or because a posting names an account already deleted.  In particular no
\* failure, deadlock or interleaving of postings loses or repeats an entry.
DriftOnlyByHand ==
    [][\A a \in Accounts :
          \/ row'[a].balance - Posted(a)' = row[a].balance - Posted(a)
          \/ row[a].status = "deleted"
          \/ \E r \in Requests : UpdateAccountBalance(r) /\ job[r].acct = a]_vars

\* UpdateBalance never overwrites a balance its client has not seen, whatever was
\* posted since the client read the account: the versions a posting takes make
\* the optimistic check see it.
NoLostUpdateStep ==
    \A r \in Requests :
        UpdateAccountBalance(r) /\ row' # row
            => row[job[r].acct].balance = seen[r].balance

NoLostUpdate == [][NoLostUpdateStep]_vars

\* An account is closed with money on it only if its row took a new version
\* between Deactivate's read and its UPDATE: that race is the only way.
ClosedEmptyStep ==
    \A r \in Requests :
        LET a == job[r].acct
        IN  DeactivateAccount(r) /\ row' # row
                => row[a].balance = 0 \/ row[a].version > seen[r].version

ClosedEmptyUnlessMoved == [][ClosedEmptyStep]_vars

\* The ledger implements the book: each step is one posting, one edit, or nothing
\* that the book can see.
Book == INSTANCE LedgerBook WITH
            row <- row, journal <- journal,
            Requests <- Requests, OpenAccounts <- OpenAccounts

BookSpec == Book!Spec

\* Every request is answered: a posting that waits for a row, for a connection or
\* in a deadlock gets on or is rolled back.
EveryRequestAnswered == \A r \in Requests : <>(pc[r] = "done")

-----------------------------------------------------------------------------
\* What comments of the code say and its steps do not keep.

\* "Deactivate checks the account has zero balance, then soft-deletes it": a
\* deleted account holds no money.
DeletedIsEmpty ==
    \A a \in Accounts : row[a].status = "deleted" => row[a].balance = 0

\* "inserts the transaction row, all entry rows, and adjusts each affected
\* account's balance": when entries enter the journal, every account they name
\* has been moved by them.
EntriesMoveAccounts ==
    [][\A r \in Requests : journal'[r] # journal[r] =>
          \A a \in Accounts :
              row'[a].balance = row[a].balance + Net(journal'[r], a)]_vars

\* "every transaction must have balanced entries (total debits = total credits)".
JournalBalanced ==
    \A r \in Requests :
        ExactSum(journal[r], "DEBIT") = ExactSum(journal[r], "CREDIT")
=============================================================================
