# A TLA+ development of pfm-go

`pfm-go` is a personal finance backend: one Go server (`src/cmd/pfm`) with a
REST API over PostgreSQL.  Users belong to households; a household has accounts;
money moves between accounts by double-entry postings.  This directory holds
TLA+ models of the server's core logic, the TLC configurations that check them on
small instances, and TLAPS proofs of the properties that matter most.

## 1. Inventory

The server keeps no state of its own between requests: everything is in
PostgreSQL, under READ COMMITTED, reached through one connection pool.  Each
HTTP request runs on a goroutine of its own: middleware, handler, domain logic,
repository.  What requests share, and therefore what can go wrong between them,
is the rows.  A step of a model is one statement sent to the database, since
that is what another request can come between.

| Component | State | Operations that change it | Hard behaviours | Correct when |
|---|---|---|---|---|
| Ledger (`domain/ledger`, `postgres/ledger_repo.go`) | `transactions`, `ledger_entries`, `accounts.balance` | `PostTransaction` | many statements in one transaction; row locks in the order of the entries; deadlock; lost COMMIT answer; int64 and BIGINT limits; UPDATEs that match no row | a posting is all or nothing, balances follow the journal, the answer tells what happened |
| Accounts (`domain/account`, `postgres/account_repo.go`) | `accounts` | `Create`, `UpdateName`, `UpdateBalance`, `Deactivate` | optimistic versions against concurrent postings; balance read before the UPDATE that closes the account | no update is lost; an account closes empty |
| Transactor (`platform/database/transactor.go`) | the transaction in the context | `RunAtomic` | error, panic, lost COMMIT, pool exhausted by waiting transactions | nothing uncommitted survives; every request ends |
| Households and members (`domain/household`, `postgres/household_repo.go`, `middleware/authz.go`) | `households`, `household_members`, `users` | `Create`, `AddMember`, `RemoveMember`, `CreateHouseholdUser`, `UpdateName`, `Deactivate` | guard, check, count and write are separate statements; two INSERTs of two domains | every household is born with an admin and keeps one; only admins act; no rename is lost; a deactivated household stays as it is |
| Users and login (`domain/user`, `postgres/user_repo.go`) | `users` | `Register`, `UpdateProfile`, `ChangePassword`, `Deactivate`; `Login` only reads | password verified against a hash read earlier; versions sent by the client; addresses freed by a deactivation and taken again | a password changes only for who knows the current one; an address belongs to one active user |
| Credit card settings (`domain/creditcard`) | `credit_card_settings` | `Create`, `UpdateClosingDay`, `UpdateDueDay`, `UpdateLimit`, `Delete` | type of the account checked before the INSERT; soft delete and a partial unique index; versions that restart with a new row | only credit card accounts have settings; an update replaces only what its client has seen |
| Ledger reads | none | `GetBalance`, `GetTransactionHistory` | several statements per read; filter read before the page and applied after it is cut; pages ordered by the time of BEGIN | what is shown was posted and is whole, no page skips a transaction |
| Seeder (`cmd/pfm-seed`) | the first user, household and membership | one run | existence asked outside the transaction; killed half-way and run again | a database it calls seeded can be worked in |
| Server lifecycle (`cmd/pfm`), database opening, migrations (`platform/database`) | process state, `goose_db_version`, the schema | start with ping retries, migrate, serve, shut down | signals at any statement; several processes migrating at once; crashes within a migration; a listener that fails in its own goroutine; a timeout with requests in flight | the schema is that of a version; nothing is served before it is complete; startups and shutdowns end; only late requests are cut off |
| Money (`platform/money`) | none | `Split`, `Add`, `Parse`, `Format` | overflow, negative amounts, remainders | every cent handed out |
| HTTP, validation, auth middleware, configuration, telemetry | none | - | - | - |

How they interact: routes call the guard (`middleware/authz.go`), which reads
`household_members`; handlers call one domain logic; `CreateHouseholdUser` calls
`UserLogic.Register` inside its own transaction; postings and account edits meet
on the rows of `accounts`.  Everything synchronous is a call, everything shared a
row; there are no queues, timers or background workers in the request path.

`PROJECT.json` lists every component with its status, and under `hazards` every
line where this code can go wrong in a way a test would hardly reach, with the
properties that cover it.  Five are covered by none, since the code does just that and
promises nothing else, or since it takes a client that the modules leave out; their
notes say so.

## 2. Modules

| Module | What it is |
|---|---|
| `LedgerData` | int64 money that wraps, account rows, entries, sums |
| `LedgerBook` | abstract specification: a book of accounts and a journal in which a posting is one step |
| `Ledger` | detailed specification: concurrent postings and account edits, statement by statement |
| `MCLedger` | instances of `Ledger` for TLC |
| `LedgerProofs` | theorems of `Ledger` |
| `LedgerSums` | theorems of `LedgerData`: sums over entries, and Go's loop that computes them |
| `LedgerBookProofs` | theorems of `Ledger` that need those sums: drift, balance, refinement of `LedgerBook` |
| `History` | clients that page through the history, composed with `Ledger` |
| `MCHistory` | the instance of `History` for TLC |
| `HistoryProofs` | theorems of `History`, on top of `LedgerProofs` |
| `Household` | households, members and the admin guard, statement by statement |
| `MCHousehold` | instances of `Household` for TLC |
| `HouseholdProofs` | theorems of `Household` |
| `Users` | registrations, edits and deactivations of users, and runs of the seeder, statement by statement |
| `MCUsers` | the instance of `Users` for TLC |
| `UsersProofs` | theorems of `Users` |
| `CreditCard` | the settings of credit card accounts, statement by statement |
| `MCCreditCard` | instances of `CreditCard` for TLC |
| `CreditCardProofs` | theorems of `CreditCard` |
| `Server` | the life of the server and the seeder processes: ping, migrations, pool, listener, shutdown |
| `MCServer` | the instance of `Server` for TLC |
| `ServerProofs` | theorems of `Server` |

### Ledger

`row[a]` is the newest committed version of an account's row, `head[a]` the
newest version at all, which only the owner of the row lock (`lock[a]`) has
written; `journal[r]` is what request `r` has committed to `ledger_entries`.  A
request is a program counter `pc[r]` over the statements of its handler.

| Action | Code |
|---|---|
| `SubmitPosting` | the handler and `LedgerLogic.PostTransaction` before any statement: amounts, int64 sums |
| `BeginTx` | `RunAtomic`: `Begin` takes a connection |
| `InsertTransaction` | the repository's own sum check, then the transaction row |
| `InsertLedgerEntry` | one INSERT; foreign key and CHECKs |
| `AdjustAccountBalance`, `AdjustNothing` | the UPDATE of the account, with and without a matching row |
| `CommitTx`, `Rollback` | the ends of `RunAtomic`; the answer to COMMIT can be lost |
| `DeadlockVictim` | PostgreSQL aborts a transaction on a cycle of waits |
| `ReadForEdit` | the client's GET, whose version it sends back, and validation of a name |
| `ReadForDeactivate`, `DeactivateAccount` | the two statements of `AccountLogic.Deactivate` |
| `SubmitCreate`, `CreateAccount` | `AccountLogic.Create` |
| `UpdateAccountName`, `UpdateAccountBalance`, `VersionConflict` | the UPDATEs `WHERE version = expected` |
| `Fail` | any statement fails, the connection breaks, the client goes away, the handler panics |

`Ledger` implements `LedgerBook` (`Book == INSTANCE LedgerBook WITH ...`) with `row`
and `journal` mapped to themselves: `head`, `lock`, `idx` and the rest are invisible
to the book.  `ImplementsBook` proves it and `ledger_safety` checks it, both for jobs
whose exact sums are int64s; the book has no rule for the others.

### History

`History` extends `Ledger`: its writers take the steps of `Ledger` (`Write`), its
clients read between any two of them.  `now` is the server's clock as far as a BEGIN
has looked at it, and `stamp[r]` the `created_at` of a posting, which is the time of
its BEGIN: postings can commit in another order, and share a stamp.  A client asks
for page after page (`off[c]`), and each page is several statements.

| Action | Code |
|---|---|
| `Ask` | the handler: account, limit and offset of the query |
| `ListTransactionIDsForAccount` | the ids the filter lets through (`only`) |
| `ListTransactionsForHousehold` | the page (`IsPage`), then the filter |
| `ListEntriesForTransaction` | the entries of one row that was kept, in any order (`Orders`) |
| `Parsed`, `Int32`, `Limit`, `Offset` | the numbers of the query, an int in the handler and an int32 in the statement |
| `AnswerPage`, `FailPage` | HTTP 200 with the page, or 500 with nothing |
| `Stamp` | `created_at DEFAULT NOW()` |

An ORDER BY on equal keys promises no order, so `FirstRows` allows every set of n
rows that no other row has to come before.  The entries of a transaction are read
with `ORDER BY created_at` too, and all of a posting's have the same: `EntriesOf` is
the set of their orders, chosen from anew at every read.  A limit or an offset that is
no int32 is cut to one, as Go's conversion does; the page is refused (`Offset(c) >= 0`
fails, and only `FailPage` is left) where that makes the offset negative.  A client
goes on by what it asked for (`Asked`).

### Household

`house`, `users` and `member` are the committed tables, `closed` the users with a
`deleted_at`; `tx[r]` the INSERTs of an
open transaction, which nobody else sees.  A removed membership keeps its row
(`"removed"`), as the soft delete of the code does.  The guard
(`Guard`), the logic's own check (`CheckCaller`), the count of the admins
(`CountAdmins`), the look at the target (`CheckTarget`) and the write
(`RemoveMember`, `AddMember`, ...) are separate actions because they are separate
SELECTs and UPDATEs with no transaction around them.  The name of a household is
modelled by who wrote it last, so that a lost rename can be seen.  `DeactivateUser`
needs no more than a valid token and looks at no household; no statement of the
others looks at `closed`.

### Users

`user` and `belongs` are the committed rows of `users` and `household_members`;
`tx[r]` says into which of the two r's open transaction has inserted.  The id of
a new user is made by the server, so a new user goes by the request that made it.
A run of `pfm-seed` is a request like the others, in a process of its own.

| Action | Code |
|---|---|
| `ReadUser` | the client's GET, whose version it sends back, and validation of the PUT |
| `FindAndVerify` | `ChangePassword` before its UPDATE: `FindByID`, then the hash that was read |
| `UpdateUserProfile`, `ChangeUserPassword`, `VersionConflict` | the UPDATEs `WHERE version = expected` |
| `DeactivateUser` | the soft delete, which frees the address |
| `SubmitRegister` | the admin guard of `POST .../users` and the validation in `Register` |
| `AnyUserExists` | the seeder's `AnyExists`, before and outside its transaction |
| `CreateUser` | the INSERT of the user, which waits while another open transaction holds the address |
| `InsertHome` | the INSERT of the membership, after the seeder's INSERT of the household |
| `CommitTx`, `Rollback`, `Fail` | the ends of `RunAtomic`, a lost answer, a process that is killed |

`Household` has the same two INSERTs with the roles and the guard in detail, and
no addresses; `Users` has the addresses, the passwords and the versions.

### CreditCard

`settings[a]` is the row of account `a` that is not deleted; a deleted row is
found by no statement.  A value is modelled by the request that wrote it, a row's
`id` by the request that created it.

| Action | Code |
|---|---|
| `CheckAccount` | `SettingsLogic.Create` before its INSERT: `FindAccountType`, then validation |
| `CreateSettings` | the INSERT under the partial unique index |
| `ReadSettings` | the client's GET, whose version it sends back, and validation of the PUT |
| `UpdateSettings` | the three UPDATEs `WHERE account_id AND version`, one per column |
| `DeleteSettings` | the soft delete |
| `DeactivateAccount` | the account goes, between any two of these |

### Server

A process `p` is the program counter `pc[p]` of its main goroutine, the state of the
goroutine that listens (`listener[p]`), the context of `run()` (`signalled[p]`) and
the requests it has accepted.  `recorded` is goose's version table, `tables` the
migrations whose statements are in effect; they outlive every process.

| Action | Code |
|---|---|
| `Start`, `Restart` | the process starts; after an error or a kill, the platform starts it again |
| `TryAgain`, `Ping`, `PingFails`, `Sleep`, `GiveUp` | `pingWithRetry`: context, ping, sleep, bound |
| `ListMissing` | goose looks, once, for the migrations that are not recorded |
| `Apply`, `CommitMigration`, `Collide` | one migration in its transaction, or an error since another process has applied it |
| `Migrated`, `OpenPool`, `Seed` | `NewPool`, then the wiring and the listener, or the seeder's run (`Users` says what it does) |
| `StatementFails` | a statement of the startup fails or its context is done: exit 1 |
| `Listen`, `ListenFails` | `ListenAndServe` in its goroutine; its error is logged and nothing else |
| `Accept`, `Reply` | a request and its end |
| `Signal` | SIGTERM or SIGINT, at any time |
| `NotReady`, `StopListening`, `Drained`, `TimeOut`, `Exit` | the flag of `/health/ready`, `srv.Shutdown`, `db.Close`, exit 0 |
| `Kill` | the end of a process at any step |
| `Settle` | from here on nothing fails by itself and nobody signals or kills (`calm`); only liveness needs it |

External: goose (the order of versions, one transaction for each migration together
with its row of the version table), the locks PostgreSQL takes for DDL, and
`net/http` (Shutdown closes listeners first and waits for connections that are not
idle).  That a migration fails where its tables are there already holds for every file
of `src/db/migrations`: `CREATE TABLE` without IF NOT EXISTS, and a `DROP CONSTRAINT`
without IF EXISTS.

## 3. Runs

| Run | Instance | Shows |
|---|---|---|
| `ledger_safety` | 3 requests, any 3 of 11 jobs; accounts cash and bank open, card not yet | the invariants and action properties of `Ledger`, and that it implements `LedgerBook` |
| `ledger_liveness` | 3 requests on 2 connections; crossing transfers, a posting that names each account twice, a deactivation | every request is answered |
| `ledger_deleted_is_empty` | 2 requests, each a transfer or a deactivation | finding: an account can be closed with money on it |
| `ledger_entries_move` | 2 requests | finding: entries of a deleted account move nothing |
| `ledger_wrap` | 1 request | finding: debits that wrap to zero pass as balanced |
| `history_safety` | 3 requests, each a posting on one account or on two; a client that reads page after page the rows of one account, or all rows with a limit that is no int32 | whole transactions, none skipped |
| `server_safety` | a server and a seeder, each started as often as it likes; 3 migrations of which 0 to 3 are there, 2 ping attempts, 2 requests | the invariants of `Server`, and that startups and shutdowns end and restarts suffice |
| `household_safety` | 3 requests, any 3 of 20 jobs; two admins, an outsider, a user to be | the invariants and action properties of `Household` |
| `household_has_admin` | 2 requests | finding: two removals take both admins |
| `household_re_add` | 2 requests | finding: a removed member can never be added again |
| `users_safety` | 3 requests, any 3 of 9 jobs; a database that is empty or has one user, two addresses, three passwords | the invariants, action properties and liveness of `Users` |
| `cards_safety` | 4 requests, any 4 of 6 jobs; a card that has settings, an account of another type | the invariants and the action property of `CreditCard` |

**Bounds.** `MaxInt` stands for 2^63 - 1; it is 3 (7 in `ledger_liveness`), small
enough that balances meet the end of BIGINT in a few steps and large enough that
one or two postings pass.  What wraps and what is refused depends only on
crossing the end, not on where it is.  Three requests are enough for two that
race and a third that makes the race possible (a posting that funds an account
while another is closing it; two removals and an addition), and for deadlocks of
two with a bystander on the pool.  Each request is one call: a client that calls
twice is two requests.  Versions need no bound, since every request takes a
bounded number of them.  `SYMMETRY` permutes requests, in safety runs only: no
property names one request.  `household_safety` has an id to be created for each
table; a second creation would meet the first in no row.  `users_safety` has
two seeders or registrations that meet on an address and a third request that
frees it or competes too, and changes of one password to a value and back, which
a check of the password alone would not tell from no change.  `cards_safety` has
four requests because a lost update through re-creation takes a read, a deletion,
a creation and the update it loses.  `history_safety` has pages of two
rows (`DefaultLimit`, 50 in the code) and `MaxOffset` 4: a client goes over the border
of a page once, with a third posting to push rows along, and then asks for as much
again.  `MaxInt32` is 2, so that a limit of 3 is negative as an int32 and gives the
default, and the offset of 3 that follows is refused.  Edits are left out of this run:
the reader's statements look at the journal only, which no edit changes.
`server_safety` has two processes because a race for a migration is one of two; the
theorems of `ServerProofs` cover any number.  Two of three migrations can be missing
when a process dies between them.

**Deadlock** is checked in every run: the only state that may have no successor
but itself is the one where every request is answered (`Finished`), and in
`history_safety` every client is through as well.  A server never finishes.

**Fairness.** `FairSpec` asks weak fairness of each request's `Posting` and
`Editing` steps (goroutines run; PostgreSQL hands a row lock to a waiter when its
owner ends; pgx hands out connections in order) and of `DeadlockVictim` (the
server's detector, external, always on).  It asks nothing of `Fail`: no failure
is needed for progress.  Without `DeadlockVictim` the property fails, because
`AdjustAccountBalance` takes row locks in the order of the entries.  `FairSpec` of
`Users` asks weak fairness of each request's steps but `Fail`.  There is no
deadlock detector in it: a transaction waits for at most one address, before it
holds any, so nobody can wait in a circle, and `EveryRequestAnswered` says so.

`FairServerSpec` asks weak fairness of each process's main goroutine (`Advance`: it
runs, sleeps end, the timer of Shutdown fires, statements return) and strong fairness
of `Migrate`, since a migration that waits for another process's is enabled and
disabled as others come and go, and PostgreSQL grants locks in the order they were
asked for.  It asks nothing of handlers, listeners, starts, signals and kills: a
shutdown ends although a request never does.  `RestartsSuffice` alone assumes, in its
own statement, that a process which ended with an error is started again, and speaks
of the time after `Settle`.

## 4. Findings

Each is a run that violates a statement the repository makes about itself; the
quotes are in `PROJECT.json`.

1. `AccountLogic.Deactivate` reads the balance and deletes by a later UPDATE that
   looks at neither balance nor version: a posting in between leaves money on a
   deleted account.  `ClosedEmptyUnlessMoved`, proved, says that this race is the
   only way.
2. `AdjustAccountBalance` matching no row is taken for success: a posting that
   names a deleted account commits, with one side only applied.
3. Debit and credit sums are int64 and wrap, so totals that differ by 2^64 are
   equal to `PostTransaction` and to the repository.  `BalancedWithoutWrap`, proved,
   says that this wrap is the only way.
4. `RemoveMember` counts admins and removes in two statements: two overlapping
   removals leave none.  `LastAdminOnlyByOverlap`, proved, says that this overlap
   is the only way.
5. A removed membership keeps the primary key, so adding the user again is
   refused as "already a member".

Remarks, on what no run refutes but a reader of the code should know:

- Credit card settings that were deleted and created again start from version 1, and
  the updates look for the account and the version: an update whose client read the
  old settings can be applied to the new ones.  `LostOnlyByRecreation`, proved, says
  that this is the only way an update replaces what its client has not seen.
- `RemoveMember` counts deactivated users among the admins, and `Deactivate` of a
  user looks at no household: in either order a household can be left with no admin
  who can log in.  `AbleAdminLostOnlySo`, proved, says that there is no third way.
- Deactivating a household closes nothing but its row: members, accounts and routes
  go on working.  The row itself never changes again (`ClosedForGood`, proved).
- The history's account filter applies to a page that is already cut: a filtered page
  can be short or empty with more to follow, so a client must go on by what it asked
  for, not by what it got.  Done so it misses nothing (`NothingSkipped`, proved), but
  for transactions with the same `created_at`, which the query does not order, and but
  for the next remark.
- `LedgerRepo.GetTransactionHistory` converts limit and offset to int32.  A limit from
  2^31 on is taken for 50, or for its low bits (2^32 + 1 gives one row), without an
  error: a client that goes on by what it asked for then skips the rest
  (`NothingSkipped` without its bound on the limit is violated in `history_safety`).
  An offset from 2^31 on is negative, which PostgreSQL refuses: HTTP 500.  Clients with
  a limit below 2^31 meet that error before any offset wraps round to the first rows,
  which is part of what `PagesSkipNothing` proves.
- The entries of a transaction have one `created_at` and are ordered by it alone: they
  may be shown in another order than they were posted in, and in another one each time.
- A client whose posting was answered with an error does not know whether it was
  committed: the answer of COMMIT may be lost, and posting again may post twice, since
  there is no idempotency key.
- `GetBalance` of an account that does not exist answers 500: the repository does not
  translate the missing row.
- Where `ListenAndServe` fails, the process logs it and lives on without a listener
  until it is signalled; "It always returns 200 ok as long as the process is running"
  (`src/internal/adapter/http/health.go:35`) does not hold of it.
- `/health/ready` answers 503 only in the moment between the flag and Shutdown, which
  closes the listeners at once.
- With `DBStartupRetries` 0 the server gives up without a ping; after the last failed
  ping it sleeps once more before it does.
- Two processes that migrate at once do no harm, but the one that loses exits with an
  error and has to be started again (`RestartsSuffice`).  The tests avoid this by an
  advisory lock (`src/internal/testutil/dbtest/dbtest.go:87`).

## 5. Proofs

All theorems are for every value of the constants, under the assumptions
`MaxIntAssumption`, `LedgerAssumption`, `HistoryAssumption`, `HouseholdAssumption`,
`UsersAssumption`, `CreditCardAssumption` and `ServerAssumption`, which give the
constants their types and say of the start that users have different addresses, that
only cards have settings, that the table of users in `Household` and the requests
taken by `Ledger` are finite, and that no process is both a server and a seeder.
Where a theorem assumes more, its statement says so (`SumsFit`).

`LedgerProofs` proves `TypeCorrect`, `LocksHeld` (`RowsUnderLock`), `AnswersTrue`
(`AnswerMatchesJournal`), `NoUpdateLost` and `ClosedEmpty`.  The inductive
invariant says, beside the types: a transaction owns a lock only between its
first UPDATE and its end, of an account it has reached; an owned row's `head` is
a newer version of its `row`; a posting's index is within its entries and its
journal empty until COMMIT; and versions determine balances, in that a row an edit
has `seen` is either the current one or one of a strictly older version.
`NoLostUpdate` needs that last part: an equal version is an equal balance only
because every statement that writes a balance takes a new version, and because
uncommitted versions in `head` are newer than the committed ones.

`LedgerSums` is about the sums of `LedgerData` for entries of any length.  Those are
folds of the community modules, each of which chooses a function that satisfies a
recursion, so nothing follows about them before it is shown that there is one, and
that the order of summation does not matter.  Both are inductions over subsets of a
finite set.  The library's induction theorems cannot be instantiated here, but a set
can be: `SubsetInduction` says that a set which contains a subset whenever it contains
its smaller subsets contains them all, from `WFMin` and the fact that strict inclusion
of finite sets is well-founded.  Then one more entry adds one more term (`NetNext`,
`TouchesNext`, `ExactSumNext`); Go's loop computes the exact sum modulo 2^64
(`GoSumWraps`), and the exact sum itself if that fits (`GoSumExact`).

`LedgerBookProofs` proves `Drift` (`DriftOnlyByHand`), `ImplementsBook` (`BookSpec`),
`AlwaysBalancedUpToWrap` and `BalancedWithoutWrap` (`JournalBalanced`).  COMMIT
publishes `head`, so these need to know what is in it.  `BookInv` says so: the `head`
of a locked row is its `row` moved by exactly the entries its owner has written so far
(`HeadInv`); a posting past its header has found its sums equal, every entry it has
INSERTed was accepted, and it holds the lock on every account it has reached that is
not deleted (`WrittenInv`: without that last part a COMMIT could publish the entries
and leave out an account they name); and an account that does not exist has no money
(`AbsentInv`).  Every step but a COMMIT and an edit of an account is then a stutter of
the book, every edit is one of its edits, and a COMMIT is its posting.

`ImplementsBook` and `BalancedWithoutWrap` assume `SumsFit`: the exact sum of each
type, in every job, is an int64.  Nothing in the code ensures that; `ledger_wrap` posts
what neither the book nor a balanced journal allows.  `Drift` and
`AlwaysBalancedUpToWrap` (debits equal credits modulo 2^64) do not assume it: balances
follow the journal even where the journal is not balanced.

`HistoryProofs` proves `ReadersOnlyRead` (every behaviour of the composition is one
of `Ledger`, whose theorems therefore hold in it), `HistoryTypeCorrect`, `PagesWhole`
(`ShownWhole`) and `PagesSkipNothing` (`NothingSkipped`).  Of the writers it needs only
that a committed posting stays in the journal as it is, with its stamp.  `ReaderInv`
says that what a client holds of a page is from the journal and passed the filter.
`SkipInv` says that a transaction a client has not been shown is still ahead of it: the
number of newer rows is at least the offset of the next page.  What is posted meanwhile
only adds rows: the newer ones push it to a later page, none of them to one that the
client has passed.  For that the page must start at the offset the client means and
have the rows it takes it to have: lemmas on `Int32` say so of limits that are int32s,
and `Counted`, a part of the invariant, bounds the offsets of such a client, since the
first one beyond an int32 is still too small to wrap round to a positive number.
`HistoryAssumption` says of the two widths that `2 * MaxInt32 <= MaxInt`, as with Go's
64-bit int.  `ReaderInv` does not say in which order entries are held, only that it is
one of their orders.

`HouseholdProofs` proves `TypeCorrect`, `BornTogether` (`BornWithMember`),
`AdminsAct` (`ActsForAdmin`), `LastAdminByOverlap`, `AbleAdminLost`
(`AbleAdminLostOnlySo`), `ClosedStaysClosed` (`ClosedForGood`) and `RenamesSeen`
(`NoRenameLost`).  The invariant says that open transactions insert rows no table
and no other transaction has (`Apart`), that one about to commit is complete
(`Complete`), that members are users, and that a request past the guard acts for
a caller who is an admin or has been removed (`Guarded`), which no step undoes
because a membership row is never deleted and its role never changed.
`RowsMoveOn` says how a step may change the tables, whoever takes it; the theorems
about renames and about deactivated households are read off it.

`UsersProofs` proves `TypeCorrect`, `NoSecondAddress` (`LoginUnambiguous`),
`SeedsWhole` (`NeverHalfSeeded`), `OwnersChangePasswords` (`PasswordByOwner`) and
`NoProfileUpdateLost` (`NoProfileLost`).  `AddressInv` extends the uniqueness of
addresses to rows that open transactions have inserted, where the index already
decides.  `SeenInv` says that the row a client has seen is the current one, an
older version of it, or of a user since deactivated, and that a change of password
that has passed its check holds the password of the version it saw, if that is
still the current one: verifying an earlier read is safe because the UPDATE
insists on a version that is at least as old.

`CreditCardProofs` proves `TypeCorrect`, `OnlyCards` (`SettingsOfCards`) and
`OnlyRecreationLoses` (`LostOnlyByRecreation`).  `IdInv` says that the id of a
request which has yet to create its row is nowhere, and that, of the row a client
has seen, the table has that version, a newer one, or another row.

`ServerProofs` proves `ServerTypeCorrect`, `MigrationsWhole` (`SchemaWhole`),
`MigratedBeforeServing` (`ServesMigrated`) and `DrainedBeforeExit` (`CutOnlyLate`).
The invariant says that a migration being applied is applied by one process and is in
no table yet (`DDLInv`: the locks of its statements, and the error where a table is
there already, make goose's missing session lock harmless); that a process past
`ListMissing` still has pending whatever is missing (`PendingInv`), so that one which
has nothing pending stands on a complete schema; and that a running request belongs to
a process that serves, or waits for it, or waited until its timeout (`RequestInv`).

Model-checked only: `EveryRequestAnswered` of `Ledger` and of `Users`, `StartupEnds`,
`SignalEnds` and `RestartsSuffice`, which are liveness under fairness and beyond TLAPS.
The invariants of the proofs were checked by TLC on the instances of the runs before
they were proved.

## 6. Not modelled

External: PostgreSQL and pgx, modelled from how the code uses them (READ
COMMITTED, row locks with re-evaluation of the WHERE, unique and foreign keys,
CHECKs, BIGINT range, deadlock detection, rollback of broken connections).
Names, e-mail addresses, dates, JSON, logging, tracing and layout are left out; a
validation's outcome is a choice.  Versions are naturals, not int32.  Clients are
taken to send the version of a row they have read: one that makes a version up is
outside of `NoLostUpdate`, `NoRenameLost`, `PasswordByOwner`, `NoProfileLost` and
`LostOnlyByRecreation`.  `Login` changes no state; what it relies on is
`LoginUnambiguous`.

Not modelled, and why:

- `Login`, the authentication middleware and its adapters: they read, hash and verify
  within one request and change nothing.  Tokens are not revoked, so a deactivated
  user is a caller like another in `Household`.
- Validation rules, configuration, clock, context values, logging and tracing: pure
  predicates, values read once, or output.
- `platform/money`: no package of the program imports it, so no behaviour depends on
  it.  (Its `Split` loses a remainder for negative amounts: Go's `%` is negative there
  and the loop that hands it out does not run.)
- The member guard of the account and ledger routes: a read of `household_members`
  before the first statement of a request of `Ledger`, on rows it shares nothing with.
- The in-memory fakes of the repositories: test doubles of what is modelled.
- The flushing of traces at exit, and the pgx pool, which is not closed but ends with
  the process: PostgreSQL rolls back what its connections had open, which is `Rollback`
  of the request modules.
