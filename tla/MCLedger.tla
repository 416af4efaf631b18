------------------------------ MODULE MCLedger ------------------------------
(***************************************************************************)
(* Small instances of Ledger for TLC.  cash and bank are open at the start,*)
(* card is an id that a request may create or, too early, name in an entry.*)
(***************************************************************************)
EXTENDS Ledger, TLC

CONSTANTS cash, bank, card, r1, r2, r3

Debit(acct, amount)  == [acct |-> acct, type |-> "DEBIT", amount |-> amount]
Credit(acct, amount) == [acct |-> acct, type |-> "CREDIT", amount |-> amount]

PostJob(es) == [op |-> "post", acct |-> cash, balance |-> 0, entries |-> es]

EditJob(op, acct, balance) ==
    [op |-> op, acct |-> acct, balance |-> balance, entries |-> <<>>]

AllAccounts == {cash, bank, card}
OpenAtStart == {cash, bank}
OneRequest == {r1}
TwoRequests == {r1, r2}
ThreeRequests == {r1, r2, r3}
TwoAccounts == {cash, bank}

\* A transfer each way, so that their row locks are taken in opposite orders.
Transfers ==
    { PostJob(<<Debit(cash, 1), Credit(bank, 1)>>),
      PostJob(<<Debit(bank, 1), Credit(cash, 1)>>) }

\* Postings that the logic, the foreign key, the CHECK on entry_type or the
\* range of BIGINT refuses.
RefusedPostings ==
    { PostJob(<<Debit(cash, 1)>>),
      PostJob(<<Debit(cash, 1), Credit(card, 1)>>),
      PostJob(<<[acct |-> cash, type |-> "OTHER", amount |-> 1]>>) }

Edits ==
    { EditJob("setBalance", cash, 0), EditJob("setBalance", cash, MaxInt),
      EditJob("rename", cash, 0), EditJob("deactivate", cash, 0),
      EditJob("deactivate", bank, 0), EditJob("create", card, 0) }

SafetyJobs == Transfers \cup RefusedPostings \cup Edits

\* A transfer and the deactivation of one of its accounts.
ClosingJobs == Transfers \cup { EditJob("deactivate", cash, 0) }

\* Two transfers that cross, a posting that names each account twice, and an
\* edit they meet.
LivenessJobs ==
    Transfers \cup
    { PostJob(<<Credit(cash, 1), Debit(bank, 1), Debit(cash, 1), Credit(bank, 1)>>),
      EditJob("deactivate", bank, 0) }

\* Debits only.  Their sum is the first that wraps to 0.
WrappingJobs ==
    { PostJob(<<Debit(cash, MaxInt), Debit(bank, MaxInt), Debit(card, 2)>>) }

Symmetry == Permutations(Requests)
=============================================================================
