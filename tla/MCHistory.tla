------------------------------ MODULE MCHistory ------------------------------
(***************************************************************************)
(* Small instances of History for TLC: three requests write, one client    *)
(* reads, with a page smaller than the history.                            *)
(***************************************************************************)
EXTENDS History, TLC

CONSTANTS cash, bank, r1, r2, r3, c1

Debit(acct, amount)  == [acct |-> acct, type |-> "DEBIT", amount |-> amount]
Credit(acct, amount) == [acct |-> acct, type |-> "CREDIT", amount |-> amount]

PostJob(es) == [op |-> "post", acct |-> cash, balance |-> 0, entries |-> es]

TwoAccounts == {cash, bank}
ThreeRequests == {r1, r2, r3}
OneClient == {c1}

\* Postings on one account or on two.
HistoryJobs ==
    { PostJob(<<Debit(cash, 4), Credit(bank, 4)>>),
      PostJob(<<Debit(cash, 4), Credit(cash, 4)>>) }

\* The rows of one account and no limit, and a limit that is negative as an int32:
\* the offset that its client goes on with is, too.
HistoryQueries ==
    { [acct |-> bank, limit |-> -1], [acct |-> AnyAccount, limit |-> MaxInt32 + 1] }

Symmetry == Permutations(Requests)
=============================================================================
