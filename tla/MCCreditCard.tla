---------------------------- MODULE MCCreditCard ----------------------------
(***************************************************************************)
(* Small instances of CreditCard for TLC: a card that has settings, and an *)
(* account of another type.                                                *)
(***************************************************************************)
EXTENDS CreditCard, TLC

CONSTANTS visa, cash, r1, r2, r3, r4

TwoAccounts == {visa, cash}
OneCard == {visa}
FourRequests == {r1, r2, r3, r4}

Task(op, acct, field) == [op |-> op, acct |-> acct, field |-> field]

CardJobs ==
    {Task("update", visa, field) : field \in {"closing_day", "limit_amount"}} \cup
    {Task("create", acct, "due_day") : acct \in TwoAccounts} \cup
    {Task(op, visa, "due_day") : op \in {"delete", "deactivate"}}

Symmetry == Permutations(Requests)
=============================================================================
