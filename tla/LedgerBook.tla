----------------------------- MODULE LedgerBook -----------------------------
(***************************************************************************)
(* What the ledger promises, without transactions, statements, locks or    *)
(* failures: a book of accounts and a journal, in which                    *)
(*   - a posting is one step: its balanced entries enter the journal and   *)
(*     every account of theirs that is open moves by the net of its        *)
(*     entries, or nothing happens at all;                                 *)
(*   - a request posts at most once, and what is posted is never changed;  *)
(*   - a balance is overwritten only by one who knows its current version; *)
(*   - every change of a balance or a name takes a new version.            *)
(* Ledger is shown to implement it.                                        *)
(***************************************************************************)
EXTENDS LedgerData

CONSTANTS
    Requests,      \* the identities under which a posting enters the journal
    OpenAccounts   \* the accounts that are open at the start

VARIABLES
    row,       \* row[a]: the row of account a
    journal    \* journal[r]: the entries posted by request r, <<>> if none

vars == <<row, journal>>

Init ==
    /\ row = [a \in Accounts |-> IF a \in OpenAccounts THEN NewRow ELSE NoRow]
    /\ journal = [r \in Requests |-> <<>>]

\* The entries of a posting that may enter the journal.
Balanced(es) ==
    /\ es # <<>>
    /\ \A i \in DOMAIN es : /\ es[i] \in Entry
                            /\ es[i].type \in EntryTypes
                            /\ es[i].amount > 0
                            /\ row[es[i].acct].status # "absent"
    /\ ExactSum(es, "DEBIT") = ExactSum(es, "CREDIT")

Post(r, es) ==
    /\ journal[r] = <<>>
    /\ Balanced(es)
    /\ journal' = [journal EXCEPT ![r] = es]
    /\ row' = [a \in Accounts |->
                 IF Active(row[a])
                 THEN [row[a] EXCEPT !.balance = @ + Net(es, a),
                                     !.version = @ + Touches(es, a)]
                 ELSE row[a]]
    /\ \A a \in Accounts : row'[a].balance \in Bigint

Open(a) ==
    /\ row[a].status = "absent"
    /\ row' = [row EXCEPT ![a] = NewRow]
    /\ UNCHANGED journal

\* With the balance the row has, this is what a rename does to it.
Overwrite(a, balance) ==
    /\ Active(row[a])
    /\ balance \in Bigint
    /\ row' = [row EXCEPT ![a].balance = balance, ![a].version = @ + 1]
    /\ UNCHANGED journal

Close(a) ==
    /\ Active(row[a])
    /\ row' = [row EXCEPT ![a].status = "deleted"]
    /\ UNCHANGED journal

(***************************************************************************)
(* The entries and the balance of a step are read off its outcome, so that *)
(* the next-state relation enumerates no inputs.                           *)
(***************************************************************************)
Next ==
    \/ \E r \in Requests : Post(r, journal'[r])
    \/ \E a \in Accounts : \/ Open(a)
                           \/ Overwrite(a, row'[a].balance)
                           \/ Close(a)

Spec == Init /\ [][Next]_vars
=============================================================================
