----------------------------- MODULE LedgerData -----------------------------
(***************************************************************************)
(* The data of the ledger component: 64-bit money, account rows, and the   *)
(* debit/credit entries of a posting.  Both the detailed specification     *)
(* (Ledger) and the book it implements (LedgerBook) are written over it.   *)
(*                                                                         *)
(* Money is a signed integer of a fixed width.  MaxInt stands for          *)
(* math.MaxInt64 (2^63 - 1): Go arithmetic wraps at it, and a BIGINT       *)
(* column refuses what does not fit.                                       *)
(***************************************************************************)
EXTENDS Integers, Sequences, SequencesExt

CONSTANTS
    Accounts,  \* the account ids a client may name
    MaxInt     \* the largest value of an int64 / BIGINT

ASSUME MaxIntAssumption == MaxInt \in Nat \ {0}

Bigint == (-MaxInt - 1) .. MaxInt

\* What a Go int64 addition leaves of the exact result n.
Wrap(n) == ((n + MaxInt + 1) % (2 * (MaxInt + 1))) - MaxInt - 1

(***************************************************************************)
(* A row of table accounts.  "absent" is an id no INSERT has used yet,     *)
(* "deleted" a row whose deleted_at is set (it stays in the table).        *)
(***************************************************************************)
Status == {"absent", "active", "deleted"}

Row == [status : Status, balance : Bigint, version : Nat]

NoRow  == [status |-> "absent", balance |-> 0, version |-> 0]

\* The row CreateAccount inserts: balance and version take the column defaults.
NewRow == [status |-> "active", balance |-> 0, version |-> 1]

Active(row) == row.status = "active"

(***************************************************************************)
(* An entry of a posting.  The handler copies entry_type from the JSON     *)
(* body unchecked, so it can also be a word the table does not know.       *)
(***************************************************************************)
EntryTypes == {"DEBIT", "CREDIT"}

Entry == [acct : Accounts, type : EntryTypes \cup {"OTHER"}, amount : Bigint]

\* Credits increase a balance, debits decrease it.
Delta(e) ==
    CASE e.type = "CREDIT" -> e.amount
      [] e.type = "DEBIT"  -> -e.amount
      [] OTHER             -> 0

\* The exact sum of the amounts of one type.
ExactSum(es, type) ==
    SumFunction([i \in DOMAIN es |-> IF es[i].type = type THEN es[i].amount ELSE 0])

\* The sum that Go's int64 loop computes.
GoSum(es, type) ==
    FoldLeft(LAMBDA s, e : IF e.type = type THEN Wrap(s + e.amount) ELSE s, 0, es)

\* How much the entries es move account a, and how many of them name it.
Net(es, a) ==
    SumFunction([i \in DOMAIN es |-> IF es[i].acct = a THEN Delta(es[i]) ELSE 0])

Touches(es, a) == Cardinality({i \in DOMAIN es : es[i].acct = a})
=============================================================================
