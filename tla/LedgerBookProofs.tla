-------------------------- MODULE LedgerBookProofs --------------------------
(***************************************************************************)
(* What a COMMIT of Ledger publishes: that balances move by what the       *)
(* journal says, and that the ledger implements the book.                  *)
(***************************************************************************)
EXTENDS LedgerProofs

\* How many entries of its job r has INSERTed.
Sent(r) == IF pc[r] = "adjust" THEN idx[r] ELSE idx[r] - 1

\* The entries INSERTed are of a known type, on accounts that exist.
Accepted(r) ==
    \A i \in 1 .. Sent(r) :
        /\ job[r].entries[i].type \in EntryTypes
        /\ row[job[r].entries[i].acct].status # "absent"

\* The transaction of r has locked every account it has reached, unless there was
\* no open row to lock.
Held(r) ==
    \A a \in Accounts : Reached(r, a) => lock[a] = r \/ row[a].status = "deleted"

\* A posting past its header has found its sums equal, and its rows are its own.
WrittenInv ==
    \A r \in Requests :
        pc[r] \in {"entry", "adjust", "commit"} =>
            SumsAgree(job[r].entries) /\ Accepted(r) /\ Held(r)

\* The row that entries es make of row old.
MovedBy(old, es, a) ==
    [old EXCEPT !.balance = @ + Net(es, a), !.version = @ + Touches(es, a)]

\* The uncommitted version of a row is the committed one moved by the entries its
\* owner has written: no more, no fewer, and each once.
HeadInv ==
    \A a \in Accounts, r \in Requests :
        lock[a] = r => head[a] = MovedBy(row[a], Written(r), a)

\* There is no money on an account that does not exist.
AbsentInv == \A a \in Accounts : row[a].status = "absent" => row[a].balance = 0

\* The inductive invariant behind the theorems below, beside Safe and RowsUnderLock.
BookInv == WrittenInv /\ HeadInv /\ AbsentInv

-----------------------------------------------------------------------------
\* A row that exists goes on existing, and a deleted one is never written again.
Kept(old, new) ==
    /\ old.status # "absent" => new.status # "absent"
    /\ old.status = "deleted" => new = old

\* What a step that leaves request q alone must keep for q.
LEMMA OthersWritten ==
    ASSUME Safe, WrittenInv, NEW q \in Requests,
           pc'[q] = pc[q], idx'[q] = idx[q], job'[q] = job[q],
           \A a \in Accounts : Kept(row[a], row'[a]),
           \A a \in Accounts : lock[a] = q => lock'[a] = q,
           pc[q] \in {"entry", "adjust", "commit"}
    PROVE  SumsAgree(job[q].entries)' /\ Accepted(q)' /\ Held(q)'
<1>1. SumsAgree(job[q].entries) /\ Accepted(q) /\ Held(q)
  BY DEF WrittenInv
<1>2. SumsAgree(job[q].entries)'
  BY <1>1 DEF SumsAgree
<1>3. Accepted(q)'
  <2> SUFFICES ASSUME NEW i \in 1 .. Sent(q)
               PROVE  /\ job[q].entries[i].type \in EntryTypes
                      /\ row'[job[q].entries[i].acct].status # "absent"
    BY DEF Accepted, Sent
  <2>1. job[q].entries \in Seq(Entry)
    BY LedgerAssumption DEF Safe, TypeOK, Job
  <2>2. Sent(q) \in 0 .. Len(job[q].entries)
    BY <2>1 DEF Safe, StepInv, Sent
  <2>3. job[q].entries[i] \in Entry
    BY <2>1, <2>2
  <2>4. job[q].entries[i].acct \in Accounts
    BY <2>3 DEF Entry
  <2> QED
    BY <1>1, <2>4 DEF Accepted, Kept
<1>4. Held(q)'
  <2> SUFFICES ASSUME NEW a \in Accounts, Reached(q, a)
               PROVE  lock'[a] = q \/ row'[a].status = "deleted"
    BY DEF Held, Reached
  <2> QED
    BY <1>1 DEF Held, Kept
<1> QED
  BY <1>2, <1>3, <1>4

\* An account that a transaction has locked is open, in both versions of its row.
LEMMA LockOwner ==
    ASSUME Safe, RowsUnderLock, NEW a \in Accounts, NEW r \in Requests, lock[a] = r
    PROVE  Active(row[a]) /\ Active(head[a])
BY LedgerAssumption DEF Safe, TypeOK, RowsUnderLock, UnderLock

\* The end of a transaction, either way.
LEMMA EndBook ==
    ASSUME Safe, RowsUnderLock, BookInv, NEW r \in Requests, NEW class,
           Rollback(r) \/ Publish(r), Answer(r, class), UNCHANGED <<job, idx>>
    PROVE  BookInv'
<1>1. \A q \in Requests : (q = r => pc'[q] = "done") /\ (q # r => pc'[q] = pc[q])
  BY DEF Answer, Safe, TypeOK
<1>2. ASSUME NEW a \in Accounts
      PROVE  /\ lock[a] = r => lock'[a] = NoRequest /\ row'[a] \in {row[a], head[a]}
             /\ lock[a] # r => lock'[a] = lock[a] /\ row'[a] = row[a] /\ head'[a] = head[a]
  BY DEF Rollback, Publish, Safe, TypeOK
<1>3. ASSUME NEW a \in Accounts, lock[a] = r
      PROVE  Active(row[a]) /\ Active(head[a])
  BY <1>3, LockOwner
<1>4. \A a \in Accounts : Kept(row[a], row'[a])
  BY <1>2, <1>3 DEF Kept, Active
<1>5. WrittenInv'
  <2> SUFFICES ASSUME NEW q \in Requests, pc'[q] \in {"entry", "adjust", "commit"}
               PROVE  SumsAgree(job[q].entries)' /\ Accepted(q)' /\ Held(q)'
    BY DEF WrittenInv
  <2>1. q # r /\ pc'[q] = pc[q]
    BY <1>1
  <2>2. \A a \in Accounts : lock[a] = q => lock'[a] = q
    BY <1>2, <2>1
  <2> QED
    BY <1>4, <2>1, <2>2, OthersWritten DEF BookInv
<1>6. HeadInv'
  <2> SUFFICES ASSUME NEW a \in Accounts, NEW q \in Requests, lock'[a] = q
               PROVE  (head[a] = MovedBy(row[a], Written(q), a))'
    BY DEF HeadInv
  <2>1. lock[a] = q /\ row'[a] = row[a] /\ head'[a] = head[a]
    BY <1>2, LedgerAssumption
  <2>2. head[a] = MovedBy(row[a], Written(q), a)
    BY <2>1 DEF BookInv, HeadInv
  <2> QED
    BY <2>1, <2>2 DEF MovedBy, Written
<1>7. AbsentInv'
  BY <1>2, <1>3 DEF BookInv, AbsentInv, Active
<1> QED
  BY <1>5, <1>6, <1>7 DEF BookInv

\* A step that touches no row and no index, of a request outside its transaction
\* or at its BEGIN.
LEMMA MoveBook ==
    ASSUME Safe, BookInv, NEW r \in Requests, UNCHANGED <<rows, job, idx>>,
           \A q \in Requests \ {r} : pc'[q] = pc[q],
           pc'[r] \notin {"entry", "adjust", "commit"}
    PROVE  BookInv'
<1>1. \A a \in Accounts : Kept(row[a], row'[a])
  BY DEF rows, Kept
<1>2. WrittenInv'
  <2> SUFFICES ASSUME NEW q \in Requests, pc'[q] \in {"entry", "adjust", "commit"}
               PROVE  SumsAgree(job[q].entries)' /\ Accepted(q)' /\ Held(q)'
    BY DEF WrittenInv
  <2>1. pc'[q] = pc[q]
    OBVIOUS
  <2> QED
    BY <1>1, <2>1, OthersWritten DEF BookInv, rows
<1> QED
  BY <1>2 DEF BookInv, HeadInv, AbsentInv, Written, rows

\* A statement sent to the pool writes a row that no transaction has locked.
LEMMA AutoCommitBook ==
    ASSUME Safe, RowsUnderLock, BookInv, NEW r \in Requests, NEW acct \in Accounts, NEW new,
           AutoCommit(r, acct, new), UNCHANGED <<job, idx>>,
           new.status # "absent", row[acct].status # "deleted"
    PROVE  BookInv'
<1>1. \A q \in Requests : (q = r => pc'[q] = "done") /\ (q # r => pc'[q] = pc[q])
  BY DEF AutoCommit, Answer, Safe, TypeOK
<1>2. lock' = lock /\ lock[acct] = NoRequest /\ row'[acct] = new
  BY DEF AutoCommit, Safe, TypeOK
<1>3. \A a \in Accounts \ {acct} : row'[a] = row[a] /\ head'[a] = head[a]
  BY DEF AutoCommit, Safe, TypeOK
<1>4. \A a \in Accounts : Kept(row[a], row'[a])
  BY <1>2, <1>3 DEF Kept
<1>5. WrittenInv'
  <2> SUFFICES ASSUME NEW q \in Requests, pc'[q] \in {"entry", "adjust", "commit"}
               PROVE  SumsAgree(job[q].entries)' /\ Accepted(q)' /\ Held(q)'
    BY DEF WrittenInv
  <2>1. q # r /\ pc'[q] = pc[q]
    BY <1>1
  <2> QED
    BY <1>2, <1>4, <2>1, OthersWritten DEF BookInv
<1>6. HeadInv'
  <2> SUFFICES ASSUME NEW a \in Accounts, NEW q \in Requests, lock'[a] = q
               PROVE  (head[a] = MovedBy(row[a], Written(q), a))'
    BY DEF HeadInv
  <2>1. lock[a] = q /\ row'[a] = row[a] /\ head'[a] = head[a]
    BY <1>2, <1>3, LedgerAssumption
  <2>2. head[a] = MovedBy(row[a], Written(q), a)
    BY <2>1 DEF BookInv, HeadInv
  <2> QED
    BY <2>1, <2>2 DEF MovedBy, Written
<1>7. AbsentInv'
  BY <1>2, <1>3 DEF BookInv, AbsentInv
<1> QED
  BY <1>5, <1>6, <1>7 DEF BookInv

\* The first INSERT: no entry is written yet.
LEMMA HeaderBook ==
    ASSUME Safe, BookInv, NEW r \in Requests, InsertTransaction(r),
           SumsAgree(job[r].entries)
    PROVE  BookInv'
<1>1. /\ pc[r] = "header" /\ pc'[r] = "entry" /\ idx[r] = 1
      /\ UNCHANGED <<rows, job, idx>>
      /\ \A q \in Requests \ {r} : pc'[q] = pc[q]
  BY DEF InsertTransaction, Goto, Safe, TypeOK, StepInv
<1>2. \A a \in Accounts : Kept(row[a], row'[a])
  BY <1>1 DEF rows, Kept
<1>3. WrittenInv'
  <2> SUFFICES ASSUME NEW q \in Requests, pc'[q] \in {"entry", "adjust", "commit"}
               PROVE  SumsAgree(job[q].entries)' /\ Accepted(q)' /\ Held(q)'
    BY DEF WrittenInv
  <2>1. CASE q # r
    BY <1>1, <1>2, <2>1, OthersWritten DEF BookInv, rows
  <2>2. CASE q = r
    <3>1. SumsAgree(job[q].entries)'
      BY <1>1, <2>2 DEF SumsAgree
    <3>2. Accepted(q)'
      BY <1>1, <2>2 DEF Accepted, Sent
    <3>3. Held(q)'
      BY <1>1, <2>2 DEF Held, Reached
    <3> QED
      BY <3>1, <3>2, <3>3
  <2> QED
    BY <2>1, <2>2
<1> QED
  BY <1>1, <1>3 DEF BookInv, HeadInv, AbsentInv, Written, rows

\* An INSERT of an entry that the constraints accept.
LEMMA InsertBook ==
    ASSUME Safe, BookInv, NEW r \in Requests, InsertLedgerEntry(r),
           EntryAccepted(EntryOf(r))
    PROVE  BookInv'
<1>1. /\ pc[r] = "entry" /\ pc'[r] = "adjust"
      /\ UNCHANGED <<rows, job, idx>>
      /\ \A q \in Requests \ {r} : pc'[q] = pc[q]
  BY DEF InsertLedgerEntry, Goto, Safe, TypeOK
<1>2. \A a \in Accounts : Kept(row[a], row'[a])
  BY <1>1 DEF rows, Kept
<1>3. idx[r] \in 1 .. Len(job[r].entries) /\ job[r].entries \in Seq(Entry)
  BY <1>1, EntryOfType
<1>4. WrittenInv'
  <2> SUFFICES ASSUME NEW q \in Requests, pc'[q] \in {"entry", "adjust", "commit"}
               PROVE  SumsAgree(job[q].entries)' /\ Accepted(q)' /\ Held(q)'
    BY DEF WrittenInv
  <2>1. CASE q # r
    BY <1>1, <1>2, <2>1, OthersWritten DEF BookInv, rows
  <2>2. CASE q = r
    <3>1. SumsAgree(job[r].entries) /\ Accepted(r) /\ Held(r)
      BY <1>1 DEF BookInv, WrittenInv
    <3>2. SumsAgree(job[q].entries)'
      BY <1>1, <2>2, <3>1 DEF SumsAgree
    <3>3. Accepted(q)'
      <4> SUFFICES ASSUME NEW i \in 1 .. idx[r]
                   PROVE  /\ job[r].entries[i].type \in EntryTypes
                          /\ row[job[r].entries[i].acct].status # "absent"
        BY <1>1, <2>2 DEF Accepted, Sent, rows
      <4>1. CASE i = idx[r]
        BY <4>1 DEF EntryAccepted, EntryOf
      <4>2. CASE i # idx[r]
        <5>1. i \in 1 .. Sent(r)
          BY <1>1, <1>3, <4>2 DEF Sent
        <5> QED
          BY <3>1, <5>1 DEF Accepted
      <4> QED
        BY <4>1, <4>2
    <3>4. Held(q)'
      BY <1>1, <2>2, <3>1 DEF Held, Reached, rows
    <3> QED
      BY <3>2, <3>3, <3>4
  <2> QED
    BY <2>1, <2>2
<1> QED
  BY <1>1, <1>4 DEF BookInv, HeadInv, AbsentInv, Written, rows

\* What the next entry adds to the entries written.
LEMMA WrittenNext ==
    ASSUME Safe, NEW r \in Requests, pc[r] = "adjust", NextEntry(r), UNCHANGED job,
           NEW a \in Accounts
    PROVE  LET e == EntryOf(r)
           IN  /\ Net(Written(r), a) \in Int /\ Touches(Written(r), a) \in Nat
               /\ Net(Written(r)', a) = Net(Written(r), a) + Move(e, a)
               /\ Touches(Written(r)', a)
                    = Touches(Written(r), a) + (IF e.acct = a THEN 1 ELSE 0)
<1>1. idx[r] \in 1 .. Len(job[r].entries) /\ job[r].entries \in Seq(Entry)
  BY EntryOfType
<1>2. idx'[r] = idx[r] + 1 /\ job'[r] = job[r]
  BY DEF NextEntry, Safe, TypeOK
<1>3. PICK es \in Seq(Entry) : es = job[r].entries
  BY <1>1
<1> PICK i \in 1 .. Len(es) : i = idx[r]
  BY <1>1, <1>3
<1>4. /\ Written(r) = SubSeq(es, 1, i - 1) /\ Written(r)' = SubSeq(es, 1, i)
      /\ EntryOf(r) = es[i]
  BY <1>2, <1>3 DEF Written, EntryOf
<1>5. Net(Written(r), a) \in Int
  <2>1. SubSeq(es, 1, i - 1) \in Seq(Entry)
    BY <1>3
  <2> QED
    BY <1>4, <2>1, NetType
<1>6. Net(Written(r)', a) = Net(Written(r), a) + Move(EntryOf(r), a)
  BY <1>4, NetNext
<1>7. /\ Touches(Written(r), a) \in Nat
      /\ Touches(Written(r)', a)
           = Touches(Written(r), a) + (IF EntryOf(r).acct = a THEN 1 ELSE 0)
  BY <1>4, TouchesNext
<1> QED
  BY <1>5, <1>6, <1>7

\* The transaction goes on from its UPDATE to the next entry or the COMMIT, and has
\* reached what it had reached and the account of this entry.
LEMMA AdjustWritten ==
    ASSUME Safe, WrittenInv, NEW r \in Requests, pc[r] = "adjust", NextEntry(r),
           UNCHANGED <<row, job>>,
           \A a \in Accounts : lock[a] = r => lock'[a] = r,
           lock'[EntryOf(r).acct] = r \/ row[EntryOf(r).acct].status = "deleted"
    PROVE  SumsAgree(job[r].entries)' /\ Accepted(r)' /\ Held(r)'
<1>1. idx[r] \in 1 .. Len(job[r].entries) /\ idx'[r] = idx[r] + 1
  BY EntryOfType DEF NextEntry, Safe, TypeOK
<1>2. SumsAgree(job[r].entries) /\ Accepted(r) /\ Held(r)
  BY DEF WrittenInv
<1>3. Sent(r)' = Sent(r)
  BY <1>1 DEF Sent, NextEntry, Goto, Safe, TypeOK
<1>4. Held(r)'
  <2> SUFFICES ASSUME NEW a \in Accounts, Reached(r, a)'
               PROVE  lock'[a] = r \/ row'[a].status = "deleted"
    BY DEF Held
  <2>1. PICK i \in 1 .. Len(job[r].entries) : i < idx[r] + 1 /\ job[r].entries[i].acct = a
    BY <1>1 DEF Reached
  <2>2. CASE i = idx[r]
    BY <2>1, <2>2 DEF EntryOf
  <2>3. CASE i # idx[r]
    <3>1. Reached(r, a)
      BY <1>1, <2>1, <2>3 DEF Reached
    <3> QED
      BY <1>2, <3>1 DEF Held
  <2> QED
    BY <2>2, <2>3
<1> QED
  BY <1>2, <1>3, <1>4 DEF SumsAgree, Accepted

\* Entries that do not name an account reached so far move it by nothing.
LEMMA UnreachedUnmoved ==
    ASSUME Safe, NEW r \in Requests, pc[r] \in {"entry", "adjust", "commit"},
           NEW a, ~Reached(r, a)
    PROVE  Net(Written(r), a) = 0 /\ Touches(Written(r), a) = 0
<1>1. /\ job[r].entries \in Seq(Entry)
      /\ idx[r] \in Nat
      /\ idx[r] - 1 \in 0 .. Len(job[r].entries)
  BY LedgerAssumption DEF Safe, TypeOK, StepInv, Job
<1>2. PICK es \in Seq(Entry) : es = job[r].entries
  BY <1>1
<1>3. PICK n \in 0 .. Len(es) : n = idx[r] - 1
  BY <1>1, <1>2
<1>4. \A k \in 1 .. n : es[k].acct # a
  <2> SUFFICES ASSUME NEW k \in 1 .. n, es[k].acct = a PROVE FALSE
    OBVIOUS
  <2>1. k \in 1 .. Len(job[r].entries) /\ k < idx[r] /\ job[r].entries[k].acct = a
    BY <1>1, <1>2, <1>3
  <2> QED
    BY <2>1 DEF Reached
<1>5. PICK ws : ws = SubSeq(es, 1, n)
  OBVIOUS
<1>6. ws \in Seq(Entry) /\ \A k \in DOMAIN ws : ws[k].acct # a
  BY <1>4, <1>5, PrefixProperties
<1>7. Net(ws, a) = 0 /\ Touches(ws, a) = 0
  BY <1>6, NetUnnamed
<1> QED
  BY <1>2, <1>3, <1>5, <1>7 DEF Written

\* Entries that do not name an account leave its row as it is.
LEMMA MovedByNothing ==
    ASSUME NEW old \in Row, NEW es, NEW a, Net(es, a) = 0, Touches(es, a) = 0
    PROVE  MovedBy(old, es, a) = old
<1>1. old.balance + 0 = old.balance /\ old.version + 0 = old.version
  BY MaxIntAssumption DEF Row, Bigint
<1>2. MovedBy(old, es, a) = [old EXCEPT !.balance = old.balance, !.version = old.version]
  BY <1>1 DEF MovedBy
<1> QED
  BY <1>2 DEF Row

\* One more entry moves the row as the UPDATE does.
LEMMA MovedByNext ==
    ASSUME NEW old \in Row, NEW es, NEW fs, NEW a, NEW d \in Int,
           Net(es, a) \in Int, Touches(es, a) \in Nat,
           Net(fs, a) = Net(es, a) + d, Touches(fs, a) = Touches(es, a) + 1
    PROVE  Adjusted(MovedBy(old, es, a), d) = MovedBy(old, fs, a)
<1>1. old.balance \in Int /\ old.version \in Nat
  BY MaxIntAssumption DEF Row, Bigint
<1>2. /\ (old.balance + Net(es, a)) + d = old.balance + Net(fs, a)
      /\ (old.version + Touches(es, a)) + 1 = old.version + Touches(fs, a)
  BY <1>1
<1>3. /\ MovedBy(old, es, a).balance = old.balance + Net(es, a)
      /\ MovedBy(old, es, a).version = old.version + Touches(es, a)
  BY DEF MovedBy, Row
<1>4. Adjusted(MovedBy(old, es, a), d)
        = [MovedBy(old, es, a) EXCEPT !.balance = old.balance + Net(fs, a),
                                      !.version = old.version + Touches(fs, a)]
  BY <1>2, <1>3 DEF Adjusted
<1> QED
  BY <1>4 DEF MovedBy, Row

\* The UPDATE of an account that is deleted writes nothing.
LEMMA NothingBook ==
    ASSUME Safe, RowsUnderLock, BookInv, NEW r \in Requests, AdjustNothing(r)
    PROVE  BookInv'
<1>1. /\ pc[r] = "adjust" /\ NextEntry(r) /\ UNCHANGED <<row, head, lock, job>>
      /\ ~Active(row[EntryOf(r).acct])
  BY DEF AdjustNothing, rows
<1>2. \A q \in Requests \ {r} : pc'[q] = pc[q] /\ idx'[q] = idx[q]
  BY <1>1 DEF NextEntry, Goto, Safe, TypeOK
<1>3. EntryOf(r) \in Entry /\ EntryOf(r).acct \in Accounts
  BY <1>1, EntryOfType DEF Entry
<1>4. row[EntryOf(r).acct].status = "deleted"
  <2>1. row[EntryOf(r).acct].status # "absent"
    <3>1. Accepted(r) /\ idx[r] \in 1 .. Sent(r)
      BY <1>1, EntryOfType DEF BookInv, WrittenInv, Sent
    <3> QED
      BY <3>1 DEF Accepted, EntryOf
  <2> QED
    BY <1>1, <1>3, <2>1 DEF Active, Safe, TypeOK, Row, Status
<1>5. WrittenInv'
  <2> SUFFICES ASSUME NEW q \in Requests, pc'[q] \in {"entry", "adjust", "commit"}
               PROVE  SumsAgree(job[q].entries)' /\ Accepted(q)' /\ Held(q)'
    BY DEF WrittenInv
  <2>1. CASE q # r
    <3>1. \A a \in Accounts : Kept(row[a], row'[a])
      BY <1>1 DEF Kept
    <3> QED
      BY <1>1, <1>2, <2>1, <3>1, OthersWritten DEF BookInv
  <2>2. CASE q = r
    BY <1>1, <1>4, <2>2, AdjustWritten DEF BookInv
  <2> QED
    BY <2>1, <2>2
<1>6. HeadInv'
  <2> SUFFICES ASSUME NEW a \in Accounts, NEW q \in Requests, lock[a] = q
               PROVE  head[a] = MovedBy(row[a], Written(q)', a)
    BY <1>1 DEF HeadInv, MovedBy
  <2>1. head[a] = MovedBy(row[a], Written(q), a) /\ Active(row[a])
    BY LockOwner DEF BookInv, HeadInv
  <2>2. CASE q # r
    <3>1. Written(q)' = Written(q)
      BY <1>1, <1>2, <2>2 DEF Written
    <3> QED
      BY <2>1, <3>1
  <2>3. CASE q = r
    <3>1. EntryOf(r).acct # a
      BY <1>1, <2>1
    <3>2. /\ Net(Written(r)', a) = Net(Written(r), a)
          /\ Touches(Written(r)', a) = Touches(Written(r), a)
      BY <1>1, <3>1, WrittenNext DEF Move
    <3> QED
      BY <2>1, <2>3, <3>2 DEF MovedBy
  <2> QED
    BY <2>2, <2>3
<1> QED
  BY <1>1, <1>5, <1>6 DEF BookInv, AbsentInv

\* The UPDATE of an account that is open: the newest version moves by the entry.
LEMMA AdjustBook ==
    ASSUME Safe, RowsUnderLock, BookInv, NEW r \in Requests, AdjustAccountBalance(r),
           Fits(head[EntryOf(r).acct].balance + Delta(EntryOf(r)))
    PROVE  BookInv'
<1>1. PICK b \in Accounts : b = EntryOf(r).acct
  BY EntryOfType DEF AdjustAccountBalance, Entry
<1>2. PICK d \in Int : d = Delta(EntryOf(r))
  BY EntryOfType, DeltaType DEF AdjustAccountBalance
<1>3. /\ pc[r] = "adjust" /\ NextEntry(r) /\ UNCHANGED <<row, job>>
      /\ head' = [head EXCEPT ![b] = Adjusted(@, d)]
      /\ lock' = [lock EXCEPT ![b] = r]
      /\ lock[b] \in {r, NoRequest} /\ Active(row[b])
  BY <1>1, <1>2 DEF AdjustAccountBalance
<1>4. \A q \in Requests \ {r} : pc'[q] = pc[q] /\ idx'[q] = idx[q]
  BY <1>3 DEF NextEntry, Goto, Safe, TypeOK
<1>5. lock'[b] = r /\ \A a \in Accounts \ {b} : lock'[a] = lock[a]
  BY <1>3 DEF Safe, TypeOK
<1>6. head'[b] = Adjusted(head[b], d) /\ \A a \in Accounts \ {b} : head'[a] = head[a]
  BY <1>3 DEF Safe, TypeOK
<1>7. r # NoRequest
  BY LedgerAssumption
<1>8. WrittenInv'
  <2> SUFFICES ASSUME NEW q \in Requests, pc'[q] \in {"entry", "adjust", "commit"}
               PROVE  SumsAgree(job[q].entries)' /\ Accepted(q)' /\ Held(q)'
    BY DEF WrittenInv
  <2>1. CASE q # r
    <3>1. \A a \in Accounts : Kept(row[a], row'[a])
      BY <1>3 DEF Kept
    <3>2. \A a \in Accounts : lock[a] = q => lock'[a] = q
      <4>1. q # NoRequest
        BY LedgerAssumption
      <4> QED
        BY <1>3, <1>5, <2>1, <4>1
    <3> QED
      BY <1>3, <1>4, <2>1, <3>1, <3>2, OthersWritten DEF BookInv
  <2>2. CASE q = r
    <3>1. \A a \in Accounts : lock[a] = r => lock'[a] = r
      BY <1>5
    <3> QED
      BY <1>1, <1>3, <1>5, <2>2, <3>1, AdjustWritten DEF BookInv
  <2> QED
    BY <2>1, <2>2
<1>9. head'[b] = MovedBy(row[b], Written(r)', b)
  <2>1. head[b] = MovedBy(row[b], Written(r), b)
    <3>1. CASE lock[b] = r
      BY <3>1 DEF BookInv, HeadInv
    <3>2. CASE lock[b] = NoRequest
      <4>1. head[b] = row[b] /\ row[b] \in Row
        BY <3>2 DEF RowsUnderLock, UnderLock, Safe, TypeOK
      <4>2. ~Reached(r, b)
        BY <1>3, <1>7, <3>2 DEF BookInv, WrittenInv, Held, Active
      <4>3. Net(Written(r), b) = 0 /\ Touches(Written(r), b) = 0
        BY <1>3, <4>2, UnreachedUnmoved
      <4> QED
        BY <4>1, <4>3, MovedByNothing
    <3> QED
      BY <1>3, <3>1, <3>2
  <2>2. /\ Net(Written(r), b) \in Int /\ Touches(Written(r), b) \in Nat
        /\ Net(Written(r)', b) = Net(Written(r), b) + d
        /\ Touches(Written(r)', b) = Touches(Written(r), b) + 1
    BY <1>1, <1>2, <1>3, WrittenNext DEF Move
  <2>3. row[b] \in Row
    BY DEF Safe, TypeOK
  <2> QED
    BY <1>6, <2>1, <2>2, <2>3, MovedByNext
<1>10. HeadInv'
  <2> SUFFICES ASSUME NEW a \in Accounts, NEW q \in Requests, lock'[a] = q
               PROVE  head'[a] = MovedBy(row[a], Written(q)', a)
    BY <1>3 DEF HeadInv, MovedBy
  <2>1. CASE a = b
    BY <1>5, <1>9, <2>1
  <2>2. CASE a # b
    <3>1. lock[a] = q /\ head'[a] = head[a]
      BY <1>5, <1>6, <2>2
    <3>2. head[a] = MovedBy(row[a], Written(q), a)
      BY <3>1 DEF BookInv, HeadInv
    <3>3. CASE q # r
      <4>1. Written(q)' = Written(q)
        BY <1>3, <1>4, <3>3 DEF Written
      <4> QED
        BY <3>1, <3>2, <4>1
    <3>4. CASE q = r
      <4>1. /\ Net(Written(r)', a) = Net(Written(r), a)
            /\ Touches(Written(r)', a) = Touches(Written(r), a)
        BY <1>1, <1>3, <2>2, WrittenNext DEF Move
      <4> QED
        BY <3>1, <3>2, <3>4, <4>1 DEF MovedBy
    <3> QED
      BY <3>3, <3>4
  <2> QED
    BY <2>1, <2>2
<1> QED
  BY <1>3, <1>8, <1>10 DEF BookInv, AbsentInv

\* The steps of a posting keep the invariant.
LEMMA PostingBook ==
    ASSUME Safe, RowsUnderLock, BookInv, NEW r \in Requests, Posting(r)
    PROVE  BookInv'
<1>1. CASE SubmitPosting(r)
  BY <1>1, MoveBook DEF SubmitPosting, Goto, Answer, Safe, TypeOK
<1>2. CASE BeginTx(r)
  BY <1>2, MoveBook DEF BeginTx, Goto, Safe, TypeOK
<1>3. CASE InsertTransaction(r)
  <2>1. CASE ~SumsAgree(job[r].entries)
    BY <1>3, <2>1, EndBook DEF InsertTransaction
  <2> QED
    BY <1>3, <2>1, HeaderBook
<1>4. CASE InsertLedgerEntry(r)
  <2>1. CASE ~EntryAccepted(EntryOf(r))
    BY <1>4, <2>1, EndBook DEF InsertLedgerEntry
  <2> QED
    BY <1>4, <2>1, InsertBook
<1>5. CASE AdjustNothing(r)
  BY <1>5, NothingBook
<1>6. CASE AdjustAccountBalance(r)
  <2>1. CASE ~Fits(head[EntryOf(r).acct].balance + Delta(EntryOf(r)))
    BY <1>6, <2>1, EndBook DEF AdjustAccountBalance
  <2> QED
    BY <1>6, <2>1, AdjustBook
<1>7. CASE CommitTx(r)
  BY <1>7, EndBook DEF CommitTx
<1> QED
  BY <1>1, <1>2, <1>3, <1>4, <1>5, <1>6, <1>7 DEF Posting

\* The account operations keep it: they write no row that is locked.
LEMMA EditingBook ==
    ASSUME Safe, RowsUnderLock, BookInv, NEW r \in Requests, Editing(r)
    PROVE  BookInv'
<1>1. job[r].acct \in Accounts
  BY LedgerAssumption DEF Safe, TypeOK, Job
<1>2. ASSUME UNCHANGED <<rows, job, idx>>, \A q \in Requests \ {r} : pc'[q] = pc[q],
             pc'[r] \in {"acquire", "update", "done"}
      PROVE  BookInv'
  BY <1>2, MoveBook
<1>3. CASE \/ ReadForEdit(r) \/ ReadForDeactivate(r) \/ SubmitCreate(r)
           \/ AcquireConn(r) \/ VersionConflict(r)
  BY <1>2, <1>3
  DEF ReadForEdit, ReadForDeactivate, SubmitCreate, AcquireConn, VersionConflict,
      Goto, Answer, Safe, TypeOK
<1>4. ASSUME NEW class, Answer(r, class), UNCHANGED <<rows, job, idx>>
      PROVE  BookInv'
  BY <1>2, <1>4 DEF Answer, Safe, TypeOK
<1>5. ASSUME NEW acct \in Accounts, NEW new, AutoCommit(r, acct, new), UNCHANGED <<job, idx>>,
             new.status # "absent", row[acct].status # "deleted"
      PROVE  BookInv'
  BY <1>5, AutoCommitBook
<1>6. CASE CreateAccount(r)
  <2>1. NewRow.status # "absent"
    BY DEF NewRow
  <2> QED
    BY <1>4, <1>5, <1>6, <2>1 DEF CreateAccount
<1>7. row[job[r].acct] \in Row
  BY <1>1 DEF Safe, TypeOK
<1>8. CASE UpdateAccountBalance(r)
  <2> DEFINE new == [row[job[r].acct] EXCEPT !.balance = job[r].balance, !.version = @ + 1]
  <2>1. new.status = row[job[r].acct].status
    BY <1>7 DEF Row
  <2>2. AutoCommit(r, job[r].acct, new) /\ Active(row[job[r].acct]) /\ UNCHANGED <<job, idx>>
    BY <1>8 DEF UpdateAccountBalance, MatchesExpected
  <2> HIDE DEF new
  <2> QED
    BY <1>1, <1>5, <2>1, <2>2 DEF Active
<1>9. CASE UpdateAccountName(r)
  <2> DEFINE new == [row[job[r].acct] EXCEPT !.version = @ + 1]
  <2>1. new.status = row[job[r].acct].status
    BY <1>7 DEF Row
  <2>2. /\ \/ AutoCommit(r, job[r].acct, new)
           \/ Answer(r, "conflict") /\ UNCHANGED rows
        /\ Active(row[job[r].acct]) /\ UNCHANGED <<job, idx>>
    BY <1>9 DEF UpdateAccountName, MatchesExpected
  <2> HIDE DEF new
  <2> QED
    BY <1>1, <1>4, <1>5, <2>1, <2>2 DEF Active
<1>10. CASE DeactivateAccount(r)
  <2> DEFINE new == [row[job[r].acct] EXCEPT !.status = "deleted"]
  <2>1. new.status = "deleted"
    BY <1>7 DEF Row
  <2>2. /\ \/ AutoCommit(r, job[r].acct, new) /\ Active(row[job[r].acct])
           \/ Answer(r, "ok") /\ UNCHANGED rows
        /\ UNCHANGED <<job, idx>>
    BY <1>10 DEF DeactivateAccount
  <2> HIDE DEF new
  <2> QED
    BY <1>1, <1>4, <1>5, <2>1, <2>2 DEF Active
<1> QED
  BY <1>3, <1>6, <1>8, <1>9, <1>10 DEF Editing

\* Every step keeps it.
LEMMA NextBook == Safe /\ RowsUnderLock /\ BookInv /\ [Next]_vars => BookInv'
<1> SUFFICES ASSUME Safe, RowsUnderLock, BookInv, [Next]_vars PROVE BookInv'
  OBVIOUS
<1>1. ASSUME NEW r \in Requests, Posting(r) PROVE BookInv'
  BY <1>1, PostingBook
<1>2. ASSUME NEW r \in Requests, Editing(r) PROVE BookInv'
  BY <1>2, EditingBook
<1>3. ASSUME NEW r \in Requests, DeadlockVictim(r) \/ Fail(r) PROVE BookInv'
  BY <1>3, EndBook DEF DeadlockVictim, Fail
<1>4. CASE UNCHANGED vars
  <2>1. UNCHANGED <<row, head, lock, job, pc, idx>>
    BY <1>4 DEF vars
  <2>2. WrittenInv'
    BY <2>1 DEF BookInv, WrittenInv, SumsAgree, Accepted, Sent, Held, Reached
  <2>3. HeadInv' /\ AbsentInv'
    BY <2>1 DEF BookInv, HeadInv, MovedBy, Written, AbsentInv
  <2> QED
    BY <2>2, <2>3 DEF BookInv
<1> QED
  BY <1>1, <1>2, <1>3, <1>4 DEF Next, Finished

\* What an uncommitted version of a row holds is, in every reachable state, the
\* committed one moved by what its transaction has written so far.
LEMMA AlwaysBook == Spec => []BookInv
<1>1. Init => BookInv
  <2> SUFFICES ASSUME Init PROVE BookInv
    OBVIOUS
  <2>1. WrittenInv
    BY DEF Init, WrittenInv
  <2>2. HeadInv
    BY LedgerAssumption DEF Init, HeadInv
  <2>3. AbsentInv
    BY DEF Init, AbsentInv, NoRow, NewRow
  <2> QED
    BY <2>1, <2>2, <2>3 DEF BookInv
<1> QED
  BY <1>1, NextBook, AlwaysSafe, LocksHeld, PTL DEF Spec

-----------------------------------------------------------------------------
(***************************************************************************)
(* What the step that ends a posting with COMMIT does, seen from outside.  *)
(***************************************************************************)

\* COMMIT moves every open account by the entries of the job, and no other.
LEMMA CommitMoves ==
    ASSUME Safe, RowsUnderLock, BookInv, NEW r \in Requests, CommitTx(r), NEW a \in Accounts
    PROVE  row'[a] = IF Active(row[a]) THEN MovedBy(row[a], job[r].entries, a) ELSE row[a]
<1>1. pc[r] = "commit" /\ Publish(r) /\ row[a] \in Row
  BY DEF CommitTx, Safe, TypeOK
<1>2. Written(r) = job[r].entries
  BY <1>1, FullyWritten
<1>3. row'[a] = IF lock[a] = r THEN head[a] ELSE row[a]
  BY <1>1 DEF Publish, Safe, TypeOK
<1>4. CASE lock[a] = r
  <2>1. Active(row[a]) /\ head[a] = MovedBy(row[a], Written(r), a)
    BY <1>4, LockOwner DEF BookInv, HeadInv
  <2> QED
    BY <1>2, <1>3, <1>4, <2>1
<1>5. CASE lock[a] # r
  <2>1. ASSUME Active(row[a]) PROVE MovedBy(row[a], job[r].entries, a) = row[a]
    <3>1. ~Reached(r, a)
      BY <1>1, <1>5, <2>1 DEF BookInv, WrittenInv, Held, Active
    <3> QED
      BY <1>1, <1>2, <3>1, UnreachedUnmoved, MovedByNothing
  <2> QED
    BY <1>3, <1>5, <2>1
<1> QED
  BY <1>4, <1>5

\* The entries of a posting that commits name accounts that exist.
LEMMA CommitNames ==
    ASSUME Safe, BookInv, NEW r \in Requests, CommitTx(r)
    PROVE  /\ job[r].entries \in Seq(Entry) /\ journal' = [journal EXCEPT ![r] = job[r].entries]
           /\ SumsAgree(job[r].entries)
           /\ \A i \in DOMAIN job[r].entries :
                 /\ job[r].entries[i] \in Entry
                 /\ job[r].entries[i].type \in EntryTypes
                 /\ row[job[r].entries[i].acct].status # "absent"
<1>1. pc[r] = "commit" /\ journal' = [journal EXCEPT ![r] = Written(r)]
  BY DEF CommitTx, Publish
<1>2. job[r].entries \in Seq(Entry)
  BY LedgerAssumption DEF Safe, TypeOK, Job
<1>3. Sent(r) = Len(job[r].entries)
  BY <1>1, <1>2 DEF Safe, StepInv, Sent
<1>4. SumsAgree(job[r].entries) /\ Accepted(r)
  BY <1>1 DEF BookInv, WrittenInv
<1>5. journal' = [journal EXCEPT ![r] = job[r].entries]
  BY <1>1, FullyWritten
<1>6. ASSUME NEW i \in DOMAIN job[r].entries
      PROVE  /\ job[r].entries[i] \in Entry
             /\ job[r].entries[i].type \in EntryTypes
             /\ row[job[r].entries[i].acct].status # "absent"
  <2>1. i \in 1 .. Sent(r) /\ job[r].entries[i] \in Entry
    BY <1>2, <1>3
  <2> QED
    BY <1>4, <2>1 DEF Accepted
<1> QED
  BY <1>2, <1>4, <1>5, <1>6

\* So the journal's total of an account grows by the net of the posting.
LEMMA CommitPosts ==
    ASSUME Safe, BookInv, AnswerInv, NEW r \in Requests, CommitTx(r), NEW a
    PROVE  /\ Posted(a) \in Int /\ Net(job[r].entries, a) \in Int
           /\ Posted(a)' = Posted(a) + Net(job[r].entries, a)
<1> DEFINE f == [q \in Requests |-> Net(journal[q], a)]
           h == [q \in Requests |-> Net(journal'[q], a)]
<1>1. journal' = [journal EXCEPT ![r] = job[r].entries] /\ job[r].entries \in Seq(Entry)
  BY CommitNames
<1>2. journal[r] = <<>>
  BY DEF CommitTx, AnswerInv, Unanswered
<1>3. /\ f \in [Requests -> Int] /\ h \in [Requests -> Int]
      /\ f[r] = 0 /\ h[r] = Net(job[r].entries, a)
      /\ \A q \in Requests \ {r} : h[q] = f[q]
  <2>1. journal \in [Requests -> Seq(Entry)] /\ journal' \in [Requests -> Seq(Entry)]
    BY <1>1 DEF Safe, TypeOK
  <2>2. /\ \A q \in Requests : Net(journal[q], a) \in Int
        /\ \A q \in Requests : Net(journal'[q], a) \in Int
    BY <2>1, NetType
  <2>3. Net(journal[r], a) = 0
    BY <1>2, NetNothing
  <2>4. journal'[r] = job[r].entries /\ \A q \in Requests \ {r} : journal'[q] = journal[q]
    BY <1>1, <2>1
  <2> QED
    BY <2>2, <2>3, <2>4
<1>4. Posted(a) = SumFunction(f) /\ Posted(a)' = SumFunction(h)
  BY DEF Posted
<1>5. IsFiniteSet(Requests)
  BY LedgerAssumption
<1> HIDE DEF f, h
<1>6. SumFunction(h) - h[r] = SumFunction(f) - f[r]
  BY <1>3, <1>5, SumChange
<1>7. SumFunction(f) \in Int /\ SumFunction(h) \in Int /\ h[r] \in Int
  BY <1>3, <1>5, SumType
<1> QED
  BY <1>3, <1>4, <1>6, <1>7

\* A step that is not a COMMIT of a posting leaves the journal alone.
LEMMA JournalStays ==
    ASSUME Safe, NEW r \in Requests,
           Posting(r) \/ Editing(r) \/ DeadlockVictim(r) \/ Fail(r), ~CommitTx(r)
    PROVE  journal' = journal
BY DEF Posting, Editing, DeadlockVictim, Fail, SubmitPosting, BeginTx, InsertTransaction,
       InsertLedgerEntry, AdjustNothing, AdjustAccountBalance, ReadForEdit, ReadForDeactivate,
       SubmitCreate, AcquireConn, CreateAccount, VersionConflict, UpdateAccountBalance,
       UpdateAccountName, DeactivateAccount, AutoCommit, Rollback, rows

\* The account operations, as the committed rows see them.
LEMMA EditingRows ==
    ASSUME Safe, NEW r \in Requests, Editing(r), row' # row
    PROVE  LET a == job[r].acct
           IN  \/ /\ CreateAccount(r)
                  /\ \E b \in Accounts : /\ row[b].status = "absent"
                                         /\ row' = [row EXCEPT ![b] = NewRow]
               \/ /\ UpdateAccountBalance(r) /\ Active(row[a])
                  /\ row' = [row EXCEPT ![a] = [row[a] EXCEPT !.balance = job[r].balance,
                                                              !.version = @ + 1]]
               \/ /\ UpdateAccountName(r) /\ Active(row[a])
                  /\ row' = [row EXCEPT ![a] = [row[a] EXCEPT !.version = @ + 1]]
               \/ /\ DeactivateAccount(r) /\ Active(row[a])
                  /\ row' = [row EXCEPT ![a] = [row[a] EXCEPT !.status = "deleted"]]
<1>1. CASE CreateAccount(r)
  BY <1>1 DEF CreateAccount, AutoCommit, rows
<1>2. CASE UpdateAccountBalance(r)
  BY <1>2 DEF UpdateAccountBalance, MatchesExpected, AutoCommit
<1>3. CASE UpdateAccountName(r)
  BY <1>3 DEF UpdateAccountName, MatchesExpected, AutoCommit, rows
<1>4. CASE DeactivateAccount(r)
  BY <1>4 DEF DeactivateAccount, AutoCommit, rows
<1>5. ~ (\/ ReadForEdit(r) \/ ReadForDeactivate(r) \/ SubmitCreate(r)
         \/ AcquireConn(r) \/ VersionConflict(r))
  BY DEF ReadForEdit, ReadForDeactivate, SubmitCreate, AcquireConn, VersionConflict, rows
<1> QED
  BY <1>1, <1>2, <1>3, <1>4, <1>5 DEF Editing

\* The steps that leave the committed rows alone.
LEMMA RowsStay ==
    ASSUME Safe, NEW r \in Requests,
           Posting(r) \/ DeadlockVictim(r) \/ Fail(r), ~CommitTx(r)
    PROVE  row' = row
BY DEF Posting, DeadlockVictim, Fail, SubmitPosting, BeginTx, InsertTransaction,
       InsertLedgerEntry, AdjustNothing, AdjustAccountBalance, Rollback, rows

-----------------------------------------------------------------------------
\* The step of request r, as DriftOnlyByHand sees account a.
Follows(a) ==
    \/ row'[a].balance - Posted(a)' = row[a].balance - Posted(a)
    \/ row[a].status = "deleted"
    \/ \E r \in Requests : UpdateAccountBalance(r) /\ job[r].acct = a

\* A COMMIT moves the balances as it moves the journal.
LEMMA CommitFollows ==
    ASSUME Safe, RowsUnderLock, BookInv, AnswerInv, NEW r \in Requests, CommitTx(r),
           NEW a \in Accounts
    PROVE  Follows(a)
<1>1. PICK old \in Row : old = row[a]
  BY DEF Safe, TypeOK
<1>2. PICK n \in Int : n = Net(job[r].entries, a)
  BY CommitPosts
<1>3. PICK p \in Int : p = Posted(a) /\ Posted(a)' = p + n
  BY <1>2, CommitPosts
<1>4. old.balance \in Int
  BY MaxIntAssumption DEF Row, Bigint
<1>5. CASE Active(old)
  <2>1. row'[a] = MovedBy(old, job[r].entries, a)
    BY <1>1, <1>5, CommitMoves
  <2>2. row'[a].balance = old.balance + n
    BY <1>2, <2>1 DEF MovedBy, Row
  <2> QED
    BY <1>1, <1>3, <1>4, <2>2 DEF Follows
<1>6. CASE old.status = "absent"
  <2>1. row'[a] = old
    BY <1>1, <1>6, CommitMoves DEF Active
  <2>2. n = 0
    <3>1. \A i \in DOMAIN job[r].entries : job[r].entries[i].acct # a
      BY <1>1, <1>6, CommitNames
    <3> QED
      BY <1>2, <3>1, CommitNames, NetUnnamed
  <2> QED
    BY <1>1, <1>3, <1>4, <2>1, <2>2 DEF Follows
<1>7. CASE old.status = "deleted"
  BY <1>1, <1>7 DEF Follows
<1> QED
  BY <1>5, <1>6, <1>7 DEF Row, Status, Active

\* An account operation moves no balance, except UpdateBalance that of its account.
LEMMA EditingFollows ==
    ASSUME Safe, BookInv, NEW r \in Requests, Editing(r), NEW a \in Accounts
    PROVE  Follows(a)
<1>1. Posted(a)' = Posted(a)
  BY JournalStays DEF Posted, Editing, CommitTx, ReadForEdit, ReadForDeactivate, SubmitCreate,
     AcquireConn, CreateAccount, VersionConflict, UpdateAccountBalance, UpdateAccountName,
     DeactivateAccount
<1>2. row[a] \in Row /\ job[r].acct \in Accounts /\ row[job[r].acct] \in Row
  BY LedgerAssumption DEF Safe, TypeOK, Job
<1>3. CASE row' = row
  BY <1>1, <1>3 DEF Follows
<1>4. CASE row' # row
  <2>1. ASSUME NEW b \in Accounts, row[b].status = "absent", row' = [row EXCEPT ![b] = NewRow]
        PROVE  Follows(a)
    <3>1. row'[a].balance = row[a].balance
      BY <2>1 DEF BookInv, AbsentInv, NewRow, Safe, TypeOK
    <3> QED
      BY <1>1, <3>1 DEF Follows
  <2>2. CASE UpdateAccountBalance(r) /\ job[r].acct = a
    BY <2>2 DEF Follows
  <2>3. ASSUME NEW new, row' = [row EXCEPT ![job[r].acct] = new],
               job[r].acct # a \/ new.balance = row[job[r].acct].balance
        PROVE  Follows(a)
    <3>1. row'[a].balance = row[a].balance
      BY <2>3 DEF Safe, TypeOK
    <3> QED
      BY <1>1, <3>1 DEF Follows
  <2>4. /\ [row[job[r].acct] EXCEPT !.version = @ + 1].balance = row[job[r].acct].balance
        /\ [row[job[r].acct] EXCEPT !.status = "deleted"].balance = row[job[r].acct].balance
    BY <1>2 DEF Row
  <2> QED
    BY <1>4, <2>1, <2>2, <2>3, <2>4, EditingRows
<1> QED
  BY <1>3, <1>4

\* Money is neither made nor lost: whatever postings interleave, fail or deadlock, an
\* open account's balance moves exactly as the journal says, unless somebody sets it
\* with UpdateBalance.
THEOREM Drift == Spec => DriftOnlyByHand
<1>1. ASSUME Safe, RowsUnderLock, BookInv, AnswerInv, [Next]_vars, NEW a \in Accounts
      PROVE  Follows(a)
  <2>1. CASE UNCHANGED <<row, journal>>
    BY <2>1 DEF Follows, Posted
  <2>2. ASSUME NEW r \in Requests, CommitTx(r) PROVE Follows(a)
    BY <1>1, <2>2, CommitFollows
  <2>3. ASSUME NEW r \in Requests, Editing(r) PROVE Follows(a)
    BY <1>1, <2>3, EditingFollows
  <2>4. ASSUME NEW r \in Requests, Posting(r) \/ DeadlockVictim(r) \/ Fail(r), ~CommitTx(r)
        PROVE  Follows(a)
    BY <1>1, <2>1, <2>4, RowsStay, JournalStays
  <2> QED
    BY <1>1, <2>1, <2>2, <2>3, <2>4 DEF Next, Finished, vars
<1>2. Safe /\ RowsUnderLock /\ BookInv /\ AnswerInv /\ [Next]_vars
        => [\A a \in Accounts :
              \/ row'[a].balance - Posted(a)' = row[a].balance - Posted(a)
              \/ row[a].status = "deleted"
              \/ \E r \in Requests : UpdateAccountBalance(r) /\ job[r].acct = a]_vars
  BY <1>1 DEF Follows
<1> QED
  BY <1>2, AlwaysSafe, LocksHeld, AlwaysBook, AlwaysAnswer, PTL DEF Spec, DriftOnlyByHand

-----------------------------------------------------------------------------
(***************************************************************************)
(* The book.  Where the int64 sums of the jobs do not wrap, every step is  *)
(* a step of LedgerBook or changes nothing that the book can see.          *)
(***************************************************************************)
\* No sum of a job's debits or credits leaves the range of an int64.
SumsFit == \A j \in Jobs, type \in EntryTypes : ExactSum(j.entries, type) \in Bigint

\* The library's operators are the same in the book as in the ledger.
LEMMA SameOperators ==
    /\ \A f : Book!SumFunction(f) = SumFunction(f)
    /\ \A S : Book!Cardinality(S) = Cardinality(S)
<1>1. ASSUME NEW f PROVE Book!SumFunction(f) = SumFunction(f)
  BY DEF Book!SumFunction, Book!SumFunctionOnSet, Book!FoldFunctionOnSet, Book!MapThenFoldSet,
         SumFunction, SumFunctionOnSet, FoldFunctionOnSet, MapThenFoldSet
<1>2. ASSUME NEW S PROVE Book!Cardinality(S) = Cardinality(S)
  BY DEF Book!Cardinality, Cardinality
<1> QED
  BY <1>1, <1>2

\* So its sums are the ledger's.
LEMMA SameSums ==
    /\ \A es, a : Book!Net(es, a) = Net(es, a)
    /\ \A es, a : Book!Touches(es, a) = Touches(es, a)
    /\ \A es, type : Book!ExactSum(es, type) = ExactSum(es, type)
<1>1. ASSUME NEW es, NEW a PROVE Book!Net(es, a) = Net(es, a)
  BY SameOperators DEF Book!Net, Net, Book!Delta, Delta
<1>2. ASSUME NEW es, NEW a PROVE Book!Touches(es, a) = Touches(es, a)
  BY SameOperators DEF Book!Touches, Touches
<1>3. ASSUME NEW es, NEW type PROVE Book!ExactSum(es, type) = ExactSum(es, type)
  BY SameOperators DEF Book!ExactSum, ExactSum
<1> QED
  BY <1>1, <1>2, <1>3

\* The sums that the two checks compare are the exact ones.
LEMMA SumsAgreeExactly ==
    ASSUME SumsFit, NEW j \in Jobs, SumsAgree(j.entries)
    PROVE  ExactSum(j.entries, "DEBIT") = ExactSum(j.entries, "CREDIT")
<1>1. j.entries \in Seq(Entry)
  BY LedgerAssumption DEF Job
<1>2. /\ ExactSum(j.entries, "DEBIT") \in Bigint
      /\ ExactSum(j.entries, "CREDIT") \in Bigint
  BY DEF SumsFit, EntryTypes
<1>3. /\ GoSum(j.entries, "DEBIT") = ExactSum(j.entries, "DEBIT")
      /\ GoSum(j.entries, "CREDIT") = ExactSum(j.entries, "CREDIT")
  BY <1>1, <1>2, GoSumExact
<1> QED
  BY <1>3 DEF SumsAgree

\* The COMMIT of a posting is the book's Post.
LEMMA CommitIsPost ==
    ASSUME SumsFit, Safe, Safe', RowsUnderLock, BookInv, AnswerInv,
           NEW r \in Requests, CommitTx(r)
    PROVE  Book!Post(r, journal'[r])
<1> DEFINE es == job[r].entries
<1>1. /\ es \in Seq(Entry) /\ journal' = [journal EXCEPT ![r] = es] /\ SumsAgree(es)
      /\ \A i \in DOMAIN es : /\ es[i] \in Entry
                              /\ es[i].type \in EntryTypes
                              /\ row[es[i].acct].status # "absent"
  BY CommitNames
<1>2. journal'[r] = es /\ journal[r] = <<>>
  BY <1>1 DEF CommitTx, AnswerInv, Unanswered, Safe, TypeOK
<1>3. es # <<>> /\ \A i \in DOMAIN es : es[i].amount > 0
  BY DEF CommitTx, Safe, StepInv, TxSteps, ValidPosting
<1>4. ExactSum(es, "DEBIT") = ExactSum(es, "CREDIT")
  BY <1>1, SumsAgreeExactly DEF Safe, TypeOK
<1> HIDE DEF es
<1>5. Book!Balanced(es)
  BY <1>1, <1>3, <1>4, SameSums
  DEF Book!Balanced, Book!Entry, Book!EntryTypes, Book!Bigint, Entry, EntryTypes, Bigint
<1>6. row' = [a \in Accounts |->
                 IF Book!Active(row[a])
                 THEN [row[a] EXCEPT !.balance = @ + Book!Net(es, a),
                                     !.version = @ + Book!Touches(es, a)]
                 ELSE row[a]]
  <2>1. row' = [a \in Accounts |-> row'[a]]
    BY DEF Safe, TypeOK
  <2>2. ASSUME NEW a \in Accounts
        PROVE  row'[a] = IF Active(row[a]) THEN MovedBy(row[a], es, a) ELSE row[a]
    BY CommitMoves DEF es
  <2> QED
    BY <2>1, <2>2, SameSums DEF MovedBy, Book!Active, Active
<1>7. \A a \in Accounts : row'[a].balance \in Book!Bigint
  BY DEF Safe, TypeOK, Row, Book!Bigint, Bigint
<1> QED
  BY <1>1, <1>2, <1>5, <1>6, <1>7 DEF Book!Post

\* An account operation that writes is the book's Open, Overwrite or Close.
LEMMA EditIsBooked ==
    ASSUME Safe, Safe', NEW r \in Requests, Editing(r), row' # row
    PROVE  \E a \in Accounts : \/ Book!Open(a)
                              \/ Book!Overwrite(a, row'[a].balance)
                              \/ Book!Close(a)
<1>1. journal' = journal
  BY JournalStays DEF Editing, CommitTx, ReadForEdit, ReadForDeactivate, SubmitCreate,
     AcquireConn, CreateAccount, VersionConflict, UpdateAccountBalance, UpdateAccountName,
     DeactivateAccount
<1>2. PICK a \in Accounts : a = job[r].acct
  BY LedgerAssumption DEF Safe, TypeOK, Job
<1>3. row[a] \in Row /\ job[r].balance \in Bigint
  BY LedgerAssumption DEF Safe, TypeOK, Job
<1>4. ASSUME NEW b \in Accounts, row[b].status = "absent", row' = [row EXCEPT ![b] = NewRow]
      PROVE  Book!Open(b)
  BY <1>1, <1>4 DEF Book!Open, Book!NewRow, NewRow
<1>5. ASSUME NEW n \in Bigint, Active(row[a]),
             row' = [row EXCEPT ![a] = [row[a] EXCEPT !.balance = n, !.version = @ + 1]]
      PROVE  Book!Overwrite(a, row'[a].balance)
  <2>1. row'[a].balance = n
    BY <1>3, <1>5 DEF Safe, TypeOK, Row
  <2>2. row' = [row EXCEPT ![a].balance = n, ![a].version = @ + 1]
    BY <1>3, <1>5 DEF Safe, TypeOK, Row
  <2> QED
    BY <1>1, <1>5, <2>1, <2>2 DEF Book!Overwrite, Book!Active, Active, Book!Bigint, Bigint
<1>6. ASSUME Active(row[a]), row' = [row EXCEPT ![a] = [row[a] EXCEPT !.version = @ + 1]]
      PROVE  Book!Overwrite(a, row'[a].balance)
  <2>1. PICK n \in Bigint : n = row[a].balance
    BY <1>3 DEF Row
  <2>2. [row[a] EXCEPT !.version = @ + 1] = [row[a] EXCEPT !.balance = n, !.version = @ + 1]
    BY <1>3, <2>1 DEF Row
  <2> QED
    BY <1>5, <1>6, <2>2
<1>7. ASSUME Active(row[a]), row' = [row EXCEPT ![a] = [row[a] EXCEPT !.status = "deleted"]]
      PROVE  Book!Close(a)
  BY <1>1, <1>7 DEF Book!Close, Book!Active, Active
<1> QED
  BY <1>2, <1>3, <1>4, <1>5, <1>6, <1>7, EditingRows

\* The ledger implements the book, as long as no sum of a posting overflows an int64:
\* with its statements, locks, deadlocks, failures and concurrent editors it does
\* nothing that one step per posting and per edit could not do.
THEOREM ImplementsBook == SumsFit => (Spec => BookSpec)
<1> SUFFICES ASSUME SumsFit PROVE Spec => BookSpec
  OBVIOUS
<1>1. Init => Book!Init
  BY DEF Init, Book!Init, Book!NewRow, Book!NoRow, NewRow, NoRow
<1>2. Safe /\ Safe' /\ RowsUnderLock /\ BookInv /\ AnswerInv /\ [Next]_vars
        => [Book!Next]_(Book!vars)
  <2> SUFFICES ASSUME Safe, Safe', RowsUnderLock, BookInv, AnswerInv, [Next]_vars
               PROVE  Book!Next \/ UNCHANGED <<row, journal>>
    BY DEF Book!vars
  <2>1. ASSUME NEW r \in Requests, CommitTx(r) PROVE Book!Next
    BY <2>1, CommitIsPost DEF Book!Next
  <2>2. ASSUME NEW r \in Requests, Editing(r), row' # row PROVE Book!Next
    BY <2>2, EditIsBooked DEF Book!Next
  <2>3. ASSUME NEW r \in Requests, Editing(r), row' = row PROVE UNCHANGED <<row, journal>>
    <3>1. ~CommitTx(r)
      BY <2>3 DEF Editing, CommitTx, ReadForEdit, ReadForDeactivate, SubmitCreate,
         AcquireConn, CreateAccount, VersionConflict, UpdateAccountBalance,
         UpdateAccountName, DeactivateAccount
    <3> QED
      BY <2>3, <3>1, JournalStays
  <2>4. ASSUME NEW r \in Requests, Posting(r) \/ DeadlockVictim(r) \/ Fail(r), ~CommitTx(r)
        PROVE  UNCHANGED <<row, journal>>
    BY <2>4, RowsStay, JournalStays
  <2> QED
    BY <2>1, <2>2, <2>3, <2>4 DEF Next, Finished, vars
<1> QED
  BY <1>1, <1>2, AlwaysSafe, LocksHeld, AlwaysBook, AlwaysAnswer, PTL
  DEF Spec, BookSpec, Book!Spec

-----------------------------------------------------------------------------
(***************************************************************************)
(* The balance of debits and credits in the journal.                       *)
(***************************************************************************)

\* What a request has in the journal is nothing, or a job whose sums Go found equal.
Agreed(r) ==
    \/ journal[r] = <<>>
    \/ journal[r] = job[r].entries /\ SumsAgree(job[r].entries)

JournalAgreed == \A r \in Requests : Agreed(r)

\* Every step keeps it.
LEMMA NextAgreed == Safe /\ BookInv /\ JournalAgreed /\ [Next]_vars => JournalAgreed'
<1> SUFFICES ASSUME Safe, BookInv, JournalAgreed, [Next]_vars, NEW q \in Requests
             PROVE  Agreed(q)'
  BY DEF JournalAgreed
<1>1. ASSUME journal'[q] = journal[q], job' = job PROVE Agreed(q)'
  BY <1>1 DEF JournalAgreed, Agreed, SumsAgree
<1>2. ASSUME NEW r \in Requests, CommitTx(r) PROVE Agreed(q)'
  <2>1. journal' = [journal EXCEPT ![r] = job[r].entries] /\ SumsAgree(job[r].entries)
    BY <1>2, CommitNames
  <2>2. job' = job
    BY <1>2 DEF CommitTx
  <2>3. CASE q = r
    BY <2>1, <2>2, <2>3 DEF Agreed, SumsAgree, Safe, TypeOK
  <2>4. CASE q # r
    BY <1>1, <2>1, <2>2, <2>4 DEF Safe, TypeOK
  <2> QED
    BY <2>3, <2>4
<1>3. ASSUME NEW r \in Requests, ~CommitTx(r),
             Posting(r) \/ Editing(r) \/ DeadlockVictim(r) \/ Fail(r)
      PROVE  Agreed(q)'
  <2>1. journal' = journal
    BY <1>3, JournalStays
  <2>2. job' = job
    BY <1>3
    DEF Posting, Editing, DeadlockVictim, Fail, SubmitPosting, BeginTx, InsertTransaction,
        InsertLedgerEntry, AdjustNothing, AdjustAccountBalance, ReadForEdit, ReadForDeactivate,
        SubmitCreate, AcquireConn, CreateAccount, VersionConflict, UpdateAccountBalance,
        UpdateAccountName, DeactivateAccount
  <2> QED
    BY <1>1, <2>1, <2>2
<1>4. CASE UNCHANGED vars
  BY <1>1, <1>4 DEF vars
<1> QED
  BY <1>2, <1>3, <1>4 DEF Next, Finished

\* It holds in every reachable state.
LEMMA AlwaysAgreed == Spec => []JournalAgreed
<1>1. Init => JournalAgreed
  BY DEF Init, JournalAgreed, Agreed
<1> QED
  BY <1>1, NextAgreed, AlwaysSafe, AlwaysBook, PTL DEF Spec

\* An empty journal entry is balanced.
LEMMA NothingBalanced == ASSUME NEW type PROVE ExactSum(<<>>, type) = 0
<1>1. [i \in DOMAIN <<>> |-> Part(<<>>[i], type)] \in [{} -> Int]
  OBVIOUS
<1> QED
  BY <1>1, ExactSumOfParts, SumEmpty

\* Debits equal credits modulo 2^64.
BalancedUpToWrap ==
    \A r \in Requests :
        Wrap(ExactSum(journal[r], "DEBIT")) = Wrap(ExactSum(journal[r], "CREDIT"))

\* What the two comparisons of the sums achieve, whatever a client posts: the debits of
\* a transaction in the journal equal its credits modulo 2^64.
THEOREM AlwaysBalancedUpToWrap == Spec => []BalancedUpToWrap
<1>1. Safe /\ JournalAgreed => BalancedUpToWrap
  <2> SUFFICES ASSUME Safe, JournalAgreed, NEW r \in Requests
               PROVE  Wrap(ExactSum(journal[r], "DEBIT")) = Wrap(ExactSum(journal[r], "CREDIT"))
    BY DEF BalancedUpToWrap
  <2>1. CASE journal[r] = <<>>
    BY <2>1, NothingBalanced
  <2>2. CASE journal[r] = job[r].entries /\ SumsAgree(job[r].entries)
    <3>1. job[r].entries \in Seq(Entry)
      BY LedgerAssumption DEF Safe, TypeOK, Job
    <3> QED
      BY <2>2, <3>1, GoSumWraps DEF SumsAgree
  <2> QED
    BY <2>1, <2>2 DEF JournalAgreed, Agreed
<1> QED
  BY <1>1, AlwaysSafe, AlwaysAgreed, PTL

\* And so they are equal, in every transaction of the journal, as long as no sum
\* overflows: the one way to an unbalanced journal is the wrap of an int64.
THEOREM BalancedWithoutWrap == SumsFit => (Spec => []JournalBalanced)
<1> SUFFICES ASSUME SumsFit PROVE Spec => []JournalBalanced
  OBVIOUS
<1>1. Safe /\ JournalAgreed => JournalBalanced
  <2> SUFFICES ASSUME Safe, JournalAgreed, NEW r \in Requests
               PROVE  ExactSum(journal[r], "DEBIT") = ExactSum(journal[r], "CREDIT")
    BY DEF JournalBalanced
  <2>1. CASE journal[r] = <<>>
    BY <2>1, NothingBalanced
  <2>2. CASE journal[r] = job[r].entries /\ SumsAgree(job[r].entries)
    BY <2>2, SumsAgreeExactly DEF Safe, TypeOK
  <2> QED
    BY <2>1, <2>2 DEF JournalAgreed, Agreed
<1> QED
  BY <1>1, AlwaysSafe, AlwaysAgreed, PTL
=============================================================================
