---------------------------- MODULE LedgerProofs ----------------------------
(***************************************************************************)
(* Theorems about Ledger for every set of accounts, requests and jobs, and *)
(* every width of the integers.                                            *)
(***************************************************************************)
EXTENDS Ledger, LedgerSums

\* Where a request stands decides what it asked for and which entry it is at.
StepInv ==
    \A r \in Requests :
        /\ pc[r] \in TxSteps \cup {"begin"} =>
              job[r].op = "post" /\ ValidPosting(job[r].entries)
        /\ pc[r] \in {"start", "begin", "header"} => idx[r] = 1
        /\ pc[r] \in {"entry", "adjust"} => idx[r] \in 1 .. Len(job[r].entries)
        /\ pc[r] = "commit" => idx[r] = Len(job[r].entries) + 1

Safe == TypeOK /\ StepInv

\* A posting that is at an entry is at one of its job's.
LEMMA EntryOfType ==
    ASSUME Safe, NEW r \in Requests, pc[r] \in {"entry", "adjust"}
    PROVE  /\ EntryOf(r) \in Entry
           /\ job[r].entries \in Seq(Entry)
           /\ idx[r] \in 1 .. Len(job[r].entries)
<1>1. job[r] \in Job
  BY LedgerAssumption DEF Safe, TypeOK
<1>2. job[r].entries \in Seq(Entry)
  BY <1>1 DEF Job
<1>3. idx[r] \in 1 .. Len(job[r].entries)
  BY DEF Safe, StepInv
<1> QED
  BY <1>2, <1>3 DEF EntryOf

\* What the UPDATEs make of a row is a row.
LEMMA RowEdits ==
    ASSUME NEW old \in Row
    PROVE  /\ \A d : old.balance + d \in Bigint => Adjusted(old, d) \in Row
           /\ \A n \in Bigint :
                 [old EXCEPT !.balance = n, !.version = @ + 1] \in Row
           /\ [old EXCEPT !.version = @ + 1] \in Row
           /\ [old EXCEPT !.status = "deleted"] \in Row
<1>1. old.version + 1 \in Nat
  BY DEF Row
<1>2. ASSUME NEW d, old.balance + d \in Bigint PROVE Adjusted(old, d) \in Row
  BY <1>1, <1>2 DEF Row, Adjusted
<1>3. ASSUME NEW n \in Bigint
      PROVE  [old EXCEPT !.balance = n, !.version = @ + 1] \in Row
  BY <1>1 DEF Row
<1>4. [old EXCEPT !.version = @ + 1] \in Row
  BY <1>1 DEF Row
<1>5. [old EXCEPT !.status = "deleted"] \in Row
  BY DEF Row, Status
<1> QED
  BY <1>2, <1>3, <1>4, <1>5

\* What the initial states satisfy.
LEMMA InitSafe == Init => Safe
<1> SUFFICES ASSUME Init PROVE Safe
  OBVIOUS
<1>1. NoRow \in Row /\ NewRow \in Row
  BY MaxIntAssumption DEF NoRow, NewRow, Row, Status, Bigint
<1>2. TypeOK
  BY <1>1, LedgerAssumption DEF Init, TypeOK, Steps, Replies
<1>3. StepInv
  BY DEF Init, StepInv, TxSteps
<1> QED
  BY <1>2, <1>3 DEF Safe

\* A posting that reaches its COMMIT has written all its entries.
LEMMA FullyWritten ==
    ASSUME Safe, NEW r \in Requests, pc[r] = "commit"
    PROVE  Written(r) = job[r].entries
<1>1. job[r].entries \in Seq(Entry)
  BY LedgerAssumption DEF Safe, TypeOK, Job
<1>2. idx[r] - 1 = Len(job[r].entries)
  BY <1>1 DEF Safe, StepInv
<1> QED
  BY <1>1, <1>2 DEF Written

\* Ending a transaction, either way, leaves rows that are rows.
LEMMA EndTypes ==
    ASSUME Safe, NEW r \in Requests, Rollback(r) \/ (pc[r] = "commit" /\ Publish(r))
    PROVE  /\ row' \in [Accounts -> Row]
           /\ head' \in [Accounts -> Row]
           /\ lock' \in [Accounts -> Requests \cup {NoRequest}]
           /\ journal' \in [Requests -> Seq(Entry)]
<1>1. job[r].entries \in Seq(Entry)
  BY LedgerAssumption DEF Safe, TypeOK, Job
<1>2. CASE Rollback(r)
  BY <1>2 DEF Rollback, Safe, TypeOK
<1>3. CASE pc[r] = "commit" /\ Publish(r)
  <2>1. Written(r) \in Seq(Entry)
    BY <1>1, <1>3, FullyWritten
  <2> QED
    BY <1>3, <2>1 DEF Publish, Safe, TypeOK
<1> QED
  BY <1>2, <1>3

\* Each step keeps the types and the place of every request.
LEMMA PostingSafe ==
    ASSUME Safe, NEW r \in Requests, Posting(r)
    PROVE  Safe'
<1> USE DEF Safe
<1>1. CASE SubmitPosting(r)
  BY <1>1 DEF SubmitPosting, TypeOK, StepInv, Goto, Answer, rows, Steps, TxSteps, Replies
<1>2. CASE BeginTx(r)
  BY <1>2 DEF BeginTx, TypeOK, StepInv, Goto, rows, Steps, TxSteps
<1>3. CASE InsertTransaction(r)
  <2>1. CASE Goto(r, "entry") /\ UNCHANGED rows
    <3>1. job[r].entries \in Seq(Entry) /\ job[r].entries # <<>>
      BY <1>3, LedgerAssumption DEF InsertTransaction, TypeOK, StepInv, TxSteps, ValidPosting, Job
    <3>2. 1 \in 1 .. Len(job[r].entries)
      BY <3>1
    <3> QED
      BY <1>3, <2>1, <3>2 DEF InsertTransaction, TypeOK, StepInv, Goto, rows, Steps, TxSteps
  <2>2. CASE Answer(r, "invalid") /\ Rollback(r)
    BY <1>3, <2>2, EndTypes DEF InsertTransaction, TypeOK, StepInv, Answer, Steps, TxSteps, Replies
  <2> QED
    BY <1>3, <2>1, <2>2 DEF InsertTransaction
<1>4. CASE InsertLedgerEntry(r)
  <2>1. CASE Goto(r, "adjust") /\ UNCHANGED rows
    BY <1>4, <2>1 DEF InsertLedgerEntry, TypeOK, StepInv, Goto, rows, Steps, TxSteps
  <2>2. CASE Answer(r, "error") /\ Rollback(r)
    BY <1>4, <2>2, EndTypes DEF InsertLedgerEntry, TypeOK, StepInv, Answer, Steps, TxSteps, Replies
  <2> QED
    BY <1>4, <2>1, <2>2 DEF InsertLedgerEntry
<1>5. ASSUME pc[r] = "adjust", NextEntry(r), UNCHANGED <<job, seen, row, journal>>,
             head' \in [Accounts -> Row], lock' \in [Accounts -> Requests \cup {NoRequest}]
      PROVE  Safe'
  <2>1. idx[r] \in 1 .. Len(job[r].entries) /\ job[r].entries \in Seq(Entry)
    BY <1>5, EntryOfType
  <2>2. idx' \in [Requests -> Nat] /\ pc' \in [Requests -> Steps]
    BY <1>5, <2>1 DEF NextEntry, Goto, TypeOK, Steps, TxSteps
  <2>3. TypeOK'
    BY <1>5, <2>2 DEF TypeOK, NextEntry, Goto
  <2>4. StepInv'
    BY <1>5, <2>1 DEF TypeOK, StepInv, NextEntry, Goto, Steps, TxSteps
  <2> QED
    BY <2>3, <2>4
<1>6. CASE AdjustNothing(r)
  BY <1>5, <1>6 DEF AdjustNothing, rows, TypeOK
<1>7. CASE AdjustAccountBalance(r)
  <2> DEFINE e == EntryOf(r)
             a == EntryOf(r).acct
  <2>1. a \in Accounts /\ Delta(e) \in Int
    BY <1>7, EntryOfType, DeltaType DEF AdjustAccountBalance, Entry
  <2>2. CASE Fits(head[a].balance + Delta(e))
    <3>1. Adjusted(head[a], Delta(e)) \in Row
      BY <2>1, <2>2, RowEdits DEF TypeOK, Fits
    <3>2. head' \in [Accounts -> Row] /\ lock' \in [Accounts -> Requests \cup {NoRequest}]
      BY <1>7, <2>1, <2>2, <3>1 DEF AdjustAccountBalance, TypeOK
    <3> QED
      BY <1>5, <1>7, <2>2, <3>2 DEF AdjustAccountBalance
  <2>3. CASE ~Fits(head[a].balance + Delta(e))
    <3>1. Answer(r, "error") /\ Rollback(r) /\ UNCHANGED <<idx, job, seen>>
      BY <1>7, <2>3 DEF AdjustAccountBalance
    <3> QED
      BY <3>1, EndTypes DEF TypeOK, StepInv, Answer, Steps, TxSteps, Replies
  <2> QED
    BY <2>2, <2>3
<1>8. CASE CommitTx(r)
  BY <1>8, EndTypes DEF CommitTx, TypeOK, StepInv, Answer, Steps, TxSteps, Replies
<1> QED
  BY <1>1, <1>2, <1>3, <1>4, <1>6, <1>7, <1>8 DEF Posting

\* A statement of its own that writes a row keeps the types.
LEMMA AutoCommitTypes ==
    ASSUME TypeOK, NEW r \in Requests, NEW a \in Accounts, NEW new \in Row,
           AutoCommit(r, a, new), UNCHANGED <<job, idx, seen>>
    PROVE  TypeOK'
BY DEF AutoCommit, Answer, TypeOK, Steps, Replies

\* The steps of the account operations keep the types.
LEMMA EditingSafe ==
    ASSUME Safe, NEW r \in Requests, Editing(r)
    PROVE  Safe'
<1> USE DEF Safe
<1>1. job[r] \in Job /\ job[r].acct \in Accounts /\ job[r].balance \in Bigint
  BY LedgerAssumption DEF TypeOK, Job
<1>2. NewRow \in Row
  BY MaxIntAssumption DEF NewRow, Row, Status, Bigint
<1>3. row[job[r].acct] \in Row
  BY <1>1 DEF TypeOK
<1>4. CASE ReadForEdit(r)
  <2>1. TypeOK'
    BY <1>1, <1>3, <1>4 DEF ReadForEdit, TypeOK, Goto, Answer, rows, Steps, Replies
  <2>2. StepInv'
    BY <1>4 DEF ReadForEdit, TypeOK, StepInv, Goto, Answer, rows, TxSteps
  <2> QED
    BY <2>1, <2>2
<1>5. CASE ReadForDeactivate(r)
  <2>1. TypeOK'
    BY <1>1, <1>3, <1>5 DEF ReadForDeactivate, TypeOK, Goto, Answer, rows, Steps, Replies
  <2>2. StepInv'
    BY <1>5 DEF ReadForDeactivate, TypeOK, StepInv, Goto, Answer, rows, TxSteps
  <2> QED
    BY <2>1, <2>2
<1>6. CASE SubmitCreate(r)
  BY <1>6 DEF SubmitCreate, TypeOK, StepInv, Goto, Answer, rows, Steps, TxSteps, Replies
<1>7. CASE AcquireConn(r)
  BY <1>7 DEF AcquireConn, TypeOK, StepInv, Goto, rows, Steps, TxSteps
<1>8. ASSUME NEW a \in Accounts, NEW new \in Row, pc[r] = "update",
             AutoCommit(r, a, new), UNCHANGED <<job, idx, seen>>
      PROVE  Safe'
  <2>1. TypeOK'
    BY <1>8, AutoCommitTypes
  <2>2. StepInv'
    BY <1>8 DEF AutoCommit, Answer, TypeOK, StepInv, TxSteps
  <2> QED
    BY <2>1, <2>2
<1>9. ASSUME NEW class \in Replies, pc[r] = "update",
             Answer(r, class), UNCHANGED rows, UNCHANGED <<job, idx, seen>>
      PROVE  Safe'
  BY <1>9 DEF Answer, TypeOK, StepInv, rows, Steps, TxSteps
<1>10. CASE CreateAccount(r)
  BY <1>2, <1>8, <1>9, <1>10 DEF CreateAccount, Replies
<1>11. CASE VersionConflict(r)
  BY <1>9, <1>11 DEF VersionConflict, Replies
<1>12. CASE UpdateAccountBalance(r)
  <2>1. [row[job[r].acct] EXCEPT !.balance = job[r].balance, !.version = @ + 1] \in Row
    BY <1>1, <1>3, RowEdits
  <2> QED
    BY <1>1, <1>8, <1>12, <2>1 DEF UpdateAccountBalance
<1>13. CASE UpdateAccountName(r)
  <2>1. [row[job[r].acct] EXCEPT !.version = @ + 1] \in Row
    BY <1>3, RowEdits
  <2> QED
    BY <1>1, <1>8, <1>9, <1>13, <2>1 DEF UpdateAccountName, Replies
<1>14. CASE DeactivateAccount(r)
  <2>1. [row[job[r].acct] EXCEPT !.status = "deleted"] \in Row
    BY <1>3, RowEdits
  <2> QED
    BY <1>1, <1>8, <1>9, <1>14, <2>1 DEF DeactivateAccount, Replies
<1> QED
  BY <1>4, <1>5, <1>6, <1>7, <1>10, <1>11, <1>12, <1>13, <1>14 DEF Editing

\* A request that fails, or is picked to break a deadlock, keeps the types.
LEMMA StopSafe ==
    ASSUME Safe, NEW r \in Requests, DeadlockVictim(r) \/ Fail(r)
    PROVE  Safe'
<1>1. Answer(r, "error") /\ Rollback(r) /\ UNCHANGED <<job, idx, seen>>
  BY DEF DeadlockVictim, Fail
<1> QED
  BY <1>1, EndTypes DEF Safe, TypeOK, StepInv, Answer, Steps, TxSteps, Replies

\* Every step keeps the types and the order of the statements.
LEMMA NextSafe == Safe /\ [Next]_vars => Safe'
<1> SUFFICES ASSUME Safe, [Next]_vars PROVE Safe'
  OBVIOUS
<1>1. ASSUME NEW r \in Requests, Posting(r) PROVE Safe'
  BY <1>1, PostingSafe
<1>2. ASSUME NEW r \in Requests, Editing(r) PROVE Safe'
  BY <1>2, EditingSafe
<1>3. ASSUME NEW r \in Requests, DeadlockVictim(r) \/ Fail(r) PROVE Safe'
  BY <1>3, StopSafe
<1>4. CASE UNCHANGED vars
  BY <1>4 DEF vars, Safe, TypeOK, StepInv
<1> QED
  BY <1>1, <1>2, <1>3, <1>4 DEF Next, Finished

\* They hold in every reachable state.
LEMMA AlwaysSafe == Spec => []Safe
BY InitSafe, NextSafe, PTL DEF Spec

\* Every state of the ledger is well formed.  In particular a balance never leaves
\* the range of its BIGINT column, in the committed rows or in those of a running
\* transaction.
THEOREM TypeCorrect == Spec => []TypeOK
<1>1. Safe => TypeOK
  BY DEF Safe
<1> QED
  BY <1>1, AlwaysSafe, PTL

-----------------------------------------------------------------------------
(***************************************************************************)
(* Row locks.  RowsUnderLock is inductive once Safe is known.              *)
(***************************************************************************)

\* Ending the transaction of r keeps the rows of the others under their locks.
LEMMA EndUnderLock ==
    ASSUME Safe, RowsUnderLock, NEW r \in Requests, NEW class,
           Rollback(r) \/ Publish(r), Answer(r, class), UNCHANGED <<job, idx>>
    PROVE  RowsUnderLock'
<1> SUFFICES ASSUME NEW a \in Accounts
             PROVE  UnderLock(a)'
  BY DEF RowsUnderLock
<1>1. lock[a] # NoRequest => lock[a] \in Requests
  BY DEF Safe, TypeOK
<1>2. CASE lock[a] = r
  <2>1. lock'[a] = NoRequest /\ head'[a] = row'[a]
    BY <1>2 DEF Rollback, Publish, Safe, TypeOK
  <2> QED
    BY <2>1 DEF UnderLock
<1>3. CASE lock[a] # r
  <2>1. lock'[a] = lock[a] /\ head'[a] = head[a] /\ row'[a] = row[a]
    BY <1>3 DEF Rollback, Publish, Safe, TypeOK
  <2>2. lock[a] # NoRequest => pc'[lock[a]] = pc[lock[a]]
    BY <1>1, <1>3 DEF Answer, Safe, TypeOK
  <2>3. UnderLock(a)
    BY DEF RowsUnderLock
  <2>4. \A q \in Requests : Reached(q, a) => Reached(q, a)'
    BY DEF Reached
  <2> QED
    BY <1>1, <2>1, <2>2, <2>3, <2>4 DEF UnderLock
<1> QED
  BY <1>2, <1>3

\* A step of r that leaves the rows alone, and does not leave r's transaction.
LEMMA MoveUnderLock ==
    ASSUME Safe, RowsUnderLock, NEW r \in Requests, UNCHANGED <<rows, job>>,
           pc[r] \notin TxSteps \/ pc'[r] \in TxSteps,
           \A q \in Requests \ {r} : pc'[q] = pc[q],
           \A q \in Requests : idx'[q] = idx[q] \/ idx'[q] = idx[q] + 1
    PROVE  RowsUnderLock'
<1> SUFFICES ASSUME NEW a \in Accounts
             PROVE  UnderLock(a)'
  BY DEF RowsUnderLock
<1>1. UnderLock(a)
  BY DEF RowsUnderLock
<1>2. ASSUME NEW q \in Requests, Reached(q, a) PROVE Reached(q, a)'
  <2>1. idx[q] \in Nat
    BY DEF Safe, TypeOK
  <2>2. PICK i \in 1 .. Len(job[q].entries) : i < idx[q] /\ job[q].entries[i].acct = a
    BY <1>2 DEF Reached
  <2>3. i \in Int /\ i < idx'[q]
    BY <2>1, <2>2
  <2> QED
    BY <2>2, <2>3 DEF Reached
<1>3. lock[a] # NoRequest => lock[a] \in Requests
  BY DEF Safe, TypeOK
<1>4. lock'[a] = lock[a] /\ head'[a] = head[a] /\ row'[a] = row[a]
  BY DEF rows
<1> QED
  BY <1>1, <1>2, <1>3, <1>4 DEF UnderLock

\* A statement sent to the pool writes a row nobody has locked.
LEMMA AutoCommitUnderLock ==
    ASSUME Safe, RowsUnderLock, NEW r \in Requests, NEW acct \in Accounts, NEW new,
           pc[r] = "update", AutoCommit(r, acct, new), UNCHANGED <<job, idx>>
    PROVE  RowsUnderLock'
<1> SUFFICES ASSUME NEW a \in Accounts
             PROVE  UnderLock(a)'
  BY DEF RowsUnderLock
<1>1. UnderLock(a)
  BY DEF RowsUnderLock
<1>2. CASE a = acct
  BY <1>2 DEF UnderLock, AutoCommit, Safe, TypeOK
<1>3. CASE a # acct
  <2>1. lock'[a] = lock[a] /\ head'[a] = head[a] /\ row'[a] = row[a]
    BY <1>3 DEF AutoCommit, Safe, TypeOK
  <2>2. lock[a] # NoRequest => lock[a] \in Requests
    BY DEF Safe, TypeOK
  <2>3. \A q \in Requests : Reached(q, a) => Reached(q, a)'
    BY DEF Reached
  <2>4. \A q \in Requests : pc[q] \in TxSteps => pc'[q] \in TxSteps
    BY DEF AutoCommit, Answer, Safe, TypeOK, TxSteps
  <2> QED
    BY <1>1, <2>1, <2>2, <2>3, <2>4 DEF UnderLock
<1> QED
  BY <1>2, <1>3

\* The steps of a posting keep RowsUnderLock.
LEMMA PostingUnderLock ==
    ASSUME Safe, RowsUnderLock, NEW r \in Requests, Posting(r)
    PROVE  RowsUnderLock'
<1>1. CASE SubmitPosting(r)
  BY <1>1, MoveUnderLock DEF SubmitPosting, Goto, Answer, Safe, TypeOK, TxSteps
<1>2. CASE BeginTx(r)
  BY <1>2, MoveUnderLock DEF BeginTx, Goto, Safe, TypeOK, TxSteps
<1>3. CASE InsertTransaction(r)
  <2>1. CASE Goto(r, "entry") /\ UNCHANGED rows
    BY <1>3, <2>1, MoveUnderLock DEF InsertTransaction, Goto, Safe, TypeOK, TxSteps
  <2>2. CASE Answer(r, "invalid") /\ Rollback(r)
    BY <1>3, <2>2, EndUnderLock DEF InsertTransaction
  <2> QED
    BY <1>3, <2>1, <2>2 DEF InsertTransaction
<1>4. CASE InsertLedgerEntry(r)
  <2>1. CASE Goto(r, "adjust") /\ UNCHANGED rows
    BY <1>4, <2>1, MoveUnderLock DEF InsertLedgerEntry, Goto, Safe, TypeOK, TxSteps
  <2>2. CASE Answer(r, "error") /\ Rollback(r)
    BY <1>4, <2>2, EndUnderLock DEF InsertLedgerEntry
  <2> QED
    BY <1>4, <2>1, <2>2 DEF InsertLedgerEntry
<1>5. CASE AdjustNothing(r)
  <2>1. pc'[r] \in TxSteps /\ \A q \in Requests \ {r} : pc'[q] = pc[q]
    BY <1>5 DEF AdjustNothing, NextEntry, Goto, Safe, TypeOK, TxSteps
  <2>2. \A q \in Requests : idx'[q] = idx[q] \/ idx'[q] = idx[q] + 1
    BY <1>5 DEF AdjustNothing, NextEntry, Safe, TypeOK
  <2> QED
    BY <1>5, <2>1, <2>2, MoveUnderLock DEF AdjustNothing
<1>6. CASE AdjustAccountBalance(r)
  <2>1. EntryOf(r).acct \in Accounts /\ idx[r] \in 1 .. Len(job[r].entries)
    BY <1>6, EntryOfType DEF AdjustAccountBalance, Entry
  <2>. PICK b \in Accounts : b = EntryOf(r).acct
    BY <2>1
  <2>. PICK d \in Int : d = Delta(EntryOf(r))
    BY <1>6, EntryOfType, DeltaType DEF AdjustAccountBalance
  <2>2. CASE ~Fits(head[b].balance + d)
    BY <1>6, <2>2, EndUnderLock DEF AdjustAccountBalance
  <2>3. CASE Fits(head[b].balance + d)
    <3>1. /\ pc[r] = "adjust" /\ NextEntry(r) /\ UNCHANGED <<row, journal, job>>
          /\ head' = [head EXCEPT ![b] = Adjusted(@, d)]
          /\ lock' = [lock EXCEPT ![b] = r]
          /\ lock[b] \in {r, NoRequest} /\ Active(row[b])
      BY <1>6, <2>3 DEF AdjustAccountBalance
    <3>2. pc'[r] \in TxSteps /\ idx'[r] = idx[r] + 1 /\ idx[r] \in Int
      BY <2>1, <3>1 DEF NextEntry, Goto, Safe, TypeOK, TxSteps
    <3>3. \A q \in Requests \ {r} : pc'[q] = pc[q] /\ idx'[q] = idx[q]
      BY <3>1 DEF NextEntry, Goto, Safe, TypeOK
    <3>4. UnderLock(b)'
      <4>1. head[b] \in Row /\ row[b] \in Row /\ UnderLock(b)
        BY <2>1 DEF Safe, TypeOK, RowsUnderLock
      <4>2. head[b].version >= row[b].version /\ Active(head[b])
        BY <3>1, <4>1 DEF UnderLock, Row
      <4>3. lock'[b] = r /\ row'[b] = row[b] /\ head'[b] = Adjusted(head[b], d)
        BY <2>1, <3>1 DEF Safe, TypeOK
      <4>4. head'[b].version > row'[b].version /\ Active(head'[b])
        BY <4>1, <4>2, <4>3 DEF Adjusted, Row, Active
      <4>5. Reached(r, b)'
        <5>1. /\ idx[r] \in 1 .. Len(job'[r].entries)
              /\ idx[r] < idx'[r]
              /\ job'[r].entries[idx[r]].acct = b
          BY <2>1, <3>1, <3>2 DEF EntryOf
        <5> QED
          BY <5>1 DEF Reached
      <4>6. lock'[b] # NoRequest
        BY <4>3, LedgerAssumption
      <4> QED
        BY <3>1, <3>2, <4>3, <4>4, <4>5, <4>6 DEF UnderLock, Active
    <3>5. ASSUME NEW a \in Accounts, a # b PROVE UnderLock(a)'
      <4>1. head'[a] = head[a] /\ lock'[a] = lock[a] /\ row'[a] = row[a]
        BY <3>1, <3>5 DEF Safe, TypeOK
      <4>2. lock[a] # NoRequest => lock[a] \in Requests
        BY DEF Safe, TypeOK
      <4>3. \A q \in Requests : pc[q] \in TxSteps => pc'[q] \in TxSteps
        BY <3>2, <3>3
      <4>4. \A q \in Requests : Reached(q, a) => Reached(q, a)'
        BY <3>1, <3>2, <3>3 DEF Reached
      <4>5. UnderLock(a)
        BY DEF RowsUnderLock
      <4> QED
        BY <4>1, <4>2, <4>3, <4>4, <4>5 DEF UnderLock
    <3> QED
      BY <3>4, <3>5 DEF RowsUnderLock
  <2> QED
    BY <2>2, <2>3
<1>7. CASE CommitTx(r)
  BY <1>7, EndUnderLock DEF CommitTx
<1> QED
  BY <1>1, <1>2, <1>3, <1>4, <1>5, <1>6, <1>7 DEF Posting

\* The account operations touch no row that is locked.
LEMMA EditingUnderLock ==
    ASSUME Safe, RowsUnderLock, NEW r \in Requests, Editing(r)
    PROVE  RowsUnderLock'
<1>1. job[r].acct \in Accounts
  BY LedgerAssumption DEF Safe, TypeOK, Job
<1>2. ASSUME pc[r] \notin TxSteps, UNCHANGED <<rows, job, idx>>,
             \A q \in Requests \ {r} : pc'[q] = pc[q]
      PROVE  RowsUnderLock'
  BY <1>2, MoveUnderLock
<1>3. CASE ReadForEdit(r)
  BY <1>2, <1>3 DEF ReadForEdit, Goto, Answer, Safe, TypeOK, TxSteps
<1>4. CASE ReadForDeactivate(r)
  BY <1>2, <1>4 DEF ReadForDeactivate, Goto, Answer, Safe, TypeOK, TxSteps
<1>5. CASE SubmitCreate(r)
  BY <1>2, <1>5 DEF SubmitCreate, Goto, Answer, Safe, TypeOK, TxSteps
<1>6. CASE AcquireConn(r)
  BY <1>2, <1>6 DEF AcquireConn, Goto, Safe, TypeOK, TxSteps
<1>7. CASE CreateAccount(r)
  BY <1>2, <1>7, AutoCommitUnderLock DEF CreateAccount, Answer, Safe, TypeOK, TxSteps
<1>8. CASE VersionConflict(r)
  BY <1>2, <1>8 DEF VersionConflict, Answer, Safe, TypeOK, TxSteps
<1>9. CASE UpdateAccountBalance(r)
  BY <1>1, <1>9, AutoCommitUnderLock DEF UpdateAccountBalance
<1>10. CASE UpdateAccountName(r)
  BY <1>1, <1>2, <1>10, AutoCommitUnderLock DEF UpdateAccountName, Answer, Safe, TypeOK, TxSteps
<1>11. CASE DeactivateAccount(r)
  BY <1>1, <1>2, <1>11, AutoCommitUnderLock DEF DeactivateAccount, Answer, Safe, TypeOK, TxSteps
<1> QED
  BY <1>3, <1>4, <1>5, <1>6, <1>7, <1>8, <1>9, <1>10, <1>11 DEF Editing

\* Every step keeps RowsUnderLock.
LEMMA NextUnderLock == Safe /\ RowsUnderLock /\ [Next]_vars => RowsUnderLock'
<1> SUFFICES ASSUME Safe, RowsUnderLock, [Next]_vars PROVE RowsUnderLock'
  OBVIOUS
<1>1. ASSUME NEW r \in Requests, Posting(r) PROVE RowsUnderLock'
  BY <1>1, PostingUnderLock
<1>2. ASSUME NEW r \in Requests, Editing(r) PROVE RowsUnderLock'
  BY <1>2, EditingUnderLock
<1>3. ASSUME NEW r \in Requests, DeadlockVictim(r) \/ Fail(r) PROVE RowsUnderLock'
  BY <1>3, EndUnderLock DEF DeadlockVictim, Fail
<1>4. CASE UNCHANGED vars
  BY <1>4 DEF vars, RowsUnderLock, UnderLock, Reached
<1> QED
  BY <1>1, <1>2, <1>3, <1>4 DEF Next, Finished

\* What COMMIT publishes and ROLLBACK drops is exactly what the transaction wrote
\* under its locks, and an account cannot be closed under a posting that has
\* already moved it.
THEOREM LocksHeld == Spec => []RowsUnderLock
<1>1. Init => RowsUnderLock
  BY DEF Init, RowsUnderLock, UnderLock
<1> QED
  BY <1>1, NextUnderLock, AlwaysSafe, PTL DEF Spec

-----------------------------------------------------------------------------
(***************************************************************************)
(* Versions.  A row only moves on: it never disappears, its version never  *)
(* falls, and its balance stays what it was while its version does.        *)
(***************************************************************************)
MovesOn(old, new) ==
    old.status # "absent" =>
        /\ new.status # "absent"
        /\ new.version >= old.version
        /\ new.version = old.version => new.balance = old.balance

RowsMoveOn == \A a \in Accounts : MovesOn(row[a], row'[a])

\* A step that publishes, commits by itself or touches no committed row.
LEMMA PublishMovesOn ==
    ASSUME Safe, RowsUnderLock, NEW r \in Requests, Publish(r)
    PROVE  RowsMoveOn
<1> SUFFICES ASSUME NEW a \in Accounts PROVE MovesOn(row[a], row'[a])
  BY DEF RowsMoveOn
<1>1. row[a] \in Row /\ head[a] \in Row /\ UnderLock(a)
  BY DEF Safe, TypeOK, RowsUnderLock
<1>2. CASE lock[a] = r
  <2>1. row'[a] = head[a] /\ lock[a] # NoRequest
    BY <1>2, LedgerAssumption DEF Publish, Safe, TypeOK
  <2> QED
    BY <1>1, <2>1 DEF UnderLock, MovesOn, Active, Row
<1>3. CASE lock[a] # r
  <2>1. row'[a] = row[a]
    BY <1>3 DEF Publish, Safe, TypeOK
  <2> QED
    BY <1>1, <2>1 DEF MovesOn, Row
<1> QED
  BY <1>2, <1>3

\* A statement sent to the pool moves one row on.
LEMMA AutoCommitMovesOn ==
    ASSUME Safe, NEW r \in Requests, NEW acct \in Accounts, NEW new,
           AutoCommit(r, acct, new), MovesOn(row[acct], new)
    PROVE  RowsMoveOn
<1>1. \A a \in Accounts : row[a].version \in Nat
  BY DEF Safe, TypeOK, Row
<1> QED
  BY <1>1 DEF AutoCommit, RowsMoveOn, MovesOn, Safe, TypeOK

\* So does, trivially, a step that leaves the rows alone.
LEMMA StillMovesOn == ASSUME Safe, UNCHANGED row PROVE RowsMoveOn
<1>1. \A a \in Accounts : row[a].version \in Nat
  BY DEF Safe, TypeOK, Row
<1> QED
  BY <1>1 DEF RowsMoveOn, MovesOn

\* The steps of a posting move the rows on: COMMIT publishes newer ones.
LEMMA PostingMovesOn ==
    ASSUME Safe, RowsUnderLock, NEW r \in Requests, Posting(r)
    PROVE  RowsMoveOn
<1>1. CASE CommitTx(r)
  BY <1>1, PublishMovesOn DEF CommitTx
<1>2. CASE ~CommitTx(r)
  <2>1. UNCHANGED row
    BY <1>2 DEF Posting, SubmitPosting, BeginTx, InsertTransaction, InsertLedgerEntry,
                AdjustNothing, AdjustAccountBalance, Rollback, rows
  <2> QED
    BY <2>1, StillMovesOn
<1> QED
  BY <1>1, <1>2

\* So do the account operations.
LEMMA EditingMovesOn ==
    ASSUME Safe, NEW r \in Requests, Editing(r)
    PROVE  RowsMoveOn
<1>1. job[r].acct \in Accounts
  BY LedgerAssumption DEF Safe, TypeOK, Job
<1>2. \A a \in Accounts : row[a] \in Row
  BY DEF Safe, TypeOK
<1>3. CASE CreateAccount(r)
  <2>1. CASE UNCHANGED rows
    BY <2>1, StillMovesOn DEF rows
  <2>2. ASSUME NEW a \in Accounts, row[a].status = "absent", AutoCommit(r, a, NewRow)
        PROVE  RowsMoveOn
    BY <2>2, AutoCommitMovesOn DEF MovesOn
  <2> QED
    BY <1>3, <2>1, <2>2 DEF CreateAccount
<1>4. CASE UpdateAccountBalance(r)
  <2>1. ASSUME NEW old \in Row, NEW n
        PROVE  MovesOn(old, [old EXCEPT !.balance = n, !.version = @ + 1])
    BY DEF MovesOn, Row
  <2> QED
    BY <1>1, <1>2, <1>4, <2>1, AutoCommitMovesOn DEF UpdateAccountBalance
<1>5. CASE UpdateAccountName(r)
  <2>1. ASSUME NEW old \in Row PROVE MovesOn(old, [old EXCEPT !.version = @ + 1])
    BY DEF MovesOn, Row
  <2>2. CASE UNCHANGED rows
    BY <2>2, StillMovesOn DEF rows
  <2> QED
    BY <1>1, <1>2, <1>5, <2>1, <2>2, AutoCommitMovesOn DEF UpdateAccountName
<1>6. CASE DeactivateAccount(r)
  <2>1. ASSUME NEW old \in Row PROVE MovesOn(old, [old EXCEPT !.status = "deleted"])
    BY DEF MovesOn, Row
  <2>2. CASE UNCHANGED rows
    BY <2>2, StillMovesOn DEF rows
  <2> QED
    BY <1>1, <1>2, <1>6, <2>1, <2>2, AutoCommitMovesOn DEF DeactivateAccount
<1>7. CASE UNCHANGED row
  BY <1>7, StillMovesOn
<1> QED
  BY <1>3, <1>4, <1>5, <1>6, <1>7
  DEF Editing, ReadForEdit, ReadForDeactivate, SubmitCreate, AcquireConn, VersionConflict, rows

\* Every step moves the rows on.
LEMMA NextMovesOn == Safe /\ RowsUnderLock /\ [Next]_vars => RowsMoveOn
<1> SUFFICES ASSUME Safe, RowsUnderLock, [Next]_vars PROVE RowsMoveOn
  OBVIOUS
<1>1. ASSUME NEW r \in Requests, Posting(r) PROVE RowsMoveOn
  BY <1>1, PostingMovesOn
<1>2. ASSUME NEW r \in Requests, Editing(r) PROVE RowsMoveOn
  BY <1>2, EditingMovesOn
<1>3. ASSUME NEW r \in Requests, DeadlockVictim(r) \/ Fail(r) PROVE RowsMoveOn
  BY <1>3, StillMovesOn DEF DeadlockVictim, Fail, Rollback
<1>4. CASE UNCHANGED vars
  BY <1>4, StillMovesOn DEF vars
<1> QED
  BY <1>1, <1>2, <1>3, <1>4 DEF Next, Finished

(***************************************************************************)
(* What a request has read stays true of the row as long as the version    *)
(* it read is the row's.  A request that goes on to its UPDATE has read an *)
(* open account, and Deactivate an empty one.                              *)
(***************************************************************************)
Pins(r) ==
    /\ Active(seen[r]) => MovesOn(seen[r], row[job[r].acct])
    /\ pc[r] \in {"acquire", "update"} /\ job[r].op # "create" => Active(seen[r])
    /\ pc[r] \in {"acquire", "update"} /\ job[r].op = "deactivate" => seen[r].balance = 0

SeenInv == \A r \in Requests : Pins(r)

\* A request that takes no step keeps its pin, since its row moves on.
LEMMA OthersPinned ==
    ASSUME Safe, Safe', SeenInv, RowsMoveOn, NEW q \in Requests,
           seen'[q] = seen[q], job'[q] = job[q], pc'[q] = pc[q]
    PROVE  Pins(q)'
<1>1. job[q].acct \in Accounts /\ seen[q] \in Row
  BY LedgerAssumption DEF Safe, TypeOK, Job
<1>2. row[job[q].acct] \in Row
  BY <1>1 DEF Safe, TypeOK
<1>3. MovesOn(row[job[q].acct], row'[job[q].acct])
  BY <1>1 DEF RowsMoveOn
<1>4. ASSUME Active(seen[q]) PROVE MovesOn(seen[q], row'[job[q].acct])
  <2>1. MovesOn(seen[q], row[job[q].acct])
    BY <1>4 DEF SeenInv, Pins
  <2>2. seen[q].version \in Nat /\ row[job[q].acct].version \in Nat
    BY <1>1, <1>2 DEF Row
  <2>3. row'[job[q].acct].version \in Nat
    BY <1>1 DEF Safe, TypeOK, Row
  <2> QED
    BY <1>3, <1>4, <2>1, <2>2, <2>3 DEF MovesOn, Active
<1> QED
  BY <1>4 DEF SeenInv, Pins

\* The request that takes the step.
LEMMA MoverPinned ==
    ASSUME Safe, Safe', SeenInv, RowsMoveOn, NEW r \in Requests,
           Posting(r) \/ Editing(r) \/ DeadlockVictim(r) \/ Fail(r)
    PROVE  Pins(r)'
<1>1. job' = job /\ job[r] \in Job /\ job[r].acct \in Accounts
  BY LedgerAssumption
  DEF Safe, TypeOK, Job, Posting, Editing, DeadlockVictim, Fail, SubmitPosting, BeginTx,
      InsertTransaction, InsertLedgerEntry, AdjustNothing, AdjustAccountBalance, CommitTx,
      ReadForEdit, ReadForDeactivate, SubmitCreate, AcquireConn, CreateAccount,
      VersionConflict, UpdateAccountBalance, UpdateAccountName, DeactivateAccount
<1>2. ASSUME seen' = seen, pc'[r] \notin {"acquire", "update"}
      PROVE  Pins(r)'
  <2> SUFFICES ASSUME Active(seen[r]) PROVE MovesOn(seen[r], row'[job[r].acct])
    BY <1>1, <1>2 DEF Pins
  <2>1. MovesOn(seen[r], row[job[r].acct]) /\ MovesOn(row[job[r].acct], row'[job[r].acct])
    BY <1>1 DEF SeenInv, Pins, RowsMoveOn
  <2>2. /\ seen[r].version \in Nat
        /\ row[job[r].acct].version \in Nat
        /\ row'[job[r].acct].version \in Nat
    BY <1>1 DEF Safe, TypeOK, Row
  <2> QED
    BY <2>1, <2>2 DEF MovesOn, Active
<1>3. ASSUME seen' = seen, UNCHANGED row, pc'[r] \in {"acquire", "update"},
             pc[r] \in {"acquire", "update"} \/ job[r].op = "create"
      PROVE  Pins(r)'
  BY <1>1, <1>3 DEF SeenInv, Pins
<1>4. CASE Posting(r)
  <2>1. seen' = seen
    BY <1>4 DEF Posting, SubmitPosting, BeginTx, InsertTransaction, InsertLedgerEntry,
                AdjustNothing, AdjustAccountBalance, CommitTx
  <2>2. pc'[r] \in {"begin", "header", "entry", "adjust", "commit", "done"}
    BY <1>4 DEF Posting, SubmitPosting, BeginTx, InsertTransaction, InsertLedgerEntry,
                AdjustNothing, AdjustAccountBalance, CommitTx, NextEntry, Goto, Answer,
                Safe, TypeOK
  <2> QED
    BY <1>2, <2>1, <2>2
<1>5. CASE ReadForEdit(r)
  <2> DEFINE a == job[r].acct
  <2>1. row' = row /\ job[r].op \notin {"create", "deactivate"} /\ row[a] \in Row
    BY <1>1, <1>5 DEF ReadForEdit, rows, Safe, TypeOK
  <2>2. CASE Active(row[a]) /\ seen' = [seen EXCEPT ![r] = row[a]]
    <3>1. seen'[r] = row[a] /\ MovesOn(row[a], row[a])
      BY <2>1, <2>2 DEF Safe, TypeOK, MovesOn, Row
    <3> QED
      BY <1>1, <2>1, <2>2, <3>1 DEF Pins
  <2>3. CASE pc'[r] = "done" /\ seen' = seen
    BY <1>2, <2>3
  <2> QED
    BY <1>5, <2>2, <2>3 DEF ReadForEdit, Answer, Safe, TypeOK
<1>6. CASE ReadForDeactivate(r)
  <2> DEFINE a == job[r].acct
  <2>1. row' = row /\ row[a] \in Row /\ job[r].op # "create"
    BY <1>1, <1>6 DEF ReadForDeactivate, rows, Safe, TypeOK
  <2>2. CASE Active(row[a])
    <3>1. seen'[r] = row[a] /\ MovesOn(row[a], row[a])
      BY <1>6, <2>1, <2>2 DEF ReadForDeactivate, Safe, TypeOK, MovesOn, Row
    <3>2. pc'[r] = "acquire" => row[a].balance = 0
      BY <1>6, <2>2 DEF ReadForDeactivate, MayDeactivate, Answer, Safe, TypeOK
    <3>3. pc'[r] \in {"acquire", "done"}
      BY <1>6, <2>2 DEF ReadForDeactivate, Answer, Goto, Safe, TypeOK
    <3> QED
      BY <1>1, <2>1, <2>2, <3>1, <3>2, <3>3 DEF Pins
  <2>3. CASE ~Active(row[a])
    BY <1>2, <1>6, <2>3 DEF ReadForDeactivate, Answer, Safe, TypeOK
  <2> QED
    BY <2>2, <2>3
<1>7. CASE SubmitCreate(r)
  BY <1>2, <1>3, <1>7 DEF SubmitCreate, Goto, Answer, Safe, TypeOK, rows
<1>8. CASE AcquireConn(r)
  BY <1>3, <1>8 DEF AcquireConn, Goto, Safe, TypeOK, rows
<1>9. CASE \/ CreateAccount(r) \/ VersionConflict(r) \/ UpdateAccountBalance(r)
           \/ UpdateAccountName(r) \/ DeactivateAccount(r)
           \/ DeadlockVictim(r) \/ Fail(r)
  <2>1. seen' = seen /\ pc'[r] = "done"
    BY <1>9 DEF CreateAccount, VersionConflict, UpdateAccountBalance, UpdateAccountName,
                DeactivateAccount, DeadlockVictim, Fail, AutoCommit, Answer, Safe, TypeOK
  <2> QED
    BY <1>2, <2>1
<1> QED
  BY <1>4, <1>5, <1>6, <1>7, <1>8, <1>9 DEF Editing

\* Every step keeps what the clients and Deactivate have read behind the rows.
LEMMA NextSeen ==
    Safe /\ Safe' /\ SeenInv /\ RowsUnderLock /\ [Next]_vars => SeenInv'
<1> SUFFICES ASSUME Safe, Safe', SeenInv, RowsUnderLock, [Next]_vars, NEW q \in Requests
             PROVE  Pins(q)'
  BY DEF SeenInv
<1>1. RowsMoveOn
  BY NextMovesOn
<1>2. ASSUME NEW r \in Requests, Posting(r) \/ Editing(r) \/ DeadlockVictim(r) \/ Fail(r)
      PROVE  Pins(q)'
  <2>1. CASE q = r
    BY <1>1, <1>2, <2>1, MoverPinned
  <2>2. CASE q # r
    <3>1. seen'[q] = seen[q] /\ job'[q] = job[q] /\ pc'[q] = pc[q]
      BY <1>2, <2>2
      DEF Safe, TypeOK, Posting, Editing, DeadlockVictim, Fail, SubmitPosting, BeginTx,
          InsertTransaction, InsertLedgerEntry, AdjustNothing, AdjustAccountBalance, CommitTx,
          ReadForEdit, ReadForDeactivate, SubmitCreate, AcquireConn, CreateAccount,
          VersionConflict, UpdateAccountBalance, UpdateAccountName, DeactivateAccount,
          AutoCommit, NextEntry, Goto, Answer
    <3> QED
      BY <1>1, <3>1, OthersPinned
  <2> QED
    BY <2>1, <2>2
<1>3. CASE UNCHANGED vars
  BY <1>1, <1>3, OthersPinned DEF vars
<1> QED
  BY <1>2, <1>3 DEF Next, Finished

\* It holds in every reachable state.
LEMMA AlwaysSeen == Spec => []SeenInv
<1>1. Init => SeenInv
  BY DEF Init, SeenInv, Pins, NoRow, Active
<1> QED
  BY <1>1, NextSeen, AlwaysSafe, LocksHeld, PTL DEF Spec

\* UpdateBalance never overwrites a balance its client has not seen, however many
\* postings committed in between.
THEOREM NoUpdateLost == Spec => NoLostUpdate
<1>1. Safe /\ SeenInv => NoLostUpdateStep
  <2> SUFFICES ASSUME Safe, SeenInv, NEW r \in Requests, UpdateAccountBalance(r)
               PROVE  row[job[r].acct].balance = seen[r].balance
    BY DEF NoLostUpdateStep
  <2>1. row[job[r].acct].version = seen[r].version /\ Active(seen[r])
    BY DEF UpdateAccountBalance, MatchesExpected, SeenInv, Pins
  <2>2. MovesOn(seen[r], row[job[r].acct])
    BY <2>1 DEF SeenInv, Pins
  <2> QED
    BY <2>1, <2>2 DEF MovesOn, Active
<1> QED
  BY <1>1, AlwaysSafe, AlwaysSeen, PTL DEF NoLostUpdate

\* Closing an account that is not empty takes a commit on it between Deactivate's
\* read and its UPDATE.
THEOREM ClosedEmpty == Spec => ClosedEmptyUnlessMoved
<1>1. Safe /\ SeenInv => ClosedEmptyStep
  <2> SUFFICES ASSUME Safe, SeenInv, NEW r \in Requests, DeactivateAccount(r),
                      row[job[r].acct].balance # 0
               PROVE  row[job[r].acct].version > seen[r].version
    BY DEF ClosedEmptyStep
  <2>1. Active(seen[r]) /\ seen[r].balance = 0
    BY DEF DeactivateAccount, SeenInv, Pins
  <2>2. MovesOn(seen[r], row[job[r].acct])
    BY <2>1 DEF SeenInv, Pins
  <2>3. job[r].acct \in Accounts /\ seen[r] \in Row
    BY LedgerAssumption DEF Safe, TypeOK, Job
  <2>4. row[job[r].acct].version \in Nat /\ seen[r].version \in Nat
    BY <2>3 DEF Safe, TypeOK, Row
  <2> QED
    BY <2>1, <2>2, <2>4 DEF MovesOn, Active
<1> QED
  BY <1>1, AlwaysSafe, AlwaysSeen, PTL DEF ClosedEmptyUnlessMoved

-----------------------------------------------------------------------------
(***************************************************************************)
(* Answers.  Until a request is answered it has nothing in the journal.    *)
(***************************************************************************)
Unanswered(r) == pc[r] # "done" => reply[r] = "none" /\ journal[r] = <<>>

Truthful(r) ==
    /\ reply[r] = "ok" /\ job[r].op = "post" => journal[r] = job[r].entries
    /\ reply[r] # "ok" => journal[r] = <<>> \/ journal[r] = job[r].entries
    /\ reply[r] \notin {"ok", "error"} => journal[r] = <<>>

AnswerInv == \A r \in Requests : Unanswered(r) /\ Truthful(r)

\* The request q whose reply, step and journal stay as they are.
LEMMA SameAnswer ==
    ASSUME AnswerInv, NEW q \in Requests, job'[q] = job[q], reply'[q] = reply[q],
           journal'[q] = journal[q], pc'[q] = pc[q]
    PROVE  Unanswered(q)' /\ Truthful(q)'
BY DEF AnswerInv, Unanswered, Truthful

\* The request r that takes a step.
LEMMA MoverAnswer ==
    ASSUME Safe, AnswerInv, NEW r \in Requests,
           Posting(r) \/ Editing(r) \/ DeadlockVictim(r) \/ Fail(r)
    PROVE  Unanswered(r)' /\ Truthful(r)'
<1>1. ASSUME pc[r] # "done", journal'[r] = journal[r], job' = job,
             \/ reply'[r] = reply[r]
             \/ pc'[r] = "done" /\ (reply'[r] = "ok" => job[r].op # "post")
      PROVE  Unanswered(r)' /\ Truthful(r)'
  BY <1>1 DEF AnswerInv, Unanswered, Truthful
<1>2. CASE CommitTx(r)
  <2>1. journal'[r] = job[r].entries /\ pc'[r] = "done" /\ reply'[r] \in {"ok", "error"}
    BY <1>2, FullyWritten DEF CommitTx, Publish, Answer, Safe, TypeOK
  <2> QED
    BY <1>2, <2>1 DEF CommitTx, Unanswered, Truthful
<1>3. CASE Posting(r) /\ ~CommitTx(r)
  <2>1. /\ journal' = journal
        /\ job' = job
        /\ pc[r] # "done"
        /\ reply' = reply \/ (pc'[r] = "done" /\ reply'[r] \in {"invalid", "error"})
    BY <1>3 DEF Posting, SubmitPosting, BeginTx, InsertTransaction, InsertLedgerEntry,
                AdjustNothing, AdjustAccountBalance, NextEntry, Goto, Answer, Rollback,
                rows, Safe, TypeOK
  <2> QED
    BY <1>1, <2>1
<1>4. CASE Editing(r)
  <2>1. /\ journal' = journal
        /\ job' = job
        /\ pc[r] # "done"
        /\ \/ reply' = reply
           \/ pc'[r] = "done" /\ (reply'[r] = "ok" => job[r].op # "post")
    BY <1>4 DEF Editing, ReadForEdit, ReadForDeactivate, SubmitCreate, AcquireConn,
                CreateAccount, VersionConflict, UpdateAccountBalance, UpdateAccountName,
                DeactivateAccount, AutoCommit, Goto, Answer, rows, Safe, TypeOK
  <2> QED
    BY <1>1, <2>1
<1>5. CASE DeadlockVictim(r) \/ Fail(r)
  <2>1. pc[r] # "done"
    <3>1. DeadlockVictim(r) => WaitsFor(r) # NoRequest
      BY LedgerAssumption DEF DeadlockVictim, OnWaitCycle
    <3> QED
      BY <1>5, <3>1 DEF Fail, WaitsFor
  <2>2. journal' = journal /\ job' = job /\ pc'[r] = "done" /\ reply'[r] = "error"
    BY <1>5 DEF DeadlockVictim, Fail, Answer, Rollback, Safe, TypeOK
  <2> QED
    BY <1>1, <2>1, <2>2
<1> QED
  BY <1>2, <1>3, <1>4, <1>5

\* Every step keeps the answers true.
LEMMA NextAnswer == Safe /\ AnswerInv /\ [Next]_vars => AnswerInv'
<1> SUFFICES ASSUME Safe, AnswerInv, [Next]_vars, NEW q \in Requests
             PROVE  Unanswered(q)' /\ Truthful(q)'
  BY DEF AnswerInv
<1>1. ASSUME NEW r \in Requests, Posting(r) \/ Editing(r) \/ DeadlockVictim(r) \/ Fail(r)
      PROVE  Unanswered(q)' /\ Truthful(q)'
  <2>1. CASE q = r
    BY <1>1, <2>1, MoverAnswer
  <2>2. CASE q # r
    <3>1. /\ job'[q] = job[q] /\ reply'[q] = reply[q]
          /\ journal'[q] = journal[q] /\ pc'[q] = pc[q]
      BY <1>1, <2>2
      DEF Safe, TypeOK, Posting, Editing, DeadlockVictim, Fail, SubmitPosting, BeginTx,
          InsertTransaction, InsertLedgerEntry, AdjustNothing, AdjustAccountBalance, CommitTx,
          ReadForEdit, ReadForDeactivate, SubmitCreate, AcquireConn, CreateAccount,
          VersionConflict, UpdateAccountBalance, UpdateAccountName, DeactivateAccount,
          AutoCommit, NextEntry, Goto, Answer, Rollback, Publish, rows
    <3> QED
      BY <3>1, SameAnswer
  <2> QED
    BY <2>1, <2>2
<1>2. CASE UNCHANGED vars
  BY <1>2, SameAnswer DEF vars
<1> QED
  BY <1>1, <1>2 DEF Next, Finished

\* It holds in every reachable state.
LEMMA AlwaysAnswer == Spec => []AnswerInv
<1>1. Init => AnswerInv
  BY DEF Init, AnswerInv, Unanswered, Truthful
<1> QED
  BY <1>1, NextAnswer, AlwaysSafe, PTL DEF Spec

\* A posting is answered "created" only when all of it is in the journal, is refused
\* only when none of it is, and never leaves a part of it there.
THEOREM AnswersTrue == Spec => []AnswerMatchesJournal
<1>1. AnswerInv => AnswerMatchesJournal
  BY DEF AnswerInv, Truthful, AnswerMatchesJournal
<1> QED
  BY <1>1, AlwaysAnswer, PTL
=============================================================================
