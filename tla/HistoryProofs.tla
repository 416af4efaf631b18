---------------------------- MODULE HistoryProofs ----------------------------
(***************************************************************************)
(* Theorems about History: clients that page through the ledger while any  *)
(* number of requests post to it.                                          *)
(***************************************************************************)
EXTENDS History, LedgerProofs

\* A step of the composition is a step of the ledger or leaves the ledger alone.
LEMMA StepOfLedger == [HistoryNext]_historyVars => [Next]_vars
<1>1. Write => Next
  BY DEF Write, Next
<1> QED
  BY <1>1 DEF HistoryNext, HistoryFinished, historyVars

\* Reading takes nothing from the ledger and adds nothing to it: every behaviour of
\* the composition is one of Ledger, and all that is proved of Ledger holds here.
THEOREM ReadersOnlyRead == HistorySpec => Spec
<1>1. HistoryInit => Init
  BY DEF HistoryInit
<1> QED
  BY <1>1, StepOfLedger, PTL DEF HistorySpec, Spec

-----------------------------------------------------------------------------
(***************************************************************************)
(* What is in the journal stays there as it is.                            *)
(***************************************************************************)

LedgerInv == Safe /\ AnswerInv

LEMMA AlwaysLedgerInv == HistorySpec => []LedgerInv
BY ReadersOnlyRead, AlwaysSafe, AlwaysAnswer, PTL DEF LedgerInv

\* Nothing happens any more to a request that has been answered.
LEMMA AnsweredStays ==
    ASSUME LedgerInv, [Next]_vars, NEW q \in Requests, pc[q] = "done"
    PROVE  /\ journal'[q] = journal[q] /\ reply'[q] = reply[q]
           /\ job'[q] = job[q] /\ pc'[q] = "done"
<1>1. ASSUME NEW r \in Requests, Posting(r) \/ Editing(r) \/ DeadlockVictim(r) \/ Fail(r)
      PROVE  /\ journal'[q] = journal[q] /\ reply'[q] = reply[q]
             /\ job'[q] = job[q] /\ pc'[q] = "done"
  <2>1. DeadlockVictim(r) => WaitsFor(r) # NoRequest
    BY LedgerAssumption DEF DeadlockVictim, OnWaitCycle
  <2>2. pc[r] # "done"
    BY <1>1, <2>1
    DEF Posting, Editing, Fail, WaitsFor, SubmitPosting, BeginTx, InsertTransaction,
        InsertLedgerEntry, AdjustNothing, AdjustAccountBalance, CommitTx, ReadForEdit,
        ReadForDeactivate, SubmitCreate, AcquireConn, CreateAccount, VersionConflict,
        UpdateAccountBalance, UpdateAccountName, DeactivateAccount
  <2>3. q # r
    BY <2>2
  <2> QED
    BY <1>1, <2>3
    DEF LedgerInv, Safe, TypeOK, Posting, Editing, DeadlockVictim, Fail, SubmitPosting,
        BeginTx, InsertTransaction, InsertLedgerEntry, AdjustNothing, AdjustAccountBalance,
        CommitTx, ReadForEdit, ReadForDeactivate, SubmitCreate, AcquireConn, CreateAccount,
        VersionConflict, UpdateAccountBalance, UpdateAccountName, DeactivateAccount,
        AutoCommit, NextEntry, Goto, Answer, Rollback, Publish, rows
<1>2. CASE UNCHANGED vars
  BY <1>2 DEF vars
<1> QED
  BY <1>1, <1>2 DEF Next, Finished

\* The journal holds whole postings.
JournalWhole == \A r \in Requests : journal[r] # <<>> => journal[r] = job[r].entries

LEMMA NextJournal ==
    ASSUME LedgerInv, JournalWhole, [Next]_vars
    PROVE  JournalWhole'
<1>1. ASSUME NEW r \in Requests, CommitTx(r) PROVE JournalWhole'
  <2>1. Written(r) = job[r].entries
    BY <1>1, FullyWritten DEF CommitTx, LedgerInv
  <2> QED
    BY <1>1, <2>1 DEF CommitTx, Publish, JournalWhole, LedgerInv, Safe, TypeOK
<1>2. ASSUME journal' = journal /\ job' = job PROVE JournalWhole'
  BY <1>2 DEF JournalWhole
<1>3. ASSUME NEW r \in Requests, Posting(r) \/ Editing(r) \/ DeadlockVictim(r) \/ Fail(r),
             ~CommitTx(r)
      PROVE  journal' = journal /\ job' = job
  BY <1>3
  DEF Posting, Editing, DeadlockVictim, Fail, SubmitPosting, BeginTx, InsertTransaction,
      InsertLedgerEntry, AdjustNothing, AdjustAccountBalance, ReadForEdit, ReadForDeactivate,
      SubmitCreate, AcquireConn, CreateAccount, VersionConflict, UpdateAccountBalance,
      UpdateAccountName, DeactivateAccount, AutoCommit, Rollback, rows
<1> QED
  BY <1>1, <1>2, <1>3 DEF Next, Finished, vars

\* A committed transaction keeps its entries and its created_at.
RowsKept ==
    /\ Committed \subseteq Committed'
    /\ \A r \in Committed : /\ journal'[r] = journal[r]
                            /\ job'[r] = job[r]
                            /\ reply'[r] = reply[r]
                            /\ stamp'[r] = stamp[r]

LEMMA WriteKeeps ==
    ASSUME LedgerInv, stamp \in [Requests -> Nat], Write
    PROVE  RowsKept
<1>1. [Next]_vars
  BY DEF Write, Next
<1>2. ASSUME NEW r \in Committed
      PROVE  /\ journal'[r] = journal[r] /\ job'[r] = job[r]
             /\ reply'[r] = reply[r] /\ stamp'[r] = stamp[r]
  <2>1. r \in Requests /\ pc[r] = "done"
    BY DEF Committed, LedgerInv, AnswerInv, Unanswered
  <2>2. journal'[r] = journal[r] /\ job'[r] = job[r] /\ reply'[r] = reply[r]
    BY <1>1, <2>1, AnsweredStays
  <2>3. stamp'[r] = stamp[r]
    BY <2>1 DEF Write, Stamp
  <2> QED
    BY <2>2, <2>3
<1>3. Committed \subseteq Committed'
  BY <1>2 DEF Committed
<1> QED
  BY <1>2, <1>3 DEF RowsKept

-----------------------------------------------------------------------------
(***************************************************************************)
(* What the clients hold: rows that are committed, wanted and whole.       *)
(***************************************************************************)

ReaderTypes ==
    /\ now \in Nat
    /\ stamp \in [Requests -> Nat]
    /\ query \in [Clients -> Queries]
    /\ at \in [Clients -> {"ask", "filter", "page", "entries", "done"}]
    /\ off \in [Clients -> Nat]
    /\ atStart \in [Clients -> SUBSET Requests]
    /\ only \in [Clients -> SUBSET Requests]
    /\ todo \in [Clients -> SUBSET Requests]
    /\ found \in [Clients -> [Requests -> Seq(Entry)]]
    /\ shown \in [Clients -> [Requests -> Seq(Entry)]]

\* Entries that a client holds are those of a whole posting it asked for.
Whole(c, held) ==
    \A r \in Requests :
        held[r] # <<>> => r \in Committed /\ Wanted(c, r) /\ held[r] \in Orders(journal[r])

\* Its filter, while it is in use, lets through what the client asked for and all
\* of that which was there when it began.
Filtered(c) ==
    /\ query[c].acct = AnyAccount => only[c] = Requests
    /\ at[c] = "filter" => query[c].acct # AnyAccount
    /\ at[c] = "page" => /\ \A r \in only[c] : query[c].acct = AnyAccount
                                              \/ (r \in Committed /\ Wanted(c, r))
                         /\ \A r \in atStart[c] : Wanted(c, r) => r \in only[c]

Holding(c) ==
    /\ atStart[c] \subseteq Committed
    /\ todo[c] \subseteq Committed
    /\ \A r \in todo[c] : Wanted(c, r)
    /\ Whole(c, found[c])
    /\ Whole(c, shown[c])
    /\ at[c] # "entries" => todo[c] = {} /\ found[c] = Nothing

ReaderInv == ReaderTypes /\ \A c \in Clients : Filtered(c) /\ Holding(c)

\* Entries in another order are as many, of the same type.
LEMMA OrdersType ==
    ASSUME NEW es \in Seq(Entry), NEW fs \in Orders(es)
    PROVE  fs \in Seq(Entry) /\ (es # <<>> => fs # <<>>)
<1>1. PICK p \in Bijection(DOMAIN es, DOMAIN es) : fs = [i \in DOMAIN es |-> es[p[i]]]
  BY DEF Orders
<1>2. p \in [DOMAIN es -> DOMAIN es]
  BY DEF Bijection, Injection
<1>3. DOMAIN es = 1 .. Len(es) /\ Len(es) \in Nat /\ \A i \in DOMAIN es : es[p[i]] \in Entry
  BY <1>2
<1>4. fs \in Seq(Entry)
  BY <1>1, <1>3
<1>5. es # <<>> => DOMAIN fs # {}
  BY <1>1, <1>3
<1> QED
  BY <1>4, <1>5

\* A committed posting is wanted or not, whatever is written.
LEMMA WantedKept ==
    ASSUME RowsKept, UNCHANGED query, NEW c, NEW r \in Committed
    PROVE  Wanted(c, r)' <=> Wanted(c, r)
<1>1. journal'[r] = journal[r] /\ query' = query
  BY DEF RowsKept
<1> QED
  BY <1>1, Zenon DEF Wanted, Names

LEMMA WriteReader ==
    ASSUME LedgerInv, ReaderInv, Write, UNCHANGED clients
    PROVE  ReaderInv'
<1>1. RowsKept
  BY WriteKeeps DEF ReaderInv, ReaderTypes
<1>2. Committed \subseteq Requests
  BY DEF Committed
<1>3. ReaderTypes'
  <2>1. (\E r \in Requests : Stamp(r)) \/ UNCHANGED <<now, stamp>>
    BY DEF Write
  <2>2. now' \in Nat /\ stamp' \in [Requests -> Nat]
    BY <2>1 DEF ReaderInv, ReaderTypes, Stamp
  <2> QED
    BY <2>2 DEF ReaderInv, ReaderTypes, clients
<1>4. ASSUME NEW c \in Clients PROVE Holding(c)'
  <2>1. Holding(c) /\ UNCHANGED clients
    BY DEF ReaderInv
  <2>2. ASSUME NEW held, Whole(c, held) PROVE Whole(c, held)'
    BY <1>1, <2>1, <2>2, WantedKept DEF Whole, RowsKept, clients
  <2>3. Whole(c, found[c])' /\ Whole(c, shown[c])'
    BY <2>1, <2>2 DEF Holding, clients
  <2>4. \A r \in todo[c] : Wanted(c, r)'
    BY <1>1, <2>1, WantedKept DEF Holding, clients
  <2> QED
    BY <1>1, <2>1, <2>3, <2>4 DEF Holding, RowsKept, clients
<1>5. ASSUME NEW c \in Clients PROVE Filtered(c)'
  <2>1. Filtered(c) /\ Holding(c) /\ UNCHANGED clients
    BY DEF ReaderInv
  <2> QED
    BY <1>1, <2>1, WantedKept DEF Filtered, Holding, RowsKept, clients
<1> QED
  BY <1>3, <1>4, <1>5 DEF ReaderInv

\* What Go's conversion leaves is an int32.
LEMMA Int32Type == ASSUME NEW n \in Int PROVE Int32(n) \in Int /\ Int32(n) <= MaxInt32
<1>1. (n + MaxInt32 + 1) % (2 * (MaxInt32 + 1)) \in 0 .. 2 * (MaxInt32 + 1) - 1
  BY HistoryAssumption, DivMod
<1> QED
  BY <1>1, HistoryAssumption DEF Int32

\* An int32 is left as it is.
LEMMA Int32Exact == ASSUME NEW n \in 0 .. MaxInt32 PROVE Int32(n) = n
<1>1. (n + MaxInt32 + 1) % (2 * (MaxInt32 + 1)) = n + MaxInt32 + 1
  BY HistoryAssumption
<1> QED
  BY <1>1, HistoryAssumption DEF Int32

\* A number of up to twice that size becomes negative.
LEMMA Int32Negative == ASSUME NEW n \in MaxInt32 + 1 .. 2 * MaxInt32 PROVE Int32(n) < 0
<1> DEFINE w == 2 * (MaxInt32 + 1)
           r == n - MaxInt32 - 1
<1>1. w \in Nat /\ w > 0 /\ r \in 0 .. w - 1 /\ n + MaxInt32 + 1 = w * 1 + r /\ r < MaxInt32
  BY HistoryAssumption
<1>2. PICK x \in Int : x = n + MaxInt32 + 1
  BY HistoryAssumption
<1>3. x % w = r
  <2> HIDE DEF w, r
  <2>1. PICK d \in Int, m \in 0 .. w - 1 : m = x % w /\ x = w * d + m
    BY <1>1, <1>2, DivMod
  <2>2. w * (d - 1) = r - m
    BY <1>1, <1>2, <2>1
  <2>3. d - 1 = 0
    BY <1>1, <2>1, <2>2, SmallMultiple
  <2> QED
    BY <1>1, <2>1, <2>2, <2>3
<1> QED
  BY <1>1, <1>2, <1>3, HistoryAssumption DEF Int32

LEMMA LimitType ==
    ASSUME ReaderTypes, NEW c \in Clients
    PROVE  Limit(c) \in Nat \ {0} /\ Asked(c) \in Nat \ {0}
<1>1. query[c] \in Query
  BY HistoryAssumption DEF ReaderTypes
<1>2. Parsed(query[c].limit) \in Int
  BY <1>1 DEF Parsed, Query
<1>3. Int32(Parsed(query[c].limit)) \in Int
  BY <1>2, Int32Type
<1> QED
  BY <1>1, <1>3, HistoryAssumption DEF Limit, Asked, Query

\* The client asks for no more rows at a time than an int32 can count.
Narrow(c) == query[c].limit <= MaxInt32

\* It gets as many rows as it takes a page to have.
LEMMA LimitAsked ==
    ASSUME ReaderTypes, NEW c \in Clients, Narrow(c)
    PROVE  Limit(c) = Asked(c) /\ Limit(c) <= MaxInt32
<1>1. query[c].limit \in Int /\ MaxInt32 <= MaxInt
  BY HistoryAssumption, MaxIntAssumption DEF ReaderTypes, Query
<1>2. CASE query[c].limit > 0
  <2>1. Parsed(query[c].limit) = query[c].limit
    BY <1>1, <1>2, HistoryAssumption, MaxIntAssumption DEF Parsed, Narrow
  <2>2. Int32(query[c].limit) = query[c].limit
    BY <1>1, <1>2, HistoryAssumption, Int32Exact DEF Narrow
  <2> QED
    BY <1>2, <2>1, <2>2 DEF Limit, Asked, Narrow
<1>3. CASE query[c].limit <= 0
  <2>1. Parsed(query[c].limit) = 0
    BY <1>1, <1>3 DEF Parsed
  <2>2. Int32(0) = 0
    BY HistoryAssumption, Int32Exact
  <2> QED
    BY <1>1, <1>3, <2>1, <2>2, HistoryAssumption DEF Limit, Asked
<1> QED
  BY <1>1, <1>2, <1>3

\* An offset that the SELECT takes is the one the client meant.
LEMMA OffsetMeant ==
    ASSUME NEW c \in Clients, off[c] \in 0 .. 2 * MaxInt32, Offset(c) >= 0
    PROVE  Offset(c) = off[c] /\ off[c] <= MaxInt32
<1>1. off[c] \in Int /\ Parsed(off[c]) = off[c]
  BY HistoryAssumption, MaxIntAssumption DEF Parsed
<1>2. off[c] <= MaxInt32
  <2> SUFFICES ASSUME off[c] > MaxInt32 PROVE FALSE
    BY <1>1, HistoryAssumption
  <2>1. Int32(off[c]) < 0
    BY <1>1, HistoryAssumption, Int32Negative
  <2>2. Int32(off[c]) \in Int
    BY <1>1, Int32Type
  <2> QED
    BY <1>1, <2>1, <2>2 DEF Offset
<1>3. Int32(off[c]) = off[c]
  BY <1>1, <1>2, HistoryAssumption, Int32Exact
<1> QED
  BY <1>1, <1>2, <1>3 DEF Offset

LEMMA ReadTypes ==
    ASSUME LedgerInv, ReaderTypes, NEW c \in Clients, Read(c),
           UNCHANGED <<vars, now, stamp>>
    PROVE  ReaderTypes'
<1> USE DEF ReaderTypes
<1>1. journal \in [Requests -> Seq(Entry)] /\ Committed \subseteq Requests
  BY DEF LedgerInv, Safe, TypeOK, Committed
<1>2. Nothing \in [Requests -> Seq(Entry)]
  BY DEF Nothing
<1>3. CASE Ask(c)
  BY <1>1, <1>3 DEF Ask
<1>4. CASE ListTransactionIDsForAccount(c)
  BY <1>1, <1>4 DEF ListTransactionIDsForAccount
<1>5. CASE ListTransactionsForHousehold(c)
  BY <1>1, <1>5 DEF ListTransactionsForHousehold
<1>6. CASE ListEntriesForTransaction(c)
  <2>1. PICK r \in todo[c] :
          /\ \E es \in Orders(journal[r]) : found' = [found EXCEPT ![c][r] = es]
          /\ todo' = [todo EXCEPT ![c] = @ \ {r}]
    BY <1>6 DEF ListEntriesForTransaction, EntriesOf
  <2>2. PICK es \in Orders(journal[r]) : found' = [found EXCEPT ![c][r] = es]
    BY <2>1
  <2>3. r \in Requests /\ es \in Seq(Entry)
    BY <1>1, <2>2, OrdersType
  <2> QED
    BY <1>6, <2>1, <2>2, <2>3 DEF ListEntriesForTransaction
<1>7. CASE AnswerPage(c)
  <2>1. off[c] + Asked(c) \in Nat
    BY LimitType
  <2>2. [r \in Requests |-> IF found[c][r] # <<>> THEN found[c][r] ELSE shown[c][r]]
          \in [Requests -> Seq(Entry)]
    OBVIOUS
  <2> QED
    BY <1>2, <1>7, <2>1, <2>2 DEF AnswerPage
<1>8. CASE FailPage(c)
  BY <1>2, <1>8 DEF FailPage
<1>9. CASE Stop(c)
  BY <1>9 DEF Stop
<1> QED
  BY <1>3, <1>4, <1>5, <1>6, <1>7, <1>8, <1>9 DEF Read

\* A statement of client c leaves the others as they are.
LEMMA OthersRead ==
    ASSUME ReaderTypes, NEW c \in Clients, NEW d \in Clients, d # c, Read(c)
    PROVE  /\ at'[d] = at[d] /\ off'[d] = off[d] /\ atStart'[d] = atStart[d]
           /\ only'[d] = only[d] /\ todo'[d] = todo[d]
           /\ found'[d] = found[d] /\ shown'[d] = shown[d]
BY DEF ReaderTypes, Read, Ask, ListTransactionIDsForAccount, ListTransactionsForHousehold,
       ListEntriesForTransaction, AnswerPage, FailPage, Stop

LEMMA ReadReader ==
    ASSUME LedgerInv, ReaderInv, NEW c \in Clients, Read(c), UNCHANGED <<vars, now, stamp>>
    PROVE  ReaderInv'
<1>1. ReaderTypes /\ ReaderTypes'
  BY ReadTypes DEF ReaderInv
<1>2. query' = query /\ journal' = journal
  BY DEF vars, Read, Ask, ListTransactionIDsForAccount, ListTransactionsForHousehold,
         ListEntriesForTransaction, AnswerPage, FailPage, Stop
<1>3. Committed' = Committed
  BY <1>2 DEF Committed
<1>4. ASSUME NEW d, NEW r PROVE Wanted(d, r)' <=> Wanted(d, r)
  BY <1>2 DEF Wanted, Names
<1>5. ASSUME NEW d, NEW held PROVE Whole(d, held)' <=> Whole(d, held)
  BY <1>2, <1>3, <1>4 DEF Whole
<1>6. Filtered(c) /\ Holding(c)
  BY DEF ReaderInv
<1>7. Whole(c, Nothing)
  BY DEF Whole, Nothing
<1>a. \A r : Wanted(c, r) <=> query[c].acct = AnyAccount \/ Names(r, query[c].acct)
  BY DEF Wanted
<1>8. Filtered(c)'
  <2>1. CASE Ask(c)
    BY <1>1, <1>2, <1>3, <1>4, <1>6, <1>a, <2>1
    DEF Filtered, ReaderTypes, Ask, Committed
  <2>2. CASE ListTransactionIDsForAccount(c)
    BY <1>1, <1>2, <1>3, <1>4, <1>6, <1>a, <2>2
    DEF Filtered, Holding, ReaderTypes, ListTransactionIDsForAccount
  <2>3. CASE ListTransactionsForHousehold(c) \/ ListEntriesForTransaction(c) \/ Stop(c)
    BY <1>1, <1>2, <1>3, <1>4, <1>6, <2>3
    DEF Filtered, ReaderTypes, ListTransactionsForHousehold, ListEntriesForTransaction,
        Stop
  <2>4. CASE AnswerPage(c) \/ FailPage(c)
    BY <1>1, <1>2, <1>3, <1>4, <1>6, <2>4
    DEF Filtered, ReaderTypes, AnswerPage, FailPage
  <2> QED
    BY <2>1, <2>2, <2>3, <2>4 DEF Read
<1>9. Holding(c)'
  <2>1. CASE Ask(c)
    BY <1>1, <1>2, <1>3, <1>4, <1>5, <1>6, <2>1
    DEF Ask, Holding, ReaderTypes
  <2>2. CASE ListTransactionIDsForAccount(c) \/ Stop(c)
    BY <1>1, <1>2, <1>3, <1>4, <1>5, <1>6, <2>2
    DEF ListTransactionIDsForAccount, Stop, Holding, ReaderTypes
  <2>3. CASE ListTransactionsForHousehold(c)
    BY <1>1, <1>2, <1>3, <1>4, <1>5, <1>6, <1>a, <2>3
    DEF ListTransactionsForHousehold, Holding, Filtered, ReaderTypes
  <2>4. CASE ListEntriesForTransaction(c)
    <3>1. PICK r \in todo[c] :
            /\ \E es \in Orders(journal[r]) : found' = [found EXCEPT ![c][r] = es]
            /\ todo' = [todo EXCEPT ![c] = @ \ {r}]
      BY <2>4 DEF ListEntriesForTransaction, EntriesOf
    <3>2. r \in Requests /\ r \in Committed /\ Wanted(c, r)
      BY <1>6 DEF Holding, Committed
    <3>3. PICK es \in Orders(journal[r]) : found' = [found EXCEPT ![c][r] = es]
      BY <3>1
    <3>4. Whole(c, found'[c])
      BY <1>1, <1>6, <3>2, <3>3 DEF Whole, Holding, ReaderTypes
    <3> QED
      BY <1>1, <1>2, <1>3, <1>4, <1>5, <1>6, <2>4, <3>1, <3>4
      DEF ListEntriesForTransaction, Holding, ReaderTypes
  <2>5. CASE AnswerPage(c)
    BY <1>1, <1>2, <1>3, <1>4, <1>5, <1>6, <1>7, <2>5
    DEF AnswerPage, Whole, Holding, ReaderTypes
  <2>6. CASE FailPage(c)
    BY <1>1, <1>2, <1>3, <1>4, <1>5, <1>6, <1>7, <2>6
    DEF FailPage, Holding, ReaderTypes
  <2> QED
    BY <2>1, <2>2, <2>3, <2>4, <2>5, <2>6 DEF Read
<1>10. ASSUME NEW d \in Clients, d # c PROVE Filtered(d)' /\ Holding(d)'
  <2>1. Filtered(d) /\ Holding(d)
    BY DEF ReaderInv
  <2> QED
    BY <1>1, <1>2, <1>3, <1>4, <1>5, <1>10, <2>1, OthersRead DEF Filtered, Holding
<1> QED
  BY <1>1, <1>8, <1>9, <1>10 DEF ReaderInv

\* They hold in every reachable state.
LEMMA AlwaysReader == HistorySpec => [](ReaderInv /\ JournalWhole)
<1>1. HistoryInit => ReaderInv /\ JournalWhole
  BY DEF HistoryInit, Init, ReaderInv, ReaderTypes, Filtered, Holding, Whole, Nothing,
         JournalWhole
<1>2. LedgerInv /\ ReaderInv /\ JournalWhole /\ [HistoryNext]_historyVars
        => ReaderInv' /\ JournalWhole'
  <2> SUFFICES ASSUME LedgerInv, ReaderInv, JournalWhole, [HistoryNext]_historyVars
               PROVE  ReaderInv' /\ JournalWhole'
    OBVIOUS
  <2>1. JournalWhole'
    BY StepOfLedger, NextJournal
  <2>2. CASE UNCHANGED historyVars
    <3>1. /\ UNCHANGED <<journal, now, stamp>> /\ UNCHANGED clients
          /\ Committed' = Committed
      BY <2>2 DEF historyVars, vars, Committed
    <3>2. ASSUME NEW d, NEW r PROVE Wanted(d, r)' <=> Wanted(d, r)
      BY <3>1 DEF Wanted, Names, clients
    <3>3. ASSUME NEW d, NEW held PROVE Whole(d, held)' <=> Whole(d, held)
      BY <3>1, <3>2 DEF Whole
    <3>4. ReaderTypes'
      BY <3>1 DEF ReaderInv, ReaderTypes, clients
    <3>5. ASSUME NEW d \in Clients PROVE Filtered(d)' /\ Holding(d)'
      BY <3>1, <3>2, <3>3 DEF ReaderInv, Filtered, Holding, clients
    <3> QED
      BY <2>1, <3>4, <3>5 DEF ReaderInv
  <2> QED
    BY <2>1, <2>2, WriteReader, ReadReader DEF HistoryNext, HistoryFinished
<1> QED
  BY <1>1, <1>2, AlwaysLedgerInv, PTL DEF HistorySpec

\* Every state of the composition is well formed.
THEOREM HistoryTypeCorrect == HistorySpec => []HistoryTypeOK
<1>1. LedgerInv /\ ReaderInv => HistoryTypeOK
  BY DEF LedgerInv, Safe, ReaderInv, ReaderTypes, HistoryTypeOK
<1> QED
  BY <1>1, AlwaysLedgerInv, AlwaysReader, PTL

\* What a client is shown are whole postings it asked for, each entry once and in
\* any order, and none of them refused, although every row of a page is completed by
\* a statement of its own.
THEOREM PagesWhole == HistorySpec => []ShownWhole
<1>1. LedgerInv /\ ReaderInv /\ JournalWhole => ShownWhole
  BY DEF LedgerInv, AnswerInv, Truthful, ReaderInv, Holding, Whole, JournalWhole,
         Committed, ShownWhole
<1> QED
  BY <1>1, AlwaysLedgerInv, AlwaysReader, PTL

-----------------------------------------------------------------------------
(***************************************************************************)
(* Nothing is skipped.  A transaction that a client has yet to be shown is *)
(* preceded by as many others as the client has gone through: what is      *)
(* posted meanwhile can only move it to later pages.                       *)
(***************************************************************************)

Unread(c, r) == Narrow(c) /\ Wanted(c, r) /\ ~Tied(r) /\ shown[c][r] = <<>>

Ahead(c, r) ==
    /\ Cardinality(Newer(r)) >= off[c]
    /\ at[c] = "entries" =>
          \/ r \in todo[c]
          \/ found[c][r] # <<>>
          \/ Cardinality(Newer(r)) >= off[c] + Limit(c)

\* The offset of a client that is narrow is an int32 whenever it gets a page.
Counted(c) ==
    Narrow(c) => /\ off[c] <= 2 * MaxInt32
                 /\ at[c] = "entries" => off[c] <= MaxInt32

SkipInv ==
    \A c \in Clients :
        /\ Counted(c)
        /\ \A r \in atStart[c] : Unread(c, r) => Ahead(c, r)

LEMMA NewerFinite ==
    ASSUME NEW r
    PROVE  IsFiniteSet(Newer(r)) /\ Cardinality(Newer(r)) \in Nat
<1>1. Newer(r) \subseteq Requests
  BY DEF Newer, Committed
<1> QED
  BY <1>1, LedgerAssumption, FS_Subset, FS_CardinalityType

LEMMA WriteSkip ==
    ASSUME LedgerInv, ReaderInv, SkipInv, Write, UNCHANGED clients
    PROVE  SkipInv'
<1>0. \A c \in Clients : Counted(c)'
  BY DEF SkipInv, Counted, Narrow, clients
<1> SUFFICES ASSUME NEW c \in Clients, NEW r \in atStart[c], Unread(c, r)'
             PROVE  Ahead(c, r)'
  BY <1>0 DEF SkipInv, clients
<1>1. RowsKept
  BY WriteKeeps DEF ReaderInv, ReaderTypes
<1>2. r \in Committed
  BY DEF ReaderInv, Holding
<1>3. Tied(r) => Tied(r)'
  BY <1>1, <1>2 DEF Tied, RowsKept
<1>4. Unread(c, r)
  BY <1>1, <1>2, <1>3, WantedKept DEF Unread, Narrow, clients
<1>5. Newer(r) \subseteq Newer(r)'
  BY <1>1, <1>2 DEF Newer, RowsKept
<1>6. /\ Cardinality(Newer(r)) \in Nat /\ Cardinality(Newer(r)') \in Nat
      /\ Cardinality(Newer(r)) <= Cardinality(Newer(r)')
  <2>1. Newer(r)' \subseteq Requests
    BY DEF Newer, Committed
  <2>2. IsFiniteSet(Newer(r)')
    BY <2>1, LedgerAssumption, FS_Subset
  <2> QED
    BY <1>5, <2>2, FS_Subset, FS_CardinalityType
<1>7. off[c] \in Nat /\ Limit(c) \in Nat /\ Limit(c)' = Limit(c)
  BY LimitType DEF ReaderInv, ReaderTypes, Limit, clients
<1>8. Ahead(c, r)
  BY <1>4 DEF SkipInv
<1> QED
  BY <1>6, <1>7, <1>8 DEF Ahead, clients

\* A page that starts at the offset shows r, or r is preceded by that page too.
LEMMA PageOrLater ==
    ASSUME ReaderInv, NEW c \in Clients, NEW S \in SUBSET Committed, IsPage(S, c),
           Offset(c) = off[c],
           NEW r \in Committed, ~Tied(r), Cardinality(Newer(r)) >= off[c]
    PROVE  r \in S \/ Cardinality(Newer(r)) >= off[c] + Limit(c)
<1> SUFFICES ASSUME r \notin S PROVE Cardinality(Newer(r)) >= off[c] + Limit(c)
  OBVIOUS
<1>1. off[c] \in Nat /\ Limit(c) \in Nat /\ stamp \in [Requests -> Nat]
  BY LimitType DEF ReaderInv, ReaderTypes
<1>2. Committed \subseteq Requests /\ IsFiniteSet(Committed)
  BY LedgerAssumption, FS_Subset DEF Committed
<1>3. PICK B \in SUBSET Committed : /\ FirstRows(B, off[c], Committed)
                                    /\ FirstRows(S, Limit(c), Committed \ B)
  BY DEF IsPage
<1>4. IsFiniteSet(B) /\ IsFiniteSet(S) /\ Cardinality(B) \in Nat /\ Cardinality(S) \in Nat
  BY <1>2, FS_Subset, FS_CardinalityType
<1>5. r \notin B
  <2> SUFFICES ASSUME r \in B PROVE FALSE
    OBVIOUS
  <2>1. Newer(r) \subseteq B \ {r}
    BY <1>1, <1>2, <1>3 DEF Newer, FirstRows
  <2>2. Cardinality(B \ {r}) = Cardinality(B) - 1 /\ IsFiniteSet(B \ {r})
    BY <1>4, FS_RemoveElement
  <2>3. Cardinality(Newer(r)) <= Cardinality(B) - 1
    BY <2>1, <2>2, FS_Subset
  <2>4. Cardinality(B) <= off[c]
    BY <1>1, <1>3, <1>4 DEF FirstRows
  <2> QED
    BY <1>1, <1>4, <2>3, <2>4, NewerFinite
<1>6. Cardinality(B) = off[c] /\ Cardinality(S) = Limit(c)
  BY <1>3, <1>5 DEF FirstRows
<1>7. B \cup S \subseteq Newer(r)
  BY <1>1, <1>2, <1>3, <1>5 DEF Newer, FirstRows, Tied
<1>8. Cardinality(B \cup S) = off[c] + Limit(c)
  <2>1. B \cap S = {}
    BY <1>3 DEF FirstRows
  <2> QED
    <3>1. Cardinality(B \cap S) = 0
      BY <2>1, FS_EmptySet
    <3>2. Cardinality(B \cup S)
            = Cardinality(B) + Cardinality(S) - Cardinality(B \cap S)
      BY <1>4, FS_Union
    <3> QED
      BY <1>1, <1>6, <3>1, <3>2
<1> QED
  BY <1>7, <1>8, NewerFinite, FS_Subset

LEMMA ReadSkip ==
    ASSUME LedgerInv, ReaderInv, SkipInv, NEW c \in Clients, Read(c),
           UNCHANGED <<vars, now, stamp>>
    PROVE  SkipInv'
<1>1. ReaderTypes /\ query' = query /\ journal' = journal /\ stamp' = stamp
  BY DEF ReaderInv, vars, Read, Ask, ListTransactionIDsForAccount, ListTransactionsForHousehold,
         ListEntriesForTransaction, AnswerPage, FailPage, Stop
<1>2. /\ Committed' = Committed
      /\ \A d, r : Wanted(d, r)' <=> Wanted(d, r)
      /\ \A r : Tied(r)' <=> Tied(r)
      /\ \A r : Newer(r)' = Newer(r)
      /\ \A d : Limit(d)' = Limit(d) /\ (Narrow(d)' <=> Narrow(d))
  <2>1. Committed' = Committed
    BY <1>1 DEF Committed
  <2> QED
    BY <1>1, <2>1 DEF Wanted, Names, Tied, Newer, Limit, Narrow
<1>3. ASSUME NEW d \in Clients, d # c, NEW r \in atStart'[d], Unread(d, r)'
      PROVE  Ahead(d, r)'
  <2>1. r \in atStart[d] /\ Unread(d, r)
    BY <1>1, <1>2, <1>3, OthersRead DEF Unread
  <2>2. Ahead(d, r)
    BY <2>1 DEF SkipInv
  <2> QED
    BY <1>1, <1>2, <1>3, <2>2, OthersRead DEF Ahead
<1>4. off[c] \in Nat /\ Limit(c) \in Nat /\ Asked(c) \in Nat
  BY <1>1, LimitType DEF ReaderTypes
<1>5. ASSUME NEW r \in atStart'[c], Unread(c, r)'
      PROVE  Ahead(c, r)'
  <2>1. Cardinality(Newer(r)) \in Nat
    BY NewerFinite
  <2>2. CASE Ask(c)
    <3>1. at'[c] # "entries" /\ off' = off /\ shown' = shown
      BY <1>1, <2>2 DEF Ask, ReaderTypes
    <3>2. CASE off[c] = 0
      BY <1>2, <2>1, <3>1, <3>2 DEF Ahead
    <3>3. CASE off[c] # 0
      <4>1. r \in atStart[c] /\ Unread(c, r)
        BY <1>2, <1>5, <2>2, <3>1, <3>3 DEF Ask, Unread
      <4> QED
        BY <1>2, <3>1, <4>1 DEF SkipInv, Ahead
    <3> QED
      BY <3>2, <3>3
  <2>3. ASSUME atStart' = atStart, shown'[c][r] = <<>> => shown[c][r] = <<>>
        PROVE  r \in atStart[c] /\ Unread(c, r) /\ Ahead(c, r)
    BY <1>2, <1>5, <2>3 DEF Unread, SkipInv
  <2>4. CASE ListTransactionIDsForAccount(c) \/ FailPage(c) \/ Stop(c)
    <3>1. atStart' = atStart /\ shown' = shown /\ off' = off /\ at'[c] # "entries"
      BY <1>1, <2>4 DEF ListTransactionIDsForAccount, FailPage, Stop, ReaderTypes
    <3> QED
      BY <1>2, <2>3, <3>1 DEF Ahead
  <2>5. CASE ListTransactionsForHousehold(c)
    <3>1. /\ atStart' = atStart /\ shown' = shown /\ off' = off
          /\ at[c] = "page"
      BY <2>5 DEF ListTransactionsForHousehold
    <3>2. PICK S \in SUBSET Committed : IsPage(S, c) /\ todo'[c] = S \cap only[c]
      BY <1>1, <2>5 DEF ListTransactionsForHousehold, ReaderTypes
    <3>3. r \in atStart[c] /\ Unread(c, r) /\ Cardinality(Newer(r)) >= off[c]
      BY <2>3, <3>1 DEF Ahead
    <3>4. r \in Committed /\ r \in only[c]
      BY <3>1, <3>3 DEF ReaderInv, Holding, Filtered, Unread
    <3>5. Offset(c) = off[c]
      BY <1>4, <2>5, <3>3, OffsetMeant
      DEF ListTransactionsForHousehold, SkipInv, Counted, Unread
    <3>6. r \in S \/ Cardinality(Newer(r)) >= off[c] + Limit(c)
      BY <3>2, <3>3, <3>4, <3>5, PageOrLater DEF Unread
    <3> QED
      BY <1>2, <3>1, <3>2, <3>3, <3>4, <3>6 DEF Ahead
  <2>6. CASE ListEntriesForTransaction(c)
    <3>1. atStart' = atStart /\ shown' = shown /\ off' = off /\ at' = at
      BY <2>6 DEF ListEntriesForTransaction
    <3>2. Ahead(c, r)
      BY <2>3, <3>1
    <3>3. PICK q \in todo[c] :
            /\ \E es \in Orders(journal[q]) : found' = [found EXCEPT ![c][q] = es]
            /\ todo' = [todo EXCEPT ![c] = @ \ {q}]
      BY <2>6 DEF ListEntriesForTransaction, EntriesOf
    <3>4. PICK es \in Orders(journal[q]) : found' = [found EXCEPT ![c][q] = es]
      BY <3>3
    <3>5. q \in Requests /\ journal[q] # <<>> /\ journal[q] \in Seq(Entry)
      BY DEF ReaderInv, Holding, Committed, LedgerInv, Safe, TypeOK
    <3>6. es # <<>>
      BY <3>4, <3>5, OrdersType
    <3>7. r \in todo[c] => r \in todo'[c] \/ found'[c][r] # <<>>
      BY <1>1, <3>3, <3>4, <3>5, <3>6 DEF ReaderTypes
    <3>8. found[c][r] # <<>> => found'[c][r] # <<>>
      BY <1>1, <3>4, <3>5, <3>6 DEF ReaderTypes
    <3> QED
      BY <1>2, <3>1, <3>2, <3>7, <3>8 DEF Ahead
  <2>7. CASE AnswerPage(c)
    <3>1. /\ atStart' = atStart /\ at'[c] = "ask" /\ at[c] = "entries" /\ todo[c] = {}
          /\ off'[c] = off[c] + Asked(c)
      BY <1>1, <2>7 DEF AnswerPage, ReaderTypes
    <3>2. r \in Requests
      BY <3>1 DEF ReaderInv, Holding, Committed
    <3>3. shown'[c][r] = IF found[c][r] # <<>> THEN found[c][r] ELSE shown[c][r]
      BY <1>1, <2>7, <3>2 DEF AnswerPage, ReaderTypes
    <3>4. shown'[c][r] = <<>>
      BY <1>5 DEF Unread
    <3>5. found[c][r] = <<>> /\ Ahead(c, r)
      BY <2>3, <3>1, <3>3, <3>4
    <3> QED
      BY <1>1, <1>2, <1>4, <1>5, <2>1, <3>1, <3>5, LimitAsked DEF Ahead, Unread
  <2> QED
    BY <2>2, <2>4, <2>5, <2>6, <2>7 DEF Read
<1>6. ASSUME NEW d \in Clients PROVE Counted(d)'
  <2>1. Counted(d) /\ (Narrow(d)' <=> Narrow(d))
    BY <1>2 DEF SkipInv
  <2>2. CASE d # c
    BY <1>1, <2>1, <2>2, OthersRead DEF Counted
  <2>3. CASE d = c /\ AnswerPage(c)
    <3>1. at[c] = "entries" /\ at'[c] = "ask" /\ off'[c] = off[c] + Asked(c)
      BY <1>1, <2>3 DEF AnswerPage, ReaderTypes
    <3>2. Narrow(c) => off[c] <= MaxInt32 /\ Asked(c) <= MaxInt32
      BY <1>1, <2>1, <2>3, <3>1, LimitAsked DEF Counted
    <3> QED
      BY <1>4, <2>1, <2>3, <3>1, <3>2, HistoryAssumption DEF Counted
  <2>4. CASE d = c /\ ListTransactionsForHousehold(c)
    <3>1. off' = off /\ Offset(c) >= 0
      BY <2>4 DEF ListTransactionsForHousehold
    <3>2. Narrow(c) => off[c] \in 0 .. 2 * MaxInt32
      BY <1>4, <2>1, <2>4, HistoryAssumption DEF Counted
    <3>3. Narrow(c) => off[c] <= MaxInt32
      BY <3>1, <3>2, OffsetMeant
    <3> QED
      BY <2>1, <2>4, <3>1, <3>2, <3>3, HistoryAssumption DEF Counted
  <2>5. CASE d = c /\ ~AnswerPage(c) /\ ~ListTransactionsForHousehold(c)
    <3>1. off' = off /\ (at'[c] = "entries" => at[c] = "entries")
      BY <1>1, <2>5
      DEF Read, Ask, ListTransactionIDsForAccount, ListEntriesForTransaction, FailPage,
          Stop, ReaderTypes
    <3> QED
      BY <2>1, <2>5, <3>1 DEF Counted
  <2> QED
    BY <2>2, <2>3, <2>4, <2>5
<1> QED
  BY <1>3, <1>5, <1>6 DEF SkipInv

\* A client that pages through the history while others post, in whatever order they
\* commit, is shown every transaction of the rows it has gone through that was there
\* when it began, unless another one has the same created_at or the client asks for
\* more rows at a time than an int32 can count.
THEOREM PagesSkipNothing == HistorySpec => []NothingSkipped
<1>1. HistoryInit => SkipInv
  BY HistoryAssumption DEF HistoryInit, SkipInv, Counted
<1>2. LedgerInv /\ ReaderInv /\ SkipInv /\ [HistoryNext]_historyVars => SkipInv'
  <2> SUFFICES ASSUME LedgerInv, ReaderInv, SkipInv, [HistoryNext]_historyVars
               PROVE  SkipInv'
    OBVIOUS
  <2>1. CASE UNCHANGED historyVars
    BY <2>1 DEF historyVars, clients, vars, SkipInv, Unread, Ahead, Wanted, Names, Tied, Newer,
                Committed, Limit, Counted, Narrow
  <2> QED
    BY <2>1, WriteSkip, ReadSkip DEF HistoryNext, HistoryFinished
<1>3. ReaderInv /\ SkipInv => NothingSkipped
  <2> SUFFICES ASSUME ReaderInv, SkipInv, NEW c \in Clients, NEW r \in atStart[c],
                      Narrow(c), Wanted(c, r), ~Tied(r), Cardinality(Newer(r)) < off[c],
                      shown[c][r] = <<>>
               PROVE  FALSE
    BY DEF NothingSkipped, Narrow
  <2>1. Cardinality(Newer(r)) >= off[c]
    BY DEF SkipInv, Unread, Ahead
  <2>2. Cardinality(Newer(r)) \in Nat /\ off[c] \in Nat
    BY NewerFinite DEF ReaderInv, ReaderTypes
  <2> QED
    BY <2>1, <2>2
<1> QED
  BY <1>1, <1>2, <1>3, AlwaysLedgerInv, AlwaysReader, PTL DEF HistorySpec
=============================================================================
