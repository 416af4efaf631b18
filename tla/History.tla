------------------------------- MODULE History -------------------------------
(***************************************************************************)
(* Reading the ledger while it is written: GetTransactionHistory, composed *)
(* with the postings and edits of Ledger.                                  *)
(*                                                                         *)
(* A client goes through the transactions of a household page by page, one *)
(* HTTP request for each, with a limit, an offset and perhaps an account.  *)
(* The handler answers a page by up to 2 + limit statements, none of them  *)
(* in a transaction: the ids of the account's transactions, the page of    *)
(* the household's transactions, and the entries of each row that is kept. *)
(* Postings commit between any two of them.                                *)
(*                                                                         *)
(* A page is ordered by created_at, which is NOW() of the posting, the     *)
(* time of its BEGIN: postings can commit in another order, and two of     *)
(* them can have the same one.  All entries of a posting have the same.    *)
(*                                                                         *)
(* Limit and offset are an int of Go (64 bits) in the handler and an int32 *)
(* in the statement.                                                       *)
(***************************************************************************)
EXTENDS Ledger

CONSTANTS
    Clients,       \* the clients that go through the history
    Queries,       \* what a client may ask for
    AnyAccount,    \* the account of a query that does not filter
    DefaultLimit,  \* rows of a page whose query gives no limit
    MaxInt32,      \* the largest value of an int32
    MaxOffset      \* bound: a client asks for no page from here on

Query == [acct : Accounts \cup {AnyAccount}, limit : Int]

ASSUME HistoryAssumption ==
    /\ AnyAccount \notin Accounts
    /\ Queries \subseteq Query
    /\ MaxInt32 \in Nat \ {0} /\ 2 * MaxInt32 <= MaxInt
    /\ DefaultLimit \in 1 .. MaxInt32
    /\ MaxOffset \in Nat

VARIABLES
    now,      \* the server's clock, as far as any BEGIN has looked at it
    stamp,    \* stamp[r]: created_at of the transaction of posting r
    query,    \* query[c]: what client c asks for
    at,       \* at[c]: what client c waits for
    off,      \* off[c]: the offset of the page it asks for
    atStart,  \* atStart[c]: the transactions there were when it began to ask
    only,     \* only[c]: the transactions its filter lets through
    todo,     \* todo[c]: the rows of the page whose entries are not read yet
    found,    \* found[c]: the entries of the page, by transaction
    shown     \* shown[c]: the entries of all pages it got, by transaction

clients == <<query, at, off, atStart, only, todo, found, shown>>
historyVars == <<vars, now, stamp, clients>>

Nothing == [r \in Requests |-> <<>>]

HistoryTypeOK ==
    /\ TypeOK
    /\ now \in Nat
    /\ stamp \in [Requests -> Nat]
    /\ query \in [Clients -> Queries]
    /\ at \in [Clients -> {"ask", "filter", "page", "entries", "done"}]
    /\ off \in [Clients -> Nat]
    /\ atStart \in [Clients -> SUBSET Requests]
    /\ only \in [Clients -> SUBSET Requests]
    /\ todo \in [Clients -> SUBSET Requests]
    /\ found \in [Clients -> [Requests -> Seq(Entry)]]
    /\ shown \in [Clients -> [Requests -> Seq(Entry)]]

HistoryInit ==
    /\ Init
    /\ now = 0
    /\ stamp = [r \in Requests |-> 0]
    /\ query \in [Clients -> Queries]
    /\ at = [c \in Clients |-> "ask"]
    /\ off = [c \in Clients |-> 0]
    /\ atStart = [c \in Clients |-> {}]
    /\ only = [c \in Clients |-> Requests]
    /\ todo = [c \in Clients |-> {}]
    /\ found = [c \in Clients |-> Nothing]
    /\ shown = [c \in Clients |-> Nothing]

-----------------------------------------------------------------------------
\* The writers.

\* A BEGIN reads the clock, which may show the same time as at the last one.
Stamp(r) ==
    \E time \in {now, now + 1} :
        /\ now' = time
        /\ stamp' = [stamp EXCEPT ![r] = time]

Write ==
    \E r \in Requests :
        /\ Posting(r) \/ Editing(r) \/ DeadlockVictim(r) \/ Fail(r)
        /\ IF pc[r] = "begin" /\ pc'[r] = "header"
             THEN Stamp(r)
             ELSE UNCHANGED <<now, stamp>>

-----------------------------------------------------------------------------
\* The statements of a page.

\* The rows of table transactions that a statement sees.
Committed == {r \in Requests : journal[r] # <<>>}

Names(r, a) == \E i \in DOMAIN journal[r] : journal[r][i].acct = a

Wanted(c, r) == query[c].acct = AnyAccount \/ Names(r, query[c].acct)

\* The handler drops a number that is no int of Go, or is not positive.
Parsed(n) == IF n \in 1 .. MaxInt THEN n ELSE 0

\* What Go's conversion to int32 leaves of n.
Int32(n) == ((n + MaxInt32 + 1) % (2 * (MaxInt32 + 1))) - MaxInt32 - 1

\* The rows of a page.
Limit(c) ==
    LET limit == Int32(Parsed(query[c].limit))
    IN  IF limit > 0 THEN limit ELSE DefaultLimit

\* The rows before it.
Offset(c) == Int32(Parsed(off[c]))

\* The rows that the client takes a page to have.
Asked(c) == IF query[c].limit > 0 THEN query[c].limit ELSE DefaultLimit

Ask(c) ==
    /\ at[c] = "ask"
    /\ off[c] < MaxOffset
    /\ atStart' = IF off[c] = 0 THEN [atStart EXCEPT ![c] = Committed] ELSE atStart
    /\ at' = [at EXCEPT ![c] = IF query[c].acct = AnyAccount THEN "page" ELSE "filter"]
    /\ UNCHANGED <<query, off, only, todo, found, shown>>

ListTransactionIDsForAccount(c) ==
    /\ at[c] = "filter"
    /\ ConnFree
    /\ only' = [only EXCEPT ![c] = {r \in Committed : Names(r, query[c].acct)}]
    /\ at' = [at EXCEPT ![c] = "page"]
    /\ UNCHANGED <<query, off, atStart, todo, found, shown>>

\* Without its ORDER BY the SELECT may return any n rows.
FirstRowsUnordered(B, n, T) ==
    /\ B \subseteq T
    /\ Cardinality(B) = n \/ (Cardinality(B) < n /\ B = T)

\* B may be the first n rows of T, ordered by created_at, the latest first.  Rows
\* with the same created_at come in any order, and in another one the next time.
FirstRows(B, n, T) ==
    /\ B \subseteq T
    /\ Cardinality(B) = n \/ (Cardinality(B) < n /\ B = T)
    /\ \A p \in B, q \in T \ B : stamp[p] >= stamp[q]

\* LIMIT and OFFSET.
IsPage(S, c) ==
    \E B \in SUBSET Committed :
        /\ FirstRows(B, Offset(c), Committed)
        /\ FirstRows(S, Limit(c), Committed \ B)

\* The filter is applied to the rows of the page, not to the rows it is taken from.
\* PostgreSQL refuses a negative OFFSET.
ListTransactionsForHousehold(c) ==
    /\ at[c] = "page"
    /\ ConnFree
    /\ Offset(c) >= 0
    /\ \E S \in SUBSET Committed :
         /\ IsPage(S, c)
         /\ todo' = [todo EXCEPT ![c] = S \cap only[c]]
    /\ at' = [at EXCEPT ![c] = "entries"]
    /\ UNCHANGED <<query, off, atStart, only, found, shown>>

\* The orders of es.
Orders(es) == {[i \in DOMAIN es |-> es[p[i]]] : p \in Bijection(DOMAIN es, DOMAIN es)}

\* Only the entries of the account that was asked for.
EntriesOfAccount(c, r) ==
    Orders(SelectSeq(journal[r], LAMBDA e : query[c].acct \in {AnyAccount, e.acct}))

\* The SELECT orders entries by created_at, which tells those of a posting not apart.
EntriesOf(c, r) == Orders(journal[r])

ListEntriesForTransaction(c) ==
    /\ at[c] = "entries"
    /\ ConnFree
    /\ \E r \in todo[c] :
         /\ \E es \in EntriesOf(c, r) : found' = [found EXCEPT ![c][r] = es]
         /\ todo' = [todo EXCEPT ![c] = @ \ {r}]
    /\ UNCHANGED <<query, at, off, atStart, only, shown>>

\* HTTP 200, and the client goes on by as many rows as it asked for.
AnswerPage(c) ==
    /\ at[c] = "entries"
    /\ todo[c] = {}
    /\ shown' = [shown EXCEPT ![c] = [r \in Requests |->
                    IF found[c][r] # <<>> THEN found[c][r] ELSE @[r]]]
    /\ found' = [found EXCEPT ![c] = Nothing]
    /\ off' = [off EXCEPT ![c] = @ + Asked(c)]
    /\ only' = [only EXCEPT ![c] = Requests]
    /\ at' = [at EXCEPT ![c] = "ask"]
    /\ UNCHANGED <<query, atStart, todo>>

\* Any statement fails, or the offset is refused: HTTP 500, and nothing of the page
\* is answered.  The client may ask for it again.
FailPage(c) ==
    /\ at[c] \in {"filter", "page", "entries"}
    /\ todo' = [todo EXCEPT ![c] = {}]
    /\ found' = [found EXCEPT ![c] = Nothing]
    /\ only' = [only EXCEPT ![c] = Requests]
    /\ at' = [at EXCEPT ![c] = "ask"]
    /\ UNCHANGED <<query, off, atStart, shown>>

Stop(c) ==
    /\ at[c] = "ask"
    /\ off[c] >= MaxOffset
    /\ at' = [at EXCEPT ![c] = "done"]
    /\ UNCHANGED <<query, off, atStart, only, todo, found, shown>>

Read(c) ==
    \/ Ask(c)
    \/ ListTransactionIDsForAccount(c)
    \/ ListTransactionsForHousehold(c)
    \/ ListEntriesForTransaction(c)
    \/ AnswerPage(c)
    \/ FailPage(c)
    \/ Stop(c)

-----------------------------------------------------------------------------
HistoryFinished ==
    /\ AllAnswered
    /\ \A c \in Clients : at[c] = "done"
    /\ UNCHANGED historyVars

HistoryNext ==
    \/ Write /\ UNCHANGED clients
    \/ (\E c \in Clients : Read(c)) /\ UNCHANGED <<vars, now, stamp>>
    \/ HistoryFinished

HistorySpec == HistoryInit /\ [][HistoryNext]_historyVars

-----------------------------------------------------------------------------
\* Properties.

\* Whatever a client is shown was posted, was asked for and is whole: although the
\* page and the entries of each of its rows are read by separate statements, no
\* transaction appears with entries missing or twice, none that was refused, and
\* none that does not name the account of the query.  Their order is any.
ShownWhole ==
    \A c \in Clients, r \in Requests :
        shown[c][r] # <<>> =>
            /\ shown[c][r] \in Orders(job[r].entries)
            /\ reply[r] \in {"ok", "error"}
            /\ Wanted(c, r)

\* The transactions that come before r in every order the SELECT may use.
Newer(r) == {q \in Committed : stamp[q] > stamp[r]}

Tied(r) == \E q \in Committed \ {r} : stamp[q] = stamp[r]

\* A client that has gone through the first off[c] rows has been shown every
\* transaction it asked for that was there when it began and belongs to those rows,
\* whatever was posted meanwhile, in whatever order the postings committed: a page
\* can repeat rows but not skip any.  It can skip one only when two postings began
\* in the same microsecond, since created_at alone orders the pages, or when the
\* client asks for more rows at a time than an int32 can count, and gets fewer.
\* The offsets need no such condition: one that is no int32 is an error.
NothingSkipped ==
    \A c \in Clients : \A r \in atStart[c] :
        /\ query[c].limit <= MaxInt32
        /\ Wanted(c, r)
        /\ ~Tied(r)
        /\ Cardinality(Newer(r)) < off[c]
        => shown[c][r] # <<>>
=============================================================================
