----------------------------- MODULE CreditCard -----------------------------
(***************************************************************************)
(* The settings of credit card accounts: requests that create, update and  *)
(* delete them, and that deactivate the account they belong to.  One step  *)
(* is one database statement, each a transaction of its own.               *)
(*                                                                         *)
(* A deleted row of settings stays in the table, but no statement finds it *)
(* any more: what the model keeps of an account's rows is the one that is  *)
(* not deleted, if there is one.  New settings are a new row, with a new   *)
(* id, and start from version 1 again.                                     *)
(***************************************************************************)
EXTENDS Integers

CONSTANTS
    Requests,   \* the HTTP requests in flight
    Accounts,   \* the accounts a client may name
    Cards,      \* those of type CREDIT_CARD
    WithSettings, \* those that have settings at the start
    Jobs,       \* what a request may ask for
    NoRequest   \* the author of settings made before

\* The columns that one UPDATE each can change.
Fields == {"closing_day", "due_day", "limit_amount"}

Ops == {"create", "update", "delete", "deactivate"}

\* field is of no meaning but to an update.
Job == [op : Ops, acct : Accounts, field : Fields]

ASSUME CreditCardAssumption ==
    /\ WithSettings \subseteq Cards
    /\ Cards \subseteq Accounts
    /\ Jobs \subseteq Job
    /\ NoRequest \notin Requests

Authors == Requests \cup {NoRequest}

VARIABLES
    settings, \* settings[a]: the row of account a that is not deleted
    open,     \* the accounts that are not deactivated
    job,      \* job[r]: what request r asks for
    pc,       \* pc[r]: the statement r sends next
    seen,     \* seen[r]: the settings r's client read
    reply     \* reply[r]: the class of the HTTP answer

vars == <<settings, open, job, pc, seen, reply>>

\* id is the request that made the row; values[f] the one that last wrote f.
Row == [live : BOOLEAN, id : Authors, values : [Fields -> Authors],
        version : Nat \ {0}]

\* An INSERT of a version of its own making.
RowOfUnversioned(author) ==
    [live |-> TRUE, id |-> author, values |-> [f \in Fields |-> author], version |-> 0]

\* The version is the column's default.
RowOf(author) ==
    [live |-> TRUE, id |-> author, values |-> [f \in Fields |-> author], version |-> 1]

NoRow == [RowOf(NoRequest) EXCEPT !.live = FALSE]

Steps == {"start", "write", "done"}

Replies == {"none", "ok", "invalid", "notFound", "conflict", "error"}

TypeOK ==
    /\ settings \in [Accounts -> Row]
    /\ open \subseteq Accounts
    /\ job \in [Requests -> Jobs]
    /\ pc \in [Requests -> Steps]
    /\ seen \in [Requests -> Row]
    /\ reply \in [Requests -> Replies]

Init ==
    /\ settings = [a \in Accounts |-> IF a \in WithSettings THEN RowOf(NoRequest) ELSE NoRow]
    /\ open = Accounts
    /\ job \in [Requests -> Jobs]
    /\ pc = [r \in Requests |-> "start"]
    /\ seen = [r \in Requests |-> NoRow]
    /\ reply = [r \in Requests |-> "none"]

-----------------------------------------------------------------------------
\* Common parts of the steps.

Goto(r, step) ==
    /\ pc' = [pc EXCEPT ![r] = step]
    /\ UNCHANGED reply

Answer(r, class) ==
    /\ pc' = [pc EXCEPT ![r] = "done"]
    /\ reply' = [reply EXCEPT ![r] = class]

\* A statement that has committed: its answer can still be lost on the way.
AnswerWritten(r) == \E class \in {"ok", "error"} : Answer(r, class)

-----------------------------------------------------------------------------
\* SettingsLogic.Create: a look at the account, then the INSERT.

IsCardUnchecked(a) == TRUE

IsCard(a) == a \in Cards

\* FindAccountType, then the check of the input.
CheckAccount(r) ==
    LET a == job[r].acct
    IN  /\ pc[r] = "start"
        /\ job[r].op = "create"
        /\ IF a \notin open THEN Answer(r, "notFound")
           ELSE IF ~IsCard(a) THEN Answer(r, "conflict")
           ELSE Goto(r, "write") \/ Answer(r, "invalid")
        /\ UNCHANGED <<settings, open, job, seen>>

\* The partial unique index refuses a second row that is not deleted.  The foreign
\* key is satisfied by an account deactivated since.
CreateSettings(r) ==
    LET a == job[r].acct
    IN  /\ pc[r] = "write"
        /\ job[r].op = "create"
        /\ IF settings[a].live
             THEN Answer(r, "conflict") /\ UNCHANGED settings
             ELSE /\ settings' = [settings EXCEPT ![a] = RowOf(r)]
                  /\ AnswerWritten(r)
        /\ UNCHANGED <<open, job, seen>>

-----------------------------------------------------------------------------
\* UpdateClosingDay, UpdateDueDay and UpdateLimit.

\* The client has read the settings, and sends back the version it saw.  The new
\* value may be out of its range.
ReadSettings(r) ==
    LET a == job[r].acct
    IN  /\ pc[r] = "start"
        /\ job[r].op = "update"
        /\ seen' = [seen EXCEPT ![r] = settings[a]]
        /\ IF settings[a].live
             THEN Goto(r, "write") \/ Answer(r, "invalid")
             ELSE Answer(r, "notFound")
        /\ UNCHANGED <<settings, open, job>>

UpdatedSameVersion(row, field, author) == [row EXCEPT !.values[field] = author]

Updated(row, field, author) ==
    [row EXCEPT !.values[field] = author, !.version = @ + 1]

\* WHERE account_id AND version = expected_version AND deleted_at IS NULL.
UpdateSettings(r) ==
    LET a == job[r].acct
    IN  /\ pc[r] = "write"
        /\ job[r].op = "update"
        /\ IF settings[a].live /\ settings[a].version = seen[r].version
             THEN /\ settings' = [settings EXCEPT ![a] = Updated(@, job[r].field, r)]
                  /\ AnswerWritten(r)
             ELSE Answer(r, "conflict") /\ UNCHANGED settings
        /\ UNCHANGED <<open, job, seen>>

-----------------------------------------------------------------------------
\* Settings that are not there count as deleted.
DeleteSettings(r) ==
    /\ pc[r] = "start"
    /\ job[r].op = "delete"
    /\ settings' = [settings EXCEPT ![job[r].acct].live = FALSE]
    /\ AnswerWritten(r)
    /\ UNCHANGED <<open, job, seen>>

\* Deactivating the account, of which Ledger has the detail, leaves the settings.
DeactivateAccount(r) ==
    /\ pc[r] = "start"
    /\ job[r].op = "deactivate"
    /\ open' = open \ {job[r].acct}
    /\ AnswerWritten(r)
    /\ UNCHANGED <<settings, job, seen>>

\* A statement fails, the connection breaks or the client goes away.
Fail(r) ==
    /\ pc[r] # "done"
    /\ Answer(r, "error")
    /\ UNCHANGED <<settings, open, job, seen>>

Handle(r) ==
    \/ CheckAccount(r)
    \/ CreateSettings(r)
    \/ ReadSettings(r)
    \/ UpdateSettings(r)
    \/ DeleteSettings(r)
    \/ DeactivateAccount(r)
    \/ Fail(r)

\* The end of a bounded run, so that only real deadlocks count as such.
Finished == (\A r \in Requests : pc[r] = "done") /\ UNCHANGED vars

Next == (\E r \in Requests : Handle(r)) \/ Finished

Spec == Init /\ [][Next]_vars

-----------------------------------------------------------------------------
\* Properties.

\* Request r's UPDATE takes effect.
Updates(r) == UpdateSettings(r) /\ settings' # settings

\* An update never replaces values its client has not seen, unless the settings it
\* saw were deleted and others created in their place: within one row, the version
\* refuses every stale update, whichever of the three columns it is about.
RecreationStep ==
    \A r \in Requests :
        Updates(r) => LET row == settings[job[r].acct]
                      IN  row.values = seen[r].values \/ row.id # seen[r].id

LostOnlyByRecreation == [][RecreationStep]_vars

\* Only accounts of type CREDIT_CARD have settings, whatever order requests come in.
SettingsOfCards == \A a \in Accounts : settings[a].live => a \in Cards
=============================================================================
