------------------------------- MODULE Server -------------------------------
(***************************************************************************)
(* The life of the processes: cmd/pfm, of which several may run, and       *)
(* cmd/pfm-seed, against one database.                                     *)
(*                                                                         *)
(* Each opens the database, applies the migrations that are missing and    *)
(* opens a pool.  A server then serves until SIGTERM or SIGINT, says that  *)
(* it is not ready, stops listening, waits for the requests it runs, but   *)
(* not longer than its timeout, and ends.                                  *)
(*                                                                         *)
(* Nothing keeps two processes from migrating at the same time: goose is   *)
(* used without a session lock.  It looks once for what is missing, and    *)
(* applies each migration in a transaction of its own.                     *)
(***************************************************************************)
EXTENDS Naturals

CONSTANTS
    Servers,       \* processes of cmd/pfm
    Seeders,       \* processes of cmd/pfm-seed
    Requests,      \* the HTTP requests
    Retries,       \* DBStartupRetries
    LastVersion,   \* the migrations are 1 .. LastVersion
    NoProcess

Processes == Servers \cup Seeders
Versions == 1 .. LastVersion

ASSUME ServerAssumption ==
    /\ Retries \in Nat
    /\ LastVersion \in Nat
    /\ NoProcess \notin Processes
    /\ Servers \cap Seeders = {}

VARIABLES
    recorded,   \* recorded[v]: rows of goose_db_version for migration v
    tables,     \* the migrations whose statements are in effect
    pc,         \* pc[p]: what the main goroutine of p does
    tries,      \* tries[p]: the pings it has made
    pending,    \* pending[p]: the migrations that goose has still to apply
    signalled,  \* signalled[p]: the context of run() is done
    listener,   \* listener[p]: what the goroutine of ListenAndServe has
    shuttingDown,  \* shuttingDown[p]: the flag that /health/ready looks at
    expired,    \* expired[p]: the shutdown timeout is over
    calm,       \* nothing fails by itself any more, and nobody signals or kills
    server,     \* server[r]: the process that accepted request r
    request     \* request[r]: how far it is

vars == <<recorded, tables, pc, tries, pending, signalled, listener, shuttingDown,
          expired, calm, server, request>>

Starting == {"check", "ping", "sleep", "list", "migrate", "ddl", "pool"}
Stopping == {"shutdown", "draining", "closed"}

ServerTypeOK ==
    /\ recorded \in [Versions -> Nat]
    /\ tables \subseteq Versions
    /\ pc \in [Processes -> Starting \cup Stopping
                              \cup {"off", "failed", "seed", "serving"}]
    /\ tries \in [Processes -> 0 .. Retries]
    /\ pending \in [Processes -> SUBSET Versions]
    /\ signalled \in [Processes -> BOOLEAN]
    /\ listener \in [Processes -> {"none", "starting", "open", "failed", "closed"}]
    /\ shuttingDown \in [Processes -> BOOLEAN]
    /\ expired \in [Processes -> BOOLEAN]
    /\ calm \in BOOLEAN
    /\ server \in [Requests -> Servers \cup {NoProcess}]
    /\ request \in [Requests -> {"none", "running", "answered", "cut"}]

\* The database is empty or was left by an earlier release.
ServerInit ==
    /\ \E last \in 0 .. LastVersion :
         /\ recorded = [v \in Versions |-> IF v <= last THEN 1 ELSE 0]
         /\ tables = 1 .. last
    /\ pc = [p \in Processes |-> "off"]
    /\ tries = [p \in Processes |-> 0]
    /\ pending = [p \in Processes |-> {}]
    /\ signalled = [p \in Processes |-> FALSE]
    /\ listener = [p \in Processes |-> "none"]
    /\ shuttingDown = [p \in Processes |-> FALSE]
    /\ expired = [p \in Processes |-> FALSE]
    /\ calm = FALSE
    /\ server = [r \in Requests |-> NoProcess]
    /\ request = [r \in Requests |-> "none"]

-----------------------------------------------------------------------------
schema == <<recorded, tables>>
requests == <<server, request>>
flags == <<signalled, listener, shuttingDown, expired>>

GoTo(p, what) == pc' = [pc EXCEPT ![p] = what]

Running(p) == pc[p] \notin {"off", "failed"}

\* A statement fails by itself, or because the context it was given is done.
MayFail(p) == ~calm \/ signalled[p]

ActiveAt(p) == {r \in Requests : server[r] = p /\ request[r] = "running"}

\* The end of a process: its connections break, so that the server rolls back what
\* it had open, and the requests it was running get no answer.
End(p, what) ==
    /\ GoTo(p, what)
    /\ tries' = [tries EXCEPT ![p] = 0]
    /\ pending' = [pending EXCEPT ![p] = {}]
    /\ signalled' = [signalled EXCEPT ![p] = FALSE]
    /\ listener' = [listener EXCEPT ![p] = "none"]
    /\ shuttingDown' = [shuttingDown EXCEPT ![p] = FALSE]
    /\ expired' = [expired EXCEPT ![p] = FALSE]
    /\ request' = [r \in Requests |-> IF r \in ActiveAt(p) THEN "cut" ELSE request[r]]
    /\ UNCHANGED <<calm, schema, server>>

Start(p) ==
    /\ pc[p] = "off"
    /\ GoTo(p, "check")
    /\ UNCHANGED <<calm, schema, tries, pending, flags, requests>>

\* After exit 1, or a kill, the platform starts the process again.
Restart(p) ==
    /\ pc[p] = "failed"
    /\ GoTo(p, "check")
    /\ UNCHANGED <<calm, schema, tries, pending, flags, requests>>

-----------------------------------------------------------------------------
\* database.Open: pingWithRetry.

GiveUp(p) ==
    /\ pc[p] = "check"
    /\ tries[p] = Retries \/ signalled[p]
    /\ End(p, "failed")

\* A loop whose bound is not looked at.
TryForEver(p) ==
    /\ pc[p] = "check"
    /\ ~signalled[p]
    /\ GoTo(p, "ping")
    /\ UNCHANGED <<calm, schema, tries, pending, flags, requests>>

TryAgain(p) ==
    /\ pc[p] = "check"
    /\ tries[p] # Retries
    /\ ~signalled[p]
    /\ GoTo(p, "ping")
    /\ UNCHANGED <<calm, schema, tries, pending, flags, requests>>

Ping(p) ==
    /\ pc[p] = "ping"
    /\ ~signalled[p]
    /\ GoTo(p, "list")
    /\ UNCHANGED <<calm, schema, tries, pending, flags, requests>>

\* A retry that is not counted.
PingFailsUncounted(p) ==
    /\ pc[p] = "ping"
    /\ MayFail(p)
    /\ GoTo(p, "sleep")
    /\ UNCHANGED <<calm, schema, tries, pending, flags, requests>>

\* The database does not answer, or the context was done after the check.
PingFails(p) ==
    /\ pc[p] = "ping"
    /\ MayFail(p)
    /\ tries' = [tries EXCEPT ![p] = @ + 1]
    /\ GoTo(p, "sleep")
    /\ UNCHANGED <<calm, schema, pending, flags, requests>>

\* time.Sleep does not look at the context.
Sleep(p) ==
    /\ pc[p] = "sleep"
    /\ GoTo(p, "check")
    /\ UNCHANGED <<calm, schema, tries, pending, flags, requests>>

-----------------------------------------------------------------------------
\* database.Migrate: goose's Provider.Up.

ListMissing(p) ==
    /\ pc[p] = "list"
    /\ ~signalled[p]
    /\ pending' = [pending EXCEPT ![p] = {v \in Versions : recorded[v] = 0}]
    /\ GoTo(p, "migrate")
    /\ UNCHANGED <<calm, schema, tries, flags, requests>>

\* Migrations are applied in the order of their versions.
NextVersion(p, v) == v \in pending[p] /\ \A w \in pending[p] : v <= w

\* The statements of a migration wait for the transaction that runs the same ones.
Free(p, v) == \A q \in Processes \ {p} : ~(pc[q] = "ddl" /\ NextVersion(q, v))

\* A migration without its transaction: what it has done stays when it fails.
ApplyAtOnce(p) ==
    /\ pc[p] = "migrate"
    /\ ~signalled[p]
    /\ \E v \in Versions :
         /\ NextVersion(p, v) /\ Free(p, v) /\ v \notin tables
         /\ tables' = tables \cup {v}
    /\ GoTo(p, "ddl")
    /\ UNCHANGED <<calm, recorded, tries, pending, flags, requests>>

\* Statements that do not mind what is there already: CREATE TABLE IF NOT EXISTS.
ApplyAgain(p) ==
    /\ pc[p] = "migrate"
    /\ ~signalled[p]
    /\ \E v \in Versions : NextVersion(p, v) /\ Free(p, v)
    /\ GoTo(p, "ddl")
    /\ UNCHANGED <<calm, schema, tries, pending, flags, requests>>

Apply(p) ==
    /\ pc[p] = "migrate"
    /\ ~signalled[p]
    /\ \E v \in Versions : NextVersion(p, v) /\ Free(p, v) /\ v \notin tables
    /\ GoTo(p, "ddl")
    /\ UNCHANGED <<calm, schema, tries, pending, flags, requests>>

\* Another process has applied it since this one looked: there is a table already,
\* or a constraint to drop is gone.
Collide(p) ==
    /\ pc[p] = "migrate"
    /\ \E v \in Versions : NextVersion(p, v) /\ Free(p, v) /\ v \in tables
    /\ End(p, "failed")

\* The row of the version table commits with the statements.
CommitMigration(p) ==
    /\ pc[p] = "ddl"
    /\ \E v \in Versions :
         /\ NextVersion(p, v)
         /\ recorded' = [recorded EXCEPT ![v] = @ + 1]
         /\ tables' = tables \cup {v}
         /\ pending' = [pending EXCEPT ![p] = @ \ {v}]
    /\ GoTo(p, "migrate")
    /\ UNCHANGED <<calm, tries, flags, requests>>

Migrated(p) ==
    /\ pc[p] = "migrate"
    /\ pending[p] = {}
    /\ GoTo(p, "pool")
    /\ UNCHANGED <<calm, schema, tries, pending, flags, requests>>

-----------------------------------------------------------------------------
\* A startup whose errors are logged and not returned.
StatementFailsIgnored(p) ==
    /\ pc[p] \in {"list", "migrate", "ddl", "pool"}
    /\ MayFail(p)
    /\ pc[p] = "migrate" => pending[p] # {}
    /\ GoTo(p, "pool")
    /\ UNCHANGED <<calm, schema, tries, pending, flags, requests>>

\* A statement of the migrations fails, or the ping of the pool, or their context
\* is done: exit 1.
StatementFails(p) ==
    /\ pc[p] \in {"list", "migrate", "ddl", "pool"}
    /\ MayFail(p)
    /\ pc[p] = "migrate" => pending[p] # {}
    /\ End(p, "failed")

\* database.NewPool, and the start of the goroutine that serves.
OpenPool(p) ==
    /\ pc[p] = "pool"
    /\ ~signalled[p]
    /\ GoTo(p, IF p \in Servers THEN "serving" ELSE "seed")
    /\ listener' = [listener EXCEPT ![p] = IF p \in Servers THEN "starting" ELSE @]
    /\ UNCHANGED <<calm, schema, tries, pending, signalled, shuttingDown, expired, requests>>

\* What Users says of a seeder, with or without an error.
Seed(p) ==
    /\ pc[p] = "seed"
    /\ \E what \in {"off", "failed"} : End(p, what)

-----------------------------------------------------------------------------
\* ListenAndServe, and the requests it accepts.

\* Shutdown may have come first.
Listen(p) ==
    /\ listener[p] = "starting"
    /\ listener' = [listener EXCEPT ![p] =
                       IF pc[p] \in {"draining", "closed"} THEN "closed" ELSE "open"]
    /\ UNCHANGED <<calm, schema, pc, tries, pending, signalled, shuttingDown, expired, requests>>

\* The port is taken.  The error is logged, and the main goroutine does not know.
ListenFails(p) ==
    /\ listener[p] = "starting"
    /\ listener' = [listener EXCEPT ![p] = "failed"]
    /\ UNCHANGED <<calm, schema, pc, tries, pending, signalled, shuttingDown, expired, requests>>

Accept(p, r) ==
    /\ listener[p] = "open"
    /\ request[r] = "none"
    /\ server' = [server EXCEPT ![r] = p]
    /\ request' = [request EXCEPT ![r] = "running"]
    /\ UNCHANGED <<calm, schema, pc, tries, pending, flags>>

Reply(r) ==
    /\ request[r] = "running"
    /\ request' = [request EXCEPT ![r] = "answered"]
    /\ UNCHANGED <<calm, schema, pc, tries, pending, flags, server>>

-----------------------------------------------------------------------------
\* The end of run().

\* SIGTERM or SIGINT, at any time.  A second one changes nothing.
Signal(p) ==
    /\ ~calm
    /\ p \in Servers
    /\ Running(p)
    /\ ~signalled[p]
    /\ signalled' = [signalled EXCEPT ![p] = TRUE]
    /\ UNCHANGED <<calm, schema, pc, tries, pending, listener, shuttingDown, expired, requests>>

\* /health/ready answers 503 from here on.
NotReady(p) ==
    /\ pc[p] = "serving"
    /\ signalled[p]
    /\ shuttingDown' = [shuttingDown EXCEPT ![p] = TRUE]
    /\ GoTo(p, "shutdown")
    /\ UNCHANGED <<calm, schema, tries, pending, signalled, listener, expired, requests>>

\* What /health/ready tells those who can ask.
Ready(p) == listener[p] = "open" /\ ~shuttingDown[p]

\* srv.Shutdown closes the listeners first.
StopListening(p) ==
    /\ pc[p] = "shutdown"
    /\ listener' = [listener EXCEPT ![p] = IF @ = "open" THEN "closed" ELSE @]
    /\ GoTo(p, "draining")
    /\ UNCHANGED <<calm, schema, tries, pending, signalled, shuttingDown, expired, requests>>

\* srv.Close, which waits for nobody.
Undrained(p) ==
    /\ pc[p] = "draining"
    /\ GoTo(p, "closed")
    /\ UNCHANGED <<calm, schema, tries, pending, flags, requests>>

\* It returns when it finds no request running.
Drained(p) ==
    /\ pc[p] = "draining"
    /\ ActiveAt(p) = {}
    /\ GoTo(p, "closed")
    /\ UNCHANGED <<calm, schema, tries, pending, flags, requests>>

\* A shutdown whose context has no timeout.
NoTimeOut(p) == FALSE /\ UNCHANGED vars

\* It gives up.  The handlers go on.
TimeOut(p) ==
    /\ pc[p] = "draining"
    /\ expired' = [expired EXCEPT ![p] = TRUE]
    /\ GoTo(p, "closed")
    /\ UNCHANGED <<calm, schema, tries, pending, signalled, listener, shuttingDown, requests>>

\* db.Close, tracerShutdown, exit 0.  The pool is not closed.
Exit(p) ==
    /\ pc[p] = "closed"
    /\ End(p, "off")

\* SIGKILL, a panic outside a handler, a machine that is lost; for a seeder SIGTERM.
Kill(p) ==
    /\ ~calm
    /\ Running(p)
    /\ End(p, "failed")

-----------------------------------------------------------------------------
\* The steps of the main goroutine, except those that wait for another process.
Advance(p) ==
    \/ GiveUp(p) \/ TryAgain(p) \/ Ping(p) \/ PingFails(p) \/ Sleep(p)
    \/ ListMissing(p) \/ CommitMigration(p) \/ Migrated(p) \/ StatementFails(p)
    \/ OpenPool(p) \/ Seed(p)
    \/ NotReady(p) \/ StopListening(p) \/ Drained(p) \/ TimeOut(p) \/ Exit(p)

Migrate(p) == Apply(p) \/ Collide(p)

Settle ==
    /\ ~calm
    /\ calm' = TRUE
    /\ UNCHANGED <<schema, pc, tries, pending, flags, requests>>

Environment(p) == Start(p) \/ Restart(p) \/ Signal(p) \/ Kill(p)

ServerNext ==
    \/ \E p \in Processes : Advance(p) \/ Migrate(p) \/ Environment(p)
    \/ \E p \in Processes : Listen(p) \/ ListenFails(p)
    \/ \E p \in Processes, r \in Requests : Accept(p, r)
    \/ \E r \in Requests : Reply(r)
    \/ Settle

ServerSpec == ServerInit /\ [][ServerNext]_vars

\* The main goroutine runs, sleeps end, timers fire, and locks are granted in the
\* order in which they were asked for.  Nothing is assumed of the handlers, nor of
\* those who start, signal and kill.
FairServerSpec ==
    /\ ServerSpec
    /\ \A p \in Processes : WF_vars(Advance(p)) /\ SF_vars(Migrate(p))

-----------------------------------------------------------------------------
\* Properties.

\* However many processes migrate at once, are signalled or killed, or fail between
\* two statements: the schema is that of a version, and goose's table says of which.
\* No migration is recorded twice, none without its tables, none before the others.
SchemaWhole ==
    \E last \in 0 .. LastVersion :
        /\ tables = 1 .. last
        /\ recorded = [v \in Versions |-> IF v <= last THEN 1 ELSE 0]

\* "It must be called after Open and before the application begins serving
\* requests" (migrate.go): a process that seeds or serves, says that it is ready or
\* still runs a request has every migration under it, its own or another process's.
ServesMigrated ==
    \A p \in Processes :
        pc[p] \in {"seed", "serving"} \/ Ready(p) \/ ActiveAt(p) # {}
            => tables = Versions

\* A graceful end cuts off only requests that did not end within the timeout, and
\* accepts none that it would not wait for.
CutOnlyLate ==
    \A p \in Servers :
        pc[p] = "closed" =>
            /\ listener[p] # "open"
            /\ ~expired[p] => ActiveAt(p) = {}

\* A startup comes to an end, whatever fails and however many migrate at the same
\* time: no ping is repeated for ever, no migration waits for ever for another one.
StartupEnds == \A p \in Processes : pc[p] \in Starting ~> pc[p] \notin Starting

\* A process that is told to stop does, wherever the signal finds it: between two
\* pings, in a migration, without a listener, or with a request that never ends.
SignalEnds == \A p \in Servers : signalled[p] ~> ~Running(p)

\* Migrating at the same time stops nobody for good.  Once nothing fails any more by
\* itself, and if processes that ended with an error are started again, each gets
\* through: one that lost a race, or died within a migration, leaves nothing that
\* the next attempt would stumble over.
RestartsSuffice ==
    (\A p \in Processes : WF_vars(Restart(p))) =>
        \A p \in Processes :
            calm /\ pc[p] \in Starting \cup {"failed"} ~> pc[p] \in {"seed", "serving"}
=============================================================================
