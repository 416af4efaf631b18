---------------------------- MODULE ServerProofs ----------------------------
(***************************************************************************)
(* Proofs about Server, for any number of servers, seeders, requests,      *)
(* retries and migrations.                                                 *)
(***************************************************************************)
EXTENDS Server, TLAPS

Open == {"seed", "serving"} \cup Stopping

\* Two processes are never in the same migration, and one that is in a migration is
\* the first to get there.
DDLInv ==
    \A p \in Processes : pc[p] = "ddl" =>
        \A v \in Versions : NextVersion(p, v) =>
            /\ v \notin tables
            /\ \A q \in Processes \ {p} : ~(pc[q] = "ddl" /\ NextVersion(q, v))

\* Whatever a process does not intend to apply is there.
PendingInv ==
    \A p \in Processes :
        /\ pc[p] \in {"migrate", "ddl", "pool"} \cup Open =>
             Versions \subseteq tables \cup pending[p]
        /\ pc[p] \in {"pool"} \cup Open => pending[p] = {}

TriesInv == \A p \in Processes : pc[p] = "ping" => tries[p] # Retries

ListenerInv ==
    \A p \in Processes :
        /\ listener[p] # "none" => pc[p] \in {"serving"} \cup Stopping
        /\ listener[p] = "open" => pc[p] \notin {"draining", "closed"}
        /\ p \notin Servers => listener[p] = "none"

\* A process with a running request serves, and has waited for it if it could.
RequestInv ==
    \A r \in Requests : request[r] = "running" =>
        /\ server[r] \in Processes
        /\ pc[server[r]] \in {"serving"} \cup Stopping
        /\ pc[server[r]] = "closed" => expired[server[r]]

ServerInv ==
    /\ ServerTypeOK /\ SchemaWhole
    /\ TriesInv /\ DDLInv /\ PendingInv /\ ListenerInv /\ RequestInv

-----------------------------------------------------------------------------
LEMMA ServerInitInv == ServerInit => ServerInv
<1> SUFFICES ASSUME ServerInit PROVE ServerInv
  OBVIOUS
<1> USE ServerAssumption DEF ServerInit
<1>1. SchemaWhole
  BY DEF SchemaWhole
<1>2. ServerTypeOK
  <2>1. recorded \in [Versions -> Nat] /\ tables \subseteq Versions
    BY SMT DEF Versions
  <2>2. tries \in [Processes -> 0 .. Retries]
    <3>1. 0 \in 0 .. Retries
      BY SMT
    <3> QED
      BY <3>1
  <2>3. pc \in [Processes -> Starting \cup Stopping
                              \cup {"off", "failed", "seed", "serving"}]
    BY DEF Starting, Stopping
  <2>4. pending \in [Processes -> SUBSET Versions]
    OBVIOUS
  <2> QED
    BY <2>1, <2>2, <2>3, <2>4 DEF ServerTypeOK
<1>3. TriesInv /\ DDLInv /\ PendingInv /\ ListenerInv /\ RequestInv
  BY DEF TriesInv, DDLInv, PendingInv, ListenerInv, RequestInv, Open, Stopping
<1> QED
  BY <1>1, <1>2, <1>3 DEF ServerInv

-----------------------------------------------------------------------------
\* The end of a process, whatever ends it.
LEMMA EndKeepsInv ==
    ASSUME ServerInv, NEW p \in Processes, NEW what \in {"off", "failed"}, End(p, what)
    PROVE  ServerInv'
<1> USE ServerAssumption DEF ServerInv, End, GoTo
<1>1. ServerTypeOK'
  <2>1. tries' \in [Processes -> 0 .. Retries]
    <3>1. 0 \in 0 .. Retries
      BY SMT
    <3> QED
      BY <3>1 DEF ServerTypeOK
  <2>2. request' \in [Requests -> {"none", "running", "answered", "cut"}]
    BY DEF ServerTypeOK
  <2> QED
    BY <2>1, <2>2 DEF ServerTypeOK, schema
<1>2. SchemaWhole'
  BY DEF SchemaWhole, schema, Versions
<1>3. \A q \in Processes : pc'[q] = IF q = p THEN what ELSE pc[q]
  BY DEF ServerTypeOK
<1>4. \A q \in Processes \ {p} : pending'[q] = pending[q] /\ listener'[q] = listener[q]
                                  /\ expired'[q] = expired[q]
  BY DEF ServerTypeOK
<1>5. tables' = tables
  BY DEF schema
<1>6. DDLInv' /\ TriesInv'
  BY <1>3, <1>4, <1>5 DEF DDLInv, NextVersion, TriesInv, ServerTypeOK
<1>7. PendingInv'
  BY <1>3, <1>4, <1>5 DEF PendingInv, Open, Stopping
<1>8. ListenerInv'
  BY <1>3, <1>4 DEF ListenerInv, Stopping, ServerTypeOK
<1>9. RequestInv'
  <2> SUFFICES ASSUME NEW r \in Requests, request'[r] = "running"
               PROVE  /\ server'[r] \in Processes
                      /\ pc'[server'[r]] \in {"serving"} \cup Stopping
                      /\ pc'[server'[r]] = "closed" => expired'[server'[r]]
    BY DEF RequestInv
  <2>1. request[r] = "running" /\ server[r] # p
    BY DEF ActiveAt, ServerTypeOK
  <2>2. server' = server
    OBVIOUS
  <2> QED
    BY <1>3, <1>4, <2>1, <2>2 DEF RequestInv
<1> QED
  BY <1>1, <1>2, <1>6, <1>7, <1>8, <1>9

\* A step of one process that neither touches the schema nor what it intends to do
\* with it, and leaves it where it is in the matter of migrations.
LEMMA MigrateKeepsInv ==
    ASSUME ServerInv, NEW p \in Processes, Apply(p)
    PROVE  ServerInv'
<1> USE ServerAssumption DEF ServerInv, Apply, GoTo, requests, flags, schema
<1>1. PICK v \in Versions : NextVersion(p, v) /\ Free(p, v) /\ v \notin tables
  OBVIOUS
<1>2. ServerTypeOK' /\ SchemaWhole'
  BY DEF ServerTypeOK, SchemaWhole, Starting, Stopping, Versions
<1>3. \A q \in Processes : pc'[q] = IF q = p THEN "ddl" ELSE pc[q]
  BY DEF ServerTypeOK
<1>4. \A w \in Versions : NextVersion(p, w) => w = v
  BY <1>1, SMT DEF NextVersion, Versions
<1>5. \A q \in Processes, w \in Versions : NextVersion(q, w)' <=> NextVersion(q, w)
  BY DEF NextVersion
<1>6. DDLInv'
  <2> SUFFICES ASSUME NEW q \in Processes, pc'[q] = "ddl",
                      NEW w \in Versions, NextVersion(q, w)'
               PROVE  /\ w \notin tables'
                      /\ \A o \in Processes \ {q} : ~(pc'[o] = "ddl" /\ NextVersion(o, w)')
    BY DEF DDLInv
  <2>1. CASE q = p
    <3>1. w = v
      BY <1>4, <1>5, <2>1
    <3> QED
      BY <1>1, <1>3, <1>5, <2>1, <3>1 DEF Free
  <2>2. CASE q # p
    <3>1. pc[q] = "ddl" /\ NextVersion(q, w)
      BY <1>3, <1>5, <2>2
    <3>2. ~NextVersion(p, w)
      BY <1>1, <1>4, <2>2, <3>1 DEF Free
    <3> QED
      BY <1>3, <1>5, <2>2, <3>1, <3>2 DEF DDLInv
  <2> QED
    BY <2>1, <2>2
<1>7. TriesInv' /\ PendingInv' /\ ListenerInv' /\ RequestInv'
  BY <1>3 DEF TriesInv, PendingInv, ListenerInv, RequestInv, Open, Stopping
<1> QED
  BY <1>2, <1>6, <1>7

\* The migration that commits is the one after those that are there.
LEMMA CommitKeepsInv ==
    ASSUME ServerInv, NEW p \in Processes, CommitMigration(p)
    PROVE  ServerInv'
<1> USE ServerAssumption DEF ServerInv, CommitMigration, GoTo, requests, flags
<1>1. PICK v \in Versions :
        /\ NextVersion(p, v)
        /\ recorded' = [recorded EXCEPT ![v] = @ + 1]
        /\ tables' = tables \cup {v}
        /\ pending' = [pending EXCEPT ![p] = @ \ {v}]
  OBVIOUS
<1>2. PICK last \in 0 .. LastVersion :
        /\ tables = 1 .. last
        /\ recorded = [w \in Versions |-> IF w <= last THEN 1 ELSE 0]
  BY DEF SchemaWhole
<1>3. v \notin tables
  BY <1>1 DEF DDLInv
<1>4. \A w \in Versions : w < v => w \in tables
  <2> SUFFICES ASSUME NEW w \in Versions, w < v PROVE w \in tables
    OBVIOUS
  <2>1. w \notin pending[p]
    BY <1>1, SMT DEF NextVersion, Versions
  <2> QED
    BY <2>1 DEF PendingInv
<1>5. v = last + 1
  <2>1. v \in Nat /\ last \in Nat /\ 1 <= v /\ v <= LastVersion
    BY SMT DEF Versions
  <2>2. last < v
    BY <1>2, <1>3, <2>1, SMT
  <2>3. ~(last + 1 < v)
    <3> SUFFICES ASSUME last + 1 < v PROVE FALSE
      OBVIOUS
    <3>1. last + 1 \in Versions
      BY <2>1, SMT DEF Versions
    <3>2. last + 1 \in 1 .. last
      BY <1>2, <1>4, <3>1
    <3> QED
      BY <2>1, <3>2, SMT
  <2> QED
    BY <2>1, <2>2, <2>3, SMT
<1>6. SchemaWhole'
  <2>1. last + 1 \in 0 .. LastVersion
    BY <1>5, SMT DEF Versions
  <2>2. tables' = 1 .. (last + 1)
    BY <1>1, <1>2, <1>5, SMT
  <2>3. recorded' = [w \in Versions |-> IF w <= last + 1 THEN 1 ELSE 0]
    <3>1. \A w \in Versions :
            recorded'[w] = IF w = v THEN recorded[v] + 1 ELSE recorded[w]
      BY <1>1 DEF ServerTypeOK
    <3>2. \A w \in Versions : w \in Nat /\ (w <= last + 1 <=> w <= last \/ w = v)
      BY <1>5, SMT DEF Versions
    <3>3. recorded[v] = 0
      BY <1>2, <1>5, SMT DEF Versions
    <3>4. \A w \in Versions : recorded'[w] = IF w <= last + 1 THEN 1 ELSE 0
      BY <1>2, <3>1, <3>2, <3>3, SMT
    <3>5. recorded' = [w \in Versions |-> recorded'[w]]
      BY <1>1 DEF ServerTypeOK
    <3> QED
      BY <3>4, <3>5
  <2> QED
    BY <2>1, <2>2, <2>3 DEF SchemaWhole, Versions
<1>7. ServerTypeOK'
  <2>1. recorded' \in [Versions -> Nat]
    BY <1>1 DEF ServerTypeOK
  <2> QED
    BY <1>1, <2>1 DEF ServerTypeOK, Starting, Stopping
<1>8. \A q \in Processes : pc'[q] = IF q = p THEN "migrate" ELSE pc[q]
  BY DEF ServerTypeOK
<1>9. \A q \in Processes : pending'[q] = IF q = p THEN pending[q] \ {v} ELSE pending[q]
  BY <1>1 DEF ServerTypeOK
<1>10. DDLInv'
  <2> SUFFICES ASSUME NEW q \in Processes, pc'[q] = "ddl",
                      NEW w \in Versions, NextVersion(q, w)'
               PROVE  /\ w \notin tables'
                      /\ \A o \in Processes \ {q} : ~(pc'[o] = "ddl" /\ NextVersion(o, w)')
    BY DEF DDLInv
  <2>1. q # p /\ pc[q] = "ddl"
    BY <1>8
  <2>2. NextVersion(q, w)
    BY <1>9, <2>1 DEF NextVersion
  <2>3. w # v
    BY <1>1, <2>1, <2>2 DEF DDLInv
  <2>4. \A o \in Processes \ {q} : pc'[o] = "ddl" =>
          pc[o] = "ddl" /\ (NextVersion(o, w)' <=> NextVersion(o, w))
    BY <1>8, <1>9 DEF NextVersion
  <2> QED
    BY <1>1, <2>1, <2>2, <2>3, <2>4 DEF DDLInv
<1>11. PendingInv'
  BY <1>1, <1>8, <1>9 DEF PendingInv, Open, Stopping
<1>12. TriesInv' /\ ListenerInv' /\ RequestInv'
  BY <1>8 DEF TriesInv, ListenerInv, RequestInv, Stopping
<1> QED
  BY <1>6, <1>7, <1>10, <1>11, <1>12

\* What is missing is what goose intends to apply.
LEMMA ListKeepsInv ==
    ASSUME ServerInv, NEW p \in Processes, ListMissing(p)
    PROVE  ServerInv'
<1> USE ServerAssumption DEF ServerInv, ListMissing, GoTo, requests, flags, schema
<1>1. ServerTypeOK' /\ SchemaWhole'
  BY DEF ServerTypeOK, SchemaWhole, Starting, Stopping, Versions
<1>2. \A q \in Processes : pc'[q] = IF q = p THEN "migrate" ELSE pc[q]
  BY DEF ServerTypeOK
<1>3. \A q \in Processes \ {p} : pending'[q] = pending[q]
  BY DEF ServerTypeOK
<1>4. Versions \subseteq tables \cup pending'[p]
  <2>1. PICK last \in 0 .. LastVersion :
          /\ tables = 1 .. last
          /\ recorded = [w \in Versions |-> IF w <= last THEN 1 ELSE 0]
    BY DEF SchemaWhole
  <2>2. pending'[p] = {v \in Versions : recorded[v] = 0}
    BY DEF ServerTypeOK
  <2> SUFFICES ASSUME NEW v \in Versions, v \notin tables PROVE v \in pending'[p]
    BY DEF schema
  <2>3. ~(v <= last)
    BY <2>1, SMT DEF Versions
  <2> QED
    BY <2>1, <2>2, <2>3
<1>5. DDLInv'
  BY <1>2, <1>3 DEF DDLInv, NextVersion
<1>6. PendingInv'
  BY <1>2, <1>3, <1>4 DEF PendingInv, Open, Stopping
<1>7. TriesInv' /\ ListenerInv' /\ RequestInv'
  BY <1>2 DEF TriesInv, ListenerInv, RequestInv, Stopping
<1> QED
  BY <1>1, <1>5, <1>6, <1>7

-----------------------------------------------------------------------------
\* The steps before the migrations, and the first of a process.
LEMMA PingKeepsInv ==
    ASSUME ServerInv, NEW p \in Processes,
           Start(p) \/ Restart(p) \/ TryAgain(p) \/ Ping(p) \/ PingFails(p) \/ Sleep(p)
    PROVE  ServerInv'
<1> USE ServerAssumption DEF ServerInv, GoTo, requests, flags, schema
<1> USE DEF Start, Restart, TryAgain, Ping, PingFails, Sleep
<1>1. /\ pc'[p] \in {"check", "ping", "list", "sleep"}
      /\ pc' = [pc EXCEPT ![p] = pc'[p]]
      /\ pc[p] \notin {"serving"} \cup Stopping
  BY DEF ServerTypeOK, Stopping
<1>2. UNCHANGED <<recorded, tables, pending, signalled, listener, shuttingDown,
                  expired, calm, server, request>>
  OBVIOUS
<1>3. tries' \in [Processes -> 0 .. Retries] /\ TriesInv'
  <2>1. CASE PingFails(p)
    <3>1. tries[p] \in 0 .. Retries /\ tries[p] # Retries
      BY <2>1 DEF TriesInv, ServerTypeOK
    <3>2. tries[p] + 1 \in 0 .. Retries
      BY <3>1, SMT
    <3> QED
      BY <2>1, <3>2 DEF TriesInv, ServerTypeOK
  <2>2. CASE ~PingFails(p)
    <3>1. UNCHANGED tries
      BY <2>2
    <3>2. pc'[p] = "ping" => tries[p] # Retries
      BY <2>2 DEF ServerTypeOK
    <3> QED
      BY <1>1, <3>1, <3>2 DEF TriesInv, ServerTypeOK
  <2> QED
    BY <2>1, <2>2
<1>4. ServerTypeOK'
  BY <1>1, <1>2, <1>3 DEF ServerTypeOK, Starting
<1>5. SchemaWhole'
  BY <1>2 DEF SchemaWhole, Versions
<1>6. \A q \in Processes : pc'[q] = IF q = p THEN pc'[p] ELSE pc[q]
  BY <1>1 DEF ServerTypeOK
<1>7. DDLInv' /\ PendingInv'
  BY <1>1, <1>2, <1>6 DEF DDLInv, PendingInv, NextVersion, Open, Stopping
<1>8. ListenerInv' /\ RequestInv'
  BY <1>1, <1>2, <1>6 DEF ListenerInv, RequestInv, Stopping
<1> QED
  BY <1>3, <1>4, <1>5, <1>7, <1>8

\* From the migrations to the pool, and from there to serving.
LEMMA PoolKeepsInv ==
    ASSUME ServerInv, NEW p \in Processes, Migrated(p) \/ OpenPool(p)
    PROVE  ServerInv'
<1> USE ServerAssumption DEF ServerInv, GoTo, requests, flags, schema, Migrated, OpenPool
<1>1. /\ pc[p] \in {"migrate", "pool"}
      /\ pc'[p] \in {"pool", "serving", "seed"}
      /\ pc' = [pc EXCEPT ![p] = pc'[p]]
      /\ pending[p] = {}
  BY DEF ServerTypeOK, PendingInv
<1>2. UNCHANGED <<recorded, tables, tries, pending, signalled, shuttingDown,
                  expired, calm, server, request>>
  OBVIOUS
<1>3. /\ listener' = [listener EXCEPT ![p] = listener'[p]]
      /\ (p \in Servers /\ listener'[p] = "starting" /\ pc'[p] = "serving") \/ listener'[p] = listener[p]
  BY DEF ServerTypeOK
<1>4. ServerTypeOK'
  BY <1>1, <1>2, <1>3 DEF ServerTypeOK, Starting
<1>5. SchemaWhole' /\ TriesInv'
  BY <1>1, <1>2 DEF SchemaWhole, TriesInv, Versions, ServerTypeOK
<1>6. \A q \in Processes : pc'[q] = IF q = p THEN pc'[p] ELSE pc[q]
  BY <1>1 DEF ServerTypeOK
<1>7. DDLInv' /\ PendingInv'
  BY <1>1, <1>2, <1>6 DEF DDLInv, PendingInv, NextVersion, Open, Stopping
<1>8. ListenerInv' /\ RequestInv'
  BY <1>1, <1>2, <1>3, <1>6 DEF ListenerInv, RequestInv, Stopping, ServerTypeOK
<1> QED
  BY <1>4, <1>5, <1>7, <1>8

\* The steps from the signal to the exit.
LEMMA ShutdownKeepsInv ==
    ASSUME ServerInv, NEW p \in Processes,
           NotReady(p) \/ StopListening(p) \/ Drained(p) \/ TimeOut(p)
    PROVE  ServerInv'
<1> USE ServerAssumption DEF ServerInv, GoTo, requests, flags, schema
<1> USE DEF NotReady, StopListening, Drained, TimeOut
<1>1. /\ pc[p] \in {"serving", "shutdown", "draining"}
      /\ pc'[p] \in Stopping
      /\ pc' = [pc EXCEPT ![p] = pc'[p]]
  BY DEF ServerTypeOK, Stopping
<1>2. UNCHANGED <<recorded, tables, tries, pending, signalled, calm, server, request>>
  OBVIOUS
<1>3. /\ listener' \in [Processes -> {"none", "starting", "open", "failed", "closed"}]
      /\ \A q \in Processes \ {p} : listener'[q] = listener[q]
      /\ listener'[p] = listener[p] \/ (listener[p] = "open" /\ listener'[p] = "closed")
  BY DEF ServerTypeOK
<1>10. pc'[p] \in {"draining", "closed"} => listener'[p] # "open"
  <2>1. CASE StopListening(p)
    BY <2>1 DEF ServerTypeOK
  <2>2. CASE NotReady(p)
    <3>1. pc'[p] = "shutdown"
      BY <2>2 DEF ServerTypeOK
    <3> QED
      BY <3>1
  <2>3. CASE Drained(p) \/ TimeOut(p)
    <3>1. pc[p] = "draining" /\ listener' = listener
      BY <2>3
    <3> QED
      BY <3>1 DEF ListenerInv
  <2> QED
    BY <2>1, <2>2, <2>3
<1>4. ServerTypeOK'
  <2>1. expired' \in [Processes -> BOOLEAN] /\ shuttingDown' \in [Processes -> BOOLEAN]
    BY DEF ServerTypeOK
  <2> QED
    BY <1>1, <1>2, <1>3, <2>1 DEF ServerTypeOK
<1>5. SchemaWhole' /\ TriesInv'
  BY <1>1, <1>2 DEF SchemaWhole, TriesInv, Versions, ServerTypeOK, Stopping
<1>6. \A q \in Processes : pc'[q] = IF q = p THEN pc'[p] ELSE pc[q]
  BY <1>1 DEF ServerTypeOK
<1>7. DDLInv' /\ PendingInv'
  BY <1>1, <1>2, <1>6 DEF DDLInv, PendingInv, NextVersion, Open, Stopping
<1>8. ListenerInv'
  BY <1>1, <1>3, <1>6, <1>10 DEF ListenerInv
<1>9. RequestInv'
  <2> SUFFICES ASSUME NEW r \in Requests, request[r] = "running"
               PROVE  /\ server[r] \in Processes
                      /\ pc'[server[r]] \in {"serving"} \cup Stopping
                      /\ pc'[server[r]] = "closed" => expired'[server[r]]
    BY <1>2 DEF RequestInv
  <2>1. CASE server[r] = p
    <3>1. pc'[p] = "closed" => expired'[p]
      BY <2>1 DEF ActiveAt, ServerTypeOK
    <3> QED
      BY <1>1, <2>1, <3>1
  <2>2. CASE server[r] # p
    <3>1. \A q \in Processes \ {p} : expired'[q] = expired[q]
      BY DEF ServerTypeOK
    <3> QED
      BY <1>6, <2>2, <3>1 DEF RequestInv
  <2> QED
    BY <2>1, <2>2
<1> QED
  BY <1>4, <1>5, <1>7, <1>8, <1>9

\* The goroutine that listens, the handlers, a signal, and the calm: the main
\* goroutines stay where they are.
LEMMA BesideKeepsInv ==
    ASSUME ServerInv,
           \/ \E p \in Processes : Listen(p) \/ ListenFails(p) \/ Signal(p)
           \/ \E p \in Processes, r \in Requests : Accept(p, r)
           \/ \E r \in Requests : Reply(r)
           \/ Settle
           \/ UNCHANGED vars
    PROVE  ServerInv'
<1> USE ServerAssumption DEF ServerInv, requests, flags, schema, vars
<1>1. /\ UNCHANGED <<recorded, tables, pc, tries, pending, expired>>
  BY DEF Listen, ListenFails, Signal, Accept, Reply, Settle
<1>2. SchemaWhole' /\ TriesInv' /\ DDLInv' /\ PendingInv'
  BY <1>1 DEF SchemaWhole, TriesInv, DDLInv, PendingInv, NextVersion, Versions
<1>3. CASE \E p \in Processes : Listen(p) \/ ListenFails(p)
  <2>1. PICK p \in Processes : Listen(p) \/ ListenFails(p)
    BY <1>3
  <2>2. /\ listener' = [listener EXCEPT ![p] = listener'[p]]
        /\ listener'[p] \in {"open", "closed", "failed"}
        /\ listener[p] = "starting"
        /\ pc[p] \in {"draining", "closed"} => listener'[p] # "open"
    BY <2>1 DEF Listen, ListenFails, ServerTypeOK
  <2>3. UNCHANGED <<signalled, shuttingDown, calm, server, request>>
    BY <2>1 DEF Listen, ListenFails
  <2>4. ServerTypeOK' /\ RequestInv'
    BY <1>1, <2>2, <2>3 DEF ServerTypeOK, RequestInv
  <2>5. ListenerInv'
    BY <1>1, <2>2 DEF ListenerInv, ServerTypeOK
  <2> QED
    BY <1>2, <2>4, <2>5
<1>4. CASE \E p \in Processes : Signal(p)
  BY <1>1, <1>2, <1>4 DEF Signal, ServerTypeOK, ListenerInv, RequestInv
<1>5. CASE \E p \in Processes, r \in Requests : Accept(p, r)
  <2>1. PICK p \in Processes, r \in Requests : Accept(p, r)
    BY <1>5
  <2>2. UNCHANGED <<signalled, listener, shuttingDown, calm>>
    BY <2>1 DEF Accept
  <2>3. p \in Servers /\ pc[p] \in {"serving", "shutdown"}
    BY <2>1 DEF Accept, ListenerInv, Stopping
  <2>4. ServerTypeOK'
    BY <1>1, <2>1, <2>2, <2>3 DEF Accept, ServerTypeOK
  <2>5. RequestInv'
    BY <1>1, <2>1, <2>3 DEF Accept, ServerTypeOK, RequestInv, Stopping
  <2>6. ListenerInv'
    BY <1>1, <2>2 DEF ListenerInv
  <2> QED
    BY <1>2, <2>4, <2>5, <2>6
<1>6. CASE \E r \in Requests : Reply(r)
  BY <1>1, <1>2, <1>6 DEF Reply, ServerTypeOK, ListenerInv, RequestInv
<1>7. CASE Settle \/ UNCHANGED vars
  BY <1>1, <1>2, <1>7 DEF Settle, ServerTypeOK, ListenerInv, RequestInv
<1> QED
  BY <1>3, <1>4, <1>5, <1>6, <1>7

LEMMA ServerStepKeepsInv == ServerInv /\ [ServerNext]_vars => ServerInv'
<1> SUFFICES ASSUME ServerInv, [ServerNext]_vars PROVE ServerInv'
  OBVIOUS
<1>1. CASE \E p \in Processes :
             \/ GiveUp(p) \/ StatementFails(p) \/ Seed(p) \/ Exit(p)
             \/ Collide(p) \/ Kill(p)
  <2>1. PICK p \in Processes, what \in {"off", "failed"} : End(p, what)
    BY <1>1 DEF GiveUp, StatementFails, Seed, Exit, Collide, Kill
  <2> QED
    BY <2>1, EndKeepsInv
<1>2. CASE \E p \in Processes : Start(p) \/ Restart(p) \/ TryAgain(p) \/ Ping(p)
                               \/ PingFails(p) \/ Sleep(p)
  BY <1>2, PingKeepsInv
<1>3. CASE \E p \in Processes : ListMissing(p)
  BY <1>3, ListKeepsInv
<1>4. CASE \E p \in Processes : Apply(p)
  BY <1>4, MigrateKeepsInv
<1>5. CASE \E p \in Processes : CommitMigration(p)
  BY <1>5, CommitKeepsInv
<1>6. CASE \E p \in Processes : Migrated(p) \/ OpenPool(p)
  BY <1>6, PoolKeepsInv
<1>7. CASE \E p \in Processes : NotReady(p) \/ StopListening(p) \/ Drained(p) \/ TimeOut(p)
  BY <1>7, ShutdownKeepsInv
<1>8. CASE \/ \E p \in Processes : Listen(p) \/ ListenFails(p) \/ Signal(p)
           \/ \E p \in Processes, r \in Requests : Accept(p, r)
           \/ \E r \in Requests : Reply(r)
           \/ Settle
           \/ UNCHANGED vars
  BY <1>8, BesideKeepsInv
<1> QED
  BY <1>1, <1>2, <1>3, <1>4, <1>5, <1>6, <1>7, <1>8
     DEF ServerNext, Advance, Migrate, Environment

LEMMA AlwaysServerInv == ServerSpec => []ServerInv
<1> QED
  BY ServerInitInv, ServerStepKeepsInv, PTL DEF ServerSpec

-----------------------------------------------------------------------------
\* Type correctness of the processes and of what they share.
THEOREM ServerTypeCorrect == ServerSpec => []ServerTypeOK
<1>1. ServerInv => ServerTypeOK
  BY DEF ServerInv
<1> QED
  BY <1>1, AlwaysServerInv, PTL

\* Any number of processes that migrate the same database at the same time, however
\* they fail, leave it in a version, with each migration recorded once.
THEOREM MigrationsWhole == ServerSpec => []SchemaWhole
<1>1. ServerInv => SchemaWhole
  BY DEF ServerInv
<1> QED
  BY <1>1, AlwaysServerInv, PTL

\* Nothing serves, seeds or says that it is ready before all migrations are applied.
THEOREM MigratedBeforeServing == ServerSpec => []ServesMigrated
<1>1. ServerInv => ServesMigrated
  <2> SUFFICES ASSUME ServerInv, NEW p \in Processes,
                      pc[p] \in {"seed", "serving"} \/ Ready(p) \/ ActiveAt(p) # {}
               PROVE  tables = Versions
    BY DEF ServesMigrated
  <2>1. pc[p] \in Open
    BY DEF ServerInv, ListenerInv, RequestInv, Ready, ActiveAt, Open, Stopping
  <2>2. Versions \subseteq tables
    BY <2>1 DEF ServerInv, PendingInv
  <2> QED
    BY <2>2 DEF ServerInv, ServerTypeOK
<1> QED
  BY <1>1, AlwaysServerInv, PTL

\* Only the timeout of the shutdown cuts requests off, and none slips in behind it.
THEOREM DrainedBeforeExit == ServerSpec => []CutOnlyLate
<1>1. ServerInv => CutOnlyLate
  <2> SUFFICES ASSUME ServerInv, NEW p \in Servers, pc[p] = "closed"
               PROVE  listener[p] # "open" /\ (~expired[p] => ActiveAt(p) = {})
    BY DEF CutOnlyLate
  <2> QED
    BY DEF ServerInv, ListenerInv, RequestInv, ActiveAt, Processes
<1> QED
  BY <1>1, AlwaysServerInv, PTL
=============================================================================
