------------------------------ MODULE Lifecycle -------------------------------
(***************************************************************************)
(* The life of the loony-s3-js process: bootstrap with the statements of   *)
(* its migrations, the connections of its clients, and the shutdown on     *)
(* SIGTERM or SIGINT, with the drain and the force-exit timer (server.ts,  *)
(* db/).  What the handlers behind the connections do is left to Server.   *)
(*                                                                         *)
(*   - A connection carries one request at a time and may be kept alive.   *)
(*     Node's server.close() closes the idle ones at once and calls back   *)
(*     when the last one has gone; it is modelled from how server.ts uses  *)
(*     it.                                                                 *)
(*   - Durations are left out: a timer that is armed may fire.             *)
(***************************************************************************)
EXTENDS Integers

CONSTANTS
    Clients,     \* clients, with one connection each
    Drivers,     \* the values of DB_BACKEND to consider
    Schemas,     \* the databases the first process may find
    MaxSignals   \* bound: SIGTERMs and SIGINTs

ASSUME LifecycleAssumption ==
    /\ Drivers \subseteq {"sqlite", "postgres"}
    /\ Schemas \subseteq {{}, {"objects", "uploads"}}
    /\ MaxSignals \in Nat

VARIABLES
    driver,      \* config.db.backend
    schema,      \* what the database has of SchemaParts
    phase,       \* how far the process has come
    conn,        \* the connection of each client
    drained,     \* the drain timer has fired
    signals,     \* signals received
    exitCode     \* of the last process, -1 before it ends

lifecycleVars == <<driver, schema, phase, conn, drained, signals, exitCode>>

(* The table of objects and that of uploads with their older indexes; the  *)
(* column that was added later, and the index on it, which only SQLite has.*)
SchemaParts == {"objects", "uploads", "expires_at", "idx_objects_expires"}

(* The statement that comes next; "listen": app.listen() does.             *)
SqliteSteps == {"createObjects", "createIndex", "createUploads", "addColumn"}
StartSteps == SqliteSteps \cup {"query", "listen"}

(* down: no process.  closing: the HTTP server is closed, pool.end() is    *)
(* awaited.                                                                *)
ServingPhases == {"running", "draining", "closing"}
Phases == {"down"} \cup StartSteps \cup ServingPhases

LifecycleTypeOK ==
    /\ driver \in Drivers
    /\ schema \subseteq SchemaParts
    /\ phase \in Phases
    /\ conn \in [Clients -> {"closed", "idle", "active"}]
    /\ drained \in BOOLEAN
    /\ signals \in 0..MaxSignals
    /\ exitCode \in {-1, 0, 1, 143}

LifecycleInit ==
    /\ driver \in Drivers
    /\ schema \in Schemas
    /\ phase = "down"
    /\ conn = [c \in Clients |-> "closed"]
    /\ drained = FALSE
    /\ signals = 0
    /\ exitCode = -1

-----------------------------------------------------------------------------
(* bootstrap *)

Serving == phase \in ServingPhases

(* The process ends; the next one starts with timers of its own. *)
Exit(code) ==
    /\ phase' = "down"
    /\ conn' = [c \in Clients |-> "closed"]
    /\ drained' = FALSE
    /\ exitCode' = code
    /\ UNCHANGED <<driver, schema>>

(* Bound: no process is started that could not be told to stop any more. *)
Start ==
    /\ phase = "down"
    /\ signals < MaxSignals
    /\ phase' = IF driver = "sqlite" THEN "createObjects" ELSE "query"
    /\ exitCode' = -1
    /\ UNCHANGED <<driver, schema, conn, drained, signals>>

(* A statement takes effect, and the next one is up. *)
Statement(at, parts, next) ==
    /\ phase = at
    /\ schema' = schema \cup parts
    /\ phase' = next
    /\ UNCHANGED <<driver, conn, drained, signals, exitCode>>

(* SQLite: every statement of db.exec() commits on its own.  A table that  *)
(* is there is left as it is, without the column if it is an older one.    *)
CreateObjects ==
    Statement("createObjects",
              IF "objects" \in schema THEN {} ELSE {"objects", "expires_at"},
              "createIndex")

(* Mutant: the error of the index is swallowed like that of the column. *)
CreateIndexSwallowed ==
    Statement("createIndex",
              IF "expires_at" \in schema THEN {"idx_objects_expires"} ELSE {},
              "createUploads")

CreateIndex ==
    /\ "expires_at" \in schema
    /\ Statement("createIndex", {"idx_objects_expires"}, "createUploads")

CreateUploads == Statement("createUploads", {"uploads"}, "addColumn")

(* ALTER TABLE, whose every error is swallowed, not only that of a column  *)
(* that is there already.                                                  *)
AddColumn ==
    \E added \in {{}, {"expires_at"}} : Statement("addColumn", added, "listen")

(* PostgreSQL: the script is one query, and thus one transaction. *)
RunQuery == Statement("query", {"objects", "expires_at", "uploads"}, "listen")

Listen == Statement("listen", {}, "running")

(* A statement fails, the index without its column for one, the database   *)
(* or the port is not to be had: bootstrap().catch() exits.                *)
StartFails ==
    /\ phase \in StartSteps \ {"addColumn"}
    /\ Exit(1)
    /\ UNCHANGED signals

(* The handlers of the signals are installed last: until then one kills    *)
(* the process between any two statements.                                 *)
StartKilled ==
    /\ phase \in StartSteps
    /\ signals < MaxSignals
    /\ signals' = signals + 1
    /\ Exit(143)

Bootstrap ==
    \/ Start \/ CreateObjects \/ CreateIndex \/ CreateUploads \/ AddColumn
    \/ RunQuery \/ Listen \/ StartFails \/ StartKilled

-----------------------------------------------------------------------------
(* Connections *)

Connect(c) ==
    /\ phase = "running"
    /\ conn[c] = "closed"
    /\ conn' = [conn EXCEPT ![c] = "idle"]
    /\ UNCHANGED <<driver, schema, phase, drained, signals, exitCode>>

(* A request on a connection that is open, also while the server drains.   *)
Request(c) ==
    /\ conn[c] = "idle"
    /\ conn' = [conn EXCEPT ![c] = "active"]
    /\ UNCHANGED <<driver, schema, phase, drained, signals, exitCode>>

Respond(c) ==
    /\ conn' = [conn EXCEPT ![c] = IF @ = "active" THEN "idle" ELSE @]
    /\ UNCHANGED <<driver, schema, phase, drained, signals, exitCode>>

(* The client hangs up, or keepAliveTimeout ends an idle connection.       *)
Disconnect(c) ==
    /\ conn[c] # "closed"
    /\ conn' = [conn EXCEPT ![c] = "closed"]
    /\ UNCHANGED <<driver, schema, phase, drained, signals, exitCode>>

-----------------------------------------------------------------------------
(* shutdown *)

(* server.close(): no new connections, the idle ones are closed, and both  *)
(* timers are armed.                                                       *)
Signal ==
    /\ phase = "running"
    /\ signals < MaxSignals
    /\ signals' = signals + 1
    /\ phase' = "draining"
    /\ conn' = [c \in Clients |-> IF conn[c] = "idle" THEN "closed" ELSE conn[c]]
    /\ UNCHANGED <<driver, schema, drained, exitCode>>

(* A second signal while the server drains: what idle connections there    *)
(* are are closed, and server.close() will call back once more.            *)
SignalAgain ==
    /\ phase = "draining"
    /\ signals < MaxSignals
    /\ signals' = signals + 1
    /\ conn' = [c \in Clients |-> IF conn[c] = "idle" THEN "closed" ELSE conn[c]]
    /\ UNCHANGED <<driver, schema, phase, drained, exitCode>>

(* While the pool is closing: server.close() calls back again, pool.end()  *)
(* refuses to be called twice, the error is logged and the process ends.   *)
SignalWhileClosing ==
    /\ phase = "closing"
    /\ signals < MaxSignals
    /\ signals' = signals + 1
    /\ Exit(0)

(* Mutant: connections that are still idle are destroyed. *)
DrainTimeoutIdle ==
    /\ phase = "draining"
    /\ ~drained
    /\ drained' = TRUE
    /\ conn' = [c \in Clients |-> IF conn[c] = "idle" THEN "closed" ELSE conn[c]]
    /\ UNCHANGED <<driver, schema, phase, signals, exitCode>>

(* closeAllConnections(), the active ones included. *)
DrainTimeout ==
    /\ phase = "draining"
    /\ ~drained
    /\ drained' = TRUE
    /\ conn' = [c \in Clients |-> "closed"]
    /\ UNCHANGED <<driver, schema, phase, signals, exitCode>>

(* Mutant: the callback does not wait for connections. *)
NoConnectionsAssumed == TRUE

NoConnections == \A c \in Clients : conn[c] = "closed"

(* The callback of server.close(): closeDb() and process.exit(0), ...      *)
ServerClosed ==
    /\ phase = "draining"
    /\ NoConnections
    /\ driver = "sqlite"
    /\ Exit(0)
    /\ UNCHANGED signals

(* ... or pool.end(), which is awaited. *)
ServerClosedPool ==
    /\ phase = "draining"
    /\ NoConnections
    /\ driver = "postgres"
    /\ phase' = "closing"
    /\ UNCHANGED <<driver, schema, conn, drained, signals, exitCode>>

PoolEnded ==
    /\ phase = "closing"
    /\ Exit(0)
    /\ UNCHANGED signals

ForceExit ==
    /\ phase \in {"draining", "closing"}
    /\ Exit(1)
    /\ UNCHANGED signals

(* An error nobody handles. *)
Die ==
    /\ Serving
    /\ Exit(1)
    /\ UNCHANGED signals
=============================================================================
