----------------------------- MODULE Lifecycle -----------------------------
(***************************************************************************)
(* The life of one server process: main (src/cmd/server/main.go) and       *)
(* App.Run (src/internal/app/app.go), over the configuration it reads      *)
(* (src/internal/config/config.go).                                        *)
(*                                                                         *)
(* Each client that main opens is closed by a deferred call, so the stack  *)
(* of deferred calls is also the set of clients open.  logger.Fatal exits  *)
(* without them, which the operating system makes up for; a process that   *)
(* is over is started again in the same environment.                       *)
(***************************************************************************)
EXTENDS Sequences, SequencesExt

VARIABLES
    env,     \* what the environment variables say
    phase,   \* where main is
    open,    \* the clients open, in the order of their deferred Close
    store    \* where the Service keeps refresh sessions

vars == <<env, phase, open, store>>

\* valid: every variable parses and is within its bounds; host: the host, the
\* name and the user of the database are given; the rest are the switches.
Environments == [valid: BOOLEAN, host: BOOLEAN, dbEnabled: BOOLEAN,
                 redis: BOOLEAN, refresh: BOOLEAN]

\* The pool of PostgreSQL, and two clients of the same Redis.
Clients == {"db", "cache", "sessions"}

\* Off, four steps of starting, and App.Run; then the deferred calls.
Phases == {"off", "db", "cache", "store", "setup", "serving", "draining", "closing"}

\* The map in the process, or the client of the Redis store.
Stores == {"none", "memory", "cache", "sessions"}

TypeOK ==
    /\ env \in Environments
    /\ phase \in Phases
    /\ open \in Seq(Clients)
    /\ store \in Stores

\* Mutant: the host, the name and the user of an enabled database are not required.
Loads_Unchecked == env.valid

\* A database that is enabled must be given.
Loads == env.valid /\ (env.dbEnabled => env.host)

\* DSN() is empty unless its parts are given; whether the database is enabled
\* does not matter to it, nor to main.
HasDSN == env.host

Init ==
    /\ env \in Environments
    /\ phase = "off"
    /\ open = <<>>
    /\ store = "none"

-----------------------------------------------------------------------------

\* os.Exit, a crash, or the end of main: nothing of the process is left.
Over ==
    /\ phase' = "off"
    /\ open' = <<>>
    /\ store' = "none"
    /\ UNCHANGED env

\* Any failure to start is logger.Fatal, so no deferred call runs; a signal
\* kills the process before App.Run catches it and after it returned.  While
\* it serves, ListenAndServe may fail.
Die == phase # "off" /\ Over

Boot ==
    /\ phase = "off"
    /\ Loads
    /\ phase' = "db"
    /\ UNCHANGED <<env, open, store>>

\* main prints the error and exits.
LoadFails == phase = "off" /\ ~Loads /\ UNCHANGED <<env, phase, open, store>>

OpenIf(wanted, client) ==
    open' = IF wanted THEN Append(open, client) ELSE open

\* OpenPostgres, and the choice of the users repository.
OpenDB ==
    /\ phase = "db"
    /\ OpenIf(HasDSN, "db")
    /\ phase' = "cache"
    /\ UNCHANGED <<env, store>>

OpenCache ==
    /\ phase = "cache"
    /\ OpenIf(env.redis, "cache")
    /\ phase' = "store"
    /\ UNCHANGED <<env, store>>

\* A Redis store over the first client, which is nil without Redis: the
\* constructor's comparison with nil does not see a nil pointer in an interface.
FirstStore ==
    /\ phase = "store"
    /\ store' = IF env.refresh THEN "cache" ELSE "none"
    /\ phase' = "setup"
    /\ UNCHANGED <<env, open>>

\* setupRefreshSessionStore replaces it, and App.Run begins to serve.
SetupStore ==
    /\ phase = "setup"
    /\ store' = IF ~env.refresh THEN store
                ELSE IF env.redis THEN "sessions" ELSE "memory"
    /\ OpenIf(env.refresh /\ env.redis, "sessions")
    /\ phase' = "serving"
    /\ UNCHANGED env

Signal ==
    /\ phase = "serving"
    /\ phase' = "draining"
    /\ UNCHANGED <<env, open, store>>

\* Shutdown has returned nil, App.Run too, and main's deferred calls begin.
Drained ==
    /\ phase = "draining"
    /\ phase' = "closing"
    /\ UNCHANGED <<env, open, store>>

\* Shutdown has returned the error of its context: logger.Fatal.
TimesOut == phase = "draining" /\ Over

Close ==
    /\ phase = "closing"
    /\ open # <<>>
    /\ open' = Front(open)
    /\ UNCHANGED <<env, phase, store>>

\* The last deferred calls, FlushSentry and Shutdown of the telemetry, have
\* timeouts of their own.
Exit == phase = "closing" /\ open = <<>> /\ Over

Start == Boot \/ LoadFails \/ OpenDB \/ OpenCache \/ FirstStore \/ SetupStore

-----------------------------------------------------------------------------

\* The servers behind the clients.
ServerOf(c) == IF c = "db" THEN "postgres" ELSE "redis"

\* readyFn, when these servers answer its pings.
Ready(up) ==
    /\ "db" \in Range(open) => "postgres" \in up
    /\ "cache" \in Range(open) => "redis" \in up

=============================================================================
