------------------------------- MODULE Startup -------------------------------
(***************************************************************************)
(* The start of the API's replicas: src/api/main.go connects to PostgreSQL *)
(* and Redis and brings the schema up to date, db/migrate.go.  Replicas    *)
(* start together, die at any call, and are started again; whatever they   *)
(* leave behind, the next start continues from it.                         *)
(***************************************************************************)
EXTENDS ApiRequests

CONSTANTS
    Replicas,       \* processes of the API
    Last            \* how many migrations there are (5 in the code)

ASSUME StartupAssumption == Last \in Nat \ {0}

VARIABLES
    applied,    \* the migrations that were run
    recorded,   \* schema_migrations
    serving     \* the replicas that listen

startupVars == <<applied, recorded, serving>>

StartupInit ==
    /\ \E k \in 0 .. Last :
           /\ applied = 1 .. k
           /\ k > 0 => \E o \in workload : o.does = "startReplica"
    /\ recorded = applied
    /\ serving = {}

StartRequest(r) ==
    /\ \E o \in workload, a \in Replicas :
           /\ o.does = "startReplica"
           /\ \A s \in Others(r) : op[s].item # a
           /\ Begin(r, [o EXCEPT !.item = a], "postgres")
           /\ serving' = serving \ {a}
    /\ UNCHANGED <<applied, recorded, seen>>

\* InitPostgres, and the table of the versions if there is none.  Any error
\* in a start is fatal for the process.
InitPostgres(r) ==
    /\ at[r] \in {"postgres", "table"}
    /\ Remember(r, 1)
    /\ \/ Proceed(r, IF at[r] = "postgres" THEN "table" ELSE "check")
       \/ Fail(r, "refused")
    /\ UNCHANGED startupVars

AfterMigration(i) == IF i = Last THEN "redis" ELSE "check"

\* Is the version recorded?
CheckMigration(r) ==
    LET i == seen[r]
    IN  /\ at[r] = "check"
        /\ \/ i \in recorded /\ Remember(r, i + 1) /\ Proceed(r, AfterMigration(i))
           \/ i \notin recorded /\ UNCHANGED seen /\ Proceed(r, "run")
           \/ UNCHANGED seen /\ Fail(r, "refused")
        /\ UNCHANGED startupVars

Apply(i) == applied' = applied \cup {i}

\* Two sessions that create a table at once: "if not exists" does not keep
\* PostgreSQL from failing one of them.
Contended(r) == \E s \in Others(r) : at[s] = "run" /\ seen[s] = seen[r]

\* Mutant: an error, "already exists" say, is ignored.
RunMigration_Ignored(r) ==
    LET i == seen[r]
    IN  /\ at[r] = "run"
        /\ \/ 1 .. i - 1 \subseteq applied /\ Apply(i) /\ Proceed(r, "record")
           \/ (Contended(r) \/ ~(1 .. i - 1 \subseteq applied))
              /\ Proceed(r, "record") /\ UNCHANGED applied
           \/ (Apply(i) \/ UNCHANGED applied) /\ Fail(r, "record")
        /\ UNCHANGED <<recorded, serving, seen>>

\* The file is one transaction; it needs the tables of those before it, and
\* does nothing where it has been run.
RunMigration(r) ==
    LET i == seen[r]
        can == 1 .. i - 1 \subseteq applied
    IN  /\ at[r] = "run"
        /\ \/ can /\ Apply(i) /\ Proceed(r, "record")
           \/ (Contended(r) \/ ~can) /\ Proceed(r, "refused") /\ UNCHANGED applied
           \/ ((can /\ Apply(i)) \/ UNCHANGED applied) /\ Fail(r, "refused")
        /\ UNCHANGED <<recorded, serving, seen>>

\* The version is a primary key.
RecordMigration(r) ==
    LET i   == seen[r]
        put == recorded' = recorded \cup {i}
    IN  /\ at[r] = "record"
        /\ \/ i \notin recorded /\ put /\ Remember(r, i + 1) /\ Proceed(r, AfterMigration(i))
           \/ i \in recorded /\ UNCHANGED <<recorded, seen>> /\ Proceed(r, "refused")
           \/ (put \/ UNCHANGED recorded) /\ UNCHANGED seen /\ Fail(r, "refused")
        /\ UNCHANGED <<applied, serving>>

\* InitRedis; Kubernetes may be unreachable, and the API serves all the same.
Serve(r) ==
    /\ at[r] = "redis"
    /\ \/ serving' = serving \cup {op[r].item} /\ Proceed(r, "done")
       \/ UNCHANGED serving /\ Fail(r, "refused")
    /\ UNCHANGED <<applied, recorded, seen>>

StartupHandlers(r) ==
    \/ StartRequest(r) \/ InitPostgres(r) \/ CheckMigration(r)
    \/ RunMigration(r) \/ RecordMigration(r) \/ Serve(r)

-----------------------------------------------------------------------------

\* db/migrate.go:109 and :114: a migration and its record are two statements, and
\* nothing keeps two replicas apart.  Across crashes and races the record is
\* a prefix that is one migration behind the schema at most, the one the next
\* start runs again; and a replica serves a complete schema only.
SchemaInOrder ==
    \E k \in 0 .. Last :
        /\ recorded = 1 .. k
        /\ applied \in {1 .. k, 1 .. (k + 1)}
        /\ serving # {} => k = Last
=============================================================================
