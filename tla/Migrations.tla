------------------------------ MODULE Migrations ------------------------------
(***************************************************************************)
(* The migration runner (backend/framework/migrations.go), its ledger      *)
(* (migration_store.go) and the transaction around each migration          *)
(* (database.go).  Callers of one process are serialised by operationMu;   *)
(* a process can crash at any point and be replaced by one that registers  *)
(* another set of migrations.  One process runs at a time: the runner has  *)
(* no lock across processes.  The schema is abstracted to how often each   *)
(* migration is in effect.                                                 *)
(***************************************************************************)
EXTENDS Integers, FiniteSets, FiniteSetsExt

CONSTANTS
  Versions,        \* of migrations: numbers, in their lexical order
  NoTransaction,   \* the versions with DisableTransaction
  NoDown,          \* the versions without a Down callback
  Operators,       \* callers of the runner in a process
  MaxBatch,        \* bound on the batch number
  MaxDrift         \* bound: how far from its row a migration outside a
                   \* transaction drifts when it fails and is run again

ASSUME MigrationAssumption ==
  /\ IsFiniteSet(Versions) /\ Versions \subseteq Nat /\ NoTransaction \cup NoDown \subseteq Versions
  /\ {MaxBatch, MaxDrift} \subseteq Nat

VARIABLES
  defined,   \* runner.migrations
  sealed,    \* runner.registrationClosed
  ledger,    \* each version's batch in the table, 0 if it has no row
  schema,    \* how often each migration is in effect
  task,      \* each caller: what it is doing
  applied,   \* history: the pairs of versions with a row, the first of which got it first
  wrongDown  \* history: a Down ran for a migration that was not the last one

migrationVars == <<defined, sealed, ledger, schema, task, applied, wrongDown>>

NoTask == [does |-> "nothing", todo |-> {}, batch |-> 0, mid |-> FALSE]
Rows == {v \in Versions : ledger[v] > 0}
LatestBatch == Max({ledger[v] : v \in Versions} \cup {0})

MigrationInit ==
  /\ defined = {} /\ sealed = FALSE
  /\ ledger = [v \in Versions |-> 0] /\ schema = [v \in Versions |-> 0]
  /\ task = [o \in Operators |-> NoTask]
  /\ applied = {} /\ wrongDown = FALSE

\* Register, before the first run.
RegisterMigration(v) ==
  /\ ~ sealed /\ v \notin defined
  /\ defined' = defined \cup {v}
  /\ UNCHANGED <<sealed, ledger, schema, task, applied, wrongDown>>

\* Mutant: callers do not exclude each other.
RunsAtOnce == TRUE

\* operationMu, taken for the whole of Migrate and Rollback.
Exclusive == \A o \in Operators : task[o] = NoTask

\* loadApplied: every row must have a definition.
HistoryKnown == Rows \subseteq defined

Begin(o, does, todo, batch) ==
  /\ task[o] = NoTask /\ Exclusive
  /\ sealed' = TRUE
  /\ task' = IF HistoryKnown /\ todo # {}
             THEN [task EXCEPT ![o] = [does |-> does, todo |-> todo, batch |-> batch, mid |-> FALSE]]
             ELSE task
  /\ UNCHANGED <<defined, ledger, schema, applied, wrongDown>>

Migrate(o) ==
  /\ LatestBatch < MaxBatch
  /\ Begin(o, "up", defined \ Rows, LatestBatch + 1)

\* Rollback: the whole latest batch must be revertible.
Rollback(o) ==
  LET batch == {v \in Rows : ledger[v] = LatestBatch}
  IN Begin(o, "down", IF batch \cap NoDown = {} THEN batch ELSE {}, LatestBatch)

-----------------------------------------------------------------------------
\* Migrate goes up through the versions, Rollback down.
Current(o) == IF task[o].does = "up" THEN Min(task[o].todo) ELSE Max(task[o].todo)

\* invokeMigration and the ledger's statement; outside a transaction they are
\* two steps, each of which can fail.
Invoke(o) ==
  /\ schema' = [schema EXCEPT ![Current(o)] = IF task[o].does = "up" THEN @ + 1 ELSE @ - 1]
  /\ wrongDown' = (wrongDown \/ (task[o].does = "down" /\ \E v \in Rows : <<Current(o), v>> \in applied))
\* Record fails on a row that is there already (PRIMARY KEY); Remove does not mind.
Recordable(o) == task[o].does = "up" => Current(o) \notin Rows
Record(o) ==
  /\ ledger' = [ledger EXCEPT ![Current(o)] = IF task[o].does = "up" THEN task[o].batch ELSE 0]
  /\ applied' = IF task[o].does = "up" THEN applied \cup (Rows \X {Current(o)})
                ELSE {p \in applied : Current(o) \notin {p[1], p[2]}}
Advance(o) ==
  task' = [task EXCEPT ![o] =
             IF @.todo = {Current(o)} THEN NoTask
             ELSE [does |-> @.does, todo |-> @.todo \ {Current(o)}, batch |-> @.batch, mid |-> FALSE]]
\* A failure ends the run: what was done before it stays.
Stops(o) == task' = [task EXCEPT ![o] = NoTask]

Transactional(o) == Current(o) \notin NoTransaction
\* WithinTransaction commits both statements; the answer to the commit may be lost.
Commits(o) ==
  /\ task[o] # NoTask /\ Transactional(o) /\ Recordable(o)
  /\ Invoke(o) /\ Record(o)
  /\ Advance(o) \/ Stops(o)
  /\ UNCHANGED <<defined, sealed>>

InvokesAlone(o) ==
  /\ task[o] # NoTask /\ ~ Transactional(o) /\ ~ task[o].mid
  /\ Invoke(o) /\ schema'[Current(o)] \in -MaxDrift .. MaxDrift
  /\ task' = [task EXCEPT ![o].mid = TRUE]
  /\ UNCHANGED <<defined, sealed, ledger, applied>>

RecordsAlone(o) ==
  /\ task[o].mid /\ Recordable(o)
  /\ Record(o) /\ Advance(o)
  /\ UNCHANGED <<defined, sealed, schema, wrongDown>>

\* The callback fails or panics, a statement fails, or the transaction is rolled back.
FailsMigration(o) ==
  /\ task[o] # NoTask /\ Stops(o)
  /\ UNCHANGED <<defined, sealed, ledger, schema, applied, wrongDown>>

\* The process ends, and another one registers its own migrations.
Restart ==
  /\ task' = [o \in Operators |-> NoTask]
  /\ defined' = {} /\ sealed' = FALSE
  /\ UNCHANGED <<ledger, schema, applied, wrongDown>>

MigrationNext ==
  \/ Restart
  \/ \E v \in Versions : RegisterMigration(v)
  \/ \E o \in Operators :
       Migrate(o) \/ Rollback(o) \/ Commits(o) \/ InvokesAlone(o) \/ RecordsAlone(o) \/ FailsMigration(o)

-----------------------------------------------------------------------------
\* Whatever failed, crashed or was retried, the ledger tells the truth about
\* every migration that runs in a transaction: it is in effect once if it has a
\* row, and not at all if it has none.
LedgerTruthful ==
  \A v \in Versions \ NoTransaction : schema[v] = IF ledger[v] > 0 THEN 1 ELSE 0

\* Rollback undoes in the reverse of the order in which migrations were applied,
\* over any sequence of partial runs, retries and releases that add versions in
\* between: no Down runs under a migration applied later.
RevertsNewestFirst == ~ wrongDown

\* What the ledger says can be relied on and undone: both of the above.
HistoryKept == LedgerTruthful /\ RevertsNewestFirst
=============================================================================
