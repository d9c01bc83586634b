------------------------- MODULE MCSchedulerStores -------------------------
(***************************************************************************)
(* The three scheduler stores against the one contract, as in MCJobStores: *)
(* a behaviour is one of the file, the SQL or the Redis store, record is   *)
(* what that store keeps, and the two others rest.                         *)
(***************************************************************************)
EXTENDS SchedulerStore, TLC

CONSTANTS
  Backends,                                  \* a subset of the three
  MaxTasks, MaxLog, MaxCrashes, Nothing,     \* FileSchedulerStore
  Callers, NoTask,                           \* SQLSchedulerStore
  Resolution                                 \* RedisSchedulerStore

VARIABLES
  backend, granted,
  status, tasks, log, partial, promised, inflight, crashes,
  row, call,
  hash, lost

file == <<status, tasks, log, partial, promised, inflight, crashes>>
sql == <<row, call>>
redis == <<hash, lost>>

File == INSTANCE FileSchedulerStore
SQL == INSTANCE SQLSchedulerStore
Redis == INSTANCE RedisSchedulerStore

ASSUME BackendAssumptions ==
  /\ Backends \subseteq {"file", "sql", "redis"}
  /\ File!FileSchedulerAssumption
  /\ SQL!SQLSchedulerAssumption
  /\ Redis!RedisSchedulerAssumption

Kept == CASE backend = "file"  -> File!durable
          [] backend = "sql"   -> row
          [] backend = "redis" -> hash

StoresInit ==
  /\ backend \in Backends
  /\ File!Init /\ SQL!Init /\ Redis!Init
  /\ record = Kept

StoresNext ==
  /\ UNCHANGED backend
  /\ \/ backend = "file" /\ File!Next /\ UNCHANGED <<sql, redis>>
     \/ backend = "sql" /\ SQL!Next /\ UNCHANGED <<file, redis>>
     \/ backend = "redis" /\ Redis!Next /\ UNCHANGED <<file, sql>>
  /\ record' = Kept'

StoresSpec ==
  StoresInit /\ [][StoresNext]_<<vars, backend, granted, file, sql, redis>>

Symmetry == Permutations(Tokens) \cup Permutations(Callers) \cup Permutations(Tasks)

-----------------------------------------------------------------------------
\* RedisSchedulerStore: an occurrence that the script has assigned reaches its
\* caller, unless the connection loses the answer.
AssignedReachesCaller == Redis!AssignedReachesCaller

\* Every store implements the contract (SchedulerStore): across crashes and
\* restarts of the file store, although Initialize and Reserve of the SQL store
\* are several statements, and although the Redis store cuts the callers' times
\* down to microseconds.  A restart of the file store finds everything the
\* callers were told; only the task of the interrupted operation may differ.
ImplementsSchedulerStore == Spec /\ File!RecoveryFaithful
=============================================================================
