---------------------------- MODULE MCJobStores ----------------------------
(***************************************************************************)
(* The three job stores against the one contract.  A behaviour is one of   *)
(* the file, the SQL or the Redis store; record is what the contract calls *)
(* the stored records, kept as that store represents them, so that the     *)
(* contract and its invariants are checked on the state of a real store.   *)
(* The variables of the two other stores rest at their initial values.     *)
(*                                                                         *)
(* Tokens and callers are interchangeable; jobs are not: their numbers     *)
(* break the ties of Reserve.                                              *)
(***************************************************************************)
EXTENDS JobStore, TLC

CONSTANTS
  Backends,                                              \* a subset of the three
  MaxJobs, MaxLog, MaxCrashes, WriteErrors, Garbled, Nothing,   \* FileJobStore
  Callers, NoJob,                                        \* SQLJobStore
  RecoveryBatch                                          \* RedisJobStore

VARIABLES
  backend, granted,
  status, jobs, log, partial, promised, inflight, crashes,
  row, call,
  records, payloads, ready, reserved, failed

file == <<status, jobs, log, partial, promised, inflight, crashes>>
sql == <<row, call>>
redis == <<records, payloads, ready, reserved, failed>>

File == INSTANCE FileJobStore
SQL == INSTANCE SQLJobStore
Redis == INSTANCE RedisJobStore

ASSUME BackendAssumptions ==
  /\ Backends \subseteq {"file", "sql", "redis"}
  /\ File!FileAssumption /\ SQL!SQLAssumption /\ Redis!RedisAssumption

Kept == CASE backend = "file"  -> File!durable
          [] backend = "sql"   -> row
          [] backend = "redis" -> Redis!stored

StoresInit ==
  /\ backend \in Backends
  /\ File!Init /\ SQL!Init /\ Redis!Init
  /\ record = Kept

StoresNext ==
  /\ UNCHANGED backend
  /\ \/ backend = "file" /\ File!Next /\ UNCHANGED <<sql, redis>>
     \/ backend = "sql" /\ SQL!Next /\ UNCHANGED <<file, redis>>
     \/ backend = "redis" /\ Redis!Next /\ UNCHANGED <<file, sql>>
  /\ record' = Kept'

StoresSpec ==
  StoresInit /\ [][StoresNext]_<<vars, backend, granted, file, sql, redis>>

Symmetry == Permutations(Tokens) \cup Permutations(Callers)

-----------------------------------------------------------------------------
\* Every store implements the contract (JobStore): across crashes and restarts
\* of the file store, although Enqueue and Reserve of the SQL store are several
\* statements, and whatever batch of expired jobs a Redis script takes back.
ImplementsJobStore == Spec

\* FileJobStore: a restart finds everything the callers were told, whatever a
\* crash did to the last line of the log; only the job of the interrupted
\* operation may differ.
RecoveryFaithful == File!RecoveryFaithful

\* FileJobStore: an acknowledged job, not yet completed or forgotten, is there
\* again after a restart.
AcknowledgedJobsSurvive == backend = "file" => File!AcknowledgedJobsSurvive

\* SQLJobStore: the update of Reserve takes the row that its select has found, until
\* another caller changes that row; only then does the loop go round again.
MissMeansChanged == SQL!MissMeansChanged

\* RedisJobStore: the five keys that describe a job agree whatever the order of
\* the scripts, and the answer "empty" means that no job is eligible, even when
\* more leases have expired than one recovery batch takes back.
KeysAgree == Redis!IndexesAgree /\ Redis!EmptyMeansNothingEligible
=============================================================================
