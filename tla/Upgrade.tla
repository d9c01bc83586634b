-------------------------------- MODULE Upgrade --------------------------------
(***************************************************************************)
(* `bridra upgrade` on a project (cmd/bridra/upgrade.go, upgrade_apply.go):*)
(* --apply rewrites the managed files one by one, has the dependencies     *)
(* resolved and the project verified, and restores its snapshot when       *)
(* anything fails.  A file's content is the framework version it names; a  *)
(* manifest asks for it with a caret, so the resolver may lock a later one.*)
(***************************************************************************)
EXTENDS UpgradeCatalog

CONSTANTS
  Catalogs,    \* the catalogs that are tried, by name; the installed one among them
  Created,     \* the versions at which projects are created or left by hand
  Targets,     \* --to
  Platforms,   \* the platform selections of projects
  Published,   \* the versions of the Flutter package that can be resolved
  MaxTurns,    \* bound: commands, and turns by hand
  MaxStrays    \* bound: processes that outlive their command

VARIABLES
  catalog,   \* the name of the catalog of the running command
  project,   \* .bridra/project.json, and whether it is of an older schema, of a
             \* Web UI, or disagrees with the RPC schema
  managed,   \* the managed files: the version each names, or Absent
  turns,
  phase,     \* of --apply: where it is, what is left to do, for which target
  saved,     \* its snapshots
  strays,    \* the targets of processes that outlived their command
  strayed,   \* history: one of them has written a lock file since the command began
  original,  \* history: the managed files when it began
  report     \* the last report, with the version and the template it was about

upgradeVars == <<catalog, project, managed, turns, phase, saved, strays, strayed, original, report>>

Absent == <<>>
Manifests == <<"project.json", "go.mod", "pubspec.yaml">>   \* in the order they are written
Managed == Range(Manifests) \cup {"go.sum", "pubspec.lock"}
Quiet == [at |-> "quiet", todo |-> <<>>, target |-> Absent]
NoSnapshot == [f \in Managed |-> Absent]
NoReport == [status |-> "none", plan |-> FALSE, steps |-> <<>>, apply |-> FALSE, wrote |-> FALSE,
             rolledBack |-> FALSE, from |-> Absent, template |-> 0, target |-> Absent]
Installed == Catalogs[catalog]
Released == {r.version : r \in Installed.releases}
ReleaseOf(v) == CHOOSE r \in Installed.releases : r.version = v
Metadata ==
  LET v == managed["project.json"]
  IN [project EXCEPT !.version = v, !.metadata = IF project.kind = "legacy" THEN 1 ELSE ReleaseOf(v).metadata]
Evaluate(v) == evaluateUpgrade(Installed, Metadata, ReleaseOf(v))
About(r, v, wrote, rolledBack) ==
  [r EXCEPT !.wrote = wrote, !.rolledBack = rolledBack, !.from = Metadata.version, !.template = project.template, !.target = v]
FullReport(r) == [NoReport EXCEPT !.status = r.status, !.plan = r.plan, !.steps = r.steps, !.apply = r.apply]

UpgradeInit ==
  /\ catalog \in DOMAIN Catalogs
  /\ \E v \in Created \cap Released, ps \in Platforms,
        kind \in {"flutter", "legacy", "web", "inconsistent"} :
       /\ project = [kind |-> kind, version |-> Absent, metadata |-> 0, platforms |-> ps, template |-> ReleaseOf(v).template]
       /\ managed \in {[f \in Managed |-> IF f \in Range(Manifests) THEN v ELSE lock] : lock \in {v, Absent}}
  /\ turns = 0 /\ phase = Quiet /\ saved = NoSnapshot /\ original = managed /\ report = NoReport
  /\ strays = {} /\ strayed = FALSE

\* The developer updates the dependencies by hand (or one of them), or records
\* the adoption of a template.
EditsByHand ==
  /\ phase = Quiet /\ turns < MaxTurns /\ turns' = turns + 1
  /\ \/ \E v \in Created \cap Released, files \in {Range(Manifests), {"go.mod"}} :
          managed' = [f \in Managed |-> IF f \in files THEN v ELSE managed[f]] /\ UNCHANGED project
     \/ \E r \in Installed.releases :
          project' = [project EXCEPT !.template = r.template] /\ UNCHANGED managed
  /\ report' = NoReport /\ original' = managed' /\ strayed' = FALSE
  /\ UNCHANGED <<catalog, phase, saved, strays>>

\* --plan, --check.
PlansUpgrade(v) ==
  /\ phase = Quiet /\ v \in Released
  /\ report' = About(FullReport(Evaluate(v)), v, FALSE, FALSE) /\ original' = managed
  /\ strayed' = FALSE
  /\ UNCHANGED <<catalog, project, managed, turns, phase, saved, strays>>

\* Mutant: the lock files are not in the snapshot.
snapshotManifests == [f \in Managed |-> IF f \in Range(Manifests) THEN managed[f] ELSE Absent]

\* --apply: a complete plan of automatic steps, of which snapshotUpgradeFiles and
\* prepareUpgradeFiles succeed: the manifests declare what the metadata records.
snapshotUpgradeFiles == managed
updateGoModRequirement == managed["go.mod"] = Metadata.version
updatePubspecDependency == managed["pubspec.yaml"] = Metadata.version
prepareUpgradeFiles == updateGoModRequirement /\ updatePubspecDependency
AppliesUpgrade(v) ==
  /\ phase = Quiet /\ v \in Released
  /\ turns < MaxTurns /\ turns' = turns + 1
  /\ original' = managed /\ strayed' = FALSE
  /\ LET r == Evaluate(v) IN
       IF r.apply /\ prepareUpgradeFiles
       THEN /\ phase' = [at |-> "writing", todo |-> Manifests, target |-> v]
            /\ saved' = snapshotUpgradeFiles
            /\ report' = NoReport
       ELSE /\ report' = About(FullReport([r EXCEPT !.status = IF r.apply THEN "apply_failed" ELSE @]), v, FALSE, FALSE)
            /\ UNCHANGED <<phase, saved>>
  /\ UNCHANGED <<catalog, project, managed, strays>>

\* atomicWriteUpgradeFile of each manifest; the first failure ends the command
\* at once if nothing was written yet, and with a rollback otherwise.
WritesManifest ==
  /\ phase.at = "writing" /\ phase.todo # <<>>
  /\ managed' = [managed EXCEPT ![Head(phase.todo)] = phase.target]
  /\ phase' = IF Len(phase.todo) > 1 THEN [phase EXCEPT !.todo = Tail(@)]
              ELSE [at |-> "running", todo |-> <<"tidy", "pub_get", "verify">>, target |-> phase.target]
  /\ UNCHANGED <<catalog, project, turns, saved, strays, strayed, original, report>>

RollsBack == phase' = [at |-> "restoring", todo |-> Managed, target |-> phase.target] /\ UNCHANGED <<saved, report>>
Ends == phase' = Quiet /\ saved' = NoSnapshot
FailsUnwritten ==
  /\ Ends
  /\ report' = [NoReport EXCEPT !.status = "apply_failed", !.target = phase.target]
rollbackUpgradeFailure == IF phase.todo = Manifests THEN FailsUnwritten ELSE RollsBack
FailsToWrite ==
  /\ phase.at = "writing"
  /\ rollbackUpgradeFailure
  /\ UNCHANGED <<catalog, project, managed, turns, strays, strayed, original>>

\* What ^v admits: the same major version, and below 1.0.0 the same minor one.
Compatible(v) ==
  {w \in Published : ~ Before(w, v) /\ w[1] = v[1] /\ (v[1] = 0 => w[2] = v[2])}
Locked(file, versions) == {[managed EXCEPT ![file] = v] : v \in versions}

\* go mod tidy, flutter pub get, make verify, each with a timeout.  The first
\* two write the lock files, also when they fail in the end: go.sum is for what
\* go.mod requires, pubspec.lock for a version that pubspec.yaml admits.
Resolved ==
  CASE Head(phase.todo) = "tidy" -> Locked("go.sum", {phase.target})
    [] Head(phase.todo) = "pub_get" -> Locked("pubspec.lock", Compatible(phase.target))
    [] OTHER -> {managed}
RunsProcess ==
  /\ phase.at = "running"
  /\ managed' \in Resolved
  /\ IF Len(phase.todo) > 1
     THEN phase' = [phase EXCEPT !.todo = Tail(@)] /\ UNCHANGED <<saved, report>>
     ELSE /\ Ends
          /\ report' = [NoReport EXCEPT !.status = "applied", !.wrote = TRUE, !.target = phase.target]
  /\ UNCHANGED <<catalog, project, turns, strays, strayed, original>>

\* The timeout kills fvm or make, and not what they have started: a resolution
\* can go on, and write pubspec.lock, whatever the command does meanwhile.
LeavesStrays ==
  \/ UNCHANGED strays
  \/ /\ phase.at = "running" /\ Head(phase.todo) # "tidy" /\ Cardinality(strays) < MaxStrays
     /\ strays' = strays \cup {phase.target}
FailsProcess ==
  /\ phase.at = "running"
  /\ managed' \in {managed} \cup Resolved
  /\ LeavesStrays
  /\ RollsBack
  /\ UNCHANGED <<catalog, project, turns, strayed, original>>
StrayWrites ==
  /\ \E t \in strays : managed' \in Locked("pubspec.lock", Compatible(t)) /\ strays' = strays \ {t}
  /\ strayed' = TRUE
  /\ UNCHANGED <<catalog, project, turns, phase, saved, original, report>>

\* restoreUpgradeFiles goes through the snapshots in any order (a Go map) and goes
\* on after a failure, which the report tells.
RestoreStep(f, at) ==
  IF phase.todo # {f} THEN phase' = [at |-> at, todo |-> phase.todo \ {f}, target |-> phase.target] /\ UNCHANGED <<saved, report>>
  ELSE /\ Ends
       /\ report' = [NoReport EXCEPT !.status = "apply_failed", !.wrote = TRUE, !.rolledBack = at = "restoring",
                                     !.target = phase.target]
RestoresFile ==
  /\ phase.at \in {"restoring", "partly_restored"}
  /\ \E f \in phase.todo : managed' = [managed EXCEPT ![f] = saved[f]] /\ RestoreStep(f, phase.at)
  /\ UNCHANGED <<catalog, project, turns, strays, strayed, original>>
FailsToRestore ==
  /\ phase.at \in {"restoring", "partly_restored"}
  /\ \E f \in phase.todo : RestoreStep(f, "partly_restored")
  /\ UNCHANGED <<catalog, project, managed, turns, strays, strayed, original>>

\* The command is killed: whatever is on disk stays.
UpgradeKilled ==
  /\ phase # Quiet /\ Ends /\ report' = NoReport /\ original' = managed /\ strayed' = FALSE
  /\ LeavesStrays
  /\ UNCHANGED <<catalog, project, managed, turns>>

UpgradeNext ==
  \/ EditsByHand \/ \E v \in Targets : PlansUpgrade(v) \/ AppliesUpgrade(v)
  \/ WritesManifest \/ FailsToWrite \/ RunsProcess \/ FailsProcess \/ StrayWrites
  \/ RestoresFile \/ FailsToRestore \/ UpgradeKilled

-----------------------------------------------------------------------------
\* A report of --apply is true of the disk: applied means that the manifests and
\* go.sum are at the target and pubspec.lock at a version that the target's caret
\* admits; a failure that wrote nothing, or that was rolled back, left every managed
\* file, lock files included, as the command found it.  All that can differ from the
\* report is a pubspec.lock that a process which outlived its command wrote later.
UpgradeReportsTruth ==
  /\ report.status = "applied" =>
       /\ \A f \in Managed \ {"pubspec.lock"} : managed[f] = report.target
       /\ managed["pubspec.lock"] \in Compatible(report.target) \/ strayed
  /\ report.status = "apply_failed" /\ (~ report.wrote \/ report.rolledBack) =>
       \A f \in Managed : managed[f] = original[f] \/ (f = "pubspec.lock" /\ strayed)

\* A plan is a chain of registered migrations from the project's version to the
\* target, each one forward, and no chain is shorter.
Chain(steps, from, to) ==
  /\ steps[1].from = from /\ steps[Len(steps)].to = to
  /\ \A i \in DOMAIN steps : Before(steps[i].from, steps[i].to)
  /\ \A i \in 1 .. Len(steps) - 1 : steps[i].to = steps[i + 1].from
Within(from, n) ==
  LET reached[k \in 0 .. n] ==
        IF k = 0 THEN {from}
        ELSE LET near == reached[k - 1]
             IN near \cup {m.to : m \in {m \in Installed.migrations : m.from \in near}}
  IN reached[n]
PlanIsShortestChain ==
  report.plan /\ report.steps # <<>> /\ project.kind # "legacy" /\ Before(report.from, report.target) =>
    LET framework == SelectSeq(report.steps, LAMBDA s : \E m \in s.of : ~ Before(m.from, report.from))
        path == [i \in DOMAIN framework |-> CHOOSE m \in framework[i].of : TRUE]
    IN /\ Chain(path, report.from, report.target)
       /\ report.target \notin Within(report.from, Len(path) - 1)

\* No work that a migration asks for by hand on the project's platforms is
\* passed over: while a release between the project's template and the target
\* asks for some, the project is neither called current nor upgraded.
WorkByHand(m) ==
  IF m.requirements = {} THEN ~ m.automatic
  ELSE \E r \in m.requirements : r = {} \/ r \cap project.platforms # {}
ManualAdoptionNeverSkipped ==
  report.status = "current" \/ report.apply =>
    \A m \in Installed.migrations :
      (TemplateOf(Installed, m.to) > report.template \/ ~ Before(m.from, report.from)) /\ ~ Before(report.target, m.to)
        => ~ WorkByHand(m)

\* The plan is the one to follow: a shortest chain, with nothing left out of it.
PlanIsSound == PlanIsShortestChain /\ ManualAdoptionNeverSkipped
=============================================================================
