----------------------------- MODULE MCServices -----------------------------
(***************************************************************************)
(* TLC instances of services that keep files, leases, budgets and ledgers  *)
(* for their callers, and of the upgrade that rewrites a project.  A       *)
(* behaviour is of one of them; the others rest.                           *)
(*   transfers   two transfers by two threads                              *)
(*   broker      three threads and a limit of two leases                   *)
(*   limiter     two keys and two handlers, with room for one bucket       *)
(*   migrations  four versions, one outside a transaction, one without Down*)
(*   upgrade     the installed catalog, and one with several paths and     *)
(*               numbered prereleases                                      *)
(***************************************************************************)
EXTENDS FileTransferHTTPHandler, ResourceBroker, RateLimiter, Migrations, Upgrade, TLC

CONSTANT Subjects
VARIABLE subject

V(minor, patch) == Core(0, minor, patch)
Forked ==
  LET a == Core(1, 0, 0)
      b == Core(1, 1, 0)
      pre2 == <<2, 0, 0, << <<1, 1>>, <<0, 2>> >> >>
      pre10 == <<2, 0, 0, << <<1, 1>>, <<0, 10>> >> >>
      final == Core(2, 0, 0)
      step2(x, y) == [from |-> x, to |-> y, requirements |-> {}, automatic |-> TRUE]
  IN [releases |-> {[version |-> v, metadata |-> 3, template |-> 1] : v \in {a, b, pre2, pre10, final}},
      migrations |-> {step2(a, b), step2(b, pre2), step2(a, pre2), step2(pre2, pre10),
                      step2(pre10, final), step2(b, pre10), step2(pre2, final)}]
OfForked == {r.version : r \in Forked.releases}
MCCatalogs == [current |-> currentUpgradeCatalog, forked |-> Forked]
MCCreated == {V(3, 0), V(16, 0), V(21, 0)} \cup (OfForked \ {Core(1, 1, 0)})
MCTargets == {V(19, 0), V(24, 0), <<2, 0, 0, << <<1, 1>>, <<0, 2>> >> >>, Core(2, 0, 0)}
\* What the package repository offers: not every release, and a later patch than
\* the catalog knows.
MCPublished == {V(19, 0), V(24, 0), V(24, 2), Core(1, 1, 0), Core(2, 0, 0)}
MCPlatforms == {{"web"}, {"macos", "ios"}}

ASSUME ServicesAssumption ==
  /\ Subjects \subseteq {"transfers", "broker", "limiter", "migrations", "upgrade"}
  /\ TransferAssumption /\ BrokerAssumption

\* At rest, any project will do.
UpgradeRests ==
  /\ catalog = "forked" /\ project.kind = "flutter" /\ project.platforms = {"web"}
  /\ \A f \in Managed : managed[f] = Core(1, 0, 0)

ServicesInit ==
  /\ subject \in Subjects
  /\ TransferInit /\ BrokerInit /\ LimiterInit /\ MigrationInit
  /\ UpgradeInit
  /\ subject # "upgrade" => UpgradeRests
  /\ catalog = "forked" => project.platforms = {"web"}   \* it asks for nothing on any platform

ServicesNext ==
  /\ UNCHANGED subject
  /\ \/ subject = "transfers" /\ TransferNext /\ UNCHANGED <<brokerVars, limiterVars, migrationVars, upgradeVars>>
     \/ subject = "broker" /\ BrokerNext /\ UNCHANGED <<transferVars, limiterVars, migrationVars, upgradeVars>>
     \/ subject = "limiter" /\ LimiterNext /\ UNCHANGED <<transferVars, brokerVars, migrationVars, upgradeVars>>
     \/ subject = "migrations" /\ MigrationNext /\ UNCHANGED <<transferVars, brokerVars, limiterVars, upgradeVars>>
     \/ subject = "upgrade" /\ UpgradeNext /\ UNCHANGED <<transferVars, brokerVars, limiterVars, migrationVars>>

ServicesSpec ==
  ServicesInit /\ [][ServicesNext]_<<subject, transferVars, brokerVars, limiterVars, migrationVars, upgradeVars>>

Symmetry == Permutations(Ids) \cup Permutations(Calls)
=============================================================================
