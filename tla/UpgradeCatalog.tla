---------------------------- MODULE UpgradeCatalog ----------------------------
(***************************************************************************)
(* What `bridra upgrade` decides without touching a file: the order of     *)
(* versions (cmd/bridra/semantic_version.go), the registered releases and  *)
(* migrations with the search for a path (upgrade_catalog.go), and the     *)
(* plan for a project (upgrade.go, upgrade_requirements.go).  Texts of     *)
(* steps and diagnostics are left out.                                     *)
(***************************************************************************)
EXTENDS Integers, Sequences, SequencesExt, FiniteSets

\* A version is <<major, minor, patch, prerelease>>; an identifier of a
\* prerelease is <<0, n>> (numeric) or <<1, n>> (the n-th of the words).
Core(a, b, c) == <<a, b, c, <<>>>>
Sign(n, m) == IF n < m THEN -1 ELSE IF n > m THEN 1 ELSE 0
\* Two sequences of identifiers or numbers differ at these places.
Differences(s, t) == {i \in DOMAIN s \cap DOMAIN t : s[i] # t[i]}
FirstDifference(s, t) == CHOOSE i \in Differences(s, t) : \A j \in Differences(s, t) : i <= j
compareCores(v, w) ==
  IF Differences(v, w) = {} THEN 0
  ELSE LET i == FirstDifference(v, w) IN Sign(v[i], w[i])
compareIdentifiers(x, y) == IF x[1] = y[1] THEN Sign(x[2], y[2]) ELSE Sign(x[1], y[1])
comparePrereleases(s, t) ==
  IF Differences(s, t) = {} THEN Sign(Len(s), Len(t))
  ELSE LET i == FirstDifference(s, t) IN compareIdentifiers(s[i], t[i])
compareSemanticVersions(v, w) ==
  LET core == compareCores(SubSeq(v, 1, 3), SubSeq(w, 1, 3))
  IN IF core # 0 THEN core
     ELSE IF v[4] = <<>> \/ w[4] = <<>>
     THEN Sign(IF v[4] = <<>> THEN 1 ELSE 0, IF w[4] = <<>> THEN 1 ELSE 0)
     ELSE comparePrereleases(v[4], w[4])
Before(v, w) == compareSemanticVersions(v, w) < 0

-----------------------------------------------------------------------------
\* The registered releases: versions that share project metadata and template.
Group(core, metadata, template) == {[version |-> Core(0, c[1], c[2]), metadata |-> metadata, template |-> template] : c \in core}
registeredUpgradeReleases ==
  UNION {Group({<<1, 0>>, <<1, 1>>, <<2, 0>>, <<3, 0>>, <<4, 0>>, <<5, 0>>, <<6, 0>>, <<6, 1>>, <<7, 0>>, <<8, 0>>,
                <<9, 0>>, <<10, 0>>, <<10, 1>>, <<11, 0>>, <<12, 0>>, <<13, 0>>}, 2, 2),
         Group({<<14, 0>>}, 2, 3), Group({<<15, 0>>}, 3, 5), Group({<<16, 0>>}, 3, 6),
         Group({<<17, 0>>, <<18, 0>>, <<19, 0>>}, 3, 7), Group({<<20, 0>>, <<21, 0>>}, 3, 8),
         Group({<<22, 0>>, <<23, 0>>, <<23, 1>>, <<23, 2>>, <<24, 0>>, <<24, 1>>}, 3, 9)}

\* The registered migrations lead from each release to the next.  Those that are
\* not automatic ask for work on some platforms; {} is every platform.
Desktop == {"linux", "macos", "windows"}
AllPlatforms == Desktop \cup {"android", "ios", "web"}
Requirements(to) ==
  CASE to \in {Core(0, 4, 0), Core(0, 5, 0)} -> {Desktop}
    [] to \in {Core(0, 15, 0), Core(0, 16, 0)} -> {Desktop, {"macos"}}
    [] to = Core(0, 17, 0) -> {{"ios"}}
    [] to = Core(0, 20, 0) -> {{}, {"macos"}}
    [] OTHER -> {}
Unclassified == {Core(0, 6, 1), Core(0, 14, 0)}
registeredFrameworkMigrations ==
  LET versions == {r.version : r \in registeredUpgradeReleases}
      next(v) == CHOOSE w \in versions : Before(v, w) /\ ~ \E u \in versions : Before(v, u) /\ Before(u, w)
  IN {[from |-> v, to |-> next(v), requirements |-> Requirements(next(v)),
       automatic |-> Requirements(next(v)) = {} /\ next(v) \notin Unclassified] :
        v \in {v \in versions : \E w \in versions : Before(v, w)}}
currentUpgradeCatalog == [releases |-> registeredUpgradeReleases, migrations |-> registeredFrameworkMigrations]

\* migrationPath: breadth first, the edges of a version by their target; <<>> if
\* there is none.  The queue holds the paths that reach each version first.
EdgesFrom(catalog, v, to) ==
  SetToSortSeq({m \in catalog.migrations : m.from = v /\ ~ Before(to, m.to)}, LAMBDA m, n : Before(m.to, n.to))
Extended(s, path, edges, to) ==
  LET longer == [i \in DOMAIN edges |-> [end |-> edges[i].to, steps |-> Append(path.steps, edges[i])]]
      arrived == {p \in Range(longer) : p.end = to}
  IN [queue |-> Tail(s.queue) \o longer, visited |-> s.visited \cup {m.to : m \in Range(edges)},
      found |-> IF arrived = {} THEN <<>> ELSE (CHOOSE p \in arrived : TRUE).steps]
SearchRound(catalog, to, s) ==
  IF s.queue = <<>> \/ s.found # <<>> THEN s
  ELSE Extended(s, Head(s.queue),
                SelectSeq(EdgesFrom(catalog, Head(s.queue).end, to), LAMBDA m : m.to \notin s.visited), to)
\* A version is queued at most once, so there are no more rounds than releases.
Search(catalog, from, to) ==
  LET rounds == Cardinality(catalog.releases)
      after[n \in 0 .. rounds] ==
        IF n = 0 THEN [queue |-> <<[end |-> from, steps |-> <<>>]>>, visited |-> {from}, found |-> <<>>]
        ELSE SearchRound(catalog, to, after[n - 1])
  IN after[rounds].found
migrationPath(catalog, from, to) ==
  IF Before(from, to) /\ {from, to} \subseteq {r.version : r \in catalog.releases}
  THEN Search(catalog, from, to)
  ELSE <<>>

-----------------------------------------------------------------------------
\* Mutant: every requirement is taken to be met.
automaticAnywhere(m, platforms) == m.requirements # {} \/ m.automatic

\* migrationForPlatforms: nothing is left to do by hand on these platforms.
migrationForPlatforms(m, platforms) ==
  IF m.requirements = {} THEN m.automatic
  ELSE \A r \in m.requirements : r # {} /\ r \cap platforms = {}
ToStep(m, platforms) == [of |-> {m}, automatic |-> migrationForPlatforms(m, platforms)]
ByHand == [of |-> {}, automatic |-> FALSE]
Report(status, plan, steps) ==
  [status |-> status, plan |-> plan, steps |-> steps,
   apply |-> status = "migration_required" /\ plan /\ steps # <<>> /\ \A i \in DOMAIN steps : steps[i].automatic]

\* planTemplateAdoption: the steps that the path from the newest release with
\* the project's template, no newer than the project, asks for by hand.
AdoptionSource(catalog, p) ==
  LET same == {r.version : r \in {r \in catalog.releases : r.template = p.template /\ ~ Before(p.version, r.version)}}
  IN {v \in same : \A w \in same : ~ Before(v, w)}
TemplateOf(catalog, v) == (CHOOSE r \in catalog.releases : r.version = v).template
AdoptionPath(catalog, p, target) ==
  UNION {Range(migrationPath(catalog, v, target.version)) : v \in AdoptionSource(catalog, p)}
AdoptionKnown(catalog, p, target) ==
  \E v \in AdoptionSource(catalog, p) : v = target.version \/ migrationPath(catalog, v, target.version) # <<>>
Adoptions(catalog, p, target) ==
  {m \in AdoptionPath(catalog, p, target) :
     TemplateOf(catalog, m.to) > p.template /\ ~ migrationForPlatforms(m, p.platforms)}

\* evaluateUpgrade, given the order of the versions, the path between them and the
\* adoptions that the templates ask for.
Evaluated(p, target, order, path, adopt, known) ==
  LET steps == [i \in DOMAIN path |-> ToStep(path[i], p.platforms)]
      missing == SetToSortSeq(adopt \ Range(path), LAMBDA m, n : Before(m.to, n.to))
  IN IF p.kind = "web" \/ p.metadata > target.metadata THEN Report("unsupported", FALSE, <<>>)
     ELSE IF p.metadata = 1 THEN Report("migration_required", TRUE, <<ByHand>>)
     ELSE IF p.kind = "inconsistent" \/ order > 0 \/ (order < 0 /\ path = <<>>) \/ p.template > target.template
     THEN Report("unsupported", FALSE, steps)
     ELSE IF p.template = target.template
     THEN Report(IF order < 0 THEN "migration_required" ELSE "current", TRUE, steps)
     ELSE IF ~ known THEN Report("migration_required", TRUE, Append(steps, ByHand))
     ELSE Report(IF order < 0 \/ adopt # {} THEN "migration_required" ELSE "current", TRUE,
                 [i \in DOMAIN missing |-> ToStep(missing[i], p.platforms)] \o steps)
evaluateUpgrade(catalog, p, target) ==
  Evaluated(p, target, compareSemanticVersions(p.version, target.version),
            migrationPath(catalog, p.version, target.version),
            Adoptions(catalog, p, target), AdoptionKnown(catalog, p, target))
=============================================================================
