# resource-tracker: models, checks and proofs

resource-tracker finds out which resource kinds Argo CD applications use, so
that Argo CD can be told to watch these and no others (`resource.inclusions`).
The command line tool analyses the applications once, with one of two
strategies; the operator keeps the inclusions up to date. This directory holds
TLA+ models of both, the TLC runs that check small instances of them, and
theorems about them that TLAPS proves for every value of the constants.

Paths below are relative to the repository (`src/`).

## 1. The system

| Component | State | Operations | What makes it correct |
|---|---|---|---|
| Dynamic backend, `pkg/analyzer/dynamic/backend.go` | an errgroup of at most 4 goroutines; the list of results, under a mutex | list the applications, analyse each in a worker, merge, return | every application that can be analysed is in the report, with its whole dependency tree and nothing else; it always returns |
| Dynamic tracker, `pkg/dynamic/dynamic.go` | the store of mappers per cluster (no lock); the cache of relations, shared by all clusters (`CacheMu`); one sync lock per cluster | find or create a mapper, scan a cluster, merge what was found | one sync per cluster at a time, none repeated, nothing lost from the cache |
| Resource mapper, `pkg/dynamic/resourcegraph.go` | the list of resources of a cluster, grown by a CRD informer | discovery, CRD events, paged lists, relation of the listed objects, depth first search | the search returns the least closure of the direct resources |
| Graph backend, `pkg/analyzer/graph/backend.go` | a query server per cluster | take the applications one by one, traverse their manifests, add their status | whatever fails, nothing of another cluster is added and no status is lost |
| Query server, `pkg/graph/query.go` | the kinds that were queried | query the children of a resource, depth first | asking once per kind loses no kind |
| Grouped kinds, `pkg/common/common.go` | kinds by group | merge, write as text, read back, compare | the text stands for the kinds; equal means equal |
| Operator, `operator/*.go` | last run, what it computed last, pending informer events; the object in the cluster | query all hosts, compute, compare, update with retries, or print | what is written is complete, undoes nobody's edit, is written once, and becomes right |
| Argo CD client, `pkg/argocd/application.go` | none | read applications, clusters, conditions and settings; update the inclusions | a name resolves to one cluster; a conflict is retried from a fresh copy |
| Repo-server client, `pkg/repo/repo.go` | a connection, while it fetches | read project, repositories and settings, look up the version of the destination, render every source | all sources or an error, for one version, that of the cluster which is analysed; the connection is closed |
| Kube helpers, `pkg/kube/kubernetes.go` | none | the client configuration of the control plane and of a registered cluster | both find the same local API server |
| Command line, `cmd/tracker_cmd.go` | the flags | parse, load the configuration, forward a port, run a backend, print | what is printed is about what was asked |
| Root command, version, environment, deployment files | none | | not modelled |

How they interact. The dynamic workers share one tracker: they call into it
concurrently, and each mapper runs an informer whose callbacks write what a
worker's scan iterates. The graph backend is sequential, but its query servers
outlive the applications they were made for. The operator's informer calls
`execute`, one call at a time; the object it updates is shared with its users.
The command runs one backend and hands it the configuration, the kubeconfig
path and the repo-server's address; both backends promise it the same
(`analyzer.Backend`), and both fetch manifests through the same chain of calls.

Hard behaviours: the races on the mapper store and on the resource list;
blocking on a cluster's lock while holding a place of the errgroup; a cache that
is filled by another worker, for another application, possibly for another
cluster; remote calls that fail halfway through a scan, a traversal or a run;
events that arrive while a run is on or are dropped; the object that changes
between its Get and its Update; restarts. `PROJECT.json` lists them as hazards,
each at its line.

## 2. The modules

| Module | Models | State and actions |
|---|---|---|
| `ResourceGraph` | keys, exclusions, relation of listed objects, merge, reachability, grouping | no state: functions, one per Go function |
| `RelationWalk` | the depth first search of `GetResourceRelation`, call by call | stack of active calls, `rest[k]` for the loop of each call; `StartRoot`, `VisitChild`, `Return`, `Finish` |
| `AtomicWalk` | its abstract specification: one step that answers with the least closure | refined by `RelationWalk` |
| `Analysis` | what the caller of a backend relies on: kinds are collected on the account of the applications asked for, never lost, and reported once, or the analysis fails | refined by `DynamicAnalysis` and `GraphQuery`, used by `AnalyzeCommand` |
| `DynamicAnalysis` | one execution of the dynamic strategy | a program counter and the locals of each worker; the store, the cache, the locks, the informers; one action per step between two accesses to shared state |
| `GraphQuery` | one execution of the graph strategy | the loop over the applications, the stack of `depthFirstTraversal`, `VisitedKinds` per query server |
| `ManifestFetch` | `GetApplicationChildManifests`, in the Argo CD client and the repo-server client, and the backend's own look-up of the destination | how far the chain of calls is, the connection, the sources still to be rendered; the registry of clusters, which changes meanwhile |
| `AtomicFetch` | its abstract specification: all manifests for one version, or an error | refined by `ManifestFetch` |
| `KubeConfig` | which API server a configuration leads to | no state |
| `AnalyzeCommand` | the `analyze` command, with either strategy | the flags, the machine, the steps up to the backend, the API server that each cluster is analysed on; the backend's variables, by `Analysis` |
| `Inclusions` | the text of `resource.inclusions`, reading, writing, comparing | no state |
| `OperatorController` | the operator and its environment | the process (`pc`, query servers, pending events, check interval, the run's variables) and the object with its version; users, clusters, failures, time and restarts as actions |
| `AtomicUpdate` | the object's history as an update loop should shape it: compute, drop, write what was computed over the version it was computed against, and users' edits | refined by `OperatorController` |
| `MC*` | the instances that TLC checks | |
| `*_proofs` | the theorems of the module they are named for; `DynamicReport_proofs` has those about the report of `DynamicAnalysis`, `OperatorController_proofs` those about `Inclusions` too | |

Composition and refinement.
- `RelationWalk` implements `AtomicWalk`: that is why `DynamicAnalysis` may take
  the depth first search as one step under the read lock of the cache.
- `ManifestFetch` implements `AtomicFetch`: that is why `DynamicAnalysis`,
  `GraphQuery` and `AnalyzeCommand` may take the fetch of the manifests as one
  step that gives all of them or fails.
- `DynamicAnalysis` and `GraphQuery` implement `Analysis`, and `AnalyzeCommand`
  is composed with it: its `List`, `Collect` and `PrintInclusions` are steps of
  `Analysis` that say, beyond it, which applications are asked for and on which
  API server their kinds are found.
- `OperatorController` implements `AtomicUpdate`: its Get, its Update that may
  conflict, fail or lose its answer, and its retries amount to one step that
  replaces the inclusions and keeps what users wrote in between.
- `OperatorController` takes the traversal of a host as one step, which visits
  what the applications have there and goes on from one resource of each kind
  only, whichever it comes to first: the code skips every later resource of a
  kind (`pkg/graph/query.go:163-167`) and forgets the kinds once per run and
  host (`operator/graphquery.go:89`). `Traversals` has all the ways to do so.
  The outcomes are those that `GraphQuery` gives a traversal: it has an answer
  for one resource of each kind it visits (`QueryHost`), for some kinds every
  query fails and the code swallows the errors (`NestedQueryFails`), or its
  first query fails (`CallFails`, `UnreachableEndsRun`).

Conventions.
- An apiVersion is the sequence of its segments, a key `group_Kind` is a pair,
  the grouped kinds are the set of their pairs. Names of groups and kinds are
  strings where the code compares them with literals, and model values or
  members of small sets where it does not.
- Where the order of a Go map or of a listing is not determined, or cannot
  matter, a set is used and a step takes any element.
- A mapper or a sync lock is named by the worker that allocated it: each
  worker allocates at most one.
- A race of the unlocked mapper store is modelled by its outcomes: the
  accesses pass, or the Go runtime ends the process (`StoreRace`, `CrdRace`).
- What is outside the repository (Kubernetes, Argo CD, the graph library,
  users) is a constant, or an action whose map entry is marked external.
- Each query server takes its executor from `core.GetQueryExecutorInstance`
  (`pkg/graph/query.go:125`). Its source, a fork of the graph library, is not in
  this repository, and the name suggests one instance per process. If so, every
  query server but the first made queries the first one's cluster. The constant
  `SharedExecutor` of `GraphQuery` and `OperatorController` has both cases:
  `executor[s]` and `queryServers[h]` say which cluster a query server reaches.
  The theorems hold for either value; the runs `graph` and `oper` give each
  query server an executor of its own.

## 3. The runs

Runs that pass:

| Run | Instance | What it shows |
|---|---|---|
| `dyn_single` | one cluster, three applications (one by server, one by name, one without destination), two places in the errgroup, two-page lists, a CRD that arrives at any time, discovery that may miss API groups | `DependencyTreeComplete`, `ReportJustified`, `HealthyAppsReported`, `SyncExclusive` under all interleavings. The store's race can end the process in this run too; the properties speak of what has been reached by then |
| `dyn_faults` | two clusters, four applications (two on one cluster, one on a name that no cluster has); listing, the look-up of the cluster, the mapper, manifests and each list call may fail | `SyncExclusive`, `NoKeySyncedTwice`, `NoWaitInVain` (no wait for a lock in a circle, for a worker that has ended, or for another cluster), `DependencyTreeComplete` (less what the failed lists would have shown), `CacheOnlyGrows`, `ImplementsAnalysis`, and that the execution ends (`AnalysisReturns`) |
| `walk` | all relations over three kinds, with cycles, self-loops and absent keys; up to two direct resources, one unknown | the search ends, is never nested for one key, forgets nothing, and implements `AtomicWalk` |
| `graph` | two clusters, three applications, cyclic ownership, a leaf kind with a child, an ignored kind, kinds that own different things on the two clusters; an application that gives its cluster by name; list, manifests, name, cluster, executor, query and status calls may fail, and the process may end in two of them; each query server has its own executor | `DependencyTreeComplete` (without failures), `StatusReported`, `QueriedKindsReported`, `ImplementsAnalysis` (each application is traversed by the query server of its cluster, so that nothing comes from another one, since executors are not shared here), `AnalysisEnds` |
| `manifests` | destinations by server, by a name of none, one or two clusters, and none at all; one and two sources that render differently for each cluster; either order of the two look-ups; any call failing, the registry changing once, between any two calls | `RenderedForDestination`, `ImplementsAtomicFetch` |
| `command` | command lines with and without application, namespace, `--all-apps`, `--kubeconfig`, repo-server, and both strategies or an invalid one; machines in a cluster, outside of one, with a service account that cannot be read, with kubeconfigs that lead to the one or the other cluster or are missing; one switch of context, at any time | `OneControlPlane`, `OnlyTheNamedPrinted` |
| `oper` | two hosts, one of which may become unreachable; secrets that are unmanaged, empty, without host, broken, or changed later; every mode of the flags, the rejected one included; an application that stays and one that comes or goes; two Deployments that own the same kinds, or of which only one owns a Pod; a user's entry in Argo CD's own spelling, or a text that does not parse; two edits, one failure, lost answer or swallowed error, one restart, two attempts | `WritesCoverSteadyApps` (what the first queries yield always, the whole trees where the Deployments own the same kinds and no error was swallowed), `WritesOnlySeenApps`, `UpdatesAreAtomic` (edits of users between a Get and its Update are kept), `Quiesces` (for Deployments that own the same kinds), `Converges` (likewise to the whole trees; else to no more than these and no less than the first queries yield); both with the update and with printing |

Runs that end in a violation, each of something that the repository says:

| Run | What happens |
|---|---|
| `dyn_two_clusters` | the cache is keyed by kind only: the scan of one cluster answers for another, whose dependents are never found |
| `dyn_store_race` | two workers meet in the unlocked `ResourceMapperStore`: a fatal runtime error |
| `dyn_probe_key` | the cache is probed with `core_<Kind>` for every kind, so that a cluster is scanned again although all is cached |
| `graph_full_tree` | a second resource of a kind is not asked for its children: what only it owns is missing |
| `oper_last_app` | the event of the last deleted application falls into the check interval and is dropped; no resync follows, and its kinds stay |

`PROJECT.json` has six findings more that have no run, since the line of the model
that translates the code shows them at once: `servers[0]` of no servers ends
the analysis of all applications (`ResolvePanics`); the validation at start of
the operator tests the resource's name for its kind (`Rejected`); registered
clusters are skipped for want of a `Host` (`ListClusterConfigs`); `--app ns/`
analyses all of `ns`; `--all-apps --app x` analyses only `x`, and with `ns/x`
no application at all, as the name is not split then (`Split`, `Targets`);
`--kubeconfig` is ignored in a cluster (`LocalConfig`).

Bounds, and why they are enough. Two workers at a time are enough for the races
of two, with a third application that waits for a place; two clusters are enough
for one cluster's data to pass for another's; lists have two pages, so that a
failure can fall between them. Three kinds allow every shape of a cycle in the
search. A name needs two clusters to be ambiguous, and one change of the
registry, or of a kubeconfig, falls between any two calls that depend on it.
In the operator, two attempts of `RetryOnConflict` (the code has five)
and two edits reach both the retry and its exhaustion; more than `MaxEvents`
pending events act like that many, since a handler call does the same for each,
and one that comes during a run still waits for the end of it, though `MaxEvents`
is one; three kinds, with two resources of one of them, reach a traversal that
asks about the one and loses what only the other owns;
edits, changes of applications, failures and restarts are bounded so that TLC
can enumerate them. The proofs have none of these bounds except where a constant
is named for it, and there they hold for any value.

`CHECK_DEADLOCK FALSE` is given where the system stops: `walk`, `manifests`,
`command` and the two graph runs when the result is returned, and `oper_last_app`, where an operator
without applications has nothing to do.

Fairness. `DynamicAnalysis` assumes that goroutines which can run are scheduled
and that remote calls answer or fail (the clients have timeouts, or the user
waits); CRD events need not come. The walk and the graph strategy are
sequential code: all that is assumed is that they go on. `ManifestFetch` and
`AnalyzeCommand` have safety properties only and assume nothing.
`OperatorController` assumes that the process is scheduled and is restarted by
its Deployment, that time passes (`IntervalLapses`) and that the informer
resyncs every known application (the factory is created with a period of one
minute). Nothing assumes that users act or calls fail, or that they do not;
their number is bounded, so that `Quiesces` and `Converges` say what happens
once users and failures have come to rest. `Converges` needs an application that
stays (`Permanent`): the resync is what makes up for dropped events, and
`oper_last_app` shows what happens when there is none left. It promises nothing
where the operator cannot work (`Blocked`: it does not start with its flags, a
known cluster is lost for good, the stored text does not parse). These need a
user in the code, too; once a user repairs a text, or restarts the process with
other secrets, the property promises again. It speaks of the clusters that were
registered when the process started.

## 4. What is proved

The assumptions are those named in the modules: the types of the constants, that
there are finitely many applications and clusters, and that the names of the
groups and kinds that the code compares with are names. Four hypotheses more
are stated by the theorems that need them. Two are about several clusters that
share the relations cache, and `MCDynamicAnalysis` has TLC evaluate them on its
instances (`KindsApart`, `KindsShared`): `OwnKeys` (every application has a
direct resource whose key no other cluster brings into the cache), which the two
clusters of `dyn_faults` meet and those of `dyn_two_clusters` do not, where
`DependencyTreeComplete` fails; and `OthersAddNothing` (what other clusters show
leads nowhere that an application's own cluster does not lead to). One cluster
meets both. `Uniform` says that the resources of a kind own the same kinds;
`graph_full_tree` refutes completeness without it. It is a hypothesis of the
properties of `GraphQuery` about trees, and of those of `OperatorController`
about whole trees and about coming to rest, where it is a predicate on `owned`
and `oper` has an ownership of either sort. `AnalysableApps` says that no
call fails that an application cannot do without: its cluster, the mapper, its
manifests.

- `ResourceGraph_proofs`: `Reachable` is defined as an intersection;
  `ReachableClosure` and its lemmas show that it is the least set that holds the
  roots and is closed.
- `RelationWalk_proofs`: the invariant is `WalkInv`: the loops run over children
  (`LoopInv`), nothing unreachable is visited (`LeastInv`), and what is
  unfinished belongs to an active call (`NothingForgotten`). When the stack and
  the roots are exhausted, `NothingForgotten` makes the visited set closed, and
  `LeastInv` makes it the least one: `SearchIsAtomicWalk`. `RecursionBounded`
  follows because a call marks its key before it goes deeper.
- `DynamicAnalysis_proofs`: `Structure` has the types, and ties the program
  counter of a worker to its server and its mapper (`TypeCorrect`). `SyncInv`
  adds that the lock of a worker is the one that is stored for its server, that
  a worker in the sync holds it and nobody else does (`HolderInv`, `HeldInv`),
  and that the keys of a finished sync are in the cache. Hence
  `OneSyncPerCluster`; `NoSyncRepeated`, since the second look under the lock
  finds the keys of every earlier sync; and `WaitsEnd`, the safety part of
  `AnalysisReturns`: the holder of a lock that is waited for is between Lock and
  Unlock for the same cluster, where nothing waits. `CacheGrows` needs no
  invariant: each step merges or adds.
  `CompleteWithOwnKeys` rests on three invariants. `EnteredInv`: whatever a
  worker of a cluster may put into the cache, parents of its lists or missing
  keys as leaves, is among the keys that can enter from that cluster.
  `ProbedInv`: when a worker comes to the traversal, all keys of its direct
  resources are in the cache. `CoverInv`: a key in the cache that only one
  cluster can have entered means that the cache covers what the scans of this
  cluster could list, and a scan that is on covers the lists it has behind it.
  So a worker that skipped its scan, because another application's worker had
  made it, misses nothing; and this whichever calls fail, for what the failed
  lists leave. `SingleClusterComplete` is the case of one cluster.
- `DynamicReport_proofs`, about the report: `ReportInv` says where the workers
  are when main lists or has returned (`PhaseInv`), and that what is collected
  comes from an application, by edges that some scan can have seen
  (`Provenance`). Hence `JustifiedByOwnCluster`, with its case
  `SingleClusterJustified`, and `DynamicIsAnalysis`; with
  `HealthyInv`, that an application whose destination resolves does not end in a
  failure, `HealthyReported`.
- `GraphQuery_proofs`: `Inv` relates the stack to the application the loop is
  at: what is on it belongs to the application's tree on the cluster that its
  query server reaches (`TreeInv`), which is its own where executors are not
  shared (`MadeInv`), and its status is collected or the call for it has failed
  (`StatusInv`). Hence `TypeCorrect`,
  `StatusInResult` and `GraphIsAnalysis`. `FullInv` adds, for `Uniform`
  ownership, that the children of a kind which is marked as visited are reported
  or on the stack, whichever application marked it (`SettledInv`), and that,
  without failures, what is visited is covered (`CoverInv`). Hence
  `QueriedKindsInResult` and `UniformTreeComplete`: to ask once per kind and
  query server, for all applications, loses nothing.
- `ManifestFetch_proofs`: `FetchInv` adds to the types what the two look-ups have
  found at each step (`LookupInv`), and that the rendered and the remaining
  sources are all there are (`RenderInv`). The two look-ups are made by
  different code, which differs on a name of several clusters;
  `DestinationsAgree` shows that they agree on every application that is
  analysed, unless the registry changes in between. `FetchIsAtomic` is the
  refinement.
- `OperatorController_proofs`: of the text of the inclusions, `TextRoundTrip`
  (reading what was written gives the same kinds) and `GroupedEqualIsEquality`
  (by the cardinalities of finite sets). The invariant `IInv` adds to the types
  that an attempt is left when one begins (`AttemptsLeft`), that a copy which is
  not stale equals the object (`FreshCopy`), that a run has found what the first
  queries yield for the steady applications on the hosts queried so far, and
  where `Uniform` holds and no error was swallowed, their whole trees
  (`RunCovers`), and nothing but what applications had
  that it has seen (`RunIsOfSeen`, `RootIsFound`; the history variable `seen`
  holds these). `OneUpdateStep` is the refinement of `AtomicUpdate` and follows
  from `FreshCopy`; `NoPartIsWritten` follows from `RunCovers` and
  `TextRoundTrip`; the lemma under it, `WholeFindsTree`, is that a traversal
  which gets an answer for one resource of each kind it visits finds every kind
  of the tree if resources of a kind own the same kinds; `NothingElseIsWritten` from `RunIsOfSeen`.
- `AnalyzeCommand_proofs`: `CommandInv` follows the answers of the look-ups along
  the command. As long as no context is switched, the configuration is the one
  that the flags and the machine determine (`ConfigInv`), every in-cluster
  destination is analysed on it and every other one on its own host
  (`ReachedInv`), and a forwarded repo-server is reached through it where the
  command gives the port-forward nothing else to go by (`RepoInv`). The targets
  are those of the flags (`TargetInv`), there is nothing of the backend before it
  runs (`QuietInv`), and what it finds is on the account of the application named
  (`FoundInv`). Hence `CommandTypeCorrect`, `LookupsAgree` and `NamedOnly`, for
  any machine, any kubeconfig and any applications.

Only model-checked: all liveness (`AnalysisReturns`, `AnalysisEnds`, `Quiesces`,
`Converges`, that the walk answers), which is out of the prover's reach. The
invariants that the proofs need were checked by TLC on the instances of the runs
before they were proved.

## 5. What the properties leave open

- Failing list calls, and API groups that discovery misses, cost the tree what
  they would have shown, and only the log tells. `DependencyTreeComplete` says
  that they cost nothing else.
- With several clusters the dynamic strategy is complete and justified only as
  far as their kinds keep apart (`OwnKeys`, `OthersAddNothing`); the usual two
  clusters with the same kinds are the counterexample of `dyn_two_clusters`.
- The dynamic strategy does not scan cluster-scoped kinds, by design
  (`pkg/dynamic/resourcegraph.go:207`); completeness is about the kinds that are scanned.
- `graph` shows completeness where the resources of a kind own the same kinds,
  and `graph_full_tree` shows that it depends on that. So does the operator: where
  they do not, it writes inclusions that lack what only a second resource of a
  kind owns, without any failure, no later run need repair that, and two runs may
  find different kinds and each write. `WritesCoverSteadyApps` and `Converges`
  then promise what the first queries yield, and `Quiesces` promises nothing.
- The error of a nested query does not reach the caller: the operator may write
  inclusions that lack what the query would have found. `WritesCoverSteadyApps` promises
  what the first queries yield for the runs in which this happened; `Converges`
  says that a later run repairs it.
- Which cluster the second and later query servers of a process query is up to the
  graph library (`SharedExecutor`). If they share the first one's executor, the
  dependents that exist only on other clusters are found by neither the graph
  strategy nor the operator; the properties then speak of the cluster that is
  reached.
- The operator makes its query servers when it starts: a cluster that is
  registered later is not seen before a restart, and one that is lost ends every
  run with an error.
- A `resource.inclusions` that does not parse ends every run of the operator
  until a user repairs it; a user's entry spelled `apiGroups` is not seen when
  comparing and is replaced by the next write.
- The command loads the configuration more than once. If the kubeconfig's current
  context is switched between two of these, the run may talk to two control
  planes; `OneControlPlane` is about runs without that. Of a
  forwarded repo-server it speaks only for commands outside a cluster and without
  `--kubeconfig`: the port-forward uses the default configuration, whatever the
  command uses.

## 6. Not modelled

- The texts of the queries, the relationship rules and the graph library, the
  plural names of kinds (`pkg/graph/query.go:172`) among them: what a query
  answers is a constant.
- The fields of requests, TLS settings, credentials, rate limits and the
  construction of clients: data that no property is about.
- The port-forward, which is Argo CD's code, flag definitions, signals, logs.
- `ResourceInclusionEntry.Equal` (`pkg/common/common.go`), which nothing but its
  test calls; the root command, version, environment variables, deployment files.

## 7. Plan

Done: all modules of section 2, the core (`ResourceGraph`, `DynamicAnalysis`,
`RelationWalk`) first. What could still be added:

1. Compose `GraphQuery` and `OperatorController` step by step, in place of the
   one step per host; what this would add is an interleaving of a traversal with
   changes of the applications it is over.
2. Proofs: termination, as far as it is safety: a measure of each component that
   its steps decrease (the loops of the walk, of the graph traversal, of the
   fetch and of the attempts of an update).
