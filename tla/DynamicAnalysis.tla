-------------------------- MODULE DynamicAnalysis --------------------------
(***************************************************************************)
(* One execution of the dynamic strategy: the backend lists the            *)
(* applications, an errgroup of at most WorkerLimit goroutines analyses    *)
(* them, and the kinds they report are merged and returned.  The workers   *)
(* share a DynamicTracker: the store of resource mappers, read and written *)
(* without a lock, the relations cache, guarded by CacheMu, and one sync   *)
(* lock per cluster.  Every mapper runs a CRD informer whose handler grows *)
(* the list of resources that a scan of its cluster visits.                *)
(*                                                                         *)
(* A critical section of CacheMu or of the append mutex is one step: no    *)
(* call is made inside it.  Everything else that touches shared state is   *)
(* a step of its own.  A mapper, and a sync lock, is named by the          *)
(* application whose worker allocated it, since a worker makes at most one *)
(* of each.                                                                *)
(***************************************************************************)
EXTENDS ResourceGraph, FiniteSets

CONSTANTS
    Apps,           \* the applications that Argo CD lists
    Servers,        \* the API server addresses of the destination clusters
    ClusterNames,   \* the names that a destination may give instead
    None,           \* an absent server, name, mapper or lock
    WorkerLimit,    \* errgroup.SetLimit
    Destination,    \* Destination[a]: spec.destination, [server, name]
    ServersNamed,   \* ServersNamed[n]: the servers of the clusters named n
    Status,         \* Status[a]: missing and hierarchy kinds of its status
    Manifests,      \* Manifests[a]: the direct resources, as the repo-server renders them
    ApiResources,   \* ApiResources[s]: what discovery of cluster s returns
    CrdResources,   \* CrdResources[s]: the CRD versions its informer reports
    Pages,          \* Pages[s][gvr]: the pages a list of gvr returns on s
    Faults          \* the remote calls that may fail: a subset of FaultKinds

FaultKinds == {"applications", "cluster", "mapper", "discovery", "manifests", "list"}

ApiResource == [groupVersion : ApiVersion, kind : Names, name : Names, namespaced : BOOLEAN]

Crd == [group : Names, kind : Names, plural : Names, scope : {"Namespaced", "Cluster"},
        versions : SUBSET [name : Names, served : BOOLEAN]]

Gvr == [group : Names \cup {""}, version : Names, resource : Names]

\* Every gvr that a mapper of s may ever have on its list.
ListableGvrs(s) ==
    DiscoveredGvrs(ApiResources[s]) \cup UNION { CrdGvrs(c) : c \in CrdResources[s] }

ASSUME AppsAssumption ==
    /\ IsFiniteSet(Apps)
    /\ None \notin Apps \cup Servers \cup ClusterNames
    /\ WorkerLimit \in Nat \ {0}

ASSUME ArgoCDAssumption ==
    /\ Destination \in [Apps -> [server : Servers \cup {None}, name : ClusterNames \cup {None}]]
    /\ ServersNamed \in [ClusterNames -> SUBSET Servers]
    /\ Status \in [Apps -> SUBSET Info]
    /\ Manifests \in [Apps -> SUBSET Info]
    /\ Faults \subseteq FaultKinds

ASSUME ClusterAssumption ==
    /\ ApiResources \in [Servers -> SUBSET ApiResource]
    /\ CrdResources \in [Servers -> SUBSET Crd]
    /\ DOMAIN Pages = Servers
    /\ \A s \in Servers : Pages[s] \in [ListableGvrs(s) -> Seq(SUBSET Item)]

---------------------------------------------------------------------------

VARIABLES
    main,           \* Execute: "listing", "spawning", "returned" or "failed"
    cancelled,      \* the errgroup's context
    fatal,          \* a panic or a fatal runtime error ended the process
    pc,             \* pc[a]: where the worker of a stands
    server,         \* server[a]: its destination cluster
    direct,         \* childManifests
    missing,        \* missingKeys
    stillMissing,   \* stillMissingKeys
    lock,           \* clusterLock
    scanned,        \* the mapper whose cluster it scans
    todo,           \* the gvrs it has still to list
    rel,            \* resourceRelation
    unlisted,       \* history: what some scan of each cluster has not, or not fully, listed
    relations,      \* relations
    mapperStore,    \* ResourceMapperStore: server -> mapper
    resourceLists,  \* ResourceList of each mapper
    informers,      \* the mappers whose informer has been started
    cache,          \* SharedRelationsCache
    syncLocks,      \* syncLocks: server -> lock
    holder,         \* holder[l]: the worker inside lock l
    appChildren,    \* what the workers have appended
    groupedKinds    \* the result, as <<group, kind>> pairs

scanVars == <<scanned, todo, rel, unlisted>>
processVars == <<main, cancelled, fatal>>
appVars == <<server, direct, missing, stillMissing>>
mapperVars == <<mapperStore, resourceLists, informers>>
lockVars == <<lock, syncLocks, holder>>
resultVars == <<relations, appChildren, groupedKinds>>

vars == <<processVars, pc, appVars, scanVars, mapperVars, cache, lockVars, resultVars>>

Terminal == {"done", "failed", "cancelled"}

Locations ==
    {"queued", "start", "lookup", "create", "store", "storing", "confirm", "manifests",
     "check", "getlock", "lock", "recheck", "ensure", "values", "list", "leaves",
     "unlock", "walk", "append"} \cup Terminal

TypeOK ==
    /\ main \in {"listing", "spawning", "returned", "failed"}
    /\ cancelled \in BOOLEAN
    /\ fatal \in BOOLEAN
    /\ pc \in [Apps -> Locations]
    /\ server \in [Apps -> Servers \cup {None}]
    /\ direct \in [Apps -> SUBSET Info]
    /\ missing \in [Apps -> SUBSET Key]
    /\ stillMissing \in [Apps -> SUBSET Key]
    /\ lock \in [Apps -> Apps \cup {None}]
    /\ scanned \in [Apps -> Apps \cup {None}]
    /\ todo \in [Apps -> SUBSET Gvr]
    /\ rel = [a \in Apps |-> rel[a]] /\ \A a \in Apps : IsRelation(rel[a])
    /\ unlisted \in [Servers -> SUBSET Gvr]
    /\ relations \in [Apps -> SUBSET Info]
    /\ mapperStore \in [Servers -> Apps \cup {None}]
    /\ resourceLists \in [Apps -> SUBSET Gvr]
    /\ informers \subseteq Apps
    /\ IsRelation(cache)
    /\ syncLocks \in [Servers -> Apps \cup {None}]
    /\ holder \in [Apps -> Apps \cup {None}]
    /\ appChildren \subseteq Info
    /\ groupedKinds \subseteq Key

Init ==
    /\ main = "listing"
    /\ cancelled = FALSE
    /\ fatal = FALSE
    /\ pc = [a \in Apps |-> "queued"]
    /\ server = [a \in Apps |-> None]
    /\ direct = [a \in Apps |-> {}]
    /\ missing = [a \in Apps |-> {}]
    /\ stillMissing = [a \in Apps |-> {}]
    /\ lock = [a \in Apps |-> None]
    /\ scanned = [a \in Apps |-> None]
    /\ todo = [a \in Apps |-> {}]
    /\ rel = [a \in Apps |-> EmptyRelation]
    /\ unlisted = [s \in Servers |-> {}]
    /\ relations = [a \in Apps |-> {}]
    /\ mapperStore = [s \in Servers |-> None]
    /\ resourceLists = [a \in Apps |-> {}]
    /\ informers = {}
    /\ cache = EmptyRelation
    /\ syncLocks = [s \in Servers |-> None]
    /\ holder = [a \in Apps |-> None]
    /\ appChildren = {}
    /\ groupedKinds = {}

---------------------------------------------------------------------------
(* Control. *)

Goto(a, from, to) ==
    /\ pc[a] = from
    /\ pc' = [pc EXCEPT ![a] = to]

\* Variant: the worker returns the error, and the errgroup cancels its context.
FailCancels(a, from) ==
    /\ Goto(a, from, "failed")
    /\ cancelled' = TRUE

\* The worker logs the error and returns nil, which leaves the context alone.
Fail(a, from) ==
    /\ Goto(a, from, "failed")
    /\ UNCHANGED cancelled

\* The whole process dies.
Crash ==
    /\ fatal' = TRUE
    /\ UNCHANGED <<main, cancelled, pc, appVars, scanVars, mapperVars, cache, lockVars,
                   resultVars>>

---------------------------------------------------------------------------
(* Execute: list, spawn, wait. *)

ListApplications ==
    /\ main = "listing"
    /\ main' = "spawning"
    /\ groupedKinds' = MergeResourceInfos({}, UNION { Status[a] : a \in Apps })
    /\ UNCHANGED <<cancelled, fatal, pc, appVars, scanVars, mapperVars, cache, lockVars,
                   relations, appChildren>>

ListApplicationsFails ==
    /\ main = "listing"
    /\ "applications" \in Faults
    /\ main' = "failed"
    /\ UNCHANGED <<cancelled, fatal, pc, appVars, scanVars, mapperVars, cache, lockVars,
                   resultVars>>

Active == { a \in Apps : pc[a] \notin Terminal \cup {"queued"} }

\* g.Go blocks while the limit is reached.  The order of the list is not known.
Spawn(a) ==
    /\ main = "spawning"
    /\ Cardinality(Active) < WorkerLimit
    /\ Goto(a, "queued", "start")
    /\ UNCHANGED <<processVars, appVars, scanVars, mapperVars, cache, lockVars, resultVars>>

Return ==
    /\ main = "spawning"
    /\ \A a \in Apps : pc[a] \in Terminal
    /\ main' = "returned"
    /\ groupedKinds' = MergeResourceInfos(groupedKinds, appChildren)
    /\ UNCHANGED <<cancelled, fatal, pc, appVars, scanVars, mapperVars, cache, lockVars,
                   relations, appChildren>>

---------------------------------------------------------------------------
(* A worker: the destination. *)

NamesDestination(a) == Destination[a].server = None /\ Destination[a].name # None

\* The servers of the clusters that the destination names.
Candidates(a) ==
    IF NamesDestination(a) THEN ServersNamed[Destination[a].name]
                           ELSE {Destination[a].server} \ {None}

\* Under a cancelled context the worker returns the context's error.
ResolveServer(a) ==
    /\ \E s \in Servers :
         /\ Candidates(a) = {s}
         /\ server' = [server EXCEPT ![a] = s]
    /\ Goto(a, "start", IF cancelled THEN "cancelled" ELSE "lookup")
    /\ UNCHANGED <<processVars, direct, missing, stillMissing, scanVars, mapperVars, cache,
                   lockVars, resultVars>>

\* No destination, an ambiguous name, or a failed look-up of the cluster.
ResolveFails(a) ==
    /\ \/ Candidates(a) = {} /\ ~NamesDestination(a)
       \/ Cardinality(Candidates(a)) > 1
       \/ "cluster" \in Faults
    /\ Fail(a, "start")
    /\ UNCHANGED <<main, fatal, appVars, scanVars, mapperVars, cache, lockVars, resultVars>>

\* No cluster has the name: servers[0] of an empty slice.
ResolvePanics(a) ==
    /\ pc[a] = "start"
    /\ NamesDestination(a)
    /\ Candidates(a) = {}
    /\ Crash

---------------------------------------------------------------------------
(* A worker: SyncResourceMapper.  The store is a Go map that every worker  *)
(* reads and writes without a lock.  A write is in progress from           *)
(* StoreMapper to StoreDone; an access that meets it is caught by the      *)
(* runtime, or sees the map without the new entry.  Two overlapping writes *)
(* are always caught.                                                      *)

LookupMapper(a) ==
    /\ Goto(a, "lookup", IF mapperStore[server[a]] = None THEN "create" ELSE "confirm")
    /\ UNCHANGED <<processVars, appVars, scanVars, mapperVars, cache, lockVars, resultVars>>

\* What complete discovery of s puts on the list.
Discovered(s) == DiscoveredGvrs(ApiResources[s])

\* Discovery may succeed for a part of the API resources only.
DiscoveryResults(s) ==
    {Discovered(s)} \cup
    { DiscoveredGvrs(part) :
        part \in IF "discovery" \in Faults THEN SUBSET ApiResources[s] \ {{}} ELSE {} }

CreateMapper(a) ==
    /\ Goto(a, "create", "store")
    /\ \E gvrs \in DiscoveryResults(server[a]) :
         resourceLists' = [resourceLists EXCEPT ![a] = gvrs]
    /\ informers' = informers \cup {a}
    /\ UNCHANGED <<processVars, appVars, scanVars, mapperStore, cache, lockVars, resultVars>>

CreateFails(a) ==
    /\ "mapper" \in Faults
    /\ Fail(a, "create")
    /\ UNCHANGED <<main, fatal, appVars, scanVars, mapperVars, cache, lockVars, resultVars>>

StoreMapper(a) ==
    /\ \A b \in Apps : pc[b] # "storing"
    /\ Goto(a, "store", "storing")
    /\ UNCHANGED <<processVars, appVars, scanVars, mapperVars, cache, lockVars, resultVars>>

StoreDone(a) ==
    /\ Goto(a, "storing", "confirm")
    /\ mapperStore' = [mapperStore EXCEPT ![server[a]] = a]
    /\ UNCHANGED <<processVars, appVars, scanVars, resourceLists, informers, cache, lockVars,
                   resultVars>>

\* The runtime catches an access of the store that meets a write.
StoreRace(a) ==
    /\ pc[a] \in {"lookup", "store", "confirm", "ensure"}
    /\ \E b \in Apps \ {a} : pc[b] = "storing"
    /\ Crash

ConfirmMapper(a) ==
    /\ Goto(a, "confirm", IF mapperStore[server[a]] # None THEN "manifests" ELSE "failed")
    /\ UNCHANGED <<processVars, appVars, scanVars, mapperVars, cache, lockVars, resultVars>>

---------------------------------------------------------------------------
(* A worker: the direct resources, and whether the cache has them. *)

FetchManifests(a) ==
    /\ Goto(a, "manifests", "check")
    /\ direct' = [direct EXCEPT ![a] = Manifests[a]]
    /\ UNCHANGED <<processVars, server, missing, stillMissing, scanVars, mapperVars, cache,
                   lockVars, resultVars>>

FetchManifestsFails(a) ==
    /\ "manifests" \in Faults
    /\ Fail(a, "manifests")
    /\ UNCHANGED <<main, fatal, appVars, scanVars, mapperVars, cache, lockVars, resultVars>>

CheckCache(a) ==
    LET absent == { ProbeKey(i) : i \in direct[a] } \ DOMAIN cache
    IN  /\ Goto(a, "check", IF absent = {} THEN "walk" ELSE "getlock")
        /\ missing' = [missing EXCEPT ![a] = absent]
        /\ UNCHANGED <<processVars, server, direct, stillMissing, scanVars, mapperVars, cache,
                       lockVars, resultVars>>

---------------------------------------------------------------------------
(* A worker: one sync per cluster at a time. *)

\* Variant: every caller gets a lock of its own.
GetFreshLock(a) ==
    /\ Goto(a, "getlock", "lock")
    /\ syncLocks' = [syncLocks EXCEPT ![server[a]] = a]
    /\ lock' = [lock EXCEPT ![a] = a]
    /\ UNCHANGED <<processVars, appVars, scanVars, mapperVars, cache, holder, resultVars>>

GetClusterSyncLock(a) ==
    LET l == IF syncLocks[server[a]] = None THEN a ELSE syncLocks[server[a]]
    IN  /\ Goto(a, "getlock", "lock")
        /\ syncLocks' = [syncLocks EXCEPT ![server[a]] = l]
        /\ lock' = [lock EXCEPT ![a] = l]
        /\ UNCHANGED <<processVars, appVars, scanVars, mapperVars, cache, holder, resultVars>>

AcquireLock(a) ==
    /\ Goto(a, "lock", "recheck")
    /\ holder[lock[a]] = None
    /\ holder' = [holder EXCEPT ![lock[a]] = a]
    /\ UNCHANGED <<processVars, appVars, scanVars, mapperVars, cache, lock, syncLocks,
                   resultVars>>

\* Variant: no second look at the cache under the lock.
RecheckDropped(a) ==
    /\ Goto(a, "recheck", "ensure")
    /\ stillMissing' = [stillMissing EXCEPT ![a] = missing[a]]
    /\ UNCHANGED <<processVars, server, direct, missing, scanVars, mapperVars, cache, lockVars,
                   resultVars>>

Recheck(a) ==
    LET absent == missing[a] \ DOMAIN cache
    IN  /\ Goto(a, "recheck", IF absent = {} THEN "unlock" ELSE "ensure")
        /\ stillMissing' = [stillMissing EXCEPT ![a] = absent]
        /\ UNCHANGED <<processVars, server, direct, missing, scanVars, mapperVars, cache,
                       lockVars, resultVars>>

\* The mapper is read from the store; ResourceList.Values() starts to iterate.
BeginScan(a) ==
    LET mapper == mapperStore[server[a]]
        gvrs == IF mapper = None THEN {} ELSE resourceLists[mapper]
    IN  /\ Goto(a, "ensure", IF mapper = None THEN "leaves" ELSE "values")
        /\ scanned' = [scanned EXCEPT ![a] = mapper]
        /\ todo' = [todo EXCEPT ![a] = gvrs]
        /\ unlisted' = [unlisted EXCEPT ![server[a]] = @ \cup (Discovered(server[a]) \ gvrs)]
        /\ UNCHANGED <<processVars, appVars, rel, mapperVars, cache, lockVars, resultVars>>

\* The iteration sees what was on the list when it began, and any part of what
\* the informer has added meanwhile.
EndValues(a) ==
    /\ Goto(a, "values", "list")
    /\ \E added \in SUBSET (resourceLists[scanned[a]] \ todo[a]) :
         todo' = [todo EXCEPT ![a] = @ \cup added]
    /\ UNCHANGED <<processVars, appVars, scanned, rel, unlisted, mapperVars, cache, lockVars,
                   resultVars>>

\* The items of the first n pages of gvr.
Received(s, gvr, n) == UNION { Pages[s][gvr][i] : i \in 1..n }

\* One gvr: its pages up to the n-th are read, then a call fails or none is left.
ListPages(a, gvr, n) ==
    /\ Goto(a, "list", "list")
    /\ gvr \in todo[a]
    /\ todo' = [todo EXCEPT ![a] = @ \ {gvr}]
    /\ rel' = [rel EXCEPT ![a] =
                  MergeInto(@, ItemsRelation(Received(server[scanned[a]], gvr, n)))]
    /\ UNCHANGED <<processVars, appVars, scanned, mapperVars, cache, lockVars, resultVars>>

\* Variant: the continue token is not followed.
ListFirstPage(a, gvr) ==
    /\ \E n \in 0..1 : n <= Len(Pages[server[scanned[a]]][gvr]) /\ ListPages(a, gvr, n)
    /\ UNCHANGED unlisted

ListResource(a, gvr) ==
    ListPages(a, gvr, Len(Pages[server[scanned[a]]][gvr])) /\ UNCHANGED unlisted

\* Variant: the error ends the scan, and what was found is merged.
ListFailureEndsScan(a, gvr) ==
    /\ "list" \in Faults
    /\ Goto(a, "list", "list")
    /\ todo' = [todo EXCEPT ![a] = {}]
    /\ unlisted' = [unlisted EXCEPT ![server[scanned[a]]] = @ \cup {gvr}]
    /\ UNCHANGED <<processVars, appVars, scanned, rel, mapperVars, cache, lockVars, resultVars>>

\* The error is logged; the scan keeps what it has and goes on.
ListResourceFails(a, gvr) ==
    /\ "list" \in Faults
    /\ \E n \in 0 .. Len(Pages[server[scanned[a]]][gvr]) - 1 : ListPages(a, gvr, n)
    /\ unlisted' = [unlisted EXCEPT ![server[scanned[a]]] = @ \cup {gvr}]

\* Variant: the sets of the cache are replaced, not extended.
MergeReplaces(a) ==
    /\ Goto(a, "list", "leaves")
    /\ todo[a] = {}
    /\ cache' = [p \in DOMAIN cache \cup DOMAIN rel[a] |->
                    IF p \in DOMAIN rel[a] THEN rel[a][p] ELSE cache[p]]
    /\ rel' = [rel EXCEPT ![a] = EmptyRelation]
    /\ UNCHANGED <<processVars, appVars, scanned, todo, unlisted, mapperVars, lockVars,
                   resultVars>>

MergeRelations(a) ==
    /\ Goto(a, "list", "leaves")
    /\ todo[a] = {}
    /\ cache' = MergeInto(cache, rel[a])
    /\ rel' = [rel EXCEPT ![a] = EmptyRelation]
    /\ UNCHANGED <<processVars, appVars, scanned, todo, unlisted, mapperVars, lockVars,
                   resultVars>>

\* Variant: a key that the scan did not find stays out of the cache.
AddNoLeaves(a) ==
    /\ Goto(a, "leaves", "unlock")
    /\ UNCHANGED <<processVars, appVars, scanVars, mapperVars, cache, lockVars, resultVars>>

\* Variant: the lock is released only where nothing was left to sync.
AddLeavesKeepsLock(a) ==
    /\ Goto(a, "leaves", "walk")
    /\ cache' = MergeInto(cache, [k \in stillMissing[a] |-> {}])
    /\ UNCHANGED <<processVars, appVars, scanVars, mapperVars, lockVars, resultVars>>

AddLeaves(a) ==
    /\ Goto(a, "leaves", "unlock")
    /\ cache' = MergeInto(cache, [k \in stillMissing[a] |-> {}])
    /\ UNCHANGED <<processVars, appVars, scanVars, mapperVars, lockVars, resultVars>>

Unlock(a) ==
    /\ Goto(a, "unlock", "walk")
    /\ holder' = [holder EXCEPT ![lock[a]] = None]
    /\ UNCHANGED <<processVars, appVars, scanVars, mapperVars, cache, lock, syncLocks,
                   resultVars>>

---------------------------------------------------------------------------
(* A worker: the traversal and the append. *)

\* Variant: the traversal starts from the keys the cache was probed with.
WalkFromProbes(a) ==
    /\ Goto(a, "walk", "append")
    /\ relations' = [relations EXCEPT ![a] =
                        { KeyInfo(k) : k \in Reachable(cache, { ProbeKey(i) : i \in direct[a] }) }]
    /\ UNCHANGED <<processVars, appVars, scanVars, mapperVars, cache, lockVars, appChildren,
                   groupedKinds>>

Walk(a) ==
    /\ Goto(a, "walk", "append")
    /\ relations' = [relations EXCEPT ![a] = GetResourceRelation(cache, direct[a])]
    /\ UNCHANGED <<processVars, appVars, scanVars, mapperVars, cache, lockVars, appChildren,
                   groupedKinds>>

\* Variant: the slice is assigned, not appended to.
AppendOverwrites(a) ==
    /\ Goto(a, "append", "done")
    /\ appChildren' = relations[a]
    /\ UNCHANGED <<processVars, appVars, scanVars, mapperVars, cache, lockVars, relations,
                   groupedKinds>>

AppendRelations(a) ==
    /\ Goto(a, "append", "done")
    /\ appChildren' = appChildren \cup relations[a]
    /\ UNCHANGED <<processVars, appVars, scanVars, mapperVars, cache, lockVars, relations,
                   groupedKinds>>

---------------------------------------------------------------------------
(* The CRD informer of mapper m. *)

\* addToResourceList, on an add or a change of the spec.
CrdEvent(m) ==
    /\ main = "spawning"
    /\ m \in informers
    /\ \E crd \in CrdResources[server[m]] :
         resourceLists' = [resourceLists EXCEPT ![m] = @ \cup CrdGvrs(crd)]
    /\ UNCHANGED <<processVars, pc, appVars, scanVars, mapperStore, informers, cache, lockVars,
                   resultVars>>

\* The runtime catches the handler's write during an iteration of the list.
CrdRace(m) ==
    /\ m \in informers
    /\ \E crd \in CrdResources[server[m]] : CrdGvrs(crd) # {}
    /\ \E a \in Apps : pc[a] = "values" /\ scanned[a] = m
    /\ Crash

---------------------------------------------------------------------------

WorkerStep(a) ==
    /\ ~fatal
    /\ \/ ResolveServer(a) \/ ResolveFails(a)
       \/ LookupMapper(a) \/ CreateMapper(a) \/ CreateFails(a)
       \/ StoreMapper(a) \/ StoreDone(a) \/ ConfirmMapper(a)
       \/ FetchManifests(a) \/ FetchManifestsFails(a) \/ CheckCache(a)
       \/ GetClusterSyncLock(a) \/ AcquireLock(a) \/ Recheck(a)
       \/ BeginScan(a) \/ EndValues(a) \/ MergeRelations(a)
       \/ \E gvr \in todo[a] : ListResource(a, gvr) \/ ListResourceFails(a, gvr)
       \/ AddLeaves(a) \/ Unlock(a) \/ Walk(a) \/ AppendRelations(a)

WorkerCrash(a) == ~fatal /\ (ResolvePanics(a) \/ StoreRace(a))

MainStep ==
    /\ ~fatal
    /\ ListApplications \/ ListApplicationsFails \/ (\E a \in Apps : Spawn(a)) \/ Return

InformerStep(m) == ~fatal /\ (CrdEvent(m) \/ CrdRace(m))

Finished == fatal \/ main \in {"returned", "failed"}

Terminated == Finished /\ UNCHANGED vars

Next ==
    \/ MainStep
    \/ \E a \in Apps : WorkerStep(a) \/ WorkerCrash(a) \/ InformerStep(a)
    \/ Terminated

\* Goroutines that can run are scheduled, remote calls answer, and a CRD event
\* need never come.
Fairness ==
    /\ WF_vars(MainStep)
    /\ \A a \in Apps : WF_vars(WorkerStep(a) \/ WorkerCrash(a))

Spec == Init /\ [][Next]_vars /\ Fairness

---------------------------------------------------------------------------
(* Properties. *)

InSync(a) == pc[a] \in {"recheck", "ensure", "values", "list", "leaves", "unlock"}

\* Between Lock and Unlock there is one worker per cluster, whoever created the
\* lock and whatever the other clusters do (backend.go: "only one worker per
\* cluster performs the sync; others wait").
SyncExclusive ==
    \A a, b \in Apps : InSync(a) /\ InSync(b) /\ server[a] = server[b] => a = b

\* No key makes two workers scan the same cluster: what one scan was started
\* for is in the cache, as a parent or as a leaf, before the next is decided on.
NoKeySyncedTwice ==
    \A a, b \in Apps :
        a # b /\ server[a] = server[b] => stillMissing[a] \cap stillMissing[b] = {}

\* Whoever waits for a sync lock waits for a worker that syncs the same cluster
\* and will unlock it: nobody waits for a worker that waits itself, for one that
\* has failed or ended, or for the scan of a different cluster.
NoWaitInVain ==
    \A a \in Apps : pc[a] = "lock" /\ holder[lock[a]] # None =>
        \E b \in Apps \ {a} : InSync(b) /\ server[b] = server[a]

ItemsOf(s, gvrs) == UNION { Received(s, gvr, Len(Pages[s][gvr])) : gvr \in gvrs }

\* What the scans of each cluster show of the discovered kinds, less those that
\* some scan could not list in full; and what all kinds show, those of all CRDs
\* included, on each cluster and on all of them.
ScannedRelation ==
    [s \in Servers |-> ItemsRelation(ItemsOf(s, Discovered(s) \ unlisted[s]))]
WidestRelation == [s \in Servers |-> ItemsRelation(ItemsOf(s, ListableGvrs(s)))]
AnyRelation == ItemsRelation(UNION { ItemsOf(s, ListableGvrs(s)) : s \in Servers })

RootKeys(infos) == { RootKey(i) : i \in infos }

ProbeKeys(a) == { ProbeKey(i) : i \in Manifests[a] }

\* The keys that may get into the cache on behalf of cluster t: parents on its
\* lists, and the direct resources of its applications, as leaves.
EntersFrom(t) ==
    DOMAIN WidestRelation[t]
      \cup UNION { ProbeKeys(a) : a \in { b \in Apps : Candidates(b) = {t} } }

OwnTo(s, key) == \A t \in Servers \ {s} : key \notin EntersFrom(t)

\* What the shared cache needs for the trees to be complete: every application
\* with direct resources has one whose key no other cluster brings into the
\* cache, unless nothing on its own cluster has an owner.
OwnKeys ==
    \A a \in Apps, s \in Servers : Candidates(a) = {s} =>
        \/ Manifests[a] = {}
        \/ \E key \in ProbeKeys(a) : OwnTo(s, key)
        \/ \A i \in ItemsOf(s, Discovered(s)) : ItemEdges(i) = {}

\* What it needs for the trees to hold nothing foreign: what the other clusters
\* show does not lead out of what an application's own cluster leads to.
OthersAddNothing ==
    \A a \in Apps, s \in Servers : Candidates(a) = {s} =>
        ClosedUnder(AnyRelation, Reachable(WidestRelation[s], RootKeys(Manifests[a])))

\* A traversal that has been done reports the direct resources and, with every
\* kind, all the kinds that its cluster's objects declare to be owned by it: the
\* full dependency tree (docs/reference.md).  The cache it reads is shared, and
\* was filled by whichever worker came first.  A list call that fails, or a kind
\* that discovery missed, costs what lists of that kind would have shown, and
\* nothing that other lists have.
DependencyTreeComplete ==
    \A a \in Apps : pc[a] \in {"append", "done"} =>
        /\ RootKeys(direct[a]) \subseteq RootKeys(relations[a])
        /\ ClosedUnder(ScannedRelation[server[a]], RootKeys(relations[a]))

\* Nothing is reported that neither an application's status names nor its
\* cluster's objects, CRDs that arrive during the run included, lead to.
ReportJustified ==
    \A key \in groupedKinds :
        \E a \in Apps :
            \/ key \in MergeResourceInfos({}, Status[a])
            \/ /\ pc[a] = "done"
               /\ key \in Reachable(WidestRelation[server[a]], RootKeys(direct[a]))

\* The kinds that may be reported for an application: those of its status, and
\* those that its manifests lead to on the clusters, taken together since the
\* cache is.
Offer ==
    [a \in Apps |-> MergeResourceInfos({}, Status[a])
                      \cup Reachable(AnyRelation, RootKeys(Manifests[a]))]

Abstract == INSTANCE Analysis WITH
    phase <- IF fatal THEN "failed"
             ELSE IF main = "spawning" THEN "running" ELSE main,
    asked <- IF main \in {"listing", "failed"} THEN {} ELSE Apps,
    collected <- MergeResourceInfos(groupedKinds, appChildren),
    report <- IF main = "returned" THEN groupedKinds ELSE {}

\* The strategy keeps the promise of an analysis: what a worker has contributed
\* is never lost, whatever the others do, and is reported, once.
ImplementsAnalysis == Abstract!Spec

Healthy(a) == \E s \in Servers : Candidates(a) = {s}

\* An application that cannot be analysed does not cost the others their place
\* in the report, nor does a concurrent append: at the end, every application
\* whose destination resolves has its status kinds, its direct resources and
\* its dependents in the result.
HealthyAppsReported ==
    main = "returned" =>
        \A a \in Apps : Healthy(a) =>
            /\ pc[a] = "done"
            /\ RootKeys(Status[a] \cup Manifests[a] \cup relations[a]) \subseteq groupedKinds

\* What one scan has put into the cache, no later scan, complete or cut short
\* by a failing list call, takes out.
CacheOnlyGrows ==
    [][\A p \in DOMAIN cache : p \in DOMAIN cache' /\ cache[p] \subseteq cache'[p]]_vars

\* The execution ends, whichever remote calls fail: no worker keeps a sync lock
\* that another waits for, and a full errgroup always gets a free place.
AnalysisReturns == <>Finished

\* The failure of one application is logged and the execution goes on
\* (backend.go: "Lets not terminate if we encounter an error while processing
\* an application").
AnalysisSurvives == ~fatal

\* A cluster is scanned when the relation of some direct resource is not in the
\* cache (backend.go: "Check if any direct resource is missing in cache").
SyncOnlyWhenMissing ==
    [][\A a \in Apps :
          pc[a] = "recheck" /\ pc'[a] = "ensure" => ~(RootKeys(direct[a]) \subseteq DOMAIN cache)]_vars

=============================================================================
