----------------------- MODULE DynamicAnalysis_proofs ----------------------
(***************************************************************************)
(* Proofs about DynamicAnalysis, for any applications, clusters, manifests *)
(* and faults.  Structure holds the types and what the later invariants    *)
(* need of the program counters: which server a worker works for, that a   *)
(* mapper of the store is one of that server, and that a scan lists only   *)
(* what the cluster can list.                                              *)
(***************************************************************************)
EXTENDS DynamicAnalysis, ResourceGraph_proofs

ServerInv ==
    \A a \in Apps :
        /\ pc[a] \in {"queued", "start"} => server[a] = None
        /\ pc[a] \notin {"queued", "start", "failed"} => server[a] \in Servers

MapperInv ==
    /\ \A s \in Servers : mapperStore[s] # None => server[mapperStore[s]] = s
    /\ \A m \in Apps : \A gvr \in resourceLists[m] :
          server[m] \in Servers /\ gvr \in ListableGvrs(server[m])
    /\ \A m \in informers : server[m] \in Servers

ScanInv ==
    \A a \in Apps : pc[a] \in {"values", "list"} =>
        /\ scanned[a] \in Apps
        /\ server[scanned[a]] = server[a]
        /\ todo[a] \subseteq ListableGvrs(server[a])

Structure == TypeOK /\ ServerInv /\ MapperInv /\ ScanInv

---------------------------------------------------------------------------
(* Types of what the clusters return. *)

LEMMA DiscoveredGvrsType ==
    ASSUME NEW s \in Servers
    PROVE  DiscoveredGvrs(ApiResources[s]) \subseteq Gvr
<1>1. SUFFICES ASSUME NEW gvr \in DiscoveredGvrs(ApiResources[s]) PROVE gvr \in Gvr
  OBVIOUS
<1>2. PICK r \in ApiResources[s] :
        /\ Parses(r.groupVersion)
        /\ gvr = [group |-> GroupOf(r.groupVersion), version |-> VersionOf(r.groupVersion),
                  resource |-> r.name]
  BY <1>1 DEF DiscoveredGvrs
<1>3. r \in ApiResource
  BY ClusterAssumption
<1>4. r.groupVersion \in Seq(Names) /\ r.name \in Names
  BY <1>3 DEF ApiResource, ApiVersion
<1>5. Len(r.groupVersion) = 1 \/ Len(r.groupVersion) = 2
  BY <1>2, <1>4 DEF Parses
<1>6. \A g \in Seq(Names) : Len(g) > 1 => g[1] \in Names
  OBVIOUS
<1>7. GroupOf(r.groupVersion) \in Names \cup {""}
  BY <1>4, <1>6 DEF GroupOf
<1>8. VersionOf(r.groupVersion) \in Names
  BY <1>4, <1>5 DEF VersionOf
<1>9. QED
  BY <1>2, <1>4, <1>7, <1>8 DEF Gvr

LEMMA CrdGvrsType ==
    ASSUME NEW s \in Servers, NEW crd \in CrdResources[s]
    PROVE  CrdGvrs(crd) \subseteq Gvr
<1>1. crd \in Crd
  BY ClusterAssumption
<1>2. /\ crd.group \in Names
      /\ crd.plural \in Names
      /\ crd.versions \subseteq [name : Names, served : BOOLEAN]
  BY <1>1 DEF Crd
<1>3. \A v \in crd.versions : v.name \in Names
  BY <1>2
<1>4. \A v \in crd.versions :
         [group |-> crd.group, version |-> v.name, resource |-> crd.plural] \in Gvr
  BY <1>2, <1>3 DEF Gvr
<1>5. QED
  BY <1>4 DEF CrdGvrs

LEMMA ListableGvrsType ==
    ASSUME NEW s \in Servers
    PROVE  ListableGvrs(s) \subseteq Gvr
BY DiscoveredGvrsType, CrdGvrsType DEF ListableGvrs

\* Discovery, complete or partial, finds nothing that cannot be listed.
LEMMA DiscoveryResultsListable ==
    ASSUME NEW s \in Servers, NEW gvrs \in DiscoveryResults(s)
    PROVE  gvrs \subseteq ListableGvrs(s)
<1>1. PICK part \in SUBSET ApiResources[s] : gvrs = DiscoveredGvrs(part)
  BY DEF DiscoveryResults, Discovered
<1>2. DiscoveredGvrs(part) \subseteq DiscoveredGvrs(ApiResources[s])
  BY DEF DiscoveredGvrs
<1>3. QED
  BY <1>1, <1>2 DEF ListableGvrs

LEMMA ListablePages ==
    ASSUME NEW s \in Servers, NEW gvr \in ListableGvrs(s)
    PROVE  Pages[s][gvr] \in Seq(SUBSET Item) /\ Len(Pages[s][gvr]) \in Nat
BY ClusterAssumption

\* Pages hold items, and so does what a scan receives of them.
LEMMA ReceivedType ==
    ASSUME NEW s \in Servers, NEW gvr \in ListableGvrs(s),
           NEW n \in Nat, n <= Len(Pages[s][gvr])
    PROVE  Received(s, gvr, n) \subseteq Item
<1>1. Pages[s][gvr] \in Seq(SUBSET Item)
  BY ClusterAssumption
<1>2. \A i \in 1..n : Pages[s][gvr][i] \in SUBSET Item
  BY <1>1
<1>3. QED
  BY <1>2 DEF Received

---------------------------------------------------------------------------

LEMMA StructureStep == Structure /\ [Next]_vars => Structure'
<1>. SUFFICES ASSUME Structure, [Next]_vars PROVE Structure'
  OBVIOUS
<1>. USE DEF Structure, TypeOK, ServerInv, MapperInv, ScanInv, Locations, Terminal,
        Goto, Fail, Crash, appVars, processVars, scanVars, mapperVars, lockVars, resultVars
<1>1. CASE ListApplications
  <2>1. UNION { Status[a] : a \in Apps } \in SUBSET Info
    BY ArgoCDAssumption
  <2>2. groupedKinds' \subseteq Key
    BY <1>1, <2>1, MergeResourceInfosType DEF ListApplications
  <2>3. QED
    BY <1>1, <2>2 DEF ListApplications
<1>2. CASE ListApplicationsFails
  BY <1>2, AppsAssumption DEF ListApplicationsFails
<1>3. CASE Return
  <2>1. groupedKinds' \subseteq Key
    BY <1>3, MergeResourceInfosType DEF Return
  <2>2. QED
    BY <1>3, <2>1 DEF Return
<1>4. ASSUME NEW a \in Apps, Spawn(a) PROVE Structure'
  BY <1>4, AppsAssumption DEF Spawn
<1>5. ASSUME NEW a \in Apps, ResolveServer(a) PROVE Structure'
  BY <1>5, AppsAssumption DEF ResolveServer
<1>6. ASSUME NEW a \in Apps, ResolveFails(a) PROVE Structure'
  BY <1>6, AppsAssumption DEF ResolveFails
<1>7. ASSUME NEW a \in Apps, ResolvePanics(a) PROVE Structure'
  BY <1>7, AppsAssumption DEF ResolvePanics
<1>8. ASSUME NEW a \in Apps, LookupMapper(a) PROVE Structure'
  BY <1>8, AppsAssumption DEF LookupMapper
<1>9. ASSUME NEW a \in Apps, CreateMapper(a) PROVE Structure'
  <2>1. server[a] \in Servers
    BY <1>9 DEF CreateMapper
  <2>2. PICK gvrs \in DiscoveryResults(server[a]) :
          resourceLists' = [resourceLists EXCEPT ![a] = gvrs]
    BY <1>9 DEF CreateMapper
  <2>3. gvrs \subseteq ListableGvrs(server[a]) /\ gvrs \subseteq Gvr
    BY <2>1, DiscoveryResultsListable, ListableGvrsType
  <2>4. QED
    BY <1>9, <2>1, <2>2, <2>3, AppsAssumption DEF CreateMapper
<1>10. ASSUME NEW a \in Apps, CreateFails(a) PROVE Structure'
  BY <1>10, AppsAssumption DEF CreateFails
<1>11. ASSUME NEW a \in Apps, StoreMapper(a) PROVE Structure'
  BY <1>11, AppsAssumption DEF StoreMapper
<1>12. ASSUME NEW a \in Apps, StoreDone(a) PROVE Structure'
  BY <1>12, AppsAssumption DEF StoreDone
<1>13. ASSUME NEW a \in Apps, StoreRace(a) PROVE Structure'
  BY <1>13, AppsAssumption DEF StoreRace
<1>14. ASSUME NEW a \in Apps, ConfirmMapper(a) PROVE Structure'
  BY <1>14, AppsAssumption DEF ConfirmMapper
<1>15. ASSUME NEW a \in Apps, FetchManifests(a) PROVE Structure'
  <2>1. Manifests[a] \subseteq Info
    BY ArgoCDAssumption
  <2>2. QED
    BY <1>15, <2>1, AppsAssumption DEF FetchManifests
<1>16. ASSUME NEW a \in Apps, FetchManifestsFails(a) PROVE Structure'
  BY <1>16, AppsAssumption DEF FetchManifestsFails
<1>17. ASSUME NEW a \in Apps, CheckCache(a) PROVE Structure'
  <2>1. { ProbeKey(i) : i \in direct[a] } \ DOMAIN cache \subseteq Key
    BY ResourceKeyType
  <2>2. QED
    BY <1>17, <2>1, AppsAssumption DEF CheckCache
<1>18. ASSUME NEW a \in Apps, GetClusterSyncLock(a) PROVE Structure'
  BY <1>18, AppsAssumption DEF GetClusterSyncLock
<1>19. ASSUME NEW a \in Apps, AcquireLock(a) PROVE Structure'
  BY <1>19, AppsAssumption DEF AcquireLock
<1>20. ASSUME NEW a \in Apps, Recheck(a) PROVE Structure'
  BY <1>20, AppsAssumption DEF Recheck
<1>21. ASSUME NEW a \in Apps, BeginScan(a) PROVE Structure'
  <2>1. server[a] \in Servers
    BY <1>21 DEF BeginScan
  <2>2. Discovered(server[a]) \subseteq Gvr
    BY <2>1, DiscoveredGvrsType DEF Discovered
  <2>3. unlisted' \in [Servers -> SUBSET Gvr]
    BY <1>21, <2>1, <2>2 DEF BeginScan
  <2>4. QED
    BY <1>21, <2>3, AppsAssumption DEF BeginScan
<1>22. ASSUME NEW a \in Apps, EndValues(a) PROVE Structure'
  BY <1>22, AppsAssumption DEF EndValues
<1>23. ASSUME NEW a \in Apps, MergeRelations(a) PROVE Structure'
  <2>1. IsRelation(cache')
    BY <1>23, MergeIntoRelation DEF MergeRelations
  <2>2. rel' = [b \in Apps |-> rel'[b]] /\ \A b \in Apps : IsRelation(rel'[b])
    BY <1>23, EmptyRelationType DEF MergeRelations
  <2>3. QED
    BY <1>23, <2>1, <2>2, AppsAssumption DEF MergeRelations
<1>24. ASSUME NEW a \in Apps, AddLeaves(a) PROVE Structure'
  <2>1. IsRelation([k \in stillMissing[a] |-> {}])
    BY DEF IsRelation
  <2>2. IsRelation(cache')
    BY <1>24, <2>1, MergeIntoRelation DEF AddLeaves
  <2>3. QED
    BY <1>24, <2>2, AppsAssumption DEF AddLeaves
<1>25. ASSUME NEW a \in Apps, Unlock(a) PROVE Structure'
  BY <1>25, AppsAssumption DEF Unlock
<1>26. ASSUME NEW a \in Apps, Walk(a) PROVE Structure'
  <2>1. GetResourceRelation(cache, direct[a]) \subseteq Info
    BY ResourceRelationKeys
  <2>2. QED
    BY <1>26, <2>1, AppsAssumption DEF Walk
<1>27. ASSUME NEW a \in Apps, AppendRelations(a) PROVE Structure'
  BY <1>27, AppsAssumption DEF AppendRelations
<1>28. ASSUME NEW a \in Apps, CrdEvent(a) PROVE Structure'
  <2>1. PICK crd \in CrdResources[server[a]] :
          resourceLists' = [resourceLists EXCEPT ![a] = @ \cup CrdGvrs(crd)]
    BY <1>28 DEF CrdEvent
  <2>2. server[a] \in Servers
    BY <1>28 DEF CrdEvent
  <2>3. CrdGvrs(crd) \subseteq ListableGvrs(server[a]) /\ CrdGvrs(crd) \subseteq Gvr
    BY <2>2, CrdGvrsType DEF ListableGvrs
  <2>4. QED
    BY <1>28, <2>1, <2>2, <2>3 DEF CrdEvent
<1>29. ASSUME NEW a \in Apps, CrdRace(a) PROVE Structure'
  BY <1>29, AppsAssumption DEF CrdRace
<1>30. CASE UNCHANGED vars
  BY <1>30 DEF vars
<1>31. ASSUME NEW a \in Apps, NEW gvr \in todo[a],
             ListResource(a, gvr) \/ ListResourceFails(a, gvr)
      PROVE  Structure'
  <2>1. PICK n : n \in Nat /\ n <= Len(Pages[server[scanned[a]]][gvr]) /\ ListPages(a, gvr, n)
    BY <1>31, ListablePages DEF ListResource, ListResourceFails, ListPages
  <2>2. server[scanned[a]] = server[a] /\ server[a] \in Servers /\ gvr \in ListableGvrs(server[a])
    BY <2>1 DEF ListPages
  <2>3. IsRelation(ItemsRelation(Received(server[scanned[a]], gvr, n)))
    BY <2>1, <2>2, ReceivedType, ItemsRelationEdges
  <2>4. rel' = [b \in Apps |-> rel'[b]] /\ \A b \in Apps : IsRelation(rel'[b])
    BY <2>1, <2>3, MergeIntoRelation DEF ListPages
  <2>5. unlisted' \in [Servers -> SUBSET Gvr]
    BY <1>31, <2>2 DEF ListResource, ListResourceFails
  <2>6. QED
    BY <2>1, <2>4, <2>5, AppsAssumption DEF ListPages
<1>32. QED
  BY <1>1, <1>2, <1>3, <1>4, <1>5, <1>6, <1>7, <1>8, <1>9, <1>10, <1>11, <1>12, <1>13, <1>14,
     <1>15, <1>16, <1>17, <1>18, <1>19, <1>20, <1>21, <1>22, <1>23, <1>24, <1>25, <1>26, <1>27,
     <1>28, <1>29, <1>30, <1>31 DEF Next, MainStep, WorkerStep, WorkerCrash, InformerStep,
     Terminated

LEMMA StructureInvariant == Spec => []Structure
<1>1. Init => Structure
  BY EmptyRelationType, AppsAssumption
     DEF Init, Structure, TypeOK, ServerInv, MapperInv, ScanInv, Locations, Terminal
<1>2. QED
  BY <1>1, StructureStep, PTL DEF Spec

\* Every variable keeps its type, for any number of applications and clusters.
THEOREM TypeCorrect == Spec => []TypeOK
<1>1. Structure => TypeOK
  BY DEF Structure
<1>2. QED
  BY <1>1, StructureInvariant, PTL

---------------------------------------------------------------------------
(* The sync locks.  A worker between Lock and Unlock is the holder of the  *)
(* lock that its cluster has in syncLocks.  A key for which a worker has   *)
(* found the cache lacking is in the cache before the lock is released.    *)

LockInv ==
    \A a \in Apps : pc[a] = "lock" \/ InSync(a) =>
        lock[a] \in Apps /\ lock[a] = syncLocks[server[a]]

HolderInv == \A a \in Apps : InSync(a) => holder[lock[a]] = a

\* A lock is that of one cluster, and is held by nobody but a worker inside it.
HeldInv ==
    /\ \A s \in Servers : syncLocks[s] # None => server[syncLocks[s]] = s
    /\ \A l \in Apps : holder[l] # None => InSync(holder[l]) /\ lock[holder[l]] = l

KeysInv ==
    \A a \in Apps :
        /\ stillMissing[a] # {} =>
             pc[a] \in {"ensure", "values", "list", "leaves", "unlock", "walk", "append", "done"}
        /\ pc[a] \in {"unlock", "walk", "append", "done"} => stillMissing[a] \subseteq DOMAIN cache

SyncInv == LockInv /\ HolderInv /\ HeldInv /\ KeysInv /\ NoKeySyncedTwice

LEMMA SyncStep == Structure /\ SyncInv /\ [Next]_vars => SyncInv'
<1>. SUFFICES ASSUME Structure, SyncInv, [Next]_vars PROVE SyncInv'
  OBVIOUS
<1>. USE DEF Structure, TypeOK, ServerInv, SyncInv, LockInv, HolderInv, HeldInv, KeysInv,
        NoKeySyncedTwice, InSync, Goto, Fail, Crash, appVars, processVars, scanVars, mapperVars,
        lockVars, resultVars
<1>1. CASE ListApplications
  BY <1>1, AppsAssumption DEF ListApplications
<1>2. CASE ListApplicationsFails
  BY <1>2, AppsAssumption DEF ListApplicationsFails
<1>3. CASE Return
  BY <1>3, AppsAssumption DEF Return
<1>4. ASSUME NEW a \in Apps, Spawn(a) PROVE SyncInv'
  BY <1>4, AppsAssumption DEF Spawn
<1>5. ASSUME NEW a \in Apps, ResolveServer(a) PROVE SyncInv'
  BY <1>5, AppsAssumption DEF ResolveServer
<1>6. ASSUME NEW a \in Apps, ResolveFails(a) PROVE SyncInv'
  BY <1>6, AppsAssumption DEF ResolveFails
<1>7. ASSUME NEW a \in Apps, ResolvePanics(a) PROVE SyncInv'
  BY <1>7, AppsAssumption DEF ResolvePanics
<1>8. ASSUME NEW a \in Apps, LookupMapper(a) PROVE SyncInv'
  BY <1>8, AppsAssumption DEF LookupMapper
<1>9. ASSUME NEW a \in Apps, CreateMapper(a) PROVE SyncInv'
  BY <1>9, AppsAssumption DEF CreateMapper
<1>10. ASSUME NEW a \in Apps, CreateFails(a) PROVE SyncInv'
  BY <1>10, AppsAssumption DEF CreateFails
<1>11. ASSUME NEW a \in Apps, StoreMapper(a) PROVE SyncInv'
  BY <1>11, AppsAssumption DEF StoreMapper
<1>12. ASSUME NEW a \in Apps, StoreDone(a) PROVE SyncInv'
  BY <1>12, AppsAssumption DEF StoreDone
<1>13. ASSUME NEW a \in Apps, StoreRace(a) PROVE SyncInv'
  BY <1>13, AppsAssumption DEF StoreRace
<1>14. ASSUME NEW a \in Apps, ConfirmMapper(a) PROVE SyncInv'
  BY <1>14, AppsAssumption DEF ConfirmMapper
<1>15. ASSUME NEW a \in Apps, FetchManifests(a) PROVE SyncInv'
  BY <1>15, AppsAssumption DEF FetchManifests
<1>16. ASSUME NEW a \in Apps, FetchManifestsFails(a) PROVE SyncInv'
  BY <1>16, AppsAssumption DEF FetchManifestsFails
<1>17. ASSUME NEW a \in Apps, CheckCache(a) PROVE SyncInv'
  BY <1>17, AppsAssumption DEF CheckCache
<1>18. ASSUME NEW a \in Apps, GetClusterSyncLock(a) PROVE SyncInv'
  BY <1>18, AppsAssumption DEF GetClusterSyncLock
<1>19. ASSUME NEW a \in Apps, AcquireLock(a) PROVE SyncInv'
  BY <1>19, AppsAssumption DEF AcquireLock
<1>20. ASSUME NEW a \in Apps, Recheck(a) PROVE SyncInv'
  BY <1>20, AppsAssumption DEF Recheck
<1>21. ASSUME NEW a \in Apps, BeginScan(a) PROVE SyncInv'
  BY <1>21, AppsAssumption DEF BeginScan
<1>22. ASSUME NEW a \in Apps, EndValues(a) PROVE SyncInv'
  BY <1>22, AppsAssumption DEF EndValues
<1>23. ASSUME NEW a \in Apps, MergeRelations(a) PROVE SyncInv'
  <2>1. DOMAIN cache \subseteq DOMAIN cache'
    BY <1>23 DEF MergeRelations, MergeInto
  <2>2. QED
    BY <1>23, <2>1, AppsAssumption DEF MergeRelations
<1>24. ASSUME NEW a \in Apps, AddLeaves(a) PROVE SyncInv'
  <2>1. DOMAIN cache' = DOMAIN cache \cup stillMissing[a]
    BY <1>24 DEF AddLeaves, MergeInto
  <2>2. /\ pc[a] = "leaves"
        /\ pc' = [pc EXCEPT ![a] = "unlock"]
        /\ UNCHANGED <<server, stillMissing, lock, syncLocks, holder>>
    BY <1>24 DEF AddLeaves
  <2>3. LockInv' /\ HolderInv' /\ HeldInv' /\ NoKeySyncedTwice'
    BY <2>2
  <2>4. KeysInv'
    <3>1. \A b \in Apps : b # a => pc'[b] = pc[b]
      BY <2>2
    <3>2. pc'[a] = "unlock" /\ stillMissing'[a] \subseteq DOMAIN cache'
      BY <2>1, <2>2
    <3>3. \A b \in Apps : stillMissing'[b] = stillMissing[b]
      BY <2>2
    <3>4. DOMAIN cache \subseteq DOMAIN cache'
      BY <2>1
    <3>5. QED
      BY <3>1, <3>2, <3>3, <3>4
  <2>5. QED
    BY <2>3, <2>4
<1>25. ASSUME NEW a \in Apps, Unlock(a) PROVE SyncInv'
  BY <1>25, AppsAssumption DEF Unlock
<1>26. ASSUME NEW a \in Apps, Walk(a) PROVE SyncInv'
  BY <1>26, AppsAssumption DEF Walk
<1>27. ASSUME NEW a \in Apps, AppendRelations(a) PROVE SyncInv'
  BY <1>27, AppsAssumption DEF AppendRelations
<1>28. ASSUME NEW a \in Apps, CrdEvent(a) PROVE SyncInv'
  BY <1>28, AppsAssumption DEF CrdEvent
<1>29. ASSUME NEW a \in Apps, CrdRace(a) PROVE SyncInv'
  BY <1>29, AppsAssumption DEF CrdRace
<1>30. ASSUME NEW a \in Apps, NEW gvr \in todo[a],
             ListResource(a, gvr) \/ ListResourceFails(a, gvr)
      PROVE  SyncInv'
  BY <1>30, AppsAssumption DEF ListResource, ListResourceFails, ListPages
<1>31. CASE UNCHANGED vars
  BY <1>31 DEF vars
<1>32. QED
  BY <1>1, <1>2, <1>3, <1>4, <1>5, <1>6, <1>7, <1>8, <1>9, <1>10, <1>11, <1>12,
     <1>13, <1>14, <1>15, <1>16, <1>17, <1>18, <1>19, <1>20, <1>21, <1>22, <1>23,
     <1>24, <1>25, <1>26, <1>27, <1>28, <1>29, <1>30, <1>31
     DEF Next, MainStep, WorkerStep, WorkerCrash, InformerStep, Terminated

LEMMA SyncInvariant == Spec => []SyncInv
<1>1. Init => SyncInv
  BY DEF Init, SyncInv, LockInv, HolderInv, HeldInv, KeysInv, NoKeySyncedTwice, InSync
<1>2. QED
  BY <1>1, SyncStep, StructureInvariant, PTL DEF Spec

\* The cluster lock does what backend.go says of it: at most one worker of a
\* cluster is between Lock and Unlock, however many race to create the lock.
THEOREM OneSyncPerCluster == Spec => []SyncExclusive
<1>1. SyncInv => SyncExclusive
  BY DEF SyncInv, LockInv, HolderInv, SyncExclusive
<1>2. QED
  BY <1>1, SyncInvariant, PTL

\* Two workers of a cluster never sync it for the same key: the second look
\* under the lock and the leaves that are added before it is released are
\* enough for that, whatever the scans find and wherever they fail.
THEOREM NoSyncRepeated == Spec => []NoKeySyncedTwice
<1>1. SyncInv => NoKeySyncedTwice
  BY DEF SyncInv
<1>2. QED
  BY <1>1, SyncInvariant, PTL

\* A sync lock cannot deadlock the strategy: who waits for one waits for a scan of
\* its own cluster that is under way, whichever calls fail on the way to it and
\* whoever created the lock.
THEOREM WaitsEnd == Spec => []NoWaitInVain
<1>1. Structure /\ SyncInv => NoWaitInVain
  <2>1. SUFFICES ASSUME Structure, SyncInv,
                        NEW a \in Apps, pc[a] = "lock", holder[lock[a]] # None
        PROVE  \E b \in Apps \ {a} : InSync(b) /\ server[b] = server[a]
    BY DEF NoWaitInVain
  <2>. DEFINE b == holder[lock[a]]
  <2>2. lock[a] \in Apps /\ lock[a] = syncLocks[server[a]] /\ server[a] \in Servers
    BY <2>1 DEF Structure, ServerInv, SyncInv, LockInv
  <2>3. b \in Apps /\ InSync(b) /\ lock[b] = lock[a]
    BY <2>1, <2>2 DEF Structure, TypeOK, SyncInv, HeldInv
  <2>. HIDE DEF b
  <2>4. lock[b] = syncLocks[server[b]] /\ server[b] \in Servers
    <3>1. pc[b] \notin {"queued", "start", "failed"}
      BY <2>3 DEF InSync
    <3>2. server[b] \in Servers
      BY <2>1, <2>3, <3>1 DEF Structure, ServerInv
    <3>3. LockInv
      BY <2>1 DEF SyncInv
    <3>4. QED
      BY <2>3, <3>2, <3>3 DEF LockInv
  <2>5. server[b] = server[a]
    <3>1. lock[a] # None
      BY <2>2, AppsAssumption
    <3>2. HeldInv
      BY <2>1 DEF SyncInv
    <3>3. server[lock[a]] = server[a] /\ server[lock[a]] = server[b]
      BY <2>2, <2>3, <2>4, <3>1, <3>2 DEF HeldInv
    <3>4. QED
      BY <3>3
  <2>6. b # a
    BY <2>1, <2>3 DEF InSync
  <2>7. QED
    BY <2>3, <2>5, <2>6
<1>2. QED
  BY <1>1, StructureInvariant, SyncInvariant, PTL

---------------------------------------------------------------------------
(* The cache. *)

LEMMA MergeKeeps ==
    ASSUME NEW dst, NEW src, NEW p \in DOMAIN dst
    PROVE  p \in DOMAIN MergeInto(dst, src) /\ dst[p] \subseteq MergeInto(dst, src)[p]
BY DEF MergeInto, Children

\* The shared cache never loses an edge or a key, whichever scans overlap on
\* different clusters and wherever they fail.
THEOREM CacheGrows == Spec => CacheOnlyGrows
<1>. DEFINE Kept == \A p \in DOMAIN cache : p \in DOMAIN cache' /\ cache[p] \subseteq cache'[p]
<1>0. UNCHANGED cache => Kept
  OBVIOUS
<1>a. ASSUME [Next]_vars PROVE Kept
  <2>1. CASE UNCHANGED cache
    BY <1>0, <2>1
  <2>2. ASSUME NEW a \in Apps, MergeRelations(a) PROVE Kept
    BY <2>2, MergeKeeps DEF MergeRelations
  <2>3. ASSUME NEW a \in Apps, AddLeaves(a) PROVE Kept
    BY <2>3, MergeKeeps DEF AddLeaves
  <2>4. QED
    BY <1>a, <2>1, <2>2, <2>3 DEF
      Next, MainStep, WorkerStep, WorkerCrash, InformerStep, Terminated, vars, Crash,
      ListApplications, ListApplicationsFails, Return, Spawn, ResolveServer, ResolveFails,
      ResolvePanics, LookupMapper, CreateMapper, CreateFails, StoreMapper, StoreDone, StoreRace,
      ConfirmMapper, FetchManifests, FetchManifestsFails, CheckCache, GetClusterSyncLock,
      AcquireLock, Recheck, BeginScan, EndValues, Unlock, Walk, AppendRelations, CrdEvent,
      CrdRace, ListResource, ListResourceFails, ListPages
<1>. HIDE DEF Kept
<1>1. [Next]_vars => [Kept]_vars
  BY <1>a
<1>2. QED
  BY <1>1, PTL DEF Spec, CacheOnlyGrows, Kept

---------------------------------------------------------------------------
(* Completeness.  The cache is shared, so a worker that finds its keys in  *)
(* it skips the scan of its cluster.  That is right if some of these keys  *)
(* can only have come from its cluster: such a key is in the cache only    *)
(* after a scan of the cluster, and then the cache covers what the scans   *)
(* of the cluster could list.  A scan that cannot list a kind takes this   *)
(* kind away from what is to be covered, for good.                         *)

\* What stands for which cluster: destinations, keys and relations.
EnteredInv ==
    \A a \in Apps :
        /\ server[a] \in Servers => Candidates(a) = {server[a]}
        /\ missing[a] \subseteq ProbeKeys(a) /\ stillMissing[a] \subseteq ProbeKeys(a)
        /\ IF pc[a] = "list" THEN DOMAIN rel[a] \subseteq DOMAIN WidestRelation[server[a]]
                            ELSE rel[a] = EmptyRelation

\* What a worker has not found missing is in the cache, and at the traversal
\* every key of its direct resources is.
ProbedInv ==
    \A a \in Apps :
        /\ pc[a] \in {"check", "walk", "append", "done"} => direct[a] = Manifests[a]
        /\ pc[a] \in {"getlock", "lock", "recheck"} =>
              direct[a] = Manifests[a] /\ ProbeKeys(a) \ missing[a] \subseteq DOMAIN cache
        /\ pc[a] \in {"ensure", "values", "list", "leaves"} =>
              direct[a] = Manifests[a] /\ ProbeKeys(a) \ stillMissing[a] \subseteq DOMAIN cache
        /\ pc[a] = "unlock" => direct[a] = Manifests[a]
        /\ pc[a] \in {"unlock", "walk"} => ProbeKeys(a) \subseteq DOMAIN cache

\* Every edge that the objects of these gvrs give rise to is in the relation.
Covers(relation, s, gvrs) ==
    \A p, c : (\E i \in ItemsOf(s, gvrs) : <<p, c>> \in ItemEdges(i)) => c \in Children(relation, p)

Shown(s) == Discovered(s) \ unlisted[s]

\* What a scan has still to list, it has still to cover.
CoverOf(a) ==
    /\ pc[a] = "values" => Shown(server[a]) \subseteq todo[a]
    /\ pc[a] = "list" => Covers(rel[a], server[a], Shown(server[a]) \ todo[a])
    /\ pc[a] = "leaves" => Covers(cache, server[a], Shown(server[a]))

CacheCovers ==
    \A s \in Servers : (\E key \in DOMAIN cache : OwnTo(s, key)) => Covers(cache, s, Shown(s))

CoverInv == CacheCovers /\ \A a \in Apps : CoverOf(a)

CompleteInv == CoverInv /\ DependencyTreeComplete

SoleCluster == \E s \in Servers : Servers = {s}

\* The first pages of a list show no parent that the cluster does not show.
LEMMA ReceivedDomain ==
    ASSUME NEW s \in Servers, NEW gvr \in ListableGvrs(s),
           NEW n \in Nat, n <= Len(Pages[s][gvr])
    PROVE  DOMAIN ItemsRelation(Received(s, gvr, n)) \subseteq DOMAIN WidestRelation[s]
<1>1. 1..n \subseteq 1..Len(Pages[s][gvr])
  BY ListablePages
<1>2. Received(s, gvr, n) \subseteq ItemsOf(s, ListableGvrs(s))
  BY <1>1 DEF Received, ItemsOf
<1>3. QED
  BY <1>2, ItemsRelationGrows DEF WidestRelation

\* A relation that covers some kinds covers fewer kinds.
LEMMA FewerCovered ==
    ASSUME NEW relation, NEW s, NEW gvrs, NEW fewer \in SUBSET gvrs, Covers(relation, s, gvrs)
    PROVE  Covers(relation, s, fewer)
BY DEF Covers, ItemsOf

LEMMA MergeCovers ==
    ASSUME NEW dst, NEW src, IsRelation(dst), IsRelation(src), NEW s, NEW gvrs,
           Covers(dst, s, gvrs) \/ Covers(src, s, gvrs)
    PROVE  Covers(MergeInto(dst, src), s, gvrs)
<1>1. \A p : Children(MergeInto(dst, src), p) = Children(dst, p) \cup Children(src, p)
  BY DEF MergeInto, Children
<1>2. QED
  BY <1>1 DEF Covers

\* Listing one more gvr to its last page covers that gvr too.
LEMMA ListCovers ==
    ASSUME NEW s \in Servers, NEW relation, IsRelation(relation), NEW gvr \in ListableGvrs(s),
           NEW all, NEW left, Covers(relation, s, all \ left)
    PROVE  Covers(MergeInto(relation, ItemsRelation(Received(s, gvr, Len(Pages[s][gvr])))),
                  s, all \ (left \ {gvr}))
<1>. DEFINE items == Received(s, gvr, Len(Pages[s][gvr]))
<1>1. items \subseteq Item
  BY ListablePages, ReceivedType
<1>2. ItemsOf(s, all \ (left \ {gvr})) \subseteq ItemsOf(s, all \ left) \cup items
  BY DEF ItemsOf
<1>. HIDE DEF items
<1>3. IsRelation(ItemsRelation(items))
  BY <1>1, ItemsRelationEdges
<1>4. \A p : Children(MergeInto(relation, ItemsRelation(items)), p)
               = Children(relation, p) \cup Children(ItemsRelation(items), p)
  BY DEF MergeInto, Children
<1>5. \A p, c : c \in Children(ItemsRelation(items), p)
                  <=> \E i \in items : <<p, c>> \in ItemEdges(i)
  BY <1>1, ItemsRelationEdges
<1>6. Covers(MergeInto(relation, ItemsRelation(items)), s, all \ (left \ {gvr}))
  BY <1>2, <1>4, <1>5 DEF Covers
<1>7. QED
  BY <1>6 DEF items

\* The discovered kinds are kinds that can be listed, and so are fewer of them.
LEMMA ShownItems ==
    ASSUME NEW s \in Servers, NEW gvrs \in SUBSET Discovered(s)
    PROVE  ItemsOf(s, gvrs) \subseteq Item
<1>1. SUFFICES ASSUME NEW gvr \in gvrs
      PROVE  Received(s, gvr, Len(Pages[s][gvr])) \subseteq Item
  BY DEF ItemsOf
<1>2. gvr \in ListableGvrs(s)
  BY DEF Discovered, ListableGvrs
<1>3. QED
  BY <1>2, ListablePages, ReceivedType

\* What is closed under the relation of some kinds is closed under that of fewer.
LEMMA FewerClosed ==
    ASSUME NEW s \in Servers, NEW gvrs \in SUBSET Discovered(s), NEW fewer \in SUBSET gvrs,
           NEW keys, ClosedUnder(ItemsRelation(ItemsOf(s, gvrs)), keys)
    PROVE  ClosedUnder(ItemsRelation(ItemsOf(s, fewer)), keys)
<1>1. ItemsOf(s, gvrs) \subseteq Item /\ ItemsOf(s, fewer) \subseteq Item
  BY ShownItems
<1>2. ItemsOf(s, fewer) \subseteq ItemsOf(s, gvrs)
  BY DEF ItemsOf
<1>3. \A p : Children(ItemsRelation(ItemsOf(s, fewer)), p)
               \subseteq Children(ItemsRelation(ItemsOf(s, gvrs)), p)
  BY <1>1, <1>2, ItemsRelationEdges
<1>4. QED
  BY <1>3 DEF ClosedUnder

\* What a worker finds that starts from a cache which covers its cluster.
LEMMA WalkCovers ==
    ASSUME NEW s \in Servers, NEW gvrs \in SUBSET Discovered(s),
           NEW relation, IsRelation(relation), NEW infos \in SUBSET Info,
           infos = {} \/ Covers(relation, s, gvrs)
    PROVE  /\ RootKeys(infos) \subseteq RootKeys(GetResourceRelation(relation, infos))
           /\ ClosedUnder(ItemsRelation(ItemsOf(s, gvrs)),
                          RootKeys(GetResourceRelation(relation, infos)))
<1>. DEFINE R == Reachable(relation, RootKeys(infos))
<1>1. RootKeys(GetResourceRelation(relation, infos)) = R
  BY ResourceRelationKeys DEF RootKeys
<1>2. RootKeys(infos) \subseteq R /\ ClosedUnder(relation, R)
  BY ReachableIsLeastClosure
<1>3. infos = {} => R = {}
  <2>1. ClosedUnder(relation, {})
    BY DEF ClosedUnder
  <2>2. infos = {} => RootKeys(infos) \subseteq {}
    BY DEF RootKeys
  <2>3. QED
    BY <2>1, <2>2, ReachableIsLeastClosure
<1>. DEFINE items == ItemsOf(s, gvrs)
<1>4. items \subseteq Item
  BY ShownItems
<1>. HIDE DEF R, items
<1>5. ASSUME infos # {} PROVE ClosedUnder(ItemsRelation(items), R)
  <2>1. SUFFICES ASSUME NEW p \in R, NEW c \in Children(ItemsRelation(items), p) PROVE c \in R
    BY DEF ClosedUnder
  <2>2. \E i \in items : <<p, c>> \in ItemEdges(i)
    BY <1>4, ItemsRelationEdges
  <2>3. c \in Children(relation, p)
    BY <1>5, <2>2 DEF Covers, items
  <2>4. QED
    BY <1>2, <2>3 DEF ClosedUnder
<1>6. ClosedUnder(ItemsRelation(items), {})
  BY DEF ClosedUnder
<1>7. QED
  BY <1>1, <1>2, <1>3, <1>5, <1>6 DEF items

LEMMA CoverStep == Structure /\ EnteredInv /\ CoverInv /\ [Next]_vars => CoverInv'
<1>. SUFFICES ASSUME Structure, EnteredInv, CoverInv, [Next]_vars PROVE CoverInv'
  OBVIOUS
<1>. USE DEF Structure, TypeOK, ServerInv, ScanInv, Goto, Fail, Crash, appVars, processVars,
        scanVars, mapperVars, lockVars, resultVars,
        CoverInv, CoverOf, CacheCovers, Shown
<1>1. CASE ListApplications
  BY <1>1, AppsAssumption DEF ListApplications
<1>2. CASE ListApplicationsFails
  BY <1>2, AppsAssumption DEF ListApplicationsFails
<1>3. CASE Return
  BY <1>3, AppsAssumption DEF Return
<1>4. ASSUME NEW a \in Apps, Spawn(a) PROVE CoverInv'
  BY <1>4, AppsAssumption DEF Spawn
<1>5. ASSUME NEW a \in Apps, ResolveServer(a) PROVE CoverInv'
  <2>1. \A b \in Apps : pc'[b] \in {"values", "list", "leaves"} =>
          pc'[b] = pc[b] /\ server'[b] = server[b]
    BY <1>5 DEF ResolveServer
  <2>2. UNCHANGED <<cache, rel, todo, unlisted>>
    BY <1>5 DEF ResolveServer
  <2>3. QED
    BY <2>1, <2>2
<1>6. ASSUME NEW a \in Apps, ResolveFails(a) PROVE CoverInv'
  BY <1>6, AppsAssumption DEF ResolveFails
<1>7. ASSUME NEW a \in Apps, ResolvePanics(a) PROVE CoverInv'
  BY <1>7, AppsAssumption DEF ResolvePanics
<1>8. ASSUME NEW a \in Apps, LookupMapper(a) PROVE CoverInv'
  BY <1>8, AppsAssumption DEF LookupMapper
<1>9. ASSUME NEW a \in Apps, CreateMapper(a) PROVE CoverInv'
  <2>1. \A b \in Apps : pc'[b] \in {"values", "list", "leaves"} => pc'[b] = pc[b]
    BY <1>9 DEF CreateMapper
  <2>2. UNCHANGED <<cache, rel, todo, server, unlisted>>
    BY <1>9 DEF CreateMapper
  <2>3. QED
    BY <2>1, <2>2
<1>10. ASSUME NEW a \in Apps, CreateFails(a) PROVE CoverInv'
  BY <1>10, AppsAssumption DEF CreateFails
<1>11. ASSUME NEW a \in Apps, StoreMapper(a) PROVE CoverInv'
  BY <1>11, AppsAssumption DEF StoreMapper
<1>12. ASSUME NEW a \in Apps, StoreDone(a) PROVE CoverInv'
  BY <1>12, AppsAssumption DEF StoreDone
<1>13. ASSUME NEW a \in Apps, StoreRace(a) PROVE CoverInv'
  BY <1>13, AppsAssumption DEF StoreRace
<1>14. ASSUME NEW a \in Apps, ConfirmMapper(a) PROVE CoverInv'
  BY <1>14, AppsAssumption DEF ConfirmMapper
<1>15. ASSUME NEW a \in Apps, FetchManifests(a) PROVE CoverInv'
  BY <1>15, AppsAssumption DEF FetchManifests
<1>16. ASSUME NEW a \in Apps, FetchManifestsFails(a) PROVE CoverInv'
  BY <1>16, AppsAssumption DEF FetchManifestsFails
<1>17. ASSUME NEW a \in Apps, CheckCache(a) PROVE CoverInv'
  BY <1>17, AppsAssumption DEF CheckCache
<1>18. ASSUME NEW a \in Apps, GetClusterSyncLock(a) PROVE CoverInv'
  BY <1>18, AppsAssumption DEF GetClusterSyncLock
<1>19. ASSUME NEW a \in Apps, AcquireLock(a) PROVE CoverInv'
  BY <1>19, AppsAssumption DEF AcquireLock
<1>20. ASSUME NEW a \in Apps, Recheck(a) PROVE CoverInv'
  BY <1>20, AppsAssumption DEF Recheck
<1>21. ASSUME NEW a \in Apps, BeginScan(a) PROVE CoverInv'
  <2>. DEFINE mapper == mapperStore[server[a]]
              gvrs == IF mapper = None THEN {} ELSE resourceLists[mapper]
  <2>1. /\ pc[a] = "ensure"
        /\ pc' = [pc EXCEPT ![a] = IF mapper = None THEN "leaves" ELSE "values"]
        /\ todo' = [todo EXCEPT ![a] = gvrs]
        /\ unlisted' = [unlisted EXCEPT ![server[a]] = @ \cup (Discovered(server[a]) \ gvrs)]
        /\ UNCHANGED <<server, cache, rel>>
        /\ server[a] \in Servers
    BY <1>21 DEF BeginScan
  <2>. HIDE DEF mapper, gvrs
  <2>2. Shown(server[a])' \subseteq gvrs
    BY <2>1
  <2>3. \A s \in Servers : Shown(s)' \subseteq Shown(s)
    BY <2>1
  <2>4. CacheCovers'
    <3>1. \A s \in Servers : Covers(cache, s, Shown(s)) => Covers(cache, s, Shown(s)')
      BY <2>3, FewerCovered
    <3>2. QED
      BY <2>1, <3>1
  <2>5. CoverOf(a)'
    <3>1. mapper = None => Covers(cache, server[a], Shown(server[a])')
      BY <2>2 DEF gvrs, Covers, ItemsOf
    <3>2. QED
      BY <2>1, <2>2, <3>1
  <2>6. ASSUME NEW b \in Apps, b # a PROVE CoverOf(b)'
    <3>1. pc'[b] = pc[b] /\ todo'[b] = todo[b] /\ server'[b] = server[b] /\ rel'[b] = rel[b]
      BY <2>1, <2>6
    <3>2. ASSUME pc[b] \in {"values", "list", "leaves"} PROVE CoverOf(b)'
      <4>1. server[b] \in Servers
        BY <3>2
      <4>2. Shown(server[b])' \subseteq Shown(server[b])
        BY <2>1, <2>3, <4>1
      <4>3. Covers(rel[b], server[b], Shown(server[b]) \ todo[b])
              => Covers(rel[b], server[b], Shown(server[b])' \ todo[b])
        BY <4>2, FewerCovered
      <4>4. Covers(cache, server[b], Shown(server[b]))
              => Covers(cache, server[b], Shown(server[b])')
        BY <4>2, FewerCovered
      <4>5. QED
        BY <2>1, <3>1, <4>2, <4>3, <4>4
    <3>3. QED
      BY <3>1, <3>2
  <2>7. QED
    BY <2>4, <2>5, <2>6
<1>22. ASSUME NEW a \in Apps, EndValues(a) PROVE CoverInv'
  <2>1. PICK added : todo' = [todo EXCEPT ![a] = @ \cup added]
    BY <1>22 DEF EndValues
  <2>2. /\ pc[a] = "values" /\ pc' = [pc EXCEPT ![a] = "list"]
        /\ UNCHANGED <<cache, rel, server, unlisted>>
    BY <1>22 DEF EndValues
  <2>3. Shown(server[a]) \ todo'[a] = {}
    BY <2>1, <2>2
  <2>4. Covers(rel[a], server[a], {})
    BY DEF Covers, ItemsOf
  <2>5. CoverOf(a)'
    BY <2>2, <2>3, <2>4
  <2>6. ASSUME NEW b \in Apps, b # a PROVE CoverOf(b)'
    BY <2>1, <2>2, <2>6
  <2>7. CacheCovers'
    BY <2>2
  <2>8. QED
    BY <2>5, <2>6, <2>7
<1>23. ASSUME NEW a \in Apps, MergeRelations(a) PROVE CoverInv'
  <2>1. /\ pc[a] = "list" /\ todo[a] = {} /\ pc' = [pc EXCEPT ![a] = "leaves"]
        /\ rel' = [rel EXCEPT ![a] = EmptyRelation]
        /\ UNCHANGED <<server, todo, unlisted>>
        /\ server[a] \in Servers
    BY <1>23 DEF MergeRelations
  <2>2. cache' = MergeInto(cache, rel[a]) /\ IsRelation(cache) /\ IsRelation(rel[a])
    BY <1>23 DEF MergeRelations
  <2>3. Covers(rel[a], server[a], Shown(server[a]))
    <3>1. Shown(server[a]) \ todo[a] = Shown(server[a])
      BY <2>1
    <3>2. QED
      BY <2>1, <3>1
  <2>4. Covers(cache', server[a], Shown(server[a]))
    BY <2>2, <2>3, MergeCovers
  <2>5. CoverOf(a)'
    BY <2>1, <2>4
  <2>6. ASSUME NEW b \in Apps, b # a PROVE CoverOf(b)'
    <3>1. pc'[b] = pc[b] /\ rel'[b] = rel[b]
      BY <2>1, <2>6
    <3>2. Covers(cache, server[b], Shown(server[b])) => Covers(cache', server[b], Shown(server[b]))
      BY <2>2, MergeCovers
    <3>3. QED
      BY <2>1, <3>1, <3>2
  <2>7. DOMAIN cache' \subseteq DOMAIN cache \cup EntersFrom(server[a])
    <3>1. DOMAIN rel[a] \subseteq EntersFrom(server[a])
      BY <2>1 DEF EnteredInv, EntersFrom
    <3>2. QED
      BY <2>2, <3>1 DEF MergeInto
  <2>8. CacheCovers'
    <3>1. SUFFICES ASSUME NEW s \in Servers, NEW key \in DOMAIN cache', OwnTo(s, key)
          PROVE  Covers(cache', s, Shown(s))
      BY <2>1
    <3>2. CASE s = server[a]
      BY <2>4, <3>2
    <3>3. CASE s # server[a]
      <4>1. key \notin EntersFrom(server[a])
        BY <2>1, <3>1, <3>3 DEF OwnTo
      <4>2. key \in DOMAIN cache
        BY <2>7, <4>1
      <4>3. Covers(cache, s, Shown(s))
        BY <3>1, <4>2
      <4>4. QED
        BY <2>2, <4>3, MergeCovers
    <3>4. QED
      BY <3>2, <3>3
  <2>9. QED
    BY <2>5, <2>6, <2>8
<1>24. ASSUME NEW a \in Apps, AddLeaves(a) PROVE CoverInv'
  <2>1. /\ pc[a] = "leaves" /\ pc' = [pc EXCEPT ![a] = "unlock"]
        /\ UNCHANGED <<server, todo, rel, unlisted>>
        /\ server[a] \in Servers
    BY <1>24 DEF AddLeaves
  <2>2. cache' = MergeInto(cache, [k \in stillMissing[a] |-> {}]) /\ IsRelation(cache)
    BY <1>24 DEF AddLeaves
  <2>3. IsRelation([k \in stillMissing[a] |-> {}])
    BY DEF IsRelation
  <2>4. Covers(cache', server[a], Shown(server[a]))
    BY <2>1, <2>2, <2>3, MergeCovers
  <2>5. CoverOf(a)'
    BY <2>1
  <2>6. ASSUME NEW b \in Apps, b # a PROVE CoverOf(b)'
    <3>1. pc'[b] = pc[b] /\ rel'[b] = rel[b]
      BY <2>1, <2>6
    <3>2. Covers(cache, server[b], Shown(server[b])) => Covers(cache', server[b], Shown(server[b]))
      BY <2>2, <2>3, MergeCovers
    <3>3. QED
      BY <2>1, <3>1, <3>2
  <2>7. DOMAIN cache' \subseteq DOMAIN cache \cup EntersFrom(server[a])
    <3>1. ProbeKeys(a) \subseteq EntersFrom(server[a])
      BY <2>1 DEF EnteredInv, EntersFrom
    <3>2. stillMissing[a] \subseteq ProbeKeys(a)
      BY DEF EnteredInv
    <3>3. QED
      BY <2>2, <3>1, <3>2 DEF MergeInto
  <2>8. CacheCovers'
    <3>1. SUFFICES ASSUME NEW s \in Servers, NEW key \in DOMAIN cache', OwnTo(s, key)
          PROVE  Covers(cache', s, Shown(s))
      BY <2>1
    <3>2. CASE s = server[a]
      BY <2>4, <3>2
    <3>3. CASE s # server[a]
      <4>1. key \notin EntersFrom(server[a])
        BY <2>1, <3>1, <3>3 DEF OwnTo
      <4>2. key \in DOMAIN cache
        BY <2>7, <4>1
      <4>3. Covers(cache, s, Shown(s))
        BY <3>1, <4>2
      <4>4. QED
        BY <2>2, <2>3, <4>3, MergeCovers
    <3>4. QED
      BY <3>2, <3>3
  <2>9. QED
    BY <2>5, <2>6, <2>8
<1>25. ASSUME NEW a \in Apps, Unlock(a) PROVE CoverInv'
  BY <1>25, AppsAssumption DEF Unlock
<1>26. ASSUME NEW a \in Apps, Walk(a) PROVE CoverInv'
  BY <1>26, AppsAssumption DEF Walk
<1>27. ASSUME NEW a \in Apps, AppendRelations(a) PROVE CoverInv'
  BY <1>27, AppsAssumption DEF AppendRelations
<1>28. ASSUME NEW a \in Apps, CrdEvent(a) PROVE CoverInv'
  BY <1>28, AppsAssumption DEF CrdEvent
<1>29. ASSUME NEW a \in Apps, CrdRace(a) PROVE CoverInv'
  BY <1>29, AppsAssumption DEF CrdRace
<1>30. ASSUME NEW a \in Apps, NEW gvr \in todo[a],
             ListResource(a, gvr) \/ ListResourceFails(a, gvr)
      PROVE  CoverInv'
  <2>1. /\ pc[a] = "list" /\ pc' = pc /\ UNCHANGED <<server, cache>>
        /\ server[scanned[a]] = server[a] /\ server[a] \in Servers
        /\ gvr \in ListableGvrs(server[a])
        /\ IsRelation(rel[a])
        /\ todo' = [todo EXCEPT ![a] = @ \ {gvr}]
        /\ \A b \in Apps : b # a => rel'[b] = rel[b] /\ todo'[b] = todo[b]
    BY <1>30 DEF ListResource, ListResourceFails, ListPages
  <2>2. Covers(rel[a], server[a], Shown(server[a]) \ todo[a])
    BY <2>1
  <2>3. CASE ListResource(a, gvr)
    <3>1. /\ rel'[a] = MergeInto(rel[a], ItemsRelation(
                           Received(server[a], gvr, Len(Pages[server[a]][gvr]))))
          /\ UNCHANGED unlisted
      BY <2>1, <2>3 DEF ListResource, ListPages
    <3>. HIDE DEF Shown
    <3>2. Covers(rel'[a], server[a], Shown(server[a]) \ (todo[a] \ {gvr}))
      <4>1. Covers(MergeInto(rel[a], ItemsRelation(
                     Received(server[a], gvr, Len(Pages[server[a]][gvr])))),
                   server[a], Shown(server[a]) \ (todo[a] \ {gvr}))
        BY <2>1, <2>2, ListCovers, Zenon
      <4>2. QED
        BY <3>1, <4>1
    <3>3. todo'[a] = todo[a] \ {gvr}
      BY <2>1
    <3>4. QED
      BY <2>1, <3>1, <3>2, <3>3 DEF Shown
  <2>4. CASE ListResourceFails(a, gvr)
    <3>1. PICK n \in 0 .. Len(Pages[server[scanned[a]]][gvr]) - 1 : ListPages(a, gvr, n)
      BY <2>4 DEF ListResourceFails
    <3>. DEFINE read == ItemsRelation(Received(server[a], gvr, n))
    <3>2. n \in Nat /\ n <= Len(Pages[server[a]][gvr])
      BY <2>1, <3>1, ListablePages
    <3>3. IsRelation(read)
      BY <2>1, <3>2, ReceivedType, ItemsRelationEdges
    <3>. HIDE DEF read
    <3>4. rel'[a] = MergeInto(rel[a], read)
      BY <2>1, <3>1 DEF ListPages, read
    <3>5. unlisted' = [unlisted EXCEPT ![server[a]] = @ \cup {gvr}]
      BY <2>1, <2>4 DEF ListResourceFails
    <3>6. \A s \in Servers : Shown(s)' \subseteq Shown(s)
      BY <3>5
    <3>7. Shown(server[a])' \ todo'[a] \subseteq Shown(server[a]) \ todo[a]
      BY <2>1, <3>5
    <3>8. CacheCovers'
      <4>1. \A s \in Servers : Covers(cache, s, Shown(s)) => Covers(cache, s, Shown(s)')
        BY <3>6, FewerCovered
      <4>2. QED
        BY <2>1, <4>1
    <3>9. CoverOf(a)'
      <4>1. Covers(rel'[a], server[a], Shown(server[a]) \ todo[a])
        BY <2>1, <2>2, <3>3, <3>4, MergeCovers
      <4>2. Covers(rel'[a], server[a], Shown(server[a])' \ todo'[a])
        BY <3>7, <4>1, FewerCovered
      <4>3. QED
        BY <2>1, <4>2
    <3>10. ASSUME NEW b \in Apps, b # a PROVE CoverOf(b)'
      <4>1. pc'[b] = pc[b] /\ todo'[b] = todo[b] /\ server'[b] = server[b] /\ rel'[b] = rel[b]
        BY <2>1, <3>10
      <4>2. ASSUME pc[b] \in {"values", "list", "leaves"} PROVE CoverOf(b)'
        <5>1. server[b] \in Servers
          BY <4>2
        <5>2. Shown(server[b])' \subseteq Shown(server[b])
          BY <2>1, <3>6, <5>1
        <5>3. Covers(rel[b], server[b], Shown(server[b]) \ todo[b])
                => Covers(rel[b], server[b], Shown(server[b])' \ todo[b])
          BY <5>2, FewerCovered
        <5>4. Covers(cache, server[b], Shown(server[b]))
                => Covers(cache, server[b], Shown(server[b])')
          BY <5>2, FewerCovered
        <5>5. QED
          BY <2>1, <4>1, <5>2, <5>3, <5>4
      <4>3. QED
        BY <4>1, <4>2
    <3>11. QED
      BY <3>8, <3>9, <3>10
  <2>5. QED
    BY <1>30, <2>3, <2>4
<1>31. CASE UNCHANGED vars
  BY <1>31 DEF vars
<1>32. QED
  BY <1>1, <1>2, <1>3, <1>4, <1>5, <1>6, <1>7, <1>8, <1>9, <1>10, <1>11, <1>12,
     <1>13, <1>14, <1>15, <1>16, <1>17, <1>18, <1>19, <1>20, <1>21, <1>22, <1>23,
     <1>24, <1>25, <1>26, <1>27, <1>28, <1>29, <1>30, <1>31
     DEF Next, MainStep, WorkerStep, WorkerCrash, InformerStep, Terminated

LEMMA EnteredStep == Structure /\ EnteredInv /\ ProbedInv /\ [Next]_vars => EnteredInv'
<1>. SUFFICES ASSUME Structure, EnteredInv, ProbedInv, [Next]_vars PROVE EnteredInv'
  OBVIOUS
<1>. USE DEF Structure, TypeOK, ServerInv, Goto, Fail, Crash, appVars, processVars,
        scanVars, mapperVars, lockVars, resultVars,
        EnteredInv
<1>1. CASE ListApplications
  BY <1>1, AppsAssumption DEF ListApplications
<1>2. CASE ListApplicationsFails
  BY <1>2, AppsAssumption DEF ListApplicationsFails
<1>3. CASE Return
  BY <1>3, AppsAssumption DEF Return
<1>4. ASSUME NEW a \in Apps, Spawn(a) PROVE EnteredInv'
  BY <1>4, AppsAssumption DEF Spawn
<1>5. ASSUME NEW a \in Apps, ResolveServer(a) PROVE EnteredInv'
  BY <1>5, AppsAssumption DEF ResolveServer
<1>6. ASSUME NEW a \in Apps, ResolveFails(a) PROVE EnteredInv'
  BY <1>6, AppsAssumption DEF ResolveFails
<1>7. ASSUME NEW a \in Apps, ResolvePanics(a) PROVE EnteredInv'
  BY <1>7, AppsAssumption DEF ResolvePanics
<1>8. ASSUME NEW a \in Apps, LookupMapper(a) PROVE EnteredInv'
  BY <1>8, AppsAssumption DEF LookupMapper
<1>9. ASSUME NEW a \in Apps, CreateMapper(a) PROVE EnteredInv'
  BY <1>9, AppsAssumption DEF CreateMapper
<1>10. ASSUME NEW a \in Apps, CreateFails(a) PROVE EnteredInv'
  BY <1>10, AppsAssumption DEF CreateFails
<1>11. ASSUME NEW a \in Apps, StoreMapper(a) PROVE EnteredInv'
  BY <1>11, AppsAssumption DEF StoreMapper
<1>12. ASSUME NEW a \in Apps, StoreDone(a) PROVE EnteredInv'
  BY <1>12, AppsAssumption DEF StoreDone
<1>13. ASSUME NEW a \in Apps, StoreRace(a) PROVE EnteredInv'
  BY <1>13, AppsAssumption DEF StoreRace
<1>14. ASSUME NEW a \in Apps, ConfirmMapper(a) PROVE EnteredInv'
  BY <1>14, AppsAssumption DEF ConfirmMapper
<1>15. ASSUME NEW a \in Apps, FetchManifests(a) PROVE EnteredInv'
  BY <1>15, AppsAssumption DEF FetchManifests
<1>16. ASSUME NEW a \in Apps, FetchManifestsFails(a) PROVE EnteredInv'
  BY <1>16, AppsAssumption DEF FetchManifestsFails
<1>17. ASSUME NEW a \in Apps, CheckCache(a) PROVE EnteredInv'
  <2>1. direct[a] = Manifests[a]
    BY <1>17 DEF CheckCache, ProbedInv
  <2>2. { ProbeKey(i) : i \in direct[a] } \ DOMAIN cache \subseteq ProbeKeys(a)
    BY <2>1 DEF ProbeKeys
  <2>3. QED
    BY <1>17, <2>2, AppsAssumption DEF CheckCache
<1>18. ASSUME NEW a \in Apps, GetClusterSyncLock(a) PROVE EnteredInv'
  BY <1>18, AppsAssumption DEF GetClusterSyncLock
<1>19. ASSUME NEW a \in Apps, AcquireLock(a) PROVE EnteredInv'
  BY <1>19, AppsAssumption DEF AcquireLock
<1>20. ASSUME NEW a \in Apps, Recheck(a) PROVE EnteredInv'
  BY <1>20, AppsAssumption DEF Recheck
<1>21. ASSUME NEW a \in Apps, BeginScan(a) PROVE EnteredInv'
  BY <1>21, AppsAssumption DEF BeginScan
<1>22. ASSUME NEW a \in Apps, EndValues(a) PROVE EnteredInv'
  <2>1. DOMAIN rel[a] = {}
    BY <1>22 DEF EndValues, EmptyRelation
  <2>2. QED
    BY <1>22, <2>1, AppsAssumption DEF EndValues
<1>23. ASSUME NEW a \in Apps, MergeRelations(a) PROVE EnteredInv'
  BY <1>23, AppsAssumption DEF MergeRelations
<1>24. ASSUME NEW a \in Apps, AddLeaves(a) PROVE EnteredInv'
  BY <1>24, AppsAssumption DEF AddLeaves
<1>25. ASSUME NEW a \in Apps, Unlock(a) PROVE EnteredInv'
  BY <1>25, AppsAssumption DEF Unlock
<1>26. ASSUME NEW a \in Apps, Walk(a) PROVE EnteredInv'
  BY <1>26, AppsAssumption DEF Walk
<1>27. ASSUME NEW a \in Apps, AppendRelations(a) PROVE EnteredInv'
  BY <1>27, AppsAssumption DEF AppendRelations
<1>28. ASSUME NEW a \in Apps, CrdEvent(a) PROVE EnteredInv'
  BY <1>28, AppsAssumption DEF CrdEvent
<1>29. ASSUME NEW a \in Apps, CrdRace(a) PROVE EnteredInv'
  BY <1>29, AppsAssumption DEF CrdRace
<1>30. ASSUME NEW a \in Apps, NEW gvr \in todo[a],
             ListResource(a, gvr) \/ ListResourceFails(a, gvr)
      PROVE  EnteredInv'
  <2>1. PICK n : n \in Nat /\ n <= Len(Pages[server[scanned[a]]][gvr]) /\ ListPages(a, gvr, n)
    BY <1>30, ListablePages DEF ListResource, ListResourceFails, ListPages, ScanInv
  <2>2. server[scanned[a]] = server[a] /\ server[a] \in Servers /\ gvr \in ListableGvrs(server[a])
    BY <2>1 DEF ListPages, ScanInv
  <2>3. DOMAIN ItemsRelation(Received(server[a], gvr, n)) \subseteq DOMAIN WidestRelation[server[a]]
    BY <2>1, <2>2, ReceivedDomain
  <2>4. DOMAIN rel'[a] = DOMAIN rel[a] \cup DOMAIN ItemsRelation(Received(server[a], gvr, n))
    BY <2>1, <2>2 DEF ListPages, MergeInto
  <2>5. /\ pc' = pc /\ pc[a] = "list"
        /\ UNCHANGED <<server, missing, stillMissing>>
        /\ \A b \in Apps : b # a => rel'[b] = rel[b]
    BY <2>1 DEF ListPages
  <2>6. QED
    BY <2>3, <2>4, <2>5
<1>31. CASE UNCHANGED vars
  BY <1>31 DEF vars
<1>32. QED
  BY <1>1, <1>2, <1>3, <1>4, <1>5, <1>6, <1>7, <1>8, <1>9, <1>10, <1>11, <1>12,
     <1>13, <1>14, <1>15, <1>16, <1>17, <1>18, <1>19, <1>20, <1>21, <1>22, <1>23,
     <1>24, <1>25, <1>26, <1>27, <1>28, <1>29, <1>30, <1>31
     DEF Next, MainStep, WorkerStep, WorkerCrash, InformerStep, Terminated

LEMMA ProbedStep == Structure /\ EnteredInv /\ ProbedInv /\ [Next]_vars => ProbedInv'
<1>. SUFFICES ASSUME Structure, EnteredInv, ProbedInv, [Next]_vars PROVE ProbedInv'
  OBVIOUS
<1>. USE DEF Structure, TypeOK, ServerInv, Goto, Fail, Crash, appVars, processVars,
        scanVars, mapperVars, lockVars, resultVars,
        ProbedInv
<1>1. CASE ListApplications
  BY <1>1, AppsAssumption DEF ListApplications
<1>2. CASE ListApplicationsFails
  BY <1>2, AppsAssumption DEF ListApplicationsFails
<1>3. CASE Return
  BY <1>3, AppsAssumption DEF Return
<1>4. ASSUME NEW a \in Apps, Spawn(a) PROVE ProbedInv'
  BY <1>4, AppsAssumption DEF Spawn
<1>5. ASSUME NEW a \in Apps, ResolveServer(a) PROVE ProbedInv'
  BY <1>5, AppsAssumption DEF ResolveServer
<1>6. ASSUME NEW a \in Apps, ResolveFails(a) PROVE ProbedInv'
  BY <1>6, AppsAssumption DEF ResolveFails
<1>7. ASSUME NEW a \in Apps, ResolvePanics(a) PROVE ProbedInv'
  BY <1>7, AppsAssumption DEF ResolvePanics
<1>8. ASSUME NEW a \in Apps, LookupMapper(a) PROVE ProbedInv'
  BY <1>8, AppsAssumption DEF LookupMapper
<1>9. ASSUME NEW a \in Apps, CreateMapper(a) PROVE ProbedInv'
  BY <1>9, AppsAssumption DEF CreateMapper
<1>10. ASSUME NEW a \in Apps, CreateFails(a) PROVE ProbedInv'
  BY <1>10, AppsAssumption DEF CreateFails
<1>11. ASSUME NEW a \in Apps, StoreMapper(a) PROVE ProbedInv'
  BY <1>11, AppsAssumption DEF StoreMapper
<1>12. ASSUME NEW a \in Apps, StoreDone(a) PROVE ProbedInv'
  BY <1>12, AppsAssumption DEF StoreDone
<1>13. ASSUME NEW a \in Apps, StoreRace(a) PROVE ProbedInv'
  BY <1>13, AppsAssumption DEF StoreRace
<1>14. ASSUME NEW a \in Apps, ConfirmMapper(a) PROVE ProbedInv'
  BY <1>14, AppsAssumption DEF ConfirmMapper
<1>15. ASSUME NEW a \in Apps, FetchManifests(a) PROVE ProbedInv'
  BY <1>15, AppsAssumption DEF FetchManifests
<1>16. ASSUME NEW a \in Apps, FetchManifestsFails(a) PROVE ProbedInv'
  BY <1>16, AppsAssumption DEF FetchManifestsFails
<1>17. ASSUME NEW a \in Apps, CheckCache(a) PROVE ProbedInv'
  <2>1. direct[a] = Manifests[a]
    BY <1>17 DEF CheckCache
  <2>2. { ProbeKey(i) : i \in direct[a] } \ DOMAIN cache = ProbeKeys(a) \ DOMAIN cache
    BY <2>1 DEF ProbeKeys
  <2>3. QED
    BY <1>17, <2>1, <2>2, AppsAssumption DEF CheckCache
<1>18. ASSUME NEW a \in Apps, GetClusterSyncLock(a) PROVE ProbedInv'
  BY <1>18, AppsAssumption DEF GetClusterSyncLock
<1>19. ASSUME NEW a \in Apps, AcquireLock(a) PROVE ProbedInv'
  BY <1>19, AppsAssumption DEF AcquireLock
<1>20. ASSUME NEW a \in Apps, Recheck(a) PROVE ProbedInv'
  BY <1>20, AppsAssumption DEF Recheck
<1>21. ASSUME NEW a \in Apps, BeginScan(a) PROVE ProbedInv'
  BY <1>21, AppsAssumption DEF BeginScan
<1>22. ASSUME NEW a \in Apps, EndValues(a) PROVE ProbedInv'
  BY <1>22, AppsAssumption DEF EndValues
<1>23. ASSUME NEW a \in Apps, MergeRelations(a) PROVE ProbedInv'
  <2>1. DOMAIN cache \subseteq DOMAIN cache'
    BY <1>23 DEF MergeRelations, MergeInto
  <2>2. QED
    BY <1>23, <2>1, AppsAssumption DEF MergeRelations
<1>24. ASSUME NEW a \in Apps, AddLeaves(a) PROVE ProbedInv'
  <2>1. DOMAIN cache' = DOMAIN cache \cup stillMissing[a]
    BY <1>24 DEF AddLeaves, MergeInto
  <2>2. /\ pc[a] = "leaves" /\ pc' = [pc EXCEPT ![a] = "unlock"]
        /\ UNCHANGED <<missing, stillMissing, direct>>
    BY <1>24 DEF AddLeaves
  <2>3. ProbeKeys(a) \subseteq DOMAIN cache' /\ DOMAIN cache \subseteq DOMAIN cache'
    BY <2>1, <2>2
  <2>4. \A b \in Apps : b # a => pc'[b] = pc[b]
    BY <2>2
  <2>5. pc'[a] = "unlock"
    BY <2>2
  <2>6. QED
    BY <2>2, <2>3, <2>4, <2>5
<1>25. ASSUME NEW a \in Apps, Unlock(a) PROVE ProbedInv'
  BY <1>25, AppsAssumption DEF Unlock
<1>26. ASSUME NEW a \in Apps, Walk(a) PROVE ProbedInv'
  BY <1>26, AppsAssumption DEF Walk
<1>27. ASSUME NEW a \in Apps, AppendRelations(a) PROVE ProbedInv'
  BY <1>27, AppsAssumption DEF AppendRelations
<1>28. ASSUME NEW a \in Apps, CrdEvent(a) PROVE ProbedInv'
  BY <1>28, AppsAssumption DEF CrdEvent
<1>29. ASSUME NEW a \in Apps, CrdRace(a) PROVE ProbedInv'
  BY <1>29, AppsAssumption DEF CrdRace
<1>30. ASSUME NEW a \in Apps, NEW gvr \in todo[a],
             ListResource(a, gvr) \/ ListResourceFails(a, gvr)
      PROVE  ProbedInv'
  BY <1>30, AppsAssumption DEF ListResource, ListResourceFails, ListPages
<1>31. CASE UNCHANGED vars
  BY <1>31 DEF vars
<1>32. QED
  BY <1>1, <1>2, <1>3, <1>4, <1>5, <1>6, <1>7, <1>8, <1>9, <1>10, <1>11, <1>12,
     <1>13, <1>14, <1>15, <1>16, <1>17, <1>18, <1>19, <1>20, <1>21, <1>22, <1>23,
     <1>24, <1>25, <1>26, <1>27, <1>28, <1>29, <1>30, <1>31
     DEF Next, MainStep, WorkerStep, WorkerCrash, InformerStep, Terminated

LEMMA KeysInvariant == Spec => [](EnteredInv /\ ProbedInv)
<1>1. Init => EnteredInv /\ ProbedInv
  BY AppsAssumption DEF Init, EnteredInv, ProbedInv
<1>2. Structure /\ EnteredInv /\ ProbedInv /\ [Next]_vars => (EnteredInv /\ ProbedInv)'
  BY EnteredStep, ProbedStep
<1>3. QED
  BY <1>1, <1>2, StructureInvariant, PTL DEF Spec

\* Whatever a step but Walk does, it leaves alone what the traversals have found.
LEMMA WalkedKept ==
    ASSUME Structure, [Next]_vars, \A a \in Apps : ~Walk(a)
    PROVE  /\ \A b \in Apps : pc'[b] \in {"append", "done"} =>
                 /\ pc[b] \in {"append", "done"}
                 /\ direct'[b] = direct[b] /\ relations'[b] = relations[b]
                 /\ server'[b] = server[b] /\ server[b] \in Servers
           /\ \A s \in Servers : Shown(s)' \subseteq Shown(s)
<1>. DEFINE Kept == /\ \A b \in Apps : pc'[b] \in {"append", "done"} =>
                         /\ pc[b] \in {"append", "done"}
                         /\ direct'[b] = direct[b] /\ relations'[b] = relations[b]
                         /\ server'[b] = server[b] /\ server[b] \in Servers
                   /\ \A s \in Servers : Shown(s)' \subseteq Shown(s)
<1>. SUFFICES Kept
  OBVIOUS
<1>. USE DEF Structure, TypeOK, ServerInv, Goto, Fail, Crash, appVars, processVars,
        scanVars, mapperVars, lockVars, resultVars,
        Shown
<1>1. CASE ListApplications
  BY <1>1, AppsAssumption DEF ListApplications
<1>2. CASE ListApplicationsFails
  BY <1>2, AppsAssumption DEF ListApplicationsFails
<1>3. CASE Return
  BY <1>3, AppsAssumption DEF Return
<1>4. ASSUME NEW a \in Apps, Spawn(a) PROVE Kept
  BY <1>4, AppsAssumption DEF Spawn
<1>5. ASSUME NEW a \in Apps, ResolveServer(a) PROVE Kept
  BY <1>5, AppsAssumption DEF ResolveServer
<1>6. ASSUME NEW a \in Apps, ResolveFails(a) PROVE Kept
  BY <1>6, AppsAssumption DEF ResolveFails
<1>7. ASSUME NEW a \in Apps, ResolvePanics(a) PROVE Kept
  BY <1>7, AppsAssumption DEF ResolvePanics
<1>8. ASSUME NEW a \in Apps, LookupMapper(a) PROVE Kept
  BY <1>8, AppsAssumption DEF LookupMapper
<1>9. ASSUME NEW a \in Apps, CreateMapper(a) PROVE Kept
  BY <1>9, AppsAssumption DEF CreateMapper
<1>10. ASSUME NEW a \in Apps, CreateFails(a) PROVE Kept
  BY <1>10, AppsAssumption DEF CreateFails
<1>11. ASSUME NEW a \in Apps, StoreMapper(a) PROVE Kept
  BY <1>11, AppsAssumption DEF StoreMapper
<1>12. ASSUME NEW a \in Apps, StoreDone(a) PROVE Kept
  BY <1>12, AppsAssumption DEF StoreDone
<1>13. ASSUME NEW a \in Apps, StoreRace(a) PROVE Kept
  BY <1>13, AppsAssumption DEF StoreRace
<1>14. ASSUME NEW a \in Apps, ConfirmMapper(a) PROVE Kept
  BY <1>14, AppsAssumption DEF ConfirmMapper
<1>15. ASSUME NEW a \in Apps, FetchManifests(a) PROVE Kept
  BY <1>15, AppsAssumption DEF FetchManifests
<1>16. ASSUME NEW a \in Apps, FetchManifestsFails(a) PROVE Kept
  BY <1>16, AppsAssumption DEF FetchManifestsFails
<1>17. ASSUME NEW a \in Apps, CheckCache(a) PROVE Kept
  BY <1>17, AppsAssumption DEF CheckCache
<1>18. ASSUME NEW a \in Apps, GetClusterSyncLock(a) PROVE Kept
  BY <1>18, AppsAssumption DEF GetClusterSyncLock
<1>19. ASSUME NEW a \in Apps, AcquireLock(a) PROVE Kept
  BY <1>19, AppsAssumption DEF AcquireLock
<1>20. ASSUME NEW a \in Apps, Recheck(a) PROVE Kept
  BY <1>20, AppsAssumption DEF Recheck
<1>21. ASSUME NEW a \in Apps, BeginScan(a) PROVE Kept
  BY <1>21, AppsAssumption DEF BeginScan
<1>22. ASSUME NEW a \in Apps, EndValues(a) PROVE Kept
  BY <1>22, AppsAssumption DEF EndValues
<1>23. ASSUME NEW a \in Apps, MergeRelations(a) PROVE Kept
  BY <1>23, AppsAssumption DEF MergeRelations
<1>24. ASSUME NEW a \in Apps, AddLeaves(a) PROVE Kept
  BY <1>24, AppsAssumption DEF AddLeaves
<1>25. ASSUME NEW a \in Apps, Unlock(a) PROVE Kept
  BY <1>25, AppsAssumption DEF Unlock
<1>26. ASSUME NEW a \in Apps, Walk(a) PROVE Kept
  BY <1>26
<1>27. ASSUME NEW a \in Apps, AppendRelations(a) PROVE Kept
  BY <1>27, AppsAssumption DEF AppendRelations
<1>28. ASSUME NEW a \in Apps, CrdEvent(a) PROVE Kept
  BY <1>28, AppsAssumption DEF CrdEvent
<1>29. ASSUME NEW a \in Apps, CrdRace(a) PROVE Kept
  BY <1>29, AppsAssumption DEF CrdRace
<1>30. ASSUME NEW a \in Apps, NEW gvr \in todo[a],
             ListResource(a, gvr) \/ ListResourceFails(a, gvr)
      PROVE  Kept
  BY <1>30, AppsAssumption DEF ListResource, ListResourceFails, ListPages
<1>31. CASE UNCHANGED vars
  BY <1>31 DEF vars
<1>32. QED
  BY <1>1, <1>2, <1>3, <1>4, <1>5, <1>6, <1>7, <1>8, <1>9, <1>10, <1>11, <1>12,
     <1>13, <1>14, <1>15, <1>16, <1>17, <1>18, <1>19, <1>20, <1>21, <1>22, <1>23,
     <1>24, <1>25, <1>26, <1>27, <1>28, <1>29, <1>30, <1>31
     DEF Next, MainStep, WorkerStep, WorkerCrash, InformerStep, Terminated

LEMMA TreeStep ==
    ASSUME OwnKeys
    PROVE  Structure /\ EnteredInv /\ ProbedInv /\ CompleteInv /\ [Next]_vars
             => DependencyTreeComplete'
<1>. SUFFICES ASSUME Structure, EnteredInv, ProbedInv, CompleteInv, [Next]_vars
     PROVE  DependencyTreeComplete'
  OBVIOUS
<1>. USE DEF CompleteInv
<1>1. ASSUME NEW a \in Apps, Walk(a) PROVE DependencyTreeComplete'
  <2>. USE DEF Structure, TypeOK, ServerInv, Goto, appVars, scanVars
  <2>1. /\ pc[a] = "walk" /\ pc' = [pc EXCEPT ![a] = "append"]
        /\ UNCHANGED <<server, direct, unlisted>>
        /\ server[a] \in Servers /\ IsRelation(cache) /\ direct[a] \subseteq Info
    BY <1>1 DEF Walk
  <2>2. relations' = [relations EXCEPT ![a] = GetResourceRelation(cache, direct[a])]
    BY <1>1 DEF Walk
  <2>3. /\ RootKeys(direct[a]) \subseteq RootKeys(relations'[a])
        /\ ClosedUnder(ItemsRelation(ItemsOf(server[a], Shown(server[a]))), RootKeys(relations'[a]))
    <3>1. direct[a] = Manifests[a] /\ ProbeKeys(a) \subseteq DOMAIN cache
      BY <2>1 DEF ProbedInv
    <3>2. Candidates(a) = {server[a]}
      BY <2>1 DEF EnteredInv
    <3>3. CASE \E key \in ProbeKeys(a) : OwnTo(server[a], key)
      <4>1. Covers(cache, server[a], Shown(server[a]))
        BY <2>1, <3>1, <3>3 DEF CoverInv, CacheCovers
      <4>2. QED
        BY <2>1, <2>2, <4>1, WalkCovers DEF Shown
    <3>4. CASE Manifests[a] = {}
      BY <2>1, <2>2, <3>1, <3>4, WalkCovers DEF Shown
    <3>5. CASE \A i \in ItemsOf(server[a], Discovered(server[a])) : ItemEdges(i) = {}
      <4>1. Covers(cache, server[a], Shown(server[a]))
        BY <3>5 DEF Covers, ItemsOf, Shown
      <4>2. QED
        BY <2>1, <2>2, <4>1, WalkCovers DEF Shown
    <3>6. QED
      BY <2>1, <3>2, <3>3, <3>4, <3>5 DEF OwnKeys
  <2>4. ASSUME NEW b \in Apps, pc'[b] \in {"append", "done"}, b # a
        PROVE  pc[b] = pc'[b] /\ relations'[b] = relations[b]
    BY <2>1, <2>2, <2>4
  <2>5. QED
    BY <2>1, <2>3, <2>4 DEF DependencyTreeComplete, ScannedRelation, Shown
<1>2. ASSUME \A a \in Apps : ~Walk(a) PROVE DependencyTreeComplete'
  <2>1. SUFFICES ASSUME NEW b \in Apps, pc'[b] \in {"append", "done"}
        PROVE  /\ RootKeys(direct[b])' \subseteq RootKeys(relations[b])'
               /\ ClosedUnder(ScannedRelation[server[b]], RootKeys(relations[b]))'
    BY DEF DependencyTreeComplete
  <2>2. /\ pc[b] \in {"append", "done"}
        /\ direct'[b] = direct[b] /\ relations'[b] = relations[b] /\ server'[b] = server[b]
        /\ server[b] \in Servers
        /\ Shown(server[b])' \subseteq Shown(server[b])
    BY <1>2, <2>1, WalkedKept
  <2>3. /\ RootKeys(direct[b]) \subseteq RootKeys(relations[b])
        /\ ClosedUnder(ItemsRelation(ItemsOf(server[b], Shown(server[b]))), RootKeys(relations[b]))
    BY <2>2 DEF DependencyTreeComplete, ScannedRelation, Shown
  <2>4. ClosedUnder(ItemsRelation(ItemsOf(server[b], Shown(server[b])')), RootKeys(relations[b]))
    BY <2>2, <2>3, FewerClosed DEF Shown
  <2>5. QED
    BY <2>2, <2>3, <2>4 DEF ScannedRelation, Shown, RootKeys
<1>3. QED
  BY <1>1, <1>2

\* Every application's traversal reports its full dependency tree, although it
\* mostly reads what another application's worker has scanned, and whichever
\* calls fail, as long as every application has a direct resource whose key no
\* other cluster brings into the cache: a kind that was not discovered or not
\* listed costs what its own lists would have shown.  Where two clusters run
\* the same kinds only, this fails, as the run dyn_two_clusters shows.
THEOREM CompleteWithOwnKeys ==
    ASSUME OwnKeys
    PROVE  Spec => []DependencyTreeComplete
<1>1. Init => CompleteInv
  BY AppsAssumption
     DEF Init, CompleteInv, CoverInv, CacheCovers, CoverOf, DependencyTreeComplete, EmptyRelation
<1>2. Structure /\ EnteredInv /\ ProbedInv /\ CompleteInv /\ [Next]_vars => CompleteInv'
  BY CoverStep, TreeStep DEF CompleteInv
<1>3. CompleteInv => DependencyTreeComplete
  BY DEF CompleteInv
<1>4. QED
  BY <1>1, <1>2, <1>3, StructureInvariant, KeysInvariant, PTL DEF Spec

\* With one destination cluster, which is the usual installation, this is so for
\* any applications.
THEOREM SingleClusterComplete ==
    ASSUME SoleCluster
    PROVE  Spec => []DependencyTreeComplete
<1>1. ASSUME NEW a \in Apps, NEW s \in Servers, Manifests[a] # {}
      PROVE  \E key \in ProbeKeys(a) : OwnTo(s, key)
  <2>1. PICK i \in Manifests[a] : ProbeKey(i) \in ProbeKeys(a)
    BY <1>1 DEF ProbeKeys
  <2>2. Servers \ {s} = {}
    BY DEF SoleCluster
  <2>3. QED
    BY <2>1, <2>2 DEF OwnTo
<1>2. OwnKeys
  BY <1>1 DEF OwnKeys
<1>3. QED
  BY <1>2, CompleteWithOwnKeys

=============================================================================
