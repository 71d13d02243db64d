------------------------ MODULE DynamicReport_proofs -----------------------
(***************************************************************************)
(* What the dynamic strategy reports, for any applications, clusters,      *)
(* manifests and faults: nothing without a reason, everything of the       *)
(* applications that can be analysed, and, as a whole, what Analysis       *)
(* promises.  Provenance follows every key from the lists of the clusters  *)
(* through the relations of the scans, the shared cache, the traversals    *)
(* and the appended children to the result.                                *)
(***************************************************************************)
EXTENDS DynamicAnalysis_proofs, FiniteSetTheorems

\* Before the list there is no work, and after it is over there is none left.
PhaseInv ==
    /\ main \in {"listing", "failed"} =>
          /\ \A a \in Apps : pc[a] = "queued"
          /\ appChildren = {} /\ groupedKinds = {}
    /\ main = "returned" => \A a \in Apps : pc[a] \in Terminal

\* Every edge of the relation is one of AnyRelation.
Shows(relation) == \A p : Children(relation, p) \subseteq Children(AnyRelation, p)

Provenance ==
    /\ \A a \in Apps : direct[a] \subseteq Manifests[a]
    /\ Shows(cache) /\ \A a \in Apps : Shows(rel[a])
    /\ \A a \in Apps : pc[a] \in {"append", "done"} =>
          RootKeys(relations[a]) \subseteq Reachable(AnyRelation, RootKeys(direct[a]))
    /\ \A i \in appChildren : \E a \in Apps : pc[a] = "done" /\ i \in relations[a]
    /\ \A key \in groupedKinds :
          \/ \E a \in Apps : key \in RootKeys(Status[a])
          \/ key \in RootKeys(appChildren)

ReportInv == PhaseInv /\ Provenance

---------------------------------------------------------------------------

LEMMA MergedKeys ==
    ASSUME NEW grouped, NEW infos
    PROVE  MergeResourceInfos(grouped, infos) = grouped \cup RootKeys(infos)
BY DEF MergeResourceInfos, RootKeys, RootKey

LEMMA AllItems == \A s \in Servers : ItemsOf(s, ListableGvrs(s)) \subseteq Item
BY ListablePages, ReceivedType DEF ItemsOf

LEMMA AnyRelationEdges ==
    /\ IsRelation(AnyRelation)
    /\ \A p, c : c \in Children(AnyRelation, p)
          <=> \E i \in UNION { ItemsOf(s, ListableGvrs(s)) : s \in Servers } :
                 <<p, c>> \in ItemEdges(i)
<1>. DEFINE items == UNION { ItemsOf(s, ListableGvrs(s)) : s \in Servers }
<1>1. items \subseteq Item
  BY AllItems
<1>. HIDE DEF items
<1>2. /\ IsRelation(ItemsRelation(items))
      /\ \A p, c : c \in Children(ItemsRelation(items), p)
                      <=> \E i \in items : <<p, c>> \in ItemEdges(i)
  BY <1>1, ItemsRelationEdges
<1>3. QED
  BY <1>2 DEF items, AnyRelation

\* What a scan receives shows edges of AnyRelation only, however few pages it reads.
LEMMA ReceivedShows ==
    ASSUME NEW s \in Servers, NEW gvr \in ListableGvrs(s), NEW n \in Nat,
           n <= Len(Pages[s][gvr])
    PROVE  /\ IsRelation(ItemsRelation(Received(s, gvr, n)))
           /\ Shows(ItemsRelation(Received(s, gvr, n)))
<1>. DEFINE items == Received(s, gvr, n)
            any == UNION { ItemsOf(r, ListableGvrs(r)) : r \in Servers }
<1>1. items \subseteq Item
  BY ReceivedType
<1>2. items \subseteq Received(s, gvr, Len(Pages[s][gvr]))
  <2>1. 1..n \subseteq 1..Len(Pages[s][gvr])
    BY ListablePages
  <2>2. QED
    BY <2>1 DEF Received
<1>3. items \subseteq any
  BY <1>2 DEF ItemsOf
<1>. HIDE DEF items, any
<1>4. /\ IsRelation(ItemsRelation(items))
      /\ \A p, c : c \in Children(ItemsRelation(items), p)
                      <=> \E i \in items : <<p, c>> \in ItemEdges(i)
  BY <1>1, ItemsRelationEdges
<1>5. \A p, c : c \in Children(ItemsRelation(items), p) => c \in Children(AnyRelation, p)
  BY <1>3, <1>4, AnyRelationEdges DEF any
<1>6. QED
  BY <1>4, <1>5 DEF Shows, items

LEMMA MergeShows ==
    ASSUME NEW dst, NEW src, IsRelation(dst), IsRelation(src), Shows(dst), Shows(src)
    PROVE  Shows(MergeInto(dst, src))
<1>1. \A p : Children(MergeInto(dst, src), p) = Children(dst, p) \cup Children(src, p)
  BY DEF MergeInto, Children
<1>2. SUFFICES ASSUME NEW p
      PROVE  Children(MergeInto(dst, src), p) \subseteq Children(AnyRelation, p)
  BY DEF Shows
<1>3. Children(dst, p) \subseteq Children(AnyRelation, p)
  BY DEF Shows
<1>4. Children(src, p) \subseteq Children(AnyRelation, p)
  BY DEF Shows
<1>5. QED
  BY <1>1, <1>3, <1>4

\* A traversal of a relation that shows no other edges reaches no other keys.
LEMMA ShownReach ==
    ASSUME NEW relation, IsRelation(relation), Shows(relation), NEW infos \in SUBSET Info
    PROVE  RootKeys(GetResourceRelation(relation, infos))
             \subseteq Reachable(AnyRelation, RootKeys(infos))
<1>. DEFINE R == Reachable(AnyRelation, RootKeys(infos))
<1>1. RootKeys(GetResourceRelation(relation, infos)) = Reachable(relation, RootKeys(infos))
  BY ResourceRelationKeys DEF RootKeys
<1>2. RootKeys(infos) \subseteq R /\ ClosedUnder(AnyRelation, R)
  BY AnyRelationEdges, ReachableIsLeastClosure
<1>. HIDE DEF R
<1>3. ClosedUnder(relation, R)
  BY <1>2 DEF ClosedUnder, Shows
<1>4. Reachable(relation, RootKeys(infos)) \subseteq R
  BY <1>2, <1>3, ReachableIsLeastClosure
<1>5. QED
  BY <1>1, <1>4 DEF R

---------------------------------------------------------------------------

LEMMA PhaseStep == Structure /\ PhaseInv /\ [Next]_vars => PhaseInv'
<1>. SUFFICES ASSUME Structure, PhaseInv, [Next]_vars PROVE PhaseInv'
  OBVIOUS
<1>. USE DEF Structure, TypeOK, PhaseInv, Terminal, Goto, Fail, Crash, appVars,
        processVars, scanVars, mapperVars, lockVars, resultVars
<1>1. CASE ListApplications
  BY <1>1, AppsAssumption DEF ListApplications
<1>2. CASE ListApplicationsFails
  BY <1>2, AppsAssumption DEF ListApplicationsFails
<1>3. CASE Return
  BY <1>3, AppsAssumption DEF Return
<1>4. ASSUME NEW a \in Apps, Spawn(a) PROVE PhaseInv'
  BY <1>4, AppsAssumption DEF Spawn
<1>5. ASSUME NEW a \in Apps, ResolveServer(a) PROVE PhaseInv'
  BY <1>5, AppsAssumption DEF ResolveServer
<1>6. ASSUME NEW a \in Apps, ResolveFails(a) PROVE PhaseInv'
  BY <1>6, AppsAssumption DEF ResolveFails
<1>7. ASSUME NEW a \in Apps, ResolvePanics(a) PROVE PhaseInv'
  BY <1>7, AppsAssumption DEF ResolvePanics
<1>8. ASSUME NEW a \in Apps, LookupMapper(a) PROVE PhaseInv'
  BY <1>8, AppsAssumption DEF LookupMapper
<1>9. ASSUME NEW a \in Apps, CreateMapper(a) PROVE PhaseInv'
  BY <1>9, AppsAssumption DEF CreateMapper
<1>10. ASSUME NEW a \in Apps, CreateFails(a) PROVE PhaseInv'
  BY <1>10, AppsAssumption DEF CreateFails
<1>11. ASSUME NEW a \in Apps, StoreMapper(a) PROVE PhaseInv'
  BY <1>11, AppsAssumption DEF StoreMapper
<1>12. ASSUME NEW a \in Apps, StoreDone(a) PROVE PhaseInv'
  BY <1>12, AppsAssumption DEF StoreDone
<1>13. ASSUME NEW a \in Apps, StoreRace(a) PROVE PhaseInv'
  BY <1>13, AppsAssumption DEF StoreRace
<1>14. ASSUME NEW a \in Apps, ConfirmMapper(a) PROVE PhaseInv'
  BY <1>14, AppsAssumption DEF ConfirmMapper
<1>15. ASSUME NEW a \in Apps, FetchManifests(a) PROVE PhaseInv'
  BY <1>15, AppsAssumption DEF FetchManifests
<1>16. ASSUME NEW a \in Apps, FetchManifestsFails(a) PROVE PhaseInv'
  BY <1>16, AppsAssumption DEF FetchManifestsFails
<1>17. ASSUME NEW a \in Apps, CheckCache(a) PROVE PhaseInv'
  BY <1>17, AppsAssumption DEF CheckCache
<1>18. ASSUME NEW a \in Apps, GetClusterSyncLock(a) PROVE PhaseInv'
  BY <1>18, AppsAssumption DEF GetClusterSyncLock
<1>19. ASSUME NEW a \in Apps, AcquireLock(a) PROVE PhaseInv'
  BY <1>19, AppsAssumption DEF AcquireLock
<1>20. ASSUME NEW a \in Apps, Recheck(a) PROVE PhaseInv'
  BY <1>20, AppsAssumption DEF Recheck
<1>21. ASSUME NEW a \in Apps, BeginScan(a) PROVE PhaseInv'
  BY <1>21, AppsAssumption DEF BeginScan
<1>22. ASSUME NEW a \in Apps, EndValues(a) PROVE PhaseInv'
  BY <1>22, AppsAssumption DEF EndValues
<1>23. ASSUME NEW a \in Apps, MergeRelations(a) PROVE PhaseInv'
  BY <1>23, AppsAssumption DEF MergeRelations
<1>24. ASSUME NEW a \in Apps, AddLeaves(a) PROVE PhaseInv'
  BY <1>24, AppsAssumption DEF AddLeaves
<1>25. ASSUME NEW a \in Apps, Unlock(a) PROVE PhaseInv'
  BY <1>25, AppsAssumption DEF Unlock
<1>26. ASSUME NEW a \in Apps, Walk(a) PROVE PhaseInv'
  BY <1>26, AppsAssumption DEF Walk
<1>27. ASSUME NEW a \in Apps, AppendRelations(a) PROVE PhaseInv'
  BY <1>27, AppsAssumption DEF AppendRelations
<1>28. ASSUME NEW a \in Apps, CrdEvent(a) PROVE PhaseInv'
  BY <1>28, AppsAssumption DEF CrdEvent
<1>29. ASSUME NEW a \in Apps, CrdRace(a) PROVE PhaseInv'
  BY <1>29, AppsAssumption DEF CrdRace
<1>30. ASSUME NEW a \in Apps, NEW gvr \in todo[a],
             ListResource(a, gvr) \/ ListResourceFails(a, gvr)
      PROVE  PhaseInv'
  BY <1>30, AppsAssumption DEF ListResource, ListResourceFails, ListPages
<1>31. CASE UNCHANGED vars
  BY <1>31 DEF vars
<1>32. QED
  BY <1>1, <1>2, <1>3, <1>4, <1>5, <1>6, <1>7, <1>8, <1>9, <1>10, <1>11, <1>12,
     <1>13, <1>14, <1>15, <1>16, <1>17, <1>18, <1>19, <1>20, <1>21, <1>22, <1>23,
     <1>24, <1>25, <1>26, <1>27, <1>28, <1>29, <1>30, <1>31
     DEF Next, MainStep, WorkerStep, WorkerCrash, InformerStep, Terminated

LEMMA ProvenanceStep == Structure /\ Provenance /\ [Next]_vars => Provenance'
<1>. SUFFICES ASSUME Structure, Provenance, [Next]_vars PROVE Provenance'
  OBVIOUS
<1>. USE DEF Structure, TypeOK, ServerInv, ScanInv, Provenance, Goto, Fail, Crash, appVars,
        processVars, scanVars, mapperVars, lockVars, resultVars
<1>1. CASE ListApplications
  <2>1. groupedKinds' = RootKeys(UNION { Status[a] : a \in Apps })
    BY <1>1, MergedKeys DEF ListApplications
  <2>2. \A key \in groupedKinds' : \E a \in Apps : key \in RootKeys(Status[a])
    BY <2>1 DEF RootKeys
  <2>3. QED
    BY <1>1, <2>2 DEF ListApplications
<1>2. CASE ListApplicationsFails
  BY <1>2, AppsAssumption DEF ListApplicationsFails
<1>3. CASE Return
  <2>1. groupedKinds' = groupedKinds \cup RootKeys(appChildren)
    BY <1>3, MergedKeys DEF Return
  <2>2. QED
    BY <1>3, <2>1 DEF Return
<1>4. ASSUME NEW a \in Apps, Spawn(a) PROVE Provenance'
  BY <1>4, AppsAssumption DEF Spawn
<1>5. ASSUME NEW a \in Apps, ResolveServer(a) PROVE Provenance'
  BY <1>5, AppsAssumption DEF ResolveServer
<1>6. ASSUME NEW a \in Apps, ResolveFails(a) PROVE Provenance'
  BY <1>6, AppsAssumption DEF ResolveFails
<1>7. ASSUME NEW a \in Apps, ResolvePanics(a) PROVE Provenance'
  BY <1>7, AppsAssumption DEF ResolvePanics
<1>8. ASSUME NEW a \in Apps, LookupMapper(a) PROVE Provenance'
  BY <1>8, AppsAssumption DEF LookupMapper
<1>9. ASSUME NEW a \in Apps, CreateMapper(a) PROVE Provenance'
  BY <1>9, AppsAssumption DEF CreateMapper
<1>10. ASSUME NEW a \in Apps, CreateFails(a) PROVE Provenance'
  BY <1>10, AppsAssumption DEF CreateFails
<1>11. ASSUME NEW a \in Apps, StoreMapper(a) PROVE Provenance'
  BY <1>11, AppsAssumption DEF StoreMapper
<1>12. ASSUME NEW a \in Apps, StoreDone(a) PROVE Provenance'
  BY <1>12, AppsAssumption DEF StoreDone
<1>13. ASSUME NEW a \in Apps, StoreRace(a) PROVE Provenance'
  BY <1>13, AppsAssumption DEF StoreRace
<1>14. ASSUME NEW a \in Apps, ConfirmMapper(a) PROVE Provenance'
  BY <1>14, AppsAssumption DEF ConfirmMapper
<1>15. ASSUME NEW a \in Apps, FetchManifests(a) PROVE Provenance'
  <2>1. /\ \A b \in Apps : pc'[b] \in {"append", "done"} => direct'[b] = direct[b]
        /\ \A b \in Apps : pc'[b] \in {"append", "done"} <=> pc[b] \in {"append", "done"}
        /\ \A b \in Apps : pc'[b] = "done" <=> pc[b] = "done"
        /\ direct' = [direct EXCEPT ![a] = Manifests[a]]
        /\ UNCHANGED <<cache, rel, relations, appChildren, groupedKinds>>
    BY <1>15 DEF FetchManifests
  <2>2. QED
    BY <2>1
<1>16. ASSUME NEW a \in Apps, FetchManifestsFails(a) PROVE Provenance'
  BY <1>16, AppsAssumption DEF FetchManifestsFails
<1>17. ASSUME NEW a \in Apps, CheckCache(a) PROVE Provenance'
  BY <1>17, AppsAssumption DEF CheckCache
<1>18. ASSUME NEW a \in Apps, GetClusterSyncLock(a) PROVE Provenance'
  BY <1>18, AppsAssumption DEF GetClusterSyncLock
<1>19. ASSUME NEW a \in Apps, AcquireLock(a) PROVE Provenance'
  BY <1>19, AppsAssumption DEF AcquireLock
<1>20. ASSUME NEW a \in Apps, Recheck(a) PROVE Provenance'
  BY <1>20, AppsAssumption DEF Recheck
<1>21. ASSUME NEW a \in Apps, BeginScan(a) PROVE Provenance'
  BY <1>21, AppsAssumption DEF BeginScan
<1>22. ASSUME NEW a \in Apps, EndValues(a) PROVE Provenance'
  BY <1>22, AppsAssumption DEF EndValues
<1>23. ASSUME NEW a \in Apps, MergeRelations(a) PROVE Provenance'
  <2>1. Shows(cache')
    BY <1>23, MergeShows DEF MergeRelations
  <2>2. Shows(EmptyRelation)
    BY DEF Shows, Children, EmptyRelation
  <2>3. QED
    BY <1>23, <2>1, <2>2 DEF MergeRelations
<1>24. ASSUME NEW a \in Apps, AddLeaves(a) PROVE Provenance'
  <2>. DEFINE leaves == [k \in stillMissing[a] |-> {}]
  <2>1. IsRelation(leaves) /\ Shows(leaves)
    BY DEF IsRelation, Shows, Children
  <2>. HIDE DEF leaves
  <2>2. Shows(cache')
    BY <1>24, <2>1, MergeShows DEF AddLeaves, leaves
  <2>3. QED
    BY <1>24, <2>2 DEF AddLeaves
<1>25. ASSUME NEW a \in Apps, Unlock(a) PROVE Provenance'
  BY <1>25, AppsAssumption DEF Unlock
<1>26. ASSUME NEW a \in Apps, Walk(a) PROVE Provenance'
  <2>1. RootKeys(GetResourceRelation(cache, direct[a]))
          \subseteq Reachable(AnyRelation, RootKeys(direct[a]))
    BY ShownReach
  <2>2. /\ pc[a] = "walk" /\ pc' = [pc EXCEPT ![a] = "append"]
        /\ relations' = [relations EXCEPT ![a] = GetResourceRelation(cache, direct[a])]
        /\ UNCHANGED <<direct, cache, rel, appChildren, groupedKinds>>
    BY <1>26 DEF Walk
  <2>3. \A b \in Apps : pc'[b] \in {"append", "done"} =>
          RootKeys(relations'[b]) \subseteq Reachable(AnyRelation, RootKeys(direct'[b]))
    <3>1. SUFFICES ASSUME NEW b \in Apps, pc'[b] \in {"append", "done"}
          PROVE RootKeys(relations'[b]) \subseteq Reachable(AnyRelation, RootKeys(direct[b]))
      BY <2>2
    <3>2. CASE b = a
      BY <2>1, <2>2, <3>2
    <3>3. CASE b # a
      BY <2>2, <3>1, <3>3
    <3>4. QED
      BY <3>2, <3>3
  <2>4. \A b \in Apps : pc[b] = "done" => pc'[b] = "done" /\ relations'[b] = relations[b]
    BY <2>2
  <2>5. QED
    BY <2>2, <2>3, <2>4
<1>27. ASSUME NEW a \in Apps, AppendRelations(a) PROVE Provenance'
  <2>1. /\ pc[a] = "append" /\ pc' = [pc EXCEPT ![a] = "done"]
        /\ appChildren' = appChildren \cup relations[a]
        /\ UNCHANGED <<direct, cache, rel, relations, groupedKinds>>
    BY <1>27 DEF AppendRelations
  <2>2. \A i \in appChildren' : \E b \in Apps : pc'[b] = "done" /\ i \in relations[b]
    BY <2>1
  <2>3. RootKeys(appChildren) \subseteq RootKeys(appChildren')
    BY <2>1 DEF RootKeys
  <2>4. \A b \in Apps : pc'[b] \in {"append", "done"} => pc[b] \in {"append", "done"}
    BY <2>1
  <2>5. QED
    BY <2>1, <2>2, <2>3, <2>4
<1>28. ASSUME NEW a \in Apps, CrdEvent(a) PROVE Provenance'
  BY <1>28, AppsAssumption DEF CrdEvent
<1>29. ASSUME NEW a \in Apps, CrdRace(a) PROVE Provenance'
  BY <1>29, AppsAssumption DEF CrdRace
<1>30. ASSUME NEW a \in Apps, NEW gvr \in todo[a],
             ListResource(a, gvr) \/ ListResourceFails(a, gvr)
      PROVE  Provenance'
  <2>1. PICK n : n \in Nat /\ n <= Len(Pages[server[scanned[a]]][gvr]) /\ ListPages(a, gvr, n)
    BY <1>30, ListablePages DEF ListResource, ListResourceFails, ListPages
  <2>2. server[scanned[a]] \in Servers /\ gvr \in ListableGvrs(server[scanned[a]])
    BY <2>1 DEF ListPages
  <2>3. Shows(rel'[a])
    BY <2>1, <2>2, ReceivedShows, MergeShows DEF ListPages
  <2>4. \A b \in Apps : b # a => rel'[b] = rel[b]
    BY <2>1 DEF ListPages
  <2>5. UNCHANGED <<pc, direct, cache, relations, appChildren, groupedKinds>>
    BY <2>1 DEF ListPages
  <2>6. QED
    BY <2>3, <2>4, <2>5
<1>31. CASE UNCHANGED vars
  BY <1>31 DEF vars
<1>32. QED
  BY <1>1, <1>2, <1>3, <1>4, <1>5, <1>6, <1>7, <1>8, <1>9, <1>10, <1>11, <1>12,
     <1>13, <1>14, <1>15, <1>16, <1>17, <1>18, <1>19, <1>20, <1>21, <1>22, <1>23,
     <1>24, <1>25, <1>26, <1>27, <1>28, <1>29, <1>30, <1>31
     DEF Next, MainStep, WorkerStep, WorkerCrash, InformerStep, Terminated

LEMMA ReportInvariant == Spec => []ReportInv
<1>1. Init => ReportInv
  BY DEF Init, ReportInv, PhaseInv, Provenance, Shows, Children, EmptyRelation
<1>2. Structure /\ ReportInv /\ [Next]_vars => ReportInv'
  BY PhaseStep, ProvenanceStep DEF ReportInv
<1>3. QED
  BY <1>1, <1>2, StructureInvariant, PTL DEF Spec

---------------------------------------------------------------------------
(* Justified, and complete for the healthy applications. *)

\* The traversals read what the scans of all clusters have put into the cache.
\* As long as this leads nowhere that an application's own cluster does not lead
\* to, each reported kind is one of an application's status, or is reached on
\* its cluster from the direct resources of an application that has been
\* analysed, whatever calls fail and whatever CRDs arrive.
THEOREM JustifiedByOwnCluster ==
    ASSUME OthersAddNothing
    PROVE  Spec => []ReportJustified
<1>1. Structure /\ EnteredInv /\ ProbedInv /\ ReportInv => ReportJustified
  <2>1. SUFFICES ASSUME Structure, EnteredInv, ProbedInv, ReportInv, NEW key \in groupedKinds
        PROVE  \E a \in Apps :
                  \/ key \in MergeResourceInfos({}, Status[a])
                  \/ /\ pc[a] = "done"
                     /\ key \in Reachable(WidestRelation[server[a]], RootKeys(direct[a]))
    BY DEF ReportJustified
  <2>2. CASE \E a \in Apps : key \in RootKeys(Status[a])
    BY <2>2, MergedKeys
  <2>3. CASE key \in RootKeys(appChildren)
    <3>1. PICK i \in appChildren : key = RootKey(i)
      BY <2>3 DEF RootKeys
    <3>2. PICK a \in Apps : pc[a] = "done" /\ i \in relations[a]
      BY <2>1 DEF ReportInv, Provenance
    <3>3. key \in Reachable(AnyRelation, RootKeys(direct[a]))
      BY <2>1, <3>1, <3>2 DEF ReportInv, Provenance, RootKeys
    <3>4. server[a] \in Servers /\ Candidates(a) = {server[a]} /\ direct[a] = Manifests[a]
      BY <2>1, <3>2 DEF Structure, ServerInv, EnteredInv, ProbedInv
    <3>. DEFINE R == Reachable(WidestRelation[server[a]], RootKeys(direct[a]))
    <3>5. RootKeys(direct[a]) \subseteq R
      BY ReachableClosure
    <3>6. ClosedUnder(AnyRelation, R)
      BY <3>4 DEF OthersAddNothing
    <3>7. key \in R
      BY <3>3, <3>5, <3>6, ReachableClosure
    <3>8. QED
      BY <3>2, <3>7
  <2>4. QED
    BY <2>1, <2>2, <2>3 DEF ReportInv, Provenance
<1>2. QED
  BY <1>1, StructureInvariant, KeysInvariant, ReportInvariant, PTL

\* One cluster has no others.
THEOREM SingleClusterJustified ==
    ASSUME SoleCluster
    PROVE  Spec => []ReportJustified
<1>1. ASSUME NEW s \in Servers PROVE AnyRelation = WidestRelation[s]
  <2>1. Servers = {s}
    BY DEF SoleCluster
  <2>2. UNION { ItemsOf(r, ListableGvrs(r)) : r \in Servers } = ItemsOf(s, ListableGvrs(s))
    BY <2>1
  <2>3. QED
    BY <2>2 DEF AnyRelation, WidestRelation
<1>2. OthersAddNothing
  BY <1>1, ReachableClosure DEF OthersAddNothing
<1>3. QED
  BY <1>2, JustifiedByOwnCluster

LEMMA RootsReported ==
    ASSUME NEW relation, IsRelation(relation), NEW infos \in SUBSET Info
    PROVE  RootKeys(infos) \subseteq RootKeys(GetResourceRelation(relation, infos))
<1>1. RootKeys(GetResourceRelation(relation, infos)) = Reachable(relation, RootKeys(infos))
  BY ResourceRelationKeys DEF RootKeys
<1>2. QED
  BY <1>1, ReachableIsLeastClosure

\* What a healthy application has contributed stays: its manifests are fetched,
\* its traversal starts from them, and what it found is appended and merged.
HealthyInv ==
    /\ ~cancelled
    /\ \A a \in Apps : Healthy(a) =>
          /\ pc[a] \notin {"failed", "cancelled"}
          /\ pc[a] \in Terminal \cup {"check", "getlock", "lock", "recheck", "ensure", "values",
                                    "list", "leaves", "unlock", "walk", "append"}
               => direct[a] = Manifests[a]
    /\ \A a \in Apps : pc[a] = "confirm" => mapperStore[server[a]] # None
    /\ \A a \in Apps : pc[a] \in {"append", "done"} =>
          RootKeys(direct[a]) \subseteq RootKeys(relations[a])
    /\ \A a \in Apps : pc[a] = "done" => relations[a] \subseteq appChildren
    /\ main \in {"spawning", "returned"} =>
          \A a \in Apps : RootKeys(Status[a]) \subseteq groupedKinds
    /\ main = "returned" => RootKeys(appChildren) \subseteq groupedKinds

\* No call fails that an application cannot do without.
AnalysableApps == {"cluster", "mapper", "manifests"} \cap Faults = {}

LEMMA HealthyStep ==
    ASSUME AnalysableApps
    PROVE  Structure /\ PhaseInv /\ HealthyInv /\ [Next]_vars => HealthyInv'
<1>. SUFFICES ASSUME Structure, PhaseInv, HealthyInv, [Next]_vars PROVE HealthyInv'
  OBVIOUS
<1>. USE DEF Structure, TypeOK, ServerInv, HealthyInv, Terminal, Goto, Fail, Crash, appVars,
        processVars, scanVars, mapperVars, lockVars, resultVars
<1>1. CASE ListApplications
  <2>1. groupedKinds' = RootKeys(UNION { Status[a] : a \in Apps })
    BY <1>1, MergedKeys DEF ListApplications
  <2>2. \A a \in Apps : RootKeys(Status[a]) \subseteq groupedKinds'
    BY <2>1 DEF RootKeys
  <2>3. QED
    BY <1>1, <2>2 DEF ListApplications
<1>2. CASE ListApplicationsFails
  BY <1>2, AppsAssumption DEF ListApplicationsFails
<1>3. CASE Return
  <2>1. groupedKinds' = groupedKinds \cup RootKeys(appChildren)
    BY <1>3, MergedKeys DEF Return
  <2>2. QED
    BY <1>3, <2>1 DEF Return
<1>4. ASSUME NEW a \in Apps, Spawn(a) PROVE HealthyInv'
  BY <1>4, AppsAssumption DEF Spawn
<1>5. ASSUME NEW a \in Apps, ResolveServer(a) PROVE HealthyInv'
  BY <1>5, AppsAssumption DEF ResolveServer
<1>6. ASSUME NEW a \in Apps, ResolveFails(a) PROVE HealthyInv'
  <2>1. ~Healthy(a)
    <3>1. SUFFICES ASSUME NEW s \in Servers, Candidates(a) = {s} PROVE FALSE
      BY DEF Healthy
    <3>2. Cardinality({s}) = 1
      BY FS_Singleton
    <3>3. QED
      BY <1>6, <3>1, <3>2 DEF ResolveFails, AnalysableApps
  <2>2. QED
    BY <1>6, <2>1 DEF ResolveFails
<1>7. ASSUME NEW a \in Apps, ResolvePanics(a) PROVE HealthyInv'
  BY <1>7, AppsAssumption DEF ResolvePanics
<1>8. ASSUME NEW a \in Apps, LookupMapper(a) PROVE HealthyInv'
  BY <1>8, AppsAssumption DEF LookupMapper
<1>9. ASSUME NEW a \in Apps, CreateMapper(a) PROVE HealthyInv'
  BY <1>9, AppsAssumption DEF CreateMapper
<1>10. ASSUME NEW a \in Apps, CreateFails(a) PROVE HealthyInv'
  BY <1>10 DEF CreateFails, AnalysableApps
<1>11. ASSUME NEW a \in Apps, StoreMapper(a) PROVE HealthyInv'
  BY <1>11, AppsAssumption DEF StoreMapper
<1>12. ASSUME NEW a \in Apps, StoreDone(a) PROVE HealthyInv'
  BY <1>12, AppsAssumption DEF StoreDone
<1>13. ASSUME NEW a \in Apps, StoreRace(a) PROVE HealthyInv'
  BY <1>13, AppsAssumption DEF StoreRace
<1>14. ASSUME NEW a \in Apps, ConfirmMapper(a) PROVE HealthyInv'
  BY <1>14, AppsAssumption DEF ConfirmMapper
<1>15. ASSUME NEW a \in Apps, FetchManifests(a) PROVE HealthyInv'
  BY <1>15, AppsAssumption DEF FetchManifests
<1>16. ASSUME NEW a \in Apps, FetchManifestsFails(a) PROVE HealthyInv'
  BY <1>16 DEF FetchManifestsFails, AnalysableApps
<1>17. ASSUME NEW a \in Apps, CheckCache(a) PROVE HealthyInv'
  BY <1>17, AppsAssumption DEF CheckCache
<1>18. ASSUME NEW a \in Apps, GetClusterSyncLock(a) PROVE HealthyInv'
  BY <1>18, AppsAssumption DEF GetClusterSyncLock
<1>19. ASSUME NEW a \in Apps, AcquireLock(a) PROVE HealthyInv'
  BY <1>19, AppsAssumption DEF AcquireLock
<1>20. ASSUME NEW a \in Apps, Recheck(a) PROVE HealthyInv'
  BY <1>20, AppsAssumption DEF Recheck
<1>21. ASSUME NEW a \in Apps, BeginScan(a) PROVE HealthyInv'
  BY <1>21, AppsAssumption DEF BeginScan
<1>22. ASSUME NEW a \in Apps, EndValues(a) PROVE HealthyInv'
  BY <1>22, AppsAssumption DEF EndValues
<1>23. ASSUME NEW a \in Apps, MergeRelations(a) PROVE HealthyInv'
  BY <1>23, AppsAssumption DEF MergeRelations
<1>24. ASSUME NEW a \in Apps, AddLeaves(a) PROVE HealthyInv'
  BY <1>24, AppsAssumption DEF AddLeaves
<1>25. ASSUME NEW a \in Apps, Unlock(a) PROVE HealthyInv'
  BY <1>25, AppsAssumption DEF Unlock
<1>26. ASSUME NEW a \in Apps, Walk(a) PROVE HealthyInv'
  <2>1. RootKeys(direct[a]) \subseteq RootKeys(GetResourceRelation(cache, direct[a]))
    BY RootsReported
  <2>2. /\ pc[a] = "walk" /\ pc' = [pc EXCEPT ![a] = "append"]
        /\ relations' = [relations EXCEPT ![a] = GetResourceRelation(cache, direct[a])]
        /\ UNCHANGED <<main, cancelled, direct, server, mapperStore, appChildren, groupedKinds>>
    BY <1>26 DEF Walk
  <2>3. \A b \in Apps : pc'[b] \in {"append", "done"} =>
          RootKeys(direct'[b]) \subseteq RootKeys(relations'[b])
    <3>1. SUFFICES ASSUME NEW b \in Apps, pc'[b] \in {"append", "done"}
          PROVE RootKeys(direct[b]) \subseteq RootKeys(relations'[b])
      BY <2>2
    <3>2. CASE b = a
      BY <2>1, <2>2, <3>2
    <3>3. CASE b # a
      BY <2>2, <3>1, <3>3
    <3>4. QED
      BY <3>2, <3>3
  <2>4. \A b \in Apps : pc'[b] = "done" => pc[b] = "done" /\ relations'[b] = relations[b]
    BY <2>2
  <2>5. QED
    BY <2>2, <2>3, <2>4
<1>27. ASSUME NEW a \in Apps, AppendRelations(a) PROVE HealthyInv'
  <2>1. main # "returned"
    BY <1>27 DEF AppendRelations, PhaseInv
  <2>2. QED
    BY <1>27, <2>1 DEF AppendRelations
<1>28. ASSUME NEW a \in Apps, CrdEvent(a) PROVE HealthyInv'
  BY <1>28, AppsAssumption DEF CrdEvent
<1>29. ASSUME NEW a \in Apps, CrdRace(a) PROVE HealthyInv'
  BY <1>29, AppsAssumption DEF CrdRace
<1>30. ASSUME NEW a \in Apps, NEW gvr \in todo[a],
             ListResource(a, gvr) \/ ListResourceFails(a, gvr)
      PROVE  HealthyInv'
  BY <1>30, AppsAssumption DEF ListResource, ListResourceFails, ListPages
<1>31. CASE UNCHANGED vars
  BY <1>31 DEF vars
<1>32. QED
  BY <1>1, <1>2, <1>3, <1>4, <1>5, <1>6, <1>7, <1>8, <1>9, <1>10, <1>11, <1>12,
     <1>13, <1>14, <1>15, <1>16, <1>17, <1>18, <1>19, <1>20, <1>21, <1>22, <1>23,
     <1>24, <1>25, <1>26, <1>27, <1>28, <1>29, <1>30, <1>31
     DEF Next, MainStep, WorkerStep, WorkerCrash, InformerStep, Terminated

\* Unless a call that it cannot do without fails, every application whose
\* destination resolves is in the result with its status kinds, its direct
\* resources and what its traversal found: other applications that fail, scans
\* that fail and concurrent appends take nothing away.
THEOREM HealthyReported ==
    ASSUME AnalysableApps
    PROVE  Spec => []HealthyAppsReported
<1>1. Init => HealthyInv
  BY DEF Init, HealthyInv, Terminal
<1>2. ReportInv => PhaseInv
  BY DEF ReportInv
<1>3. PhaseInv /\ HealthyInv => HealthyAppsReported
  <2>1. SUFFICES ASSUME PhaseInv, HealthyInv, main = "returned", NEW a \in Apps, Healthy(a)
        PROVE  pc[a] = "done"
                 /\ RootKeys(Status[a] \cup Manifests[a] \cup relations[a]) \subseteq groupedKinds
    BY DEF HealthyAppsReported
  <2>2. pc[a] = "done"
    BY <2>1 DEF PhaseInv, HealthyInv, Terminal
  <2>3. RootKeys(Manifests[a]) \subseteq RootKeys(relations[a])
    BY <2>1, <2>2 DEF HealthyInv, Terminal
  <2>4. RootKeys(relations[a]) \subseteq RootKeys(appChildren)
    BY <2>1, <2>2 DEF HealthyInv, RootKeys
  <2>5. RootKeys(Status[a] \cup Manifests[a] \cup relations[a])
          = RootKeys(Status[a]) \cup RootKeys(Manifests[a]) \cup RootKeys(relations[a])
    BY DEF RootKeys
  <2>6. QED
    BY <2>1, <2>2, <2>3, <2>4, <2>5 DEF HealthyInv
<1>4. QED
  BY <1>1, <1>2, <1>3, HealthyStep, StructureInvariant, ReportInvariant, PTL DEF Spec

---------------------------------------------------------------------------
(* The refinement. *)

\* The kinds that may be reported, whoever asks for them.
Offered == UNION { Offer[a] : a \in Apps }

collectedKinds == MergeResourceInfos(groupedKinds, appChildren)

LEMMA OnlyOffered == Structure /\ ReportInv => collectedKinds \subseteq Offered
<1>1. SUFFICES ASSUME Structure, ReportInv, NEW key \in collectedKinds
      PROVE  \E a \in Apps : key \in Offer[a]
  BY DEF Offered
<1>2. (\E a \in Apps : key \in RootKeys(Status[a])) \/ key \in RootKeys(appChildren)
  BY <1>1, MergedKeys DEF collectedKinds, ReportInv, Provenance
<1>3. CASE \E a \in Apps : key \in RootKeys(Status[a])
  BY <1>3, MergedKeys DEF Offer
<1>4. CASE key \in RootKeys(appChildren)
  <2>1. PICK i \in appChildren : key = RootKey(i)
    BY <1>4 DEF RootKeys
  <2>2. PICK a \in Apps : pc[a] = "done" /\ i \in relations[a]
    BY <1>1 DEF ReportInv, Provenance
  <2>3. key \in Reachable(AnyRelation, RootKeys(direct[a]))
    BY <1>1, <2>1, <2>2 DEF ReportInv, Provenance, RootKeys
  <2>4. RootKeys(direct[a]) \subseteq RootKeys(Manifests[a])
    BY <1>1 DEF ReportInv, Provenance, RootKeys
  <2>5. Reachable(AnyRelation, RootKeys(direct[a]))
          \subseteq Reachable(AnyRelation, RootKeys(Manifests[a]))
    BY <2>4, AnyRelationEdges, ReachableIsLeastClosure
  <2>6. key \in Offer[a]
    BY <2>3, <2>5 DEF Offer
  <2>7. QED
    BY <2>6
<1>5. QED
  BY <1>2, <1>3, <1>4

\* A step of the workers that neither appends nor crashes, seen from outside.
Silent == UNCHANGED <<main, fatal, groupedKinds, appChildren>>

Crashes == main = "spawning" /\ Crash

LEMMA OutsideView ==
    ASSUME Structure, PhaseInv, [Next]_vars
    PROVE  \/ Silent
           \/ /\ ~fatal
              /\ \/ ListApplications \/ ListApplicationsFails \/ Return \/ Crashes
                 \/ main = "spawning" /\ \E a \in Apps : AppendRelations(a)
<1>. DEFINE Outside ==
       \/ Silent
       \/ ListApplications \/ ListApplicationsFails \/ Return \/ Crashes
       \/ main = "spawning" /\ \E a \in Apps : AppendRelations(a)
<1>. SUFFICES Outside /\ (~Silent => ~fatal)
  OBVIOUS
<1>0. ~Silent => ~fatal
  BY DEF Next, MainStep, WorkerStep, WorkerCrash, InformerStep, Terminated, Silent, vars,
         processVars, resultVars
<1>a. \A a \in Apps : pc[a] \notin Terminal \cup {"queued"} => main = "spawning"
  BY DEF PhaseInv, Terminal, Structure, TypeOK
<1>. USE DEF Silent, Goto, Fail, appVars,
        processVars, scanVars, mapperVars, lockVars, resultVars
<1>1. ASSUME ListApplications PROVE Outside
  BY <1>1
<1>2. ASSUME ListApplicationsFails PROVE Outside
  BY <1>2
<1>3. ASSUME Return PROVE Outside
  BY <1>3
<1>4. ASSUME NEW a \in Apps, Spawn(a) PROVE Outside
  BY <1>4, AppsAssumption DEF Spawn
<1>5. ASSUME NEW a \in Apps, ResolveServer(a) PROVE Outside
  BY <1>5, AppsAssumption DEF ResolveServer
<1>6. ASSUME NEW a \in Apps, ResolveFails(a) PROVE Outside
  BY <1>6, AppsAssumption DEF ResolveFails
<1>7. ASSUME NEW a \in Apps, ResolvePanics(a) PROVE Outside
  BY <1>7, <1>a DEF ResolvePanics, Crashes, Terminal
<1>8. ASSUME NEW a \in Apps, LookupMapper(a) PROVE Outside
  BY <1>8, AppsAssumption DEF LookupMapper
<1>9. ASSUME NEW a \in Apps, CreateMapper(a) PROVE Outside
  BY <1>9, AppsAssumption DEF CreateMapper
<1>10. ASSUME NEW a \in Apps, CreateFails(a) PROVE Outside
  BY <1>10, AppsAssumption DEF CreateFails
<1>11. ASSUME NEW a \in Apps, StoreMapper(a) PROVE Outside
  BY <1>11, AppsAssumption DEF StoreMapper
<1>12. ASSUME NEW a \in Apps, StoreDone(a) PROVE Outside
  BY <1>12, AppsAssumption DEF StoreDone
<1>13. ASSUME NEW a \in Apps, StoreRace(a) PROVE Outside
  BY <1>13, <1>a DEF StoreRace, Crashes, Terminal
<1>14. ASSUME NEW a \in Apps, ConfirmMapper(a) PROVE Outside
  BY <1>14, AppsAssumption DEF ConfirmMapper
<1>15. ASSUME NEW a \in Apps, FetchManifests(a) PROVE Outside
  BY <1>15, AppsAssumption DEF FetchManifests
<1>16. ASSUME NEW a \in Apps, FetchManifestsFails(a) PROVE Outside
  BY <1>16, AppsAssumption DEF FetchManifestsFails
<1>17. ASSUME NEW a \in Apps, CheckCache(a) PROVE Outside
  BY <1>17, AppsAssumption DEF CheckCache
<1>18. ASSUME NEW a \in Apps, GetClusterSyncLock(a) PROVE Outside
  BY <1>18, AppsAssumption DEF GetClusterSyncLock
<1>19. ASSUME NEW a \in Apps, AcquireLock(a) PROVE Outside
  BY <1>19, AppsAssumption DEF AcquireLock
<1>20. ASSUME NEW a \in Apps, Recheck(a) PROVE Outside
  BY <1>20, AppsAssumption DEF Recheck
<1>21. ASSUME NEW a \in Apps, BeginScan(a) PROVE Outside
  BY <1>21, AppsAssumption DEF BeginScan
<1>22. ASSUME NEW a \in Apps, EndValues(a) PROVE Outside
  BY <1>22, AppsAssumption DEF EndValues
<1>23. ASSUME NEW a \in Apps, MergeRelations(a) PROVE Outside
  BY <1>23, AppsAssumption DEF MergeRelations
<1>24. ASSUME NEW a \in Apps, AddLeaves(a) PROVE Outside
  BY <1>24, AppsAssumption DEF AddLeaves
<1>25. ASSUME NEW a \in Apps, Unlock(a) PROVE Outside
  BY <1>25, AppsAssumption DEF Unlock
<1>26. ASSUME NEW a \in Apps, Walk(a) PROVE Outside
  BY <1>26, AppsAssumption DEF Walk
<1>27. ASSUME NEW a \in Apps, AppendRelations(a) PROVE Outside
  BY <1>27, <1>a DEF AppendRelations, Terminal
<1>28. ASSUME NEW a \in Apps, CrdEvent(a) PROVE Outside
  BY <1>28, AppsAssumption DEF CrdEvent
<1>29. ASSUME NEW a \in Apps, CrdRace(a) PROVE Outside
  BY <1>29, <1>a DEF CrdRace, Crashes, Terminal
<1>30. ASSUME NEW a \in Apps, NEW gvr \in todo[a],
             ListResource(a, gvr) \/ ListResourceFails(a, gvr)
      PROVE  Outside
  BY <1>30, AppsAssumption DEF ListResource, ListResourceFails, ListPages
<1>31. ASSUME UNCHANGED vars PROVE Outside
  BY <1>31 DEF vars
<1>32. QED
  BY <1>0, <1>1, <1>2, <1>3, <1>4, <1>5, <1>6, <1>7, <1>8, <1>9, <1>10, <1>11, <1>12,
     <1>13, <1>14, <1>15, <1>16, <1>17, <1>18, <1>19, <1>20, <1>21, <1>22, <1>23,
     <1>24, <1>25, <1>26, <1>27, <1>28, <1>29, <1>30, <1>31
     DEF Next, MainStep, WorkerStep, WorkerCrash, InformerStep, Terminated

\* Each step of the strategy is one of an analysis, or nothing to its caller.
LEMMA AnalysisStep ==
    Structure /\ ReportInv /\ (Structure /\ ReportInv)' /\ [Next]_vars
      => [Abstract!Next]_Abstract!vars
<1>. SUFFICES ASSUME Structure, ReportInv, (Structure /\ ReportInv)', [Next]_vars
     PROVE  [Abstract!Next]_Abstract!vars
  OBVIOUS
<1>1. collectedKinds' \subseteq Offered
  <2>1. Offer' = Offer /\ Offered' = Offered
    BY DEF Offer, Offered
  <2>2. (collectedKinds \subseteq Offered)'
    BY OnlyOffered, PTL
  <2>3. QED
    BY <2>1, <2>2
<1>. USE MergedKeys DEF collectedKinds, Offered
<1>2. CASE Silent
  BY <1>2 DEF Silent, Abstract!vars
<1>3. CASE ~fatal /\ ListApplications
  <2>1. Abstract!List
    BY <1>1, <1>3 DEF ListApplications, Abstract!List, Abstract!Grow, ReportInv, PhaseInv, RootKeys
  <2>2. QED
    BY <2>1 DEF Abstract!Next
<1>4. CASE ~fatal /\ ListApplicationsFails
  <2>1. Abstract!Fail
    BY <1>4 DEF ListApplicationsFails, Abstract!Fail, resultVars
  <2>2. QED
    BY <2>1 DEF Abstract!Next
<1>5. CASE ~fatal /\ Return
  <2>1. Abstract!Return
    BY <1>5 DEF Return, Abstract!Return
  <2>2. QED
    BY <2>1 DEF Abstract!Next
<1>6. CASE ~fatal /\ Crashes
  <2>1. Abstract!Fail
    BY <1>6 DEF Crashes, Crash, Abstract!Fail, resultVars
  <2>2. QED
    BY <2>1 DEF Abstract!Next
<1>7. ASSUME NEW a \in Apps, ~fatal, main = "spawning", AppendRelations(a)
      PROVE  Abstract!Next
  <2>1. RootKeys(appChildren) \subseteq RootKeys(appChildren')
    BY <1>7 DEF AppendRelations, RootKeys
  <2>2. UNCHANGED <<main, fatal, groupedKinds>>
    BY <1>7 DEF AppendRelations, processVars
  <2>3. Abstract!Collect
    BY <1>1, <1>7, <2>1, <2>2 DEF Abstract!Collect, Abstract!Grow
  <2>4. QED
    BY <2>3 DEF Abstract!Next
<1>8. QED
  BY <1>2, <1>3, <1>4, <1>5, <1>6, <1>7, OutsideView DEF ReportInv

\* The strategy with all its workers, caches and locks is an analysis: kinds
\* are only ever added, each of them one that some application offers, and the
\* report is given once and is all of them; whatever crashes reports nothing.
THEOREM DynamicIsAnalysis == Spec => ImplementsAnalysis
<1>1. Init => Abstract!Init
  BY DEF Init, Abstract!Init, MergeResourceInfos
<1>2. QED
  BY <1>1, AnalysisStep, StructureInvariant, ReportInvariant, PTL
     DEF Spec, ImplementsAnalysis, Abstract!Spec

=============================================================================
