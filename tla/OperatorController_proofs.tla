---------------------- MODULE OperatorController_proofs ----------------------
(***************************************************************************)
(* For every set of applications, hosts, resources and ownerships, and any *)
(* number of edits, failures and restarts: the state keeps its types; what *)
(* is written or printed covers the applications that were there all       *)
(* along, whole where the resources of a kind lead to the same kinds and   *)
(* no error was swallowed, and has nothing of any others; and for its      *)
(* users an update is one step.  Before that, what the operator relies on  *)
(* when it compares what it computed with what it reads                    *)
(* back: the text of grouped kinds stands for these and no other kinds,    *)
(* and the comparison by sizes and one inclusion is equality.              *)
(***************************************************************************)
EXTENDS OperatorController, ResourceGraph_proofs, FiniteSetTheorems, TLAPS

---------------------------------------------------------------------------
(* The text of resource.inclusions. *)

\* The text has well-formed entries only.
LEMMA EntriesType ==
    ASSUME NEW g \in SUBSET Key
    PROVE  Entries(g) \in SUBSET Entry
<1> SUFFICES ASSUME NEW group \in Groups(g)
             PROVE  [field |-> "apigroups",
                     apiGroups |-> << IF group = "core" THEN "" ELSE group >>,
                     kinds |-> KindsIn(g, group)] \in Entry
  BY DEF Entries
<1>1. group \in Names
  BY DEF Groups, Key
<1>2. << IF group = "core" THEN "" ELSE group >> \in Seq(Names \cup {""})
  <2>1. (IF group = "core" THEN "" ELSE group) \in Names \cup {""}
    BY <1>1
  <2>2. ASSUME NEW S, NEW text \in S
        PROVE  << text >> \in Seq(S)
    OBVIOUS
  <2> QED
    BY <2>1, <2>2
<1>3. KindsIn(g, group) \in SUBSET Names
  BY DEF KindsIn, Key
<1> QED
  BY <1>2, <1>3 DEF Entry

\* String and FromYaml are inverse (pkg/common/common.go): the core group,
\* written as "", gets its name back, and no group or kind is lost or added.
THEOREM TextRoundTrip ==
    ASSUME NEW g \in SUBSET Key
    PROVE  FromYaml(Entries(g)) = g
<1> DEFINE entry(group) ==
      [field |-> "apigroups", apiGroups |-> << IF group = "core" THEN "" ELSE group >>,
       kinds |-> KindsIn(g, group)]
<1>1. ASSUME NEW group \in Groups(g)
      PROVE  /\ entry(group).field = "apigroups"
             /\ entry(group).apiGroups # <<>>
             /\ CoreIfEmpty(entry(group).apiGroups[1]) = group
             /\ entry(group).kinds = KindsIn(g, group)
  <2>1. group \in Names
    BY DEF Groups, Key
  <2>2. group # ""
    BY <2>1, NamesAssumption
  <2> QED
    BY <2>2 DEF CoreIfEmpty
<1>2. Entries(g) = { entry(group) : group \in Groups(g) }
  BY DEF Entries
<1> HIDE DEF entry
<1>3. FromYaml(Entries(g)) = UNION { {group} \X KindsIn(g, group) : group \in Groups(g) }
  <2> DEFINE read == { f \in Entries(g) : f.field = "apigroups" /\ f.apiGroups # <<>> }
  <2>1. read = Entries(g)
    BY <1>1, <1>2
  <2>2. FromYaml(Entries(g)) = UNION { {CoreIfEmpty(e.apiGroups[1])} \X e.kinds : e \in read }
    BY DEF FromYaml
  <2> HIDE DEF read
  <2>3. UNION { {CoreIfEmpty(e.apiGroups[1])} \X e.kinds : e \in read }
          = UNION { {group} \X KindsIn(g, group) : group \in Groups(g) }
    <3>1. ASSUME NEW p, NEW e \in read, p \in {CoreIfEmpty(e.apiGroups[1])} \X e.kinds
          PROVE  \E group \in Groups(g) : p \in {group} \X KindsIn(g, group)
      <4>1. PICK group \in Groups(g) : e = entry(group)
        BY <1>2, <2>1
      <4> QED
        BY <1>1, <3>1, <4>1
    <3>2. ASSUME NEW p, NEW group \in Groups(g), p \in {group} \X KindsIn(g, group)
          PROVE  \E e \in read : p \in {CoreIfEmpty(e.apiGroups[1])} \X e.kinds
      <4>1. entry(group) \in read
        BY <1>2, <2>1
      <4>2. p \in {CoreIfEmpty(entry(group).apiGroups[1])} \X entry(group).kinds
        BY <1>1, <3>2
      <4> QED
        BY <4>1, <4>2
    <3> QED
      BY <3>1, <3>2
  <2> QED
    BY <2>2, <2>3
<1>4. UNION { {group} \X KindsIn(g, group) : group \in Groups(g) } = g
  <2>1. ASSUME NEW p \in g
        PROVE  p[1] \in Groups(g) /\ p \in {p[1]} \X KindsIn(g, p[1])
    BY DEF Groups, KindsIn, Key
  <2>2. ASSUME NEW group \in Groups(g), NEW p \in {group} \X KindsIn(g, group)
        PROVE  p \in g
    <3>1. PICK q \in g : q[1] = group /\ q[2] = p[2]
      BY DEF KindsIn
    <3>2. p = <<q[1], q[2]>> /\ q = <<q[1], q[2]>>
      BY <3>1 DEF Key
    <3> QED
      BY <3>2
  <2> QED
    BY <2>1, <2>2
<1> QED
  BY <1>3, <1>4

LEMMA FirstsFinite ==
    ASSUME NEW S, IsFiniteSet(S)
    PROVE  IsFiniteSet({ p[1] : p \in S })
<1> DEFINE T == { p[1] : p \in S }
           f == [p \in S |-> p[1]]
<1>1. f \in Surjection(S, T)
  BY DEF Surjection
<1> QED
  BY <1>1, FS_Surjection

LEMMA SecondsFinite ==
    ASSUME NEW S, IsFiniteSet(S)
    PROVE  IsFiniteSet({ p[2] : p \in S })
<1> DEFINE T == { p[2] : p \in S }
           f == [p \in S |-> p[2]]
<1>1. f \in Surjection(S, T)
  BY DEF Surjection
<1> QED
  BY <1>1, FS_Surjection

LEMMA KindsEqualIsEquality ==
    ASSUME NEW k, NEW other, IsFiniteSet(other)
    PROVE  KindsEqual(k, other) <=> k = other
<1>1. ASSUME KindsEqual(k, other)
      PROVE  k = other
  BY <1>1, FS_Subset DEF KindsEqual
<1> QED
  BY <1>1 DEF KindsEqual

\* GroupedResourceKinds.Equal (pkg/common/common.go) compares the numbers of
\* groups and of kinds, and one inclusion each: that is equality.
THEOREM GroupedEqualIsEquality ==
    ASSUME NEW g \in SUBSET Key, NEW other \in SUBSET Key, IsFiniteSet(g), IsFiniteSet(other)
    PROVE  GroupedEqual(g, other) <=> g = other
<1>1. IsFiniteSet(Groups(g)) /\ IsFiniteSet(Groups(other))
  BY FirstsFinite DEF Groups
<1>2. ASSUME NEW group
      PROVE  IsFiniteSet(KindsIn(other, group))
  <2>1. IsFiniteSet({ q \in other : q[1] = group })
    BY FS_Subset
  <2> QED
    BY <2>1, SecondsFinite DEF KindsIn
<1>3. ASSUME GroupedEqual(g, other)
      PROVE  g = other
  <2>1. Groups(other) \subseteq Groups(g) /\ Cardinality(Groups(other)) = Cardinality(Groups(g))
    BY <1>3 DEF GroupedEqual
  <2>2. Groups(g) = Groups(other)
    BY <1>1, <2>1, FS_Subset
  <2>3. ASSUME NEW group \in Groups(other)
        PROVE  KindsIn(g, group) = KindsIn(other, group)
    BY <1>2, <1>3, KindsEqualIsEquality DEF GroupedEqual
  <2>4. ASSUME NEW x \in SUBSET Key, NEW y \in SUBSET Key, NEW p \in x,
               p[1] \in Groups(y), KindsIn(x, p[1]) = KindsIn(y, p[1])
        PROVE  p \in y
    <3>1. p[2] \in KindsIn(y, p[1])
      BY <2>4 DEF KindsIn
    <3>2. PICK q \in y : q[1] = p[1] /\ q[2] = p[2]
      BY <3>1 DEF KindsIn
    <3> QED
      BY <3>2 DEF Key
  <2>5. \A p \in g : p[1] \in Groups(g)
    BY DEF Groups
  <2>6. \A p \in other : p[1] \in Groups(other)
    BY DEF Groups
  <2>7. \A p \in g : p \in other
    BY <2>2, <2>3, <2>4, <2>5
  <2>8. \A p \in other : p \in g
    BY <2>2, <2>3, <2>4, <2>6
  <2> QED
    BY <2>7, <2>8
<1>4. ASSUME g = other
      PROVE  GroupedEqual(g, other)
  BY <1>2, <1>4, KindsEqualIsEquality DEF GroupedEqual
<1> QED
  BY <1>3, <1>4

---------------------------------------------------------------------------
(* What a run computes. *)

LEMMA MergeType ==
    ASSUME NEW infos \in SUBSET Info
    PROVE  MergeResourceInfos({}, infos) \in SUBSET Key
<1>1. ASSUME NEW i \in infos
      PROVE  <<CoreIfEmpty(i.group), i.kind>> \in Key
  BY NamesAssumption DEF CoreIfEmpty, Info, Key
<1> QED
  BY <1>1 DEF MergeResourceInfos

LEMMA AddMissingType ==
    ASSUME NEW kinds \in SUBSET Key, NEW infos \in SUBSET [group : Names, kind : Names]
    PROVE  AddMissing(kinds, infos) \in SUBSET Key
BY DEF AddMissing, Key

LEMMA ComputedType ==
    ASSUME TypeOK
    PROVE  Computed \in SUBSET Key
<1>1. MergeResourceInfos({}, found) \in SUBSET Key
  BY MergeType DEF TypeOK
<1>2. UNION { Missing[a] : a \in apps } \in SUBSET [group : Names, kind : Names]
  BY OperatorAssumption DEF TypeOK
<1> QED
  BY <1>1, <1>2, AddMissingType DEF Computed

---------------------------------------------------------------------------
(* What a traversal finds. *)

KindsAll(resources) == { Kind[r] : r \in resources }

LEMMA OwnedType ==
    ASSUME NEW o \in Ownerships, NEW g \in Hosts
    PROVE  o[g] \in [Resources -> SUBSET Resources]
BY OperatorAssumption

LEMMA FirstChildrenType ==
    ASSUME NEW g \in Hosts, NEW present \in SUBSET Apps
    PROVE  FirstChildren(g, present) \subseteq Resources
BY OperatorAssumption DEF FirstChildren

\* What is visited has the first children, and the children of all that was
\* asked about; it lies within what is reachable without any limit.
LEMMA VisitedBounds ==
    ASSUME NEW o \in Ownerships, NEW g \in Hosts, NEW first \in SUBSET Resources,
           NEW asked \in SUBSET Resources
    PROVE  /\ first \subseteq Visited(o, g, first, asked)
           /\ \A q \in asked \cap Visited(o, g, first, asked) :
                o[g][q] \subseteq Visited(o, g, first, asked)
           /\ Visited(o, g, first, asked) \subseteq Reachable(o[g], first)
<1> DEFINE rel == [r \in asked |-> o[g][r]]
           whole == Reachable(o[g], first)
<1>1. DOMAIN o[g] = Resources
  BY OwnedType
<1>2. \A p : Children(rel, p) \subseteq Children(o[g], p)
  BY <1>1 DEF Children
<1>3. \A q \in asked : Children(rel, q) = o[g][q]
  BY DEF Children
<1> HIDE DEF rel
<1>4. first \subseteq whole /\ ClosedUnder(o[g], whole)
  BY ReachableClosure
<1>5. ClosedUnder(rel, whole)
  BY <1>2, <1>4 DEF ClosedUnder
<1> HIDE DEF whole
<1>6. /\ first \subseteq Reachable(rel, first)
      /\ ClosedUnder(rel, Reachable(rel, first))
      /\ Reachable(rel, first) \subseteq whole
  BY <1>4, <1>5, ReachableClosure
<1>7. Visited(o, g, first, asked) = Reachable(rel, first)
  BY DEF Visited, rel
<1> QED
  BY <1>3, <1>6, <1>7 DEF ClosedUnder, whole

LEMMA ReachableType ==
    ASSUME NEW o \in Ownerships, NEW g \in Hosts, NEW first \in SUBSET Resources
    PROVE  Reachable(o[g], first) \subseteq Resources
<1>1. ClosedUnder(o[g], Resources)
  BY OwnedType DEF ClosedUnder, Children
<1> QED
  BY <1>1, ReachableClosure

LEMMA TreeIs ==
    ASSUME NEW o \in Ownerships, NEW a \in Apps, NEW g \in Hosts
    PROVE  Trees[o][a][g] = Reachable(o[g], Tracked[a][g])
BY DEF Trees

\* What is reachable from the first children of all is in the tree of one.
LEMMA TreesJoin ==
    ASSUME NEW o \in Ownerships, NEW g \in Hosts, NEW present \in SUBSET Apps
    PROVE  Reachable(o[g], FirstChildren(g, present)) \subseteq UNION { Trees[o][a][g] : a \in present }
<1> DEFINE joined == UNION { Reachable(o[g], Tracked[a][g]) : a \in present }
<1>1. \A a \in present : Tracked[a][g] \subseteq Reachable(o[g], Tracked[a][g])
  BY ReachableClosure
<1>2. \A a \in present : ClosedUnder(o[g], Reachable(o[g], Tracked[a][g]))
  BY ReachableClosure
<1>3. FirstChildren(g, present) \subseteq joined
  BY <1>1 DEF FirstChildren
<1>4. ClosedUnder(o[g], joined)
  BY <1>2 DEF ClosedUnder
<1>5. joined = UNION { Trees[o][a][g] : a \in present }
  BY TreeIs
<1> HIDE DEF joined
<1>6. Reachable(o[g], FirstChildren(g, present)) \subseteq joined
  BY <1>3, <1>4, ReachableClosure
<1> QED
  BY <1>5, <1>6

\* Where the resources of a kind lead to the same kinds, a traversal with an
\* answer for one of each kind finds all kinds.
LEMMA WholeFindsTree ==
    ASSUME NEW o \in UniformOwnerships, NEW g \in Hosts, NEW first \in SUBSET Resources,
           NEW asked \in SUBSET Resources, NEW roots \in SUBSET first,
           asked \subseteq Visited(o, g, first, asked),
           \A r \in Visited(o, g, first, asked) : \E q \in asked : Kind[q] = Kind[r]
    PROVE  KindsAll(Reachable(o[g], roots)) \subseteq KindsAll(Visited(o, g, first, asked))
<1> DEFINE visited == Visited(o, g, first, asked)
           same == { r \in Resources : Kind[r] \in KindsAll(visited) }
<1>1. o \in Ownerships /\ \A r, q \in Resources :
        Kind[r] = Kind[q] => { Kind[c] : c \in o[g][r] } = { Kind[c] : c \in o[g][q] }
  BY DEF UniformOwnerships
<1>2. first \subseteq visited /\ \A q \in asked : o[g][q] \subseteq visited
  BY <1>1, VisitedBounds
<1>3. \A r \in visited : \E q \in asked : Kind[q] = Kind[r]
  OBVIOUS
<1>4. asked \subseteq Resources /\ o[g] \in [Resources -> SUBSET Resources]
  BY <1>1, OwnedType
<1> HIDE DEF visited
<1>5. roots \subseteq same
  BY <1>2 DEF KindsAll
<1>6. ASSUME NEW p \in same, NEW c \in o[g][p]
      PROVE  c \in same
  <2>1. PICK r \in visited : Kind[r] = Kind[p]
    BY DEF KindsAll
  <2>2. PICK q \in asked : Kind[q] = Kind[p]
    BY <1>3, <2>1
  <2>3. Kind[c] \in { Kind[d] : d \in o[g][q] }
    <3>1. p \in Resources /\ q \in Resources
      BY <1>4
    <3>2. { Kind[d] : d \in o[g][p] } = { Kind[d] : d \in o[g][q] }
      BY <1>1, <2>2, <3>1
    <3> QED
      BY <3>2
  <2>4. PICK d \in o[g][q] : Kind[d] = Kind[c]
    BY <2>3
  <2>5. d \in visited
    BY <1>2, <2>4
  <2> QED
    BY <1>4, <2>4, <2>5 DEF KindsAll
<1>7. ClosedUnder(o[g], same)
  BY <1>4, <1>6 DEF ClosedUnder, Children
<1> HIDE DEF same
<1>8. Reachable(o[g], roots) \subseteq same
  BY <1>5, <1>7, ReachableClosure
<1> QED
  BY <1>8 DEF same, KindsAll, visited

LEMMA WaysAreVisits ==
    ASSUME TypeOK, NEW h \in DOMAIN queryServers, NEW t \in Ways(h)
    PROVE  /\ queryServers[h] \in Hosts /\ t.asked \subseteq Resources
           /\ t.visited = Visited(owned, queryServers[h], FirstChildren(queryServers[h], apps), t.asked)
           /\ t.asked \subseteq t.visited
<1> DEFINE g == queryServers[h]
           first == FirstChildren(g, apps)
<1>1. g \in Hosts /\ owned \in Ownerships /\ apps \in SUBSET Apps
  BY DEF TypeOK
<1>2. t \in Traversals[owned][g][first]
  BY DEF Ways
<1>3. first \in { FirstChildren(g, present) : present \in SUBSET Apps }
  BY <1>1
<1> HIDE DEF g, first
<1>4. Traversals[owned][g][first] =
        { [asked |-> asked, visited |-> Visited(owned, g, first, asked)] :
            asked \in { s \in OncePerKind : s \subseteq Visited(owned, g, first, s) } }
  BY <1>1, <1>3 DEF Traversals
<1>5. PICK asked \in { s \in OncePerKind : s \subseteq Visited(owned, g, first, s) } :
        t = [asked |-> asked, visited |-> Visited(owned, g, first, asked)]
  BY <1>2, <1>4
<1> QED
  BY <1>1, <1>5 DEF OncePerKind, g, first

\* The kinds that a traversal adds belong to the tree of an application.
LEMMA TraversalOfApps ==
    ASSUME TypeOK, NEW h \in DOMAIN queryServers, NEW t \in Ways(h), NEW i \in KindsAll(t.visited)
    PROVE  i \in Info /\ \E a \in apps : i \in KindsAll(Trees[owned][a][queryServers[h]])
<1> DEFINE g == queryServers[h]
           first == FirstChildren(g, apps)
<1>1. /\ g \in Hosts /\ owned \in Ownerships /\ apps \in SUBSET Apps /\ t.asked \in SUBSET Resources
      /\ t.visited = Visited(owned, g, first, t.asked)
  BY WaysAreVisits DEF TypeOK
<1>2. first \in SUBSET Resources
  BY <1>1, FirstChildrenType
<1> HIDE DEF g, first
<1>3. t.visited \subseteq Reachable(owned[g], first)
  BY <1>1, <1>2, VisitedBounds
<1>4. Reachable(owned[g], first) \subseteq Resources
  BY <1>1, <1>2, ReachableType
<1>5. Reachable(owned[g], first) \subseteq UNION { Trees[owned][a][g] : a \in apps }
  BY <1>1, TreesJoin DEF first
<1>6. PICK r \in t.visited : i = Kind[r]
  BY DEF KindsAll
<1>7. i \in Info
  BY <1>3, <1>4, <1>6, OperatorAssumption
<1> QED
  BY <1>3, <1>5, <1>6, <1>7 DEF KindsAll, g

\* And all that it is sure to find: what the first query yields, and, if no
\* query fails and the ownership is uniform, whole trees.
LEMMA TraversalFinds ==
    ASSUME TypeOK, NEW h \in DOMAIN queryServers, NEW t \in Ways(h), NEW a \in apps
    PROVE  /\ KindsAll(Tracked[a][queryServers[h]]) \subseteq KindsAll(t.visited)
           /\ Uniform /\ Whole(t) =>
                KindsAll(Trees[owned][a][queryServers[h]]) \subseteq KindsAll(t.visited)
<1> DEFINE g == queryServers[h]
           first == FirstChildren(g, apps)
<1>1. /\ g \in Hosts /\ owned \in Ownerships /\ a \in Apps /\ t.asked \in SUBSET Resources
      /\ t.asked \subseteq t.visited /\ t.visited = Visited(owned, g, first, t.asked)
  BY WaysAreVisits DEF TypeOK
<1>2. first \in SUBSET Resources
  BY <1>1, FirstChildrenType DEF TypeOK
<1>3. Tracked[a][g] \in SUBSET first
  BY DEF FirstChildren
<1> HIDE DEF g, first
<1>4. first \subseteq t.visited
  BY <1>1, <1>2, VisitedBounds
<1>5. KindsAll(Tracked[a][g]) \subseteq KindsAll(t.visited)
  BY <1>3, <1>4 DEF KindsAll
<1>6. ASSUME Uniform, Whole(t)
      PROVE  KindsAll(Trees[owned][a][g]) \subseteq KindsAll(t.visited)
  <2>1. \A r \in Visited(owned, g, first, t.asked) : \E q \in t.asked : Kind[q] = Kind[r]
    BY <1>1, <1>6 DEF Whole
  <2>2. KindsAll(Reachable(owned[g], Tracked[a][g])) \subseteq KindsAll(Visited(owned, g, first, t.asked))
    BY <1>1, <1>2, <1>3, <1>6, <2>1, WholeFindsTree DEF Uniform
  <2> QED
    BY <1>1, <2>2, TreeIs
<1> QED
  BY <1>5, <1>6 DEF g

\* If the kinds of all the resources were found, then what is computed covers
\* what the application needs for them.
LEMMA ComputedCovers ==
    ASSUME NEW a \in apps, NEW resources, \A S \in resources : KindsAll(S) \subseteq found
    PROVE  KindsOn(resources, a) \subseteq Computed
<1> DEFINE kinds == { Kind[r] : r \in UNION resources }
<1>1. kinds \subseteq found
  BY DEF KindsAll
<1> HIDE DEF kinds
<1>2. MergeResourceInfos({}, kinds) \subseteq MergeResourceInfos({}, found)
  BY <1>1 DEF MergeResourceInfos
<1>3. Missing[a] \subseteq UNION { Missing[b] : b \in apps }
  OBVIOUS
<1> QED
  BY <1>2, <1>3 DEF KindsOn, Computed, AddMissing, kinds

---------------------------------------------------------------------------
(* Types. *)

LEMMA CappedType ==
    ASSUME NEW n \in Nat
    PROVE  Capped(n) \in 0..MaxEvents
BY OperatorAssumption DEF Capped

LEMMA SpendType ==
    ASSUME spent \in Spent, NEW kind \in {"edits", "changes", "failures", "restarts"},
           Spend(kind),
           kind = "edits" => spent.edits < MaxEdits,
           kind = "changes" => spent.changes < MaxChanges,
           kind = "failures" => spent.failures < MaxFailures,
           kind = "restarts" => spent.restarts < MaxRestarts
    PROVE  spent' \in Spent
BY OperatorAssumption DEF Spend, Spent

LEMMA UpdatedType ==
    ASSUME TypeOK
    PROVE  Updated \in Resource /\ Updated.edits = fetched.edits
                                /\ Updated.inclusions = Entries(grouped)
<1>1. Entries(grouped) \in SUBSET Entry
  BY EntriesType DEF TypeOK
<1>2. fetched \in [inclusions : (SUBSET Entry) \cup {Garbled}, edits : Nat]
  BY DEF TypeOK, Resource
<1> HIDE DEF Entries
<1>3. Updated = [inclusions |-> Entries(grouped), edits |-> fetched.edits]
  BY <1>2 DEF Updated
<1> QED
  BY <1>1, <1>2, <1>3 DEF Resource

LEMMA TypeInit == Init => TypeOK
<1> SUFFICES ASSUME Init PROVE TypeOK
  OBVIOUS
<1>1. NoInclusions \in Resource
  BY DEF NoInclusions, Resource
<1>2. spent \in Spent
  BY OperatorAssumption DEF Init, Spent
<1>3. events \in 0..MaxEvents /\ attempt \in 0..Attempts
  BY OperatorAssumption DEF Init
<1>4. resource \in Resource /\ fetched \in Resource
  BY <1>1 DEF Init
<1> QED
  BY <1>2, <1>3, <1>4 DEF Init, TypeOK, Down, NoServers

\* The variables of a run that has ended have their types.
LEMMA EndRunType ==
    ASSUME NEW to, EndRun(to)
    PROVE  /\ unqueried' = {} /\ found' \subseteq Info /\ grouped' \subseteq Key
           /\ attempt' \in 0..Attempts /\ fetched' \in Resource /\ stale' \in BOOLEAN
           /\ steady' = {} /\ lossy' \in BOOLEAN /\ seen' = {}
           /\ pc' = to
<1>1. NoInclusions \in Resource
  BY DEF NoInclusions, Resource
<1>2. 0 \in 0..Attempts
  BY OperatorAssumption
<1> QED
  BY <1>1, <1>2 DEF EndRun

\* An attempt of RetryOnConflict is begun only if one is left, and each run
\* begins without any.
AttemptsLeft ==
    /\ pc = "fetch" => attempt < Attempts
    /\ pc \notin {"fetch", "put"} => attempt = 0

LEMMA AttemptsStep == TypeOK /\ AttemptsLeft /\ [Next]_vars => AttemptsLeft'
<1> SUFFICES ASSUME TypeOK, AttemptsLeft, [Next]_vars PROVE AttemptsLeft'
  OBVIOUS
<1>1. CASE CompareDiffers
  BY <1>1, OperatorAssumption DEF CompareDiffers, AttemptsLeft, Goto, run, update
<1>2. CASE PutConflicts
  BY <1>2 DEF PutConflicts, AttemptsLeft, Goto, run, update
<1>3. CASE Fetch
  BY <1>3 DEF Fetch, AttemptsLeft, Goto
<1>4. ASSUME PrintInclusions \/ CompareEnds \/ Put \/ GiveUp \/ PutAnswerLost \/ CallFails
              \/ UnreachableEndsRun \/ Stop
      PROVE  pc' \in {"idle", "down"} /\ attempt' = 0
  BY <1>4 DEF PrintInclusions, CompareEnds, Put, GiveUp, PutAnswerLost, CallFails,
              UnreachableEndsRun, Stop, EndRun
<1>5. ASSUME Start \/ SkipRun \/ BeginRun \/ QueryHost \/ NestedQueryFails \/ QueriesDone \/ Collect
      PROVE  pc \notin {"fetch", "put"} /\ pc' \notin {"fetch", "put"} /\ attempt' = attempt
  BY <1>5 DEF Start, SkipRun, BeginRun, QueryHost, NestedQueryFails, QueriesDone, Collect, Goto,
              Down, run, update
<1>6. ASSUME AppCreated \/ AppDeleted \/ SecretsChange \/ ClusterLost \/ Resync \/ IntervalLapses
              \/ UserEdit \/ UNCHANGED vars
      PROVE  UNCHANGED <<pc, attempt>>
  BY <1>6 DEF AppCreated, AppDeleted, SecretsChange, ClusterLost, Resync, IntervalLapses, UserEdit,
              vars, run, update
<1> QED
  BY <1>1, <1>2, <1>3, <1>4, <1>5, <1>6 DEF Next, Execute, AttemptsLeft

\* The hosts that a run has still to query have query servers.
QueriedHosts == pc = "query" => unqueried \subseteq DOMAIN queryServers

LEMMA QueriedStep == QueriedHosts /\ [Next]_vars => QueriedHosts'
<1> SUFFICES ASSUME QueriedHosts, [Next]_vars PROVE QueriedHosts'
  OBVIOUS
<1>1. ASSUME Start \/ SkipRun \/ UnreachableEndsRun \/ QueriesDone \/ PrintInclusions \/ Collect
              \/ CompareEnds \/ CompareDiffers \/ Fetch \/ Put \/ PutConflicts \/ GiveUp
              \/ PutAnswerLost \/ CallFails \/ Stop
      PROVE  pc' # "query"
  BY <1>1 DEF Start, SkipRun, UnreachableEndsRun, QueriesDone, PrintInclusions, Collect, CompareEnds,
              CompareDiffers, Fetch, Put, PutConflicts, GiveUp, PutAnswerLost, CallFails, Stop, Goto,
              EndRun
<1>2. ASSUME BeginRun PROVE unqueried' = DOMAIN queryServers'
  BY <1>2 DEF BeginRun
<1>3. ASSUME QueryHost \/ NestedQueryFails
      PROVE  pc = "query" /\ unqueried' \subseteq unqueried /\ UNCHANGED queryServers
  BY <1>3 DEF QueryHost, NestedQueryFails, Traverse, Goto, process
<1>4. ASSUME AppCreated \/ AppDeleted \/ SecretsChange \/ ClusterLost \/ Resync \/ IntervalLapses
              \/ UserEdit \/ UNCHANGED vars
      PROVE  UNCHANGED <<pc, unqueried, queryServers>>
  BY <1>4 DEF AppCreated, AppDeleted, SecretsChange, ClusterLost, Resync, IntervalLapses, UserEdit,
              vars, run, process
<1> QED
  BY <1>1, <1>2, <1>3, <1>4 DEF Next, Execute, QueriedHosts

LEMMA TypeStep == TypeOK /\ AttemptsLeft /\ QueriedHosts /\ [Next]_vars => TypeOK'
<1> SUFFICES ASSUME TypeOK, AttemptsLeft, QueriedHosts, [Next]_vars PROVE TypeOK'
  OBVIOUS
<1> USE DEF TypeOK, world, process, memory, update, history, run, Down
<1>1. Cardinality(apps) \in Nat
  BY FS_Subset, FS_CardinalityType, OperatorAssumption
<1>2. CASE Start
  <2>1. ListClusterConfigs(registered) \subseteq Hosts
    <3>1. registered \in SUBSET Secret
      BY OperatorAssumption
    <3> QED
      BY <3>1 DEF ListClusterConfigs, Managed, Secret
  <2>2. pc' \in {"idle", "failed"} /\ events' \in 0..MaxEvents
    BY <1>1, <1>2, CappedType, OperatorAssumption DEF Start
  <2>3. ASSUME NEW first \in ListClusterConfigs(registered) \cup {OwnHost},
               queryServers' = NewQueryServers(ListClusterConfigs(registered), first)
        PROVE  /\ DOMAIN queryServers' \subseteq Hosts
               /\ \A h \in DOMAIN queryServers' :
                    queryServers'[h] \in Hosts /\ (SharedExecutor \/ queryServers'[h] = h)
    BY <2>1, <2>3, OperatorAssumption DEF NewQueryServers
  <2>4. UNCHANGED queryServers
          \/ \E first \in ListClusterConfigs(registered) \cup {OwnHost} :
               queryServers' = NewQueryServers(ListClusterConfigs(registered), first)
    BY <1>2 DEF Start
  <2>5. /\ DOMAIN queryServers' \subseteq Hosts
        /\ \A h \in DOMAIN queryServers' :
             queryServers'[h] \in Hosts /\ (SharedExecutor \/ queryServers'[h] = h)
    BY <2>3, <2>4
  <2>6. recent' = recent
    BY <1>2 DEF Start
  <2> QED
    BY <1>2, <2>2, <2>5, <2>6 DEF Start
<1>3. CASE SkipRun
  BY <1>3, OperatorAssumption DEF SkipRun, Goto, HandleEvent
<1>4. CASE BeginRun
  <2>1. events' \in 0..MaxEvents
    BY <1>4, OperatorAssumption DEF BeginRun, HandleEvent
  <2>2. unqueried' \subseteq Hosts /\ found' = {} /\ recent' = TRUE
    BY <1>4 DEF BeginRun
  <2>3. steady' = apps' /\ lossy' = FALSE /\ seen' \subseteq Apps
    BY <1>4 DEF BeginRun
  <2> QED
    BY <1>4, <2>1, <2>2, <2>3 DEF BeginRun, Goto, Remote
<1>5. ASSUME pc = "query", NEW h \in unqueried, NEW t \in Ways(h), Traverse(h, t)
      PROVE  found' \subseteq Info /\ unqueried' \subseteq Hosts
  <2>1. h \in DOMAIN queryServers
    BY <1>5 DEF QueriedHosts
  <2>2. KindsAll(t.visited) \subseteq Info
    BY <2>1, TraversalOfApps
  <2> QED
    BY <1>5, <2>2, OperatorAssumption DEF Traverse, KindsAll
<1>6. CASE QueryHost
  <2>1. pc = "query" /\ \E h \in unqueried : \E t \in Ways(h) : Traverse(h, t)
    BY <1>6 DEF QueryHost, Goto
  <2>2. found' \subseteq Info /\ unqueried' \subseteq Hosts
    BY <1>5, <2>1
  <2> QED
    BY <1>6, <2>2 DEF QueryHost, Goto, Remote
<1>7. CASE NestedQueryFails
  <2>1. pc = "query" /\ \E h \in unqueried : \E t \in Ways(h) : Traverse(h, t)
    BY <1>7 DEF NestedQueryFails, Goto
  <2>2. found' \subseteq Info /\ unqueried' \subseteq Hosts
    BY <1>5, <2>1
  <2>3. spent' \in Spent
    BY <1>7, SpendType DEF NestedQueryFails
  <2> QED
    BY <1>7, <2>2, <2>3 DEF NestedQueryFails, Goto, Remote
<1>8. CASE UnreachableEndsRun
  BY <1>8, EndRunType DEF UnreachableEndsRun
<1>9. CASE QueriesDone
  BY <1>9 DEF QueriesDone, Goto, Remote
<1>10. CASE PrintInclusions
  BY <1>10, EndRunType, ComputedType DEF PrintInclusions
<1>11. CASE Collect
  BY <1>11, ComputedType DEF Collect, Goto, Remote
<1>12. CASE CompareEnds
  <2>1. previous' \subseteq Key
    BY <1>12 DEF CompareEnds
  <2> QED
    BY <1>12, <2>1, EndRunType DEF CompareEnds
<1>13. CASE CompareDiffers
  BY <1>13 DEF CompareDiffers, Goto, Remote
<1>14. CASE Fetch
  <2>1. attempt' \in 0..Attempts
    BY <1>14, OperatorAssumption DEF Fetch, Goto, AttemptsLeft
  <2> QED
    BY <1>14, <2>1 DEF Fetch, Goto, Remote
<1>15. CASE Put
  BY <1>15, EndRunType, UpdatedType DEF Put
<1>16. CASE PutConflicts
  BY <1>16 DEF PutConflicts, Goto, Remote
<1>17. CASE GiveUp
  BY <1>17, EndRunType DEF GiveUp
<1>18. CASE PutAnswerLost
  <2>1. spent' \in Spent
    BY <1>18, SpendType DEF PutAnswerLost
  <2> QED
    BY <1>18, <2>1, EndRunType, UpdatedType DEF PutAnswerLost
<1>19. CASE CallFails
  <2>1. spent' \in Spent
    BY <1>19, SpendType DEF CallFails
  <2> QED
    BY <1>19, <2>1, EndRunType DEF CallFails
<1>20. ASSUME AppCreated \/ AppDeleted \/ SecretsChange \/ ClusterLost
       PROVE  spent' \in Spent
  BY <1>20, SpendType DEF AppCreated, AppDeleted, SecretsChange, ClusterLost, Change
<1>21. ASSUME Notify PROVE events' \in 0..MaxEvents
  BY <1>21, CappedType, OperatorAssumption DEF Notify
<1>22. CASE AppCreated
  BY <1>20, <1>21, <1>22 DEF AppCreated
<1>23. CASE AppDeleted
  BY <1>20, <1>21, <1>23 DEF AppDeleted
<1>24. CASE SecretsChange
  BY <1>20, <1>24 DEF SecretsChange
<1>25. CASE ClusterLost
  BY <1>20, <1>25 DEF ClusterLost
<1>26. CASE Resync
  BY <1>1, <1>26, CappedType DEF Resync
<1>27. CASE IntervalLapses
  BY <1>27 DEF IntervalLapses
<1>28. CASE UserEdit
  <2>1. spent' \in Spent
    BY <1>28, SpendType DEF UserEdit
  <2>2. resource' \in Resource
    BY <1>28, OperatorAssumption DEF UserEdit, Resource
  <2>3. stale' \in BOOLEAN
    BY <1>28 DEF UserEdit
  <2> QED
    BY <1>28, <2>1, <2>2, <2>3 DEF UserEdit
<1>29. CASE Stop
  <2>1. spent' \in Spent
    BY <1>29, SpendType DEF Stop
  <2>2. events' \in 0..MaxEvents
    BY <1>29, OperatorAssumption DEF Stop
  <2>3. /\ queryServers' = NoServers /\ recent' \in BOOLEAN /\ previous' \subseteq Key
        /\ EndRun("down")
    BY <1>29 DEF Stop
  <2> QED
    BY <1>29, <2>1, <2>2, <2>3, EndRunType DEF Stop, NoServers
<1>30. CASE UNCHANGED vars
  BY <1>30 DEF vars
<1> QED
  BY <1>2, <1>3, <1>4, <1>6, <1>7, <1>8, <1>9, <1>10, <1>11, <1>12, <1>13, <1>14, <1>15, <1>16,
     <1>17, <1>18, <1>19, <1>22, <1>23, <1>24, <1>25, <1>26, <1>27, <1>28, <1>29, <1>30
     DEF Next, Execute

---------------------------------------------------------------------------
(* The copy that an update sends. *)

\* A copy whose resourceVersion is still the object's equals the object.
FreshCopy == pc = "put" /\ ~stale => fetched = resource

LEMMA FreshStep == TypeOK /\ FreshCopy /\ [Next]_vars => FreshCopy'
<1> SUFFICES ASSUME TypeOK, FreshCopy, [Next]_vars PROVE FreshCopy'
  OBVIOUS
<1>1. CASE Fetch
  BY <1>1 DEF Fetch, FreshCopy
<1>2. CASE UserEdit
  BY <1>2 DEF UserEdit, FreshCopy
<1>3. ASSUME Start \/ SkipRun \/ BeginRun \/ QueryHost \/ NestedQueryFails \/ UnreachableEndsRun
              \/ QueriesDone \/ PrintInclusions \/ Collect \/ CompareEnds \/ CompareDiffers \/ Put
              \/ PutConflicts \/ GiveUp \/ PutAnswerLost \/ CallFails \/ Stop
      PROVE  pc' # "put"
  BY <1>3 DEF Start, SkipRun, BeginRun, QueryHost, NestedQueryFails, UnreachableEndsRun,
              QueriesDone, PrintInclusions, Collect, CompareEnds, CompareDiffers, Put,
              PutConflicts, GiveUp, PutAnswerLost, CallFails, Stop, Goto, EndRun
<1>4. ASSUME AppCreated \/ AppDeleted \/ SecretsChange \/ ClusterLost \/ Resync \/ IntervalLapses
              \/ UNCHANGED vars
      PROVE  UNCHANGED <<pc, stale, fetched, resource>>
  BY <1>4 DEF AppCreated, AppDeleted, SecretsChange, ClusterLost, Resync, IntervalLapses, vars,
              run, update
<1> QED
  BY <1>1, <1>2, <1>3, <1>4 DEF Next, Execute, FreshCopy

\* Steps that leave the object alone.
LEMMA OthersKeepResource ==
    ASSUME [Next]_vars, ~Put, ~PutAnswerLost, ~UserEdit
    PROVE  resource' = resource
<1>1. ASSUME Start \/ SkipRun \/ BeginRun \/ QueryHost \/ NestedQueryFails \/ UnreachableEndsRun
              \/ QueriesDone \/ PrintInclusions \/ Collect \/ CompareEnds \/ CompareDiffers
              \/ Fetch \/ PutConflicts \/ GiveUp \/ CallFails
      PROVE  resource' = resource
  BY <1>1 DEF Start, SkipRun, BeginRun, QueryHost, NestedQueryFails, UnreachableEndsRun,
              QueriesDone, PrintInclusions, Collect, CompareEnds, CompareDiffers, Fetch,
              PutConflicts, GiveUp, CallFails
<1>2. ASSUME AppCreated \/ AppDeleted \/ SecretsChange \/ ClusterLost \/ Resync \/ IntervalLapses
              \/ Stop \/ UNCHANGED vars
      PROVE  resource' = resource
  BY <1>2 DEF AppCreated, AppDeleted, SecretsChange, ClusterLost, Resync, IntervalLapses, Stop, vars
<1> QED
  BY <1>1, <1>2 DEF Next, Execute

---------------------------------------------------------------------------
(* What a run has found. *)

\* What is sure to be found of an application on a host.
SureOf(a, g) ==
    /\ KindsAll(Tracked[a][g]) \subseteq found
    /\ Uniform /\ ~lossy => KindsAll(Trees[owned][a][g]) \subseteq found

\* That of the applications which were there all along, on the hosts queried so
\* far, is found; once computed, the kinds cover these applications.
RunCovers ==
    /\ pc = "query" =>
         \A a \in steady : \A h \in DOMAIN queryServers \ unqueried : SureOf(a, queryServers[h])
    /\ pc = "missing" => \A a \in steady : \A g \in Reached : SureOf(a, g)
    /\ pc \in {"compare", "fetch", "put"} => CoversSteady(grouped)

\* A host that is queried adds that of every steady application.
LEMMA QueryCovers ==
    ASSUME TypeOK, RunCovers, QueriedHosts, pc = "query",
           NEW h \in unqueried, NEW t \in Ways(h), Traverse(h, t),
           Whole(t) => UNCHANGED lossy, ~Whole(t) => lossy' = TRUE, UNCHANGED <<queryServers, owned>>
    PROVE  \A a \in steady : \A d \in (DOMAIN queryServers \ unqueried)' : SureOf(a, queryServers[d])'
<1> SUFFICES ASSUME NEW a \in steady, NEW d \in DOMAIN queryServers \ unqueried'
             PROVE  /\ KindsAll(Tracked[a][queryServers[d]]) \subseteq found'
                    /\ Uniform /\ ~lossy' => KindsAll(Trees[owned][a][queryServers[d]]) \subseteq found'
  BY DEF SureOf, Uniform
<1>1. found' = found \cup {RootInfo} \cup KindsAll(t.visited) /\ unqueried' = unqueried \ {h}
  BY DEF Traverse, KindsAll
<1>2. CASE d = h
  <2>1. a \in apps /\ h \in DOMAIN queryServers
    BY DEF TypeOK, QueriedHosts
  <2> QED
    BY <1>1, <1>2, <2>1, TraversalFinds
<1>3. CASE d # h
  <2>1. SureOf(a, queryServers[d])
    BY <1>1, <1>3 DEF RunCovers
  <2>2. lossy' = FALSE => lossy = FALSE
    BY DEF TypeOK
  <2> QED
    BY <1>1, <2>1, <2>2 DEF SureOf, TypeOK
<1> QED
  BY <1>2, <1>3

\* Kinds that covered the steady applications still do when some are deleted.
LEMMA StillCovers ==
    ASSUME CoversSteady(grouped), UNCHANGED <<queryServers, owned, lossy, grouped>>, steady' \subseteq steady
    PROVE  CoversSteady(grouped)'
<1>1. \A resources, a : KindsOn(resources, a)' = KindsOn(resources, a)
  BY DEF KindsOn, AddMissing, MergeResourceInfos
<1>2. Reached' = Reached /\ Uniform' = Uniform
  BY DEF Reached, Uniform
<1>3. \A a : KindsOf(a)' = KindsOf(a) /\ FirstKinds(a)' = FirstKinds(a)
  BY <1>1, <1>2 DEF KindsOf, FirstKinds
<1> QED
  BY <1>2, <1>3 DEF CoversSteady

LEMMA ComputedCoversSteady ==
    ASSUME TypeOK, RunCovers, pc = "missing"
    PROVE  CoversSteady(Computed)
<1> SUFFICES ASSUME NEW a \in steady
             PROVE  /\ FirstKinds(a) \subseteq Computed
                    /\ Uniform /\ ~lossy => KindsOf(a) \subseteq Computed
  BY DEF CoversSteady
<1>1. a \in apps /\ \A g \in Reached : SureOf(a, g)
  BY DEF TypeOK, RunCovers
<1>2. \A S \in { Tracked[a][g] : g \in Reached } : KindsAll(S) \subseteq found
  BY <1>1 DEF SureOf
<1>3. Uniform /\ ~lossy => \A S \in { Trees[owned][a][g] : g \in Reached } : KindsAll(S) \subseteq found
  BY <1>1 DEF SureOf
<1> QED
  BY <1>1, <1>2, <1>3, ComputedCovers DEF FirstKinds, KindsOf

LEMMA CoversStep == TypeOK /\ RunCovers /\ QueriedHosts /\ [Next]_vars => RunCovers'
<1> SUFFICES ASSUME TypeOK, RunCovers, QueriedHosts, [Next]_vars PROVE RunCovers'
  OBVIOUS
<1>1. ASSUME Start \/ SkipRun \/ PrintInclusions \/ CompareEnds \/ Put \/ GiveUp \/ PutAnswerLost
              \/ CallFails \/ UnreachableEndsRun \/ Stop
      PROVE  pc' \in {"down", "failed", "idle"}
  BY <1>1 DEF Start, SkipRun, PrintInclusions, CompareEnds, Put, GiveUp, PutAnswerLost, CallFails,
              UnreachableEndsRun, Stop, Goto, EndRun
<1>2. CASE BeginRun
  <2>1. pc' = "query" /\ unqueried' = (DOMAIN queryServers)'
    BY <1>2 DEF BeginRun, Goto
  <2> QED
    BY <2>1 DEF RunCovers
<1>3. CASE QueryHost \/ NestedQueryFails
  <2>1. /\ pc = "query" /\ pc' = "query" /\ UNCHANGED <<steady, queryServers, owned>>
        /\ \E h \in unqueried : \E t \in Ways(h) :
             /\ Traverse(h, t)
             /\ Whole(t) => UNCHANGED lossy
             /\ ~Whole(t) => lossy' = TRUE
    BY <1>3 DEF QueryHost, NestedQueryFails, Goto, history, process, world
  <2>2. \A a \in steady : \A d \in (DOMAIN queryServers \ unqueried)' : SureOf(a, queryServers[d])'
    BY <2>1, QueryCovers
  <2> QED
    BY <2>1, <2>2 DEF RunCovers
<1>4. CASE QueriesDone
  <2>1. /\ pc = "query" /\ pc' = "missing" /\ unqueried = {}
        /\ UNCHANGED <<steady, queryServers, owned, lossy, found>>
    BY <1>4 DEF QueriesDone, Goto, run, history, process, world
  <2>2. \A a \in steady : \A g \in Reached : SureOf(a, g)
    BY <2>1 DEF RunCovers, Reached
  <2> QED
    BY <2>1, <2>2 DEF RunCovers, SureOf, Uniform, Reached
<1>5. CASE Collect
  <2>1. /\ pc = "missing" /\ pc' = "compare" /\ grouped' = Computed
        /\ UNCHANGED <<steady, lossy, queryServers, owned>>
    BY <1>5 DEF Collect, Goto, history, process, world
  <2>2. CoversSteady(grouped')
    BY <2>1, ComputedCoversSteady
  <2>3. CoversSteady(grouped)'
    BY <2>1, <2>2 DEF CoversSteady, KindsOf, FirstKinds, KindsOn, AddMissing, MergeResourceInfos,
                      Reached, Uniform
  <2> QED
    BY <2>1, <2>3 DEF RunCovers
<1>6. ASSUME CompareDiffers \/ Fetch \/ PutConflicts
      PROVE  /\ pc \in {"compare", "fetch", "put"} /\ pc' \in {"fetch", "put"}
             /\ UNCHANGED <<grouped, steady, lossy, queryServers, owned>>
  BY <1>6 DEF CompareDiffers, Fetch, PutConflicts, Goto, run, history, process, world
<1>7. ASSUME AppCreated \/ AppDeleted \/ SecretsChange \/ ClusterLost \/ Resync \/ IntervalLapses
              \/ UserEdit \/ UNCHANGED vars
      PROVE  /\ UNCHANGED <<pc, unqueried, found, grouped, lossy, queryServers, owned>>
             /\ steady' \subseteq steady
  BY <1>7 DEF AppCreated, AppDeleted, SecretsChange, ClusterLost, Resync, IntervalLapses, UserEdit,
              vars, run, history, process, world
<1>8. CASE CompareDiffers \/ Fetch \/ PutConflicts
  BY <1>6, <1>8, StillCovers DEF RunCovers
<1>9. CASE AppCreated \/ AppDeleted \/ SecretsChange \/ ClusterLost \/ Resync \/ IntervalLapses
             \/ UserEdit \/ UNCHANGED vars
  <2>1. \A a, g : SureOf(a, g) => SureOf(a, g)'
    BY <1>7, <1>9 DEF SureOf, Uniform
  <2>2. Reached' = Reached
    BY <1>7, <1>9 DEF Reached
  <2> QED
    BY <1>7, <1>9, <2>1, <2>2, StillCovers DEF RunCovers
<1> QED
  BY <1>1, <1>2, <1>3, <1>4, <1>5, <1>8, <1>9 DEF Next, Execute, RunCovers

---------------------------------------------------------------------------
(* And what it has not. *)

Writing == {"compare", "fetch", "put"}

\* The applications that exist count among those that existed; nothing is found
\* but what these have, and nothing computed but their kinds.
RunIsOfSeen ==
    /\ pc \in Remote => apps \subseteq seen
    /\ pc \in {"query", "missing"} =>
         \A i \in found \ {RootInfo} :
           \E a \in seen : \E g \in Reached : i \in KindsAll(Trees[owned][a][g])
    /\ pc \in Writing => OnlyOfSeen(grouped)

LEMMA ComputedIsOfSeen ==
    ASSUME TypeOK, RunIsOfSeen, pc = "missing"
    PROVE  OnlyOfSeen(Computed)
<1> SUFFICES ASSUME NEW k \in Computed
             PROVE  \/ k \in MergeResourceInfos({}, {RootInfo})
                    \/ \E a \in seen : k \in KindsOf(a)
  BY DEF OnlyOfSeen
<1>1. CASE k \in MergeResourceInfos({}, found)
  <2>1. PICK i \in found : k = <<CoreIfEmpty(i.group), i.kind>>
    BY <1>1 DEF MergeResourceInfos
  <2>2. CASE i = RootInfo
    BY <2>1, <2>2 DEF MergeResourceInfos
  <2>3. CASE i # RootInfo
    <3>1. PICK a \in seen : \E g \in Reached : i \in KindsAll(Trees[owned][a][g])
      BY <2>3 DEF RunIsOfSeen
    <3>2. i \in { Kind[r] : r \in UNION { Trees[owned][a][g] : g \in Reached } }
      BY <3>1 DEF KindsAll
    <3> QED
      BY <2>1, <3>2 DEF KindsOf, KindsOn, AddMissing, MergeResourceInfos
  <2> QED
    BY <2>2, <2>3
<1>2. CASE k \notin MergeResourceInfos({}, found)
  <2>1. PICK i \in UNION { Missing[a] : a \in apps } : k = <<i.group, i.kind>>
    BY <1>2 DEF Computed, AddMissing
  <2>2. PICK a \in apps : i \in Missing[a]
    BY <2>1
  <2>3. a \in seen
    BY <2>2 DEF RunIsOfSeen, Remote
  <2> QED
    BY <2>1, <2>2, <2>3 DEF KindsOf, KindsOn, AddMissing
<1> QED
  BY <1>1, <1>2

LEMMA OfSeenStep == TypeOK /\ RunIsOfSeen /\ QueriedHosts /\ [Next]_vars => RunIsOfSeen'
<1> SUFFICES ASSUME TypeOK, RunIsOfSeen, QueriedHosts, [Next]_vars PROVE RunIsOfSeen'
  OBVIOUS
<1> USE DEF Remote, Writing
<1>1. ASSUME Start \/ SkipRun \/ PrintInclusions \/ CompareEnds \/ Put \/ GiveUp \/ PutAnswerLost
              \/ CallFails \/ UnreachableEndsRun \/ Stop
      PROVE  pc' \in {"down", "failed", "idle"}
  BY <1>1 DEF Start, SkipRun, PrintInclusions, CompareEnds, Put, GiveUp, PutAnswerLost, CallFails,
              UnreachableEndsRun, Stop, Goto, EndRun
<1>2. CASE BeginRun
  BY <1>2 DEF BeginRun, Goto, RunIsOfSeen, world
<1>3. CASE QueryHost \/ NestedQueryFails
  <2>1. /\ pc = "query" /\ pc' = "query" /\ UNCHANGED <<apps, seen, queryServers, owned>>
        /\ \E h \in unqueried : \E t \in Ways(h) : Traverse(h, t)
    BY <1>3 DEF QueryHost, NestedQueryFails, Goto, history, process, world
  <2>2. PICK h \in unqueried : \E t \in Ways(h) : Traverse(h, t)
    BY <2>1
  <2>3. PICK t \in Ways(h) : Traverse(h, t)
    BY <2>2
  <2>4. found' = found \cup {RootInfo} \cup KindsAll(t.visited)
    BY <2>3 DEF Traverse, KindsAll
  <2>5. apps \subseteq seen /\ h \in DOMAIN queryServers /\ queryServers[h] \in Reached
    BY <2>1 DEF RunIsOfSeen, QueriedHosts, Reached
  <2>6. ASSUME NEW i \in found' \ {RootInfo}
        PROVE  \E a \in seen : \E g \in Reached : i \in KindsAll(Trees[owned][a][g])
    <3>1. CASE i \in found
      BY <2>1, <2>6, <3>1 DEF RunIsOfSeen
    <3>2. CASE i \in KindsAll(t.visited)
      BY <2>5, <3>2, TraversalOfApps
    <3> QED
      BY <2>4, <3>1, <3>2
  <2> QED
    BY <2>1, <2>5, <2>6 DEF RunIsOfSeen, Reached
<1>4. CASE QueriesDone
  <2>1. pc = "query" /\ pc' = "missing" /\ UNCHANGED <<found, seen, apps, queryServers, owned>>
    BY <1>4 DEF QueriesDone, Goto, run, history, process, world
  <2> QED
    BY <2>1 DEF RunIsOfSeen, Reached
<1>5. ASSUME UNCHANGED <<queryServers, owned, grouped>>, seen \subseteq seen', OnlyOfSeen(grouped)
      PROVE  OnlyOfSeen(grouped)'
  <2>1. \A a : KindsOf(a)' = KindsOf(a)
    BY <1>5 DEF KindsOf, KindsOn, AddMissing, MergeResourceInfos, Reached
  <2>2. MergeResourceInfos({}, {RootInfo})' = MergeResourceInfos({}, {RootInfo})
    BY DEF MergeResourceInfos
  <2> QED
    BY <1>5, <2>1, <2>2 DEF OnlyOfSeen
<1>6. CASE Collect
  <2>1. /\ pc = "missing" /\ pc' = "compare" /\ grouped' = Computed
        /\ UNCHANGED <<apps, seen, queryServers, owned>>
    BY <1>6 DEF Collect, Goto, history, process, world
  <2>2. OnlyOfSeen(grouped')
    BY <2>1, ComputedIsOfSeen
  <2>3. OnlyOfSeen(grouped)'
    BY <2>1, <2>2 DEF OnlyOfSeen, KindsOf, KindsOn, AddMissing, MergeResourceInfos, Reached
  <2> QED
    BY <2>1, <2>3 DEF RunIsOfSeen
<1>7. CASE CompareDiffers \/ Fetch \/ PutConflicts
  <2>1. /\ pc \in Writing /\ pc' \in Writing \ {"compare"}
        /\ UNCHANGED <<apps, grouped, seen, queryServers, owned>>
    BY <1>7 DEF CompareDiffers, Fetch, PutConflicts, Goto, run, history, process, world
  <2> QED
    BY <1>5, <2>1 DEF RunIsOfSeen
<1>8. CASE AppCreated
  <2>1. /\ UNCHANGED <<pc, unqueried, found, grouped, queryServers, owned>> /\ seen \subseteq seen'
        /\ pc \in Remote /\ apps \subseteq seen => apps' \subseteq seen'
    BY <1>8 DEF AppCreated
  <2> QED
    BY <1>5, <2>1 DEF RunIsOfSeen, Reached
<1>9. CASE AppDeleted \/ SecretsChange \/ ClusterLost \/ Resync \/ IntervalLapses \/ UserEdit
             \/ UNCHANGED vars
  <2>1. UNCHANGED <<pc, unqueried, found, grouped, seen, queryServers, owned>> /\ apps' \subseteq apps
    BY <1>9 DEF AppDeleted, SecretsChange, ClusterLost, Resync, IntervalLapses, UserEdit, vars, run,
                history, process, world
  <2> QED
    BY <1>5, <2>1 DEF RunIsOfSeen, Reached
<1> QED
  BY <1>1, <1>2, <1>3, <1>4, <1>6, <1>7, <1>8, <1>9 DEF Next, Execute, RunIsOfSeen

---------------------------------------------------------------------------
(* What is computed is never nothing. *)

\* The operator's own cluster is queried in every run, and the root of its
\* traversal is among what is found and computed.
RootIsFound ==
    /\ pc \notin Down => OwnHost \in DOMAIN queryServers
    /\ pc = "query" => OwnHost \in unqueried \/ RootInfo \in found
    /\ pc = "missing" => RootInfo \in found
    /\ pc \in Writing <=> grouped # {}

LEMMA RootStep == TypeOK /\ RootIsFound /\ [Next]_vars => RootIsFound'
<1> SUFFICES ASSUME TypeOK, RootIsFound, [Next]_vars PROVE RootIsFound'
  OBVIOUS
<1> USE DEF Writing, Down
<1>1. CASE Start
  BY <1>1 DEF Start, RootIsFound, run, process, NewQueryServers
<1>2. CASE Stop
  BY <1>2 DEF Stop, EndRun, RootIsFound
<1>3. CASE PrintInclusions \/ CompareEnds \/ Put \/ GiveUp \/ PutAnswerLost \/ CallFails
             \/ UnreachableEndsRun
  <2>1. pc \notin Down /\ pc' = "idle" /\ grouped' = {} /\ UNCHANGED queryServers
    BY <1>3 DEF PrintInclusions, CompareEnds, Put, GiveUp, PutAnswerLost, CallFails,
                UnreachableEndsRun, EndRun, process, Remote
  <2> QED
    BY <2>1 DEF RootIsFound
<1>4. CASE SkipRun
  BY <1>4 DEF SkipRun, Goto, RootIsFound, run
<1>5. CASE BeginRun
  BY <1>5 DEF BeginRun, Goto, RootIsFound
<1>6. CASE QueryHost \/ NestedQueryFails
  <2>1. /\ pc = "query" /\ pc' = "query" /\ UNCHANGED <<queryServers, grouped>>
        /\ RootInfo \in found'
    BY <1>6 DEF QueryHost, NestedQueryFails, Traverse, Goto, process
  <2> QED
    BY <2>1 DEF RootIsFound
<1>7. CASE QueriesDone
  BY <1>7 DEF QueriesDone, Goto, RootIsFound, run, process
<1>8. CASE Collect
  <2>1. pc = "missing" /\ pc' = "compare" /\ grouped' = Computed /\ UNCHANGED queryServers
    BY <1>8 DEF Collect, Goto, process
  <2>2. Computed # {}
    <3>1. RootInfo \in found
      BY <2>1 DEF RootIsFound
    <3>2. MergeResourceInfos({}, found) # {}
      BY <3>1 DEF MergeResourceInfos
    <3> QED
      BY <3>2 DEF Computed, AddMissing
  <2> QED
    BY <2>1, <2>2 DEF RootIsFound
<1>9. CASE CompareDiffers \/ Fetch \/ PutConflicts
  <2>1. pc \in Writing /\ pc' \in Writing /\ UNCHANGED <<grouped, queryServers>>
    BY <1>9 DEF CompareDiffers, Fetch, PutConflicts, Goto, run, process
  <2> QED
    BY <2>1 DEF RootIsFound
<1>10. CASE AppCreated \/ AppDeleted \/ SecretsChange \/ ClusterLost \/ Resync \/ IntervalLapses
              \/ UserEdit \/ UNCHANGED vars
  <2>1. UNCHANGED <<pc, unqueried, found, grouped, queryServers>>
    BY <1>10 DEF AppCreated, AppDeleted, SecretsChange, ClusterLost, Resync, IntervalLapses, UserEdit,
                 vars, run, process
  <2> QED
    BY <2>1 DEF RootIsFound
<1> QED
  BY <1>1, <1>2, <1>3, <1>4, <1>5, <1>6, <1>7, <1>8, <1>9, <1>10 DEF Next, Execute

---------------------------------------------------------------------------
(* Steps that give something out. *)

LEMMA WriteIsGrouped ==
    ASSUME TypeOK, [Next]_vars, Writes
    PROVE  FromYaml(resource'.inclusions) = grouped
<1>1. CASE Put \/ PutAnswerLost
  <2>1. resource' = Updated
    BY <1>1 DEF Put, PutAnswerLost
  <2> QED
    BY <2>1, UpdatedType, TextRoundTrip DEF TypeOK
<1>2. CASE UserEdit
  BY <1>2 DEF UserEdit, Writes
<1> QED
  BY <1>1, <1>2, OthersKeepResource DEF Writes

LEMMA PrintIsComputed ==
    ASSUME [Next]_vars, Prints
    PROVE  pc = "missing" /\ printed' = Computed
<1>1. ASSUME Start \/ SkipRun \/ BeginRun \/ QueryHost \/ NestedQueryFails \/ UnreachableEndsRun
              \/ QueriesDone \/ Collect \/ CompareEnds \/ CompareDiffers \/ Fetch \/ Put
              \/ PutConflicts \/ GiveUp \/ PutAnswerLost \/ CallFails
      PROVE  printed' = printed
  BY <1>1 DEF Start, SkipRun, BeginRun, QueryHost, NestedQueryFails, UnreachableEndsRun,
              QueriesDone, Collect, CompareEnds, CompareDiffers, Fetch, Put, PutConflicts, GiveUp,
              PutAnswerLost, CallFails, memory
<1>2. ASSUME AppCreated \/ AppDeleted \/ SecretsChange \/ ClusterLost \/ Resync \/ IntervalLapses
              \/ UserEdit \/ Stop \/ UNCHANGED vars
      PROVE  printed' = printed
  BY <1>2 DEF AppCreated, AppDeleted, SecretsChange, ClusterLost, Resync, IntervalLapses, UserEdit,
              Stop, vars, memory
<1>3. CASE PrintInclusions
  BY <1>3 DEF PrintInclusions, Prints
<1> QED
  BY <1>1, <1>2, <1>3 DEF Next, Execute, Prints

LEMMA CoverStep ==
    ASSUME TypeOK, RunCovers, [Next]_vars
    PROVE  /\ Writes => CoversSteady(FromYaml(resource'.inclusions))
           /\ Prints => CoversSteady(printed')
<1>1. ASSUME Writes PROVE CoversSteady(FromYaml(resource'.inclusions))
  BY <1>1, WriteIsGrouped DEF Writes, RunCovers
<1>2. ASSUME Prints PROVE CoversSteady(printed')
  <2>1. pc = "missing" /\ printed' = Computed
    BY <1>2, PrintIsComputed
  <2> QED
    BY <2>1, ComputedCoversSteady
<1> QED
  BY <1>1, <1>2

LEMMA OnlySeenStep ==
    ASSUME TypeOK, RunIsOfSeen, [Next]_vars
    PROVE  /\ Writes => OnlyOfSeen(FromYaml(resource'.inclusions))
           /\ Prints => OnlyOfSeen(printed')
<1>1. ASSUME Writes PROVE OnlyOfSeen(FromYaml(resource'.inclusions))
  BY <1>1, WriteIsGrouped DEF Writes, Writing, RunIsOfSeen
<1>2. ASSUME Prints PROVE OnlyOfSeen(printed')
  BY <1>2, PrintIsComputed, ComputedIsOfSeen
<1> QED
  BY <1>1, <1>2

---------------------------------------------------------------------------
(* An update is one step. *)

LEMMA UpdateStep ==
    ASSUME TypeOK, FreshCopy, RootIsFound, [Next]_vars
    PROVE  [Updates!Next]_<<resource, grouped>>
<1>1. CASE Put \/ PutAnswerLost
  <2>1. pc = "put" /\ ~stale /\ resource' = Updated /\ grouped' = {}
    BY <1>1 DEF Put, PutAnswerLost, EndRun
  <2>2. grouped # {} /\ fetched = resource
    BY <2>1 DEF RootIsFound, Writing, FreshCopy
  <2> QED
    BY <2>1, <2>2 DEF Updated, Updates!Write, Updates!Next
<1>2. CASE UserEdit
  BY <1>2 DEF UserEdit, Updates!UserEdit, Updates!Next
<1>3. CASE Collect
  <2>1. grouped = {} /\ grouped' = Computed /\ UNCHANGED resource
    BY <1>3 DEF Collect, Goto, RootIsFound, Writing
  <2> QED
    BY <2>1, ComputedType DEF Updates!Compute, Updates!Next
<1>4. CASE PrintInclusions \/ CompareEnds \/ GiveUp \/ CallFails \/ UnreachableEndsRun \/ Stop
  <2>1. grouped' = {} /\ UNCHANGED resource
    BY <1>4 DEF PrintInclusions, CompareEnds, GiveUp, CallFails, UnreachableEndsRun, Stop, EndRun
  <2> QED
    BY <2>1 DEF Updates!Drop, Updates!Next
<1>5. CASE Start \/ SkipRun \/ BeginRun \/ QueryHost \/ NestedQueryFails \/ QueriesDone
             \/ CompareDiffers \/ Fetch \/ PutConflicts
  <2>1. UNCHANGED <<resource, grouped>>
    BY <1>5 DEF Start, SkipRun, BeginRun, QueryHost, NestedQueryFails, QueriesDone, CompareDiffers,
                Fetch, PutConflicts, run
  <2> QED
    BY <2>1
<1>6. CASE AppCreated \/ AppDeleted \/ SecretsChange \/ ClusterLost \/ Resync \/ IntervalLapses
             \/ UNCHANGED vars
  <2>1. UNCHANGED <<resource, grouped>>
    BY <1>6 DEF AppCreated, AppDeleted, SecretsChange, ClusterLost, Resync, IntervalLapses, vars, run
  <2> QED
    BY <2>1
<1> QED
  BY <1>1, <1>2, <1>3, <1>4, <1>5, <1>6 DEF Next, Execute

---------------------------------------------------------------------------

IInv == TypeOK /\ AttemptsLeft /\ QueriedHosts /\ FreshCopy /\ RunCovers /\ RunIsOfSeen /\ RootIsFound

LEMMA InductiveInvariant == Spec => []IInv
<1>1. Init => IInv
  BY TypeInit DEF Init, IInv, AttemptsLeft, QueriedHosts, FreshCopy, RunCovers, RunIsOfSeen,
                  RootIsFound, Remote, Writing, Down
<1>2. IInv /\ [Next]_vars => IInv'
  BY TypeStep, AttemptsStep, QueriedStep, FreshStep, CoversStep, OfSeenStep, RootStep DEF IInv
<1> QED
  BY <1>1, <1>2, PTL DEF Spec

\* Type correctness of the operator.
THEOREM TypeCorrect == Spec => []TypeOK
<1>1. IInv => TypeOK
  BY DEF IInv
<1> QED
  BY <1>1, InductiveInvariant, PTL

\* For those who edit the same object, the attempts of an update
\* (pkg/argocd/application.go, UpdateResourceInclusions) are one step, made at
\* most once for each computation: it goes through only with a copy that equals
\* the object, and what is computed is never nothing.
THEOREM OneUpdateStep == Spec => UpdatesAreAtomic
<1>1. Init => Updates!Init
  BY DEF Init, Updates!Init
<1>2. IInv /\ [Next]_vars => [Updates!Next]_<<resource, grouped>>
  BY UpdateStep DEF IInv
<1> QED
  BY <1>1, <1>2, InductiveInvariant, PTL DEF Spec, UpdatesAreAtomic, Updates!Spec, Updates!vars

\* Whatever fails, and whatever users do meanwhile, an update writes, and a run
\* prints, at least the kinds that the first queries yield for every application
\* that existed all through the run, on every host that is queried; and where
\* the resources of a kind lead to the same kinds, all the kinds of these
\* applications, unless an error was swallowed (operator/graphquery.go, execute,
\* and pkg/graph/query.go, which skips the later resources of a kind).
THEOREM NoPartIsWritten == Spec => WritesCoverSteadyApps
<1>1. IInv /\ [Next]_vars =>
        [/\ Writes => CoversSteady(FromYaml(resource'.inclusions))
         /\ Prints => CoversSteady(printed')]_vars
  BY CoverStep DEF IInv
<1> QED
  BY <1>1, InductiveInvariant, PTL DEF Spec, WritesCoverSteadyApps

\* And at most the kinds of the applications that existed at some time of the
\* run: nothing is left over from earlier runs, restarts or edits.
THEOREM NothingElseIsWritten == Spec => WritesOnlySeenApps
<1>1. IInv /\ [Next]_vars =>
        [/\ Writes => OnlyOfSeen(FromYaml(resource'.inclusions))
         /\ Prints => OnlyOfSeen(printed')]_vars
  BY OnlySeenStep DEF IInv
<1> QED
  BY <1>1, InductiveInvariant, PTL DEF Spec, WritesOnlySeenApps

=============================================================================
