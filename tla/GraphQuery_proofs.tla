-------------------------- MODULE GraphQuery_proofs -------------------------
(***************************************************************************)
(* Proofs about GraphQuery, for any clusters, applications, resources and  *)
(* failing calls.  The invariants relate the stack of the traversal to the *)
(* application the loop is at: whatever is on it belongs to the tree of    *)
(* that application, and whatever a query has yielded is on it until it is *)
(* handed to the backend.                                                  *)
(***************************************************************************)
EXTENDS GraphQuery, ResourceGraph_proofs, FiniteSetTheorems, SequenceTheorems

---------------------------------------------------------------------------
(* The stack. *)

Elements(st) == { st[i] : i \in 1..Len(st) }

LEMMA StackTop ==
    ASSUME stack \in Seq(Frame), stack # <<>>
    PROVE  /\ Top \in Frame /\ Below \in Seq(Frame) /\ Len(Below) = Len(stack) - 1
           /\ Elements(stack) = Elements(Below) \cup {Top}
<1>1. Len(stack) \in Nat \ {0} /\ \A i \in 1..Len(stack) : stack[i] \in Frame
  BY EmptySeq, ElementOfSeq
<1>2. PICK n \in Nat : Len(stack) = n + 1 /\ Len(stack) - 1 = n
  BY <1>1
<1>3. Below = SubSeq(stack, 1, n) /\ \A i \in 1..n : stack[i] \in Frame
  BY <1>1, <1>2 DEF Below
<1>4. /\ Below \in Seq(Frame) /\ Len(Below) = n
      /\ \A i \in 1..n : Below[i] = stack[i]
  <2>1. /\ SubSeq(stack, 1, n) \in Seq(Frame)
        /\ Len(SubSeq(stack, 1, n)) = IF 1 <= n THEN n - 1 + 1 ELSE 0
        /\ \A i \in 1 .. n - 1 + 1 : SubSeq(stack, 1, n)[i] = stack[1 + i - 1]
    BY <1>3, SubSeqProperties
  <2>2. ASSUME NEW i \in 1..n PROVE i \in 1 .. n - 1 + 1 /\ 1 + i - 1 = i
    OBVIOUS
  <2>3. QED
    BY <1>3, <2>1, <2>2
<1>5. 1..Len(stack) = 1..n \cup {Len(stack)}
  BY <1>2
<1>6. Elements(stack) = Elements(Below) \cup {Top}
  BY <1>4, <1>5 DEF Elements, Top
<1>7. QED
  BY <1>1, <1>2, <1>4, <1>6 DEF Top

LEMMA Pushed ==
    ASSUME NEW st \in Seq(Frame), NEW f \in Frame
    PROVE  /\ Append(st, f) \in Seq(Frame) /\ Append(st, f) # <<>>
           /\ Len(Append(st, f)) = Len(st) + 1
           /\ Append(st, f)[Len(Append(st, f))] = f
           /\ Elements(Append(st, f)) = Elements(st) \cup {f}
<1>1. /\ Append(st, f) \in Seq(Frame) /\ Append(st, f) # <<>>
      /\ Len(Append(st, f)) = Len(st) + 1
      /\ \A i \in 1..Len(st) : Append(st, f)[i] = st[i]
      /\ Append(st, f)[Len(st) + 1] = f
  BY AppendProperties
<1>2. Len(st) \in Nat
  BY LenProperties
<1>3. 1 .. Len(st) + 1 = 1..Len(st) \cup {Len(st) + 1}
  BY <1>2
<1>4. QED
  BY <1>1, <1>2, <1>3 DEF Elements

LEMMA EmptyStack == <<>> \in Seq(Frame) /\ Elements(<<>>) = {}
BY EmptySeq DEF Elements

---------------------------------------------------------------------------
(* The tree of an application. *)

Queried(r) == Kind[r].kind \notin LeafKinds \cup BlackListedKinds

LEMMA AnswerType ==
    ASSUME NEW s \in Servers, NEW r \in Resources
    PROVE  Answer(s, r) \subseteq Resources
BY GraphAssumption DEF Answer

LEMMA TreeClosed ==
    ASSUME NEW a \in Apps, NEW s \in Servers
    PROVE  /\ Manifests[a] \subseteq Tree(s, a) /\ Tree(s, a) \subseteq Resources
           /\ \A r \in Tree(s, a) : Queried(r) => Answer(s, r) \subseteq Tree(s, a)
           /\ \A S \in SUBSET Resources :
                 /\ Manifests[a] \subseteq S
                 /\ \A r \in S : Queried(r) => Answer(s, r) \subseteq S
                 => Tree(s, a) \subseteq S
<1>. DEFINE queried == { r \in Resources : Kind[r].kind \notin LeafKinds \cup BlackListedKinds }
            answers == [r \in queried |-> Answer(s, r)]
<1>1. Tree(s, a) = Reachable(answers, Manifests[a])
  BY DEF Tree
<1>2. \A r : Children(answers, r) = IF r \in queried THEN Answer(s, r) ELSE {}
  BY DEF Children
<1>3. Manifests[a] \subseteq Resources
  BY GraphAssumption
<1>4. \A r \in Resources : r \in queried <=> Queried(r)
  BY DEF Queried
<1>5. \A r \in queried : r \in Resources
  OBVIOUS
<1>. HIDE DEF queried, answers
<1>6. /\ Manifests[a] \subseteq Tree(s, a) /\ ClosedUnder(answers, Tree(s, a))
      /\ \A S : Manifests[a] \subseteq S /\ ClosedUnder(answers, S) => Tree(s, a) \subseteq S
  BY <1>1, ReachableClosure
<1>7. ASSUME NEW S \in SUBSET Resources,
             \A r \in S : Queried(r) => Answer(s, r) \subseteq S
      PROVE  ClosedUnder(answers, S)
  BY <1>2, <1>4, <1>7 DEF ClosedUnder
<1>8. Tree(s, a) \subseteq Resources
  <2>1. \A r \in Resources : Answer(s, r) \subseteq Resources
    BY <1>3, AnswerType
  <2>2. ClosedUnder(answers, Resources)
    BY <1>7, <2>1
  <2>3. QED
    BY <1>3, <1>6, <2>2
<1>9. ASSUME NEW r \in Tree(s, a), Queried(r) PROVE Answer(s, r) \subseteq Tree(s, a)
  <2>1. r \in queried
    BY <1>4, <1>8, <1>9
  <2>2. Children(answers, r) \subseteq Tree(s, a)
    BY <1>6 DEF ClosedUnder
  <2>3. QED
    BY <1>2, <2>1, <2>2
<1>10. QED
  BY <1>6, <1>7, <1>8, <1>9

LEMMA ServerOf ==
    ASSUME NEW a \in Apps, app = {a}
    PROVE  Server = Destination[a] /\ Server \in Servers
<1>1. Destination[a] \in Servers
  BY GraphAssumption
<1>2. QED
  BY <1>1 DEF Server

LEMMA KindKeys ==
    /\ \A S : MergeResourceInfos({}, S) = { RootKey(i) : i \in S }
    /\ \A S : KindsOf(S) = { RootKey(Kind[r]) : r \in S }
BY DEF MergeResourceInfos, KindsOf, RootKey

---------------------------------------------------------------------------
(* Types, and where the backend stands. *)

AtApplication == pc \in {"server", "traverse", "query", "status"}

LoopInv ==
    /\ IF AtApplication THEN \E a \in analysed : app = {a} /\ a \notin todo ELSE app = {}
    /\ pc \notin {"server", "traverse", "query"} => manifests = {}
    /\ pc \notin {"traverse", "query"} => stack = <<>>
    /\ pc = "query" => stack # <<>> /\ Queried(Top.resource) /\ Top.rest = {}
    /\ pc = "list" => analysed = {}
    /\ pc = "done" => todo = {}

TypeInv == TypeOK /\ LoopInv

LEMMA TypeInit == Init => TypeInv
<1>. SUFFICES ASSUME Init PROVE TypeInv
  OBVIOUS
<1>1. IsFiniteSet({}) /\ Cardinality({}) = 0
  BY FS_EmptySet
<1>2. stack \in Seq(Frame)
  BY EmptyStack DEF Init
<1>3. TypeOK
  BY <1>1, <1>2 DEF Init, TypeOK
<1>4. QED
  BY <1>3 DEF Init, TypeInv, LoopInv, AtApplication

\* What the actions of the traversal make of the stack.
LEMMA StackStep ==
    ASSUME TypeInv
    PROVE  /\ \A r \in Resources : [resource |-> r, rest |-> {}] \in Frame
           /\ stack # <<>> => /\ \A r \in Resources : [Top EXCEPT !.rest = @ \ {r}] \in Frame
                              /\ Top.resource \in Resources /\ Top.rest \subseteq Resources
           /\ pc = "query" => /\ Server \in Servers /\ executor[Server] \in Servers
                              /\ Answer(executor[Server], Top.resource) \subseteq Resources
                              /\ [Top EXCEPT !.rest = Answer(executor[Server], Top.resource)]
                                   \in Frame
<1>1. \A r \in Resources : [resource |-> r, rest |-> {}] \in Frame
  BY DEF Frame
<1>2. ASSUME stack # <<>>
      PROVE  /\ \A r \in Resources : [Top EXCEPT !.rest = @ \ {r}] \in Frame
             /\ Top.resource \in Resources /\ Top.rest \subseteq Resources
             /\ \A S \in SUBSET Resources : [Top EXCEPT !.rest = S] \in Frame
  <2>1. Top \in Frame
    BY <1>2, StackTop DEF TypeInv, TypeOK
  <2>2. QED
    BY <2>1 DEF Frame
<1>3. ASSUME pc = "query"
      PROVE  /\ Server \in Servers /\ executor[Server] \in Servers
             /\ Answer(executor[Server], Top.resource) \subseteq Resources
             /\ [Top EXCEPT !.rest = Answer(executor[Server], Top.resource)] \in Frame
  <2>1. stack # <<>> /\ \E a \in Apps : app = {a}
    BY <1>3 DEF TypeInv, TypeOK, LoopInv, AtApplication
  <2>2. Server \in Servers /\ executor[Server] \in Servers
    BY <2>1, ServerOf DEF TypeInv, TypeOK
  <2>3. Answer(executor[Server], Top.resource) \subseteq Resources
    BY <1>2, <2>1, <2>2, AnswerType
  <2>4. QED
    BY <1>2, <2>1, <2>2, <2>3
<1>4. QED
  BY <1>1, <1>2, <1>3

\* A call puts a frame of its own on those of its callers, or leaves them.
LEMMA CallStep ==
    ASSUME NEW r \in Resources, NEW callers \in Seq(Frame), Call(r, callers)
    PROVE  /\ stack' \in Seq(Frame)
           /\ r \in visitedNodes'
           /\ pc' \in {"traverse", "query"}
           /\ \/ /\ r \in visitedNodes
                 /\ stack' = callers /\ pc' = "traverse" /\ UNCHANGED visitedNodes
              \/ /\ r \notin visitedNodes /\ visitedNodes' = visitedNodes \cup {r}
                 /\ stack' # <<>> /\ Top' = [resource |-> r, rest |-> {}]
                 /\ Elements(stack)' = Elements(callers) \cup {[resource |-> r, rest |-> {}]}
                 /\ Len(stack') = Len(callers) + 1
                 /\ pc' = IF Skipped(r) THEN "traverse" ELSE "query"
<1>. DEFINE frame == [resource |-> r, rest |-> {}]
<1>1. frame \in Frame
  BY DEF Frame
<1>2. CASE r \in visitedNodes
  BY <1>2 DEF Call
<1>3. CASE r \notin visitedNodes
  <2>1. /\ stack' = Append(callers, frame)
        /\ pc' = IF Skipped(r) THEN "traverse" ELSE "query"
        /\ visitedNodes' = visitedNodes \cup {r}
    BY <1>3 DEF Call
  <2>2. /\ stack' \in Seq(Frame) /\ stack' # <<>> /\ Top' = frame
        /\ Elements(stack)' = Elements(callers) \cup {frame}
        /\ Len(stack') = Len(callers) + 1
    BY <1>1, <2>1, Pushed DEF Top, Elements
  <2>3. QED
    BY <1>3, <2>1, <2>2
<1>4. QED
  BY <1>2, <1>3

LEMMA TypeNext == TypeInv /\ [Next]_vars => TypeInv'
<1>. SUFFICES ASSUME TypeInv, [Next]_vars PROVE TypeInv'
  OBVIOUS
<1>. USE DEF TypeInv, LoopInv, AtApplication, Goto, servers
<1>1. IsFiniteSet({}) /\ Cardinality({}) = 0 /\ \A x : Cardinality({x}) = 1
  BY FS_EmptySet, FS_Singleton
<1>2. CASE ListApplications
  BY <1>2, GraphAssumption DEF ListApplications, TypeOK, traversal, output
<1>3. CASE ListApplicationsFails
  BY <1>3 DEF ListApplicationsFails, TypeOK, loopVars, traversal, output
<1>4. CASE FetchManifests
  <2>1. PICK a \in todo :
          /\ app' = {a} /\ todo' = todo \ {a}
          /\ \/ manifests' = Manifests[a] /\ UNCHANGED failures
             \/ manifests' = {} /\ Fails("manifests", a)
    BY <1>4 DEF FetchManifests
  <2>2. a \in Apps /\ a \in analysed /\ Manifests[a] \subseteq Resources
    BY GraphAssumption DEF TypeOK
  <2>3. failures' \subseteq Calls \X (Apps \cup Resources)
    BY <2>1, <2>2 DEF TypeOK, Fails, Calls
  <2>4. app' \subseteq Apps /\ Cardinality(app') <= 1 /\ manifests' \subseteq Resources
    <3>1. Cardinality({a}) = 1
      BY <1>1
    <3>2. QED
      BY <2>1, <2>2, <3>1
  <2>5. TypeOK'
    BY <1>4, <2>1, <2>3, <2>4 DEF FetchManifests, TypeOK, traversal, output
  <2>6. QED
    BY <1>4, <2>1, <2>2, <2>5 DEF FetchManifests, traversal
<1>5. CASE GetQueryServer
  <2>1. PICK a \in app :
          \/ Destination[a] \in queryServers /\ UNCHANGED servers
          \/ /\ Destination[a] \notin queryServers
             /\ queryServers' = queryServers \cup {Destination[a]}
             /\ \E s \in Executors(Destination[a]) :
                  executor' = [executor EXCEPT ![Destination[a]] = s]
    BY <1>5 DEF GetQueryServer
  <2>2. Destination[a] \in Servers
    BY GraphAssumption DEF TypeOK
  <2>3. \A s \in Executors(Destination[a]) :
          s \in Servers /\ (SharedExecutor \/ s = Destination[a])
    BY <2>2 DEF Executors, TypeOK
  <2>4. /\ queryServers' \subseteq Servers /\ executor' \in [Servers -> Servers]
        /\ \A s \in Servers : SharedExecutor \/ executor'[s] = s
    BY <2>1, <2>2, <2>3 DEF TypeOK
  <2>5. TypeOK'
    BY <1>5, <2>4 DEF GetQueryServer, TypeOK, loopVars, traversal, output
  <2>6. QED
    BY <1>5, <2>5 DEF GetQueryServer, loopVars, traversal
<1>6. CASE GetQueryServerFails \/ ProcessExits
  <2>1. failures' \subseteq Calls \X (Apps \cup Resources)
    BY <1>6 DEF GetQueryServerFails, ProcessExits, NoQueryServer, Fails, Calls, TypeOK
  <2>2. /\ UNCHANGED <<todo, analysed, queryServers, executor, visitedKinds, visitedNodes, stack>>
        /\ UNCHANGED <<allChildren, result>>
        /\ manifests' = {} /\ stack = <<>>
        /\ \/ pc' = "status" /\ app' = app /\ pc = "server"
           \/ pc' = "error" /\ app' = {}
    BY <1>6 DEF GetQueryServerFails, ProcessExits, loopVars, traversal, output
  <2>3. app' \subseteq Apps /\ Cardinality(app') <= 1
    BY <1>1, <2>2 DEF TypeOK
  <2>4. TypeOK'
    BY <2>1, <2>2, <2>3 DEF TypeOK, Frame
  <2>5. QED
    BY <2>2, <2>4
<1>7. CASE TraverseManifest
  <2>1. PICK r \in manifests :
          /\ manifests' = manifests \ {r} /\ visitedNodes' = {r}
          /\ stack' = << [resource |-> r, rest |-> {}] >>
          /\ pc' = IF Skipped(r) THEN "traverse" ELSE "query"
    BY <1>7 DEF TraverseManifest
  <2>2. r \in Resources /\ [resource |-> r, rest |-> {}] \in Frame
    BY StackStep DEF TypeOK
  <2>3. /\ stack' \in Seq(Frame) /\ stack' # <<>>
        /\ Top' = [resource |-> r, rest |-> {}]
    BY <2>1, <2>2 DEF Top
  <2>4. TypeOK'
    BY <1>7, <2>1, <2>2, <2>3 DEF TraverseManifest, TypeOK, loopVars, output
  <2>5. ~Skipped(r) => Queried(r)
    BY DEF Skipped, Queried
  <2>6. QED
    BY <1>7, <2>1, <2>3, <2>4, <2>5 DEF TraverseManifest, loopVars
<1>8. CASE Query
  <2>1. /\ stack # <<>> /\ Server \in Servers /\ Top.resource \in Resources
        /\ [Top EXCEPT !.rest = Answer(executor[Server], Top.resource)] \in Frame
    BY <1>8, StackStep DEF Query
  <2>2. stack' \in Seq(Frame)
    BY <1>8, <2>1, StackTop, Pushed DEF Query, TypeOK
  <2>3. visitedKinds' \in [Servers -> SUBSET Info]
    BY <1>8, <2>1, GraphAssumption DEF Query, TypeOK
  <2>4. TypeOK'
    BY <1>8, <2>2, <2>3 DEF Query, TypeOK, loopVars, output
  <2>5. QED
    BY <1>8, <2>4 DEF Query, loopVars
<1>9. CASE QueryFails
  <2>1. stack # <<>> /\ Below \in Seq(Frame) /\ Top.resource \in Resources
    BY <1>9, StackTop, StackStep DEF QueryFails, TypeOK
  <2>2. TypeOK'
    BY <1>9, <2>1 DEF QueryFails, TypeOK, loopVars, output, Fails, Calls
  <2>3. QED
    BY <1>9, <2>2 DEF QueryFails, loopVars
<1>10. CASE VisitChild
  <2>1. PICK r \in Top.rest : Call(r, Append(Below, [Top EXCEPT !.rest = @ \ {r}]))
    BY <1>10 DEF VisitChild
  <2>2. r \in Resources /\ Append(Below, [Top EXCEPT !.rest = @ \ {r}]) \in Seq(Frame)
    BY <1>10, StackStep, StackTop, Pushed DEF VisitChild, TypeOK
  <2>3. /\ stack' \in Seq(Frame) /\ visitedNodes' \subseteq Resources
        /\ pc' \in {"traverse", "query"}
        /\ pc' = "query" => stack' # <<>> /\ Top' = [resource |-> r, rest |-> {}] /\ ~Skipped(r)
    BY <2>1, <2>2, CallStep DEF TypeOK
  <2>4. ~Skipped(r) => Queried(r)
    BY DEF Skipped, Queried
  <2>5. TypeOK'
    BY <1>10, <2>3 DEF VisitChild, TypeOK, loopVars, output
  <2>6. QED
    BY <1>10, <2>3, <2>4, <2>5 DEF VisitChild, loopVars
<1>11. CASE Return
  <2>1. Below \in Seq(Frame)
    BY <1>11, StackTop DEF Return, TypeOK
  <2>2. allChildren' \subseteq Info
    BY <1>11, GraphAssumption DEF Return, TypeOK
  <2>3. TypeOK'
    BY <1>11, <2>1, <2>2 DEF Return, TypeOK, loopVars
  <2>4. QED
    BY <1>11, <2>3 DEF Return, loopVars
<1>12. CASE TraversalsDone
  BY <1>12 DEF TraversalsDone, TypeOK, loopVars, traversal, output
<1>13. CASE AddStatus
  <2>1. allChildren' \subseteq Info /\ failures' \subseteq Calls \X (Apps \cup Resources)
    BY <1>13, GraphAssumption DEF AddStatus, TypeOK, Fails, Calls
  <2>2. TypeOK'
    BY <1>1, <1>13, <2>1 DEF AddStatus, TypeOK, traversal
  <2>3. QED
    BY <1>13, <2>2 DEF AddStatus, traversal
<1>14. CASE Finish
  <2>1. result' \subseteq Key
    BY <1>14, MergeResourceInfosType DEF Finish, TypeOK
  <2>2. TypeOK'
    BY <1>14, <2>1 DEF Finish, TypeOK, loopVars, traversal
  <2>3. QED
    BY <1>14, <2>2 DEF Finish, loopVars, traversal
<1>15. CASE UNCHANGED vars
  <2>1. /\ UNCHANGED <<pc, todo, analysed, app, queryServers, executor, visitedKinds, manifests>>
        /\ UNCHANGED <<visitedNodes, stack, allChildren, result, failures>>
    BY <1>15 DEF vars, loopVars, traversal, output
  <2>2. TypeOK'
    BY <2>1 DEF TypeOK, Frame
  <2>3. QED
    BY <2>1, <2>2 DEF Top, Queried
<1>16. QED
  BY <1>2, <1>3, <1>4, <1>5, <1>6, <1>7, <1>8, <1>9, <1>10, <1>11, <1>12, <1>13, <1>14, <1>15
  DEF Next

---------------------------------------------------------------------------
(* The traversal stays in the tree of its application. *)

\* The tree of an application on the cluster that its query server reaches.
OwnTree(a) == Tree(executor[Destination[a]], a)

TreeInv ==
    \A a \in app :
        /\ manifests \subseteq Manifests[a]
        /\ stack # <<>> => visitedNodes \subseteq OwnTree(a)
        /\ \A f \in Elements(stack) : f.resource \in OwnTree(a) /\ f.rest \subseteq OwnTree(a)

LEMMA TreeNext == TypeInv /\ TypeInv' /\ TreeInv /\ [Next]_vars => TreeInv'
<1>. SUFFICES ASSUME TypeInv, TypeInv', TreeInv, [Next]_vars,
                     NEW a \in app', NEW T, T = OwnTree(a)'
     PROVE  /\ manifests' \subseteq Manifests[a]
            /\ stack' # <<>> => visitedNodes' \subseteq T
            /\ \A f \in Elements(stack)' : f.resource \in T /\ f.rest \subseteq T
  BY DEF TreeInv
<1>. a \in Apps
  BY DEF TypeInv, TypeOK
<1>1. /\ Manifests[a] \subseteq T
      /\ \A r \in T : Queried(r) => Answer(executor'[Destination[a]], r) \subseteq T
  <2>1. executor'[Destination[a]] \in Servers
    BY GraphAssumption DEF TypeInv, TypeOK
  <2>2. T = Tree(executor'[Destination[a]], a)
    BY DEF OwnTree
  <2>3. QED
    BY <2>1, <2>2, TreeClosed
<1>2. stack' = <<>> => Elements(stack)' = {}
  BY EmptyStack DEF Elements
<1>3. /\ stack # <<>> => Elements(stack) = Elements(Below) \cup {Top} /\ Below \in Seq(Frame)
      /\ stack # <<>> => Top \in Frame
  BY StackTop DEF TypeInv, TypeOK
<1>4. CASE pc' \notin {"traverse", "query"}
  <2>1. stack' = <<>>
    BY <1>4 DEF TypeInv, LoopInv
  <2>2. \A f \in Elements(stack)' : f.resource \in T /\ f.rest \subseteq T
    BY <1>2, <2>1
  <2>3. CASE FetchManifests
    BY <2>1, <2>2, <2>3 DEF FetchManifests
  <2>4. CASE ~FetchManifests
    <3>1. pc' = "server" => UNCHANGED vars
      BY <2>4 DEF Next, Goto, ListApplications, ListApplicationsFails, GetQueryServer,
          GetQueryServerFails, ProcessExits, TraverseManifest, Query, QueryFails, VisitChild,
          Call, Return, TraversalsDone, AddStatus, Finish
    <3>2. pc' # "server" => manifests' = {}
      BY <1>4 DEF TypeInv, LoopInv
    <3>3. UNCHANGED vars => manifests' \subseteq Manifests[a]
      BY DEF TreeInv, vars, loopVars
    <3>4. QED
      BY <2>1, <2>2, <3>1, <3>2, <3>3
  <2>5. QED
    BY <2>3, <2>4
<1>5. CASE pc' \in {"traverse", "query"}
  <2>1. \/ GetQueryServer \/ TraverseManifest \/ Query \/ QueryFails \/ VisitChild \/ Return
        \/ UNCHANGED vars
    BY <1>5 DEF Next, Goto, ListApplications, ListApplicationsFails, FetchManifests,
        GetQueryServerFails, ProcessExits, TraversalsDone, AddStatus, Finish
  <2>2. app' = app /\ a \in app /\ app = {a}
    BY <2>1 DEF vars, loopVars, GetQueryServer, TraverseManifest, Query, QueryFails, VisitChild,
        Return, Goto, TypeInv, TypeOK, LoopInv, AtApplication
  <2>3. CASE GetQueryServer
    <3>1. stack' = <<>> /\ manifests' = manifests
      BY <2>3 DEF GetQueryServer, Goto, traversal, TypeInv, LoopInv
    <3>2. QED
      BY <1>2, <2>2, <3>1 DEF TreeInv
  <2>4. ASSUME TraverseManifest \/ Query \/ QueryFails \/ VisitChild \/ Return \/ UNCHANGED vars
        PROVE  /\ executor' = executor /\ manifests \subseteq Manifests[a]
               /\ stack # <<>> => visitedNodes \subseteq T
               /\ \A f \in Elements(stack) : f.resource \in T /\ f.rest \subseteq T
    <3>1. executor' = executor
      BY <2>4 DEF vars, servers, TraverseManifest, Query, QueryFails, VisitChild, Return
    <3>2. T = OwnTree(a)
      BY <3>1 DEF OwnTree
    <3>3. QED
      BY <2>2, <3>1, <3>2 DEF TreeInv
  <2>5. CASE TraverseManifest
    <3>1. PICK r \in manifests :
            /\ manifests' = manifests \ {r} /\ visitedNodes' = {r}
            /\ stack' = << [resource |-> r, rest |-> {}] >>
      BY <2>5 DEF TraverseManifest
    <3>2. r \in T /\ manifests' \subseteq Manifests[a]
      BY <1>1, <2>4, <2>5, <3>1
    <3>3. Elements(stack)' = {[resource |-> r, rest |-> {}]}
      BY <3>1 DEF Elements
    <3>4. QED
      BY <3>1, <3>2, <3>3
  <2>6. CASE Query
    <3>. DEFINE frame == [Top EXCEPT !.rest = Answer(executor[Server], Top.resource)]
    <3>1. stack # <<>> /\ Queried(Top.resource) /\ frame \in Frame
      BY <2>6, StackStep DEF Query, Goto, TypeInv, LoopInv
    <3>2. Elements(stack)' = Elements(Below) \cup {frame}
      BY <1>3, <2>6, <3>1, Pushed DEF Query, Elements
    <3>3. Top.resource \in T
      BY <1>3, <2>4, <2>6, <3>1
    <3>4. frame.resource = Top.resource /\ frame.rest \subseteq T
      BY <1>1, <1>3, <2>2, <2>4, <2>6, <3>1, <3>3, ServerOf DEF Frame
    <3>5. QED
      BY <1>3, <2>4, <2>6, <3>1, <3>2, <3>3, <3>4 DEF Query
  <2>7. CASE QueryFails
    BY <1>3, <2>4, <2>7 DEF QueryFails, Elements, TypeInv, LoopInv, Goto
  <2>8. CASE VisitChild
    <3>. DEFINE callers(r) == Append(Below, [Top EXCEPT !.rest = @ \ {r}])
    <3>1. PICK r \in Top.rest : Call(r, callers(r))
      BY <2>8 DEF VisitChild
    <3>2. stack # <<>> /\ r \in Resources /\ [Top EXCEPT !.rest = @ \ {r}] \in Frame
      BY <2>8, StackStep DEF VisitChild
    <3>3. /\ callers(r) \in Seq(Frame)
          /\ Elements(callers(r)) = Elements(Below) \cup {[Top EXCEPT !.rest = @ \ {r}]}
      BY <1>3, <3>2, Pushed
    <3>4. /\ r \in T
          /\ \A f \in Elements(callers(r)) : f.resource \in T /\ f.rest \subseteq T
      BY <1>3, <2>4, <2>8, <3>2, <3>3 DEF Frame
    <3>. HIDE DEF callers
    <3>5. /\ visitedNodes' \subseteq visitedNodes \cup {r}
          /\ Elements(stack)' \subseteq Elements(callers(r)) \cup {[resource |-> r, rest |-> {}]}
      BY <3>1, <3>2, <3>3, CallStep DEF Elements
    <3>6. manifests' \subseteq Manifests[a] /\ visitedNodes \subseteq T
      BY <2>4, <2>8, <3>2 DEF VisitChild
    <3>7. \A f \in Elements(stack)' : f.resource \in T /\ f.rest \subseteq T
      BY <3>4, <3>5
    <3>8. QED
      BY <3>4, <3>5, <3>6, <3>7
  <2>9. CASE Return
    BY <1>3, <2>4, <2>9 DEF Return, Elements
  <2>10. CASE UNCHANGED vars
    BY <2>4, <2>10 DEF vars, loopVars, traversal, Elements
  <2>11. QED
    BY <2>1, <2>3, <2>5, <2>6, <2>7, <2>8, <2>9, <2>10
<1>6. QED
  BY <1>4, <1>5

---------------------------------------------------------------------------
(* What is collected. *)

Collected == MergeResourceInfos({}, allChildren)

ResultInv == pc = "done" => result = Collected

\* Of an application that the loop is over, the status is collected, or the call
\* for it has failed, unless the process has ended.
StatusInv ==
    pc # "error" => \A a \in analysed \ (todo \cup app) :
        <<"status", a>> \in failures \/ Status[a] \subseteq allChildren

Inv == TypeInv /\ TreeInv /\ ResultInv /\ StatusInv

\* The only actions that collect add kinds of the application the loop is at.
LEMMA CollectedStep ==
    ASSUME TypeInv, TreeInv, [Next]_vars
    PROVE  /\ allChildren \subseteq allChildren'
           /\ allChildren' # allChildren =>
                /\ AddStatus \/ Return
                /\ Collected' \subseteq Collected \cup UNION { Offer[a] : a \in analysed }
<1>1. allChildren' # allChildren => AddStatus \/ Return
  BY DEF Next, vars, loopVars, traversal, output, ListApplications, ListApplicationsFails,
      FetchManifests, GetQueryServer, GetQueryServerFails, ProcessExits, TraverseManifest, Query,
      QueryFails, VisitChild, TraversalsDone, Finish
<1>2. allChildren \subseteq allChildren'
  BY <1>1 DEF AddStatus, Return
<1>3. ASSUME AddStatus \/ Return
      PROVE  Collected' \subseteq Collected \cup UNION { Offer[a] : a \in analysed }
  <2>1. PICK a \in analysed : app = {a}
    BY <1>3 DEF AddStatus, Return, Goto, TypeInv, LoopInv, AtApplication
  <2>2. /\ a \in Apps
        /\ KindsOf(OwnTree(a)) \subseteq Offer[a]
        /\ MergeResourceInfos({}, Status[a]) \subseteq Offer[a]
    <3>1. a \in Apps
      BY <2>1 DEF TypeInv, TypeOK
    <3>. DEFINE reached == IF SharedExecutor THEN Servers ELSE {Destination[a]}
                trees == { KindsOf(Tree(s, a)) : s \in reached }
    <3>2. KindsOf(OwnTree(a)) \in trees
      <4>1. executor[Destination[a]] \in reached
        BY <3>1, GraphAssumption DEF TypeInv, TypeOK
      <4>2. QED
        BY <4>1 DEF OwnTree
    <3>3. Offer[a] = MergeResourceInfos({}, Status[a]) \cup UNION trees
      BY <3>1 DEF Offer
    <3>. HIDE DEF trees
    <3>4. KindsOf(OwnTree(a)) \subseteq UNION trees
      BY <3>2
    <3>5. QED
      BY <3>1, <3>3, <3>4
  <2>3. ASSUME NEW S, allChildren' \subseteq allChildren \cup S,
               { RootKey(i) : i \in S } \subseteq Offer[a]
        PROVE  Collected' \subseteq Collected \cup UNION { Offer[b] : b \in analysed }
    <3>1. /\ Collected = { RootKey(i) : i \in allChildren }
          /\ Collected' = { RootKey(i) : i \in allChildren' }
      BY KindKeys DEF Collected
    <3>2. Offer[a] \subseteq UNION { Offer[b] : b \in analysed }
      BY <2>1
    <3>3. QED
      BY <2>3, <3>1, <3>2
  <2>4. CASE AddStatus
    <3>1. allChildren' \subseteq allChildren \cup Status[a]
      BY <2>1, <2>4 DEF AddStatus
    <3>2. QED
      BY <2>2, <2>3, <3>1, KindKeys
  <2>5. CASE Return
    <3>1. visitedNodes \subseteq OwnTree(a)
      BY <2>1, <2>5 DEF Return, TreeInv
    <3>2. allChildren' \subseteq allChildren \cup { Kind[r] : r \in visitedNodes }
      BY <2>5 DEF Return
    <3>3. { RootKey(i) : i \in { Kind[r] : r \in visitedNodes } } \subseteq KindsOf(OwnTree(a))
      BY <3>1, KindKeys
    <3>4. QED
      BY <2>2, <2>3, <3>2, <3>3
  <2>6. QED
    BY <1>3, <2>4, <2>5
<1>4. QED
  BY <1>1, <1>2, <1>3

LEMMA StatusNext == TypeInv /\ TreeInv /\ StatusInv /\ [Next]_vars => StatusInv'
<1>. SUFFICES ASSUME TypeInv, TreeInv, StatusInv, [Next]_vars,
                     pc' # "error", NEW a \in analysed', a \notin todo', a \notin app'
     PROVE  <<"status", a>> \in failures' \/ Status[a] \subseteq allChildren'
  BY DEF StatusInv
<1>1. allChildren \subseteq allChildren' /\ failures \subseteq failures'
  BY CollectedStep DEF Next, vars, ListApplications, ListApplicationsFails, FetchManifests,
      GetQueryServer, GetQueryServerFails, ProcessExits, TraverseManifest, Query, QueryFails,
      VisitChild, Return, TraversalsDone, AddStatus, Finish, Fails, NoQueryServer
<1>2. CASE a \in analysed /\ a \notin todo /\ a \notin app
  <2>1. pc # "error"
    BY DEF Next, vars, Goto, ListApplications, ListApplicationsFails, FetchManifests,
        GetQueryServer, GetQueryServerFails, ProcessExits, TraverseManifest, Query, QueryFails,
        VisitChild, Return, TraversalsDone, AddStatus, Finish
  <2>2. QED
    BY <1>1, <1>2, <2>1 DEF StatusInv
<1>3. CASE ~(a \in analysed /\ a \notin todo /\ a \notin app)
  <2>1. ListApplications \/ FetchManifests \/ AddStatus
    BY <1>3 DEF Next, vars, loopVars, Goto, ListApplicationsFails, GetQueryServer,
        GetQueryServerFails, ProcessExits, TraverseManifest, Query, QueryFails, VisitChild, Return,
        TraversalsDone, Finish
  <2>2. AddStatus
    BY <1>3, <2>1 DEF ListApplications, FetchManifests, Goto, TypeInv, LoopInv, AtApplication
  <2>3. app = {a}
    BY <1>3, <2>2 DEF AddStatus, Goto, TypeInv, LoopInv, AtApplication
  <2>4. QED
    BY <2>2, <2>3 DEF AddStatus, Fails
<1>4. QED
  BY <1>2, <1>3

LEMMA ResultNext == ResultInv /\ [Next]_vars => ResultInv'
<1>. SUFFICES ASSUME ResultInv, [Next]_vars, pc' = "done" PROVE result' = Collected'
  BY DEF ResultInv
<1>1. Finish \/ UNCHANGED vars
  BY DEF Next, Goto, ListApplications, ListApplicationsFails, FetchManifests, GetQueryServer,
      GetQueryServerFails, ProcessExits, TraverseManifest, Query, QueryFails, VisitChild, Call,
      Return, TraversalsDone, AddStatus
<1>2. QED
  BY <1>1 DEF Finish, vars, output, ResultInv, Collected

LEMMA Invariance == Spec => []Inv
<1>1. Init => Inv
  BY TypeInit, EmptyStack DEF Init, Inv, TreeInv, ResultInv, StatusInv
<1>2. Inv /\ [Next]_vars => Inv'
  BY TypeNext, TreeNext, ResultNext, StatusNext DEF Inv
<1>3. QED
  BY <1>1, <1>2, PTL DEF Spec

---------------------------------------------------------------------------
(* The theorems. *)

\* The variables have their types.
THEOREM TypeCorrect == Spec => []TypeOK
BY Invariance, PTL DEF Inv, TypeInv

\* Every status that could be fetched is in the result, whatever else failed.
THEOREM StatusInResult == Spec => []StatusReported
<1>1. Inv => StatusReported
  <2>. SUFFICES ASSUME Inv, pc = "done", NEW a \in analysed, <<"status", a>> \notin failures
       PROVE  MergeResourceInfos({}, Status[a]) \subseteq result
    BY DEF StatusReported
  <2>1. Status[a] \subseteq allChildren /\ result = Collected
    BY DEF Inv, StatusInv, ResultInv, TypeInv, LoopInv, AtApplication
  <2>2. QED
    BY <2>1, KindKeys DEF Collected
<1>2. QED
  BY <1>1, Invariance, PTL

\* The graph strategy is an analysis, whatever the clusters and whatever fails.
THEOREM GraphIsAnalysis == Spec => ImplementsAnalysis
<1>. USE DEF Abstract!vars
<1>1. Init => Abstract!Init
  BY DEF Init, Abstract!Init, MergeResourceInfos
<1>2. Inv /\ [Next]_vars => [Abstract!Next]_(Abstract!vars)
  <2>. SUFFICES ASSUME Inv, [Next]_vars PROVE [Abstract!Next]_(Abstract!vars)
    OBVIOUS
  <2>. DEFINE phase == CASE pc = "list" -> "listing" [] pc = "error" -> "failed"
                         [] pc = "done" -> "returned" [] OTHER -> "running"
  <2>1. CASE ListApplications
    <3>1. phase = "listing" /\ phase' = "running" /\ analysed' \subseteq Apps
      BY <2>1 DEF ListApplications, Goto
    <3>2. UNCHANGED <<allChildren, result>>
      BY <2>1 DEF ListApplications, output
    <3>3. QED
      BY <3>1, <3>2 DEF Abstract!Next, Abstract!List, Abstract!Grow
  <2>2. CASE ListApplicationsFails
    <3>1. phase = "listing" /\ phase' = "failed"
      BY <2>2 DEF ListApplicationsFails, Goto
    <3>2. UNCHANGED <<analysed, allChildren, result>>
      BY <2>2 DEF ListApplicationsFails, loopVars, output
    <3>3. QED
      BY <3>1, <3>2 DEF Abstract!Next, Abstract!Fail
  <2>3. CASE ProcessExits
    <3>1. phase = "running" /\ phase' = "failed"
      BY <2>3 DEF ProcessExits, Goto
    <3>2. UNCHANGED <<analysed, allChildren, result>>
      BY <2>3 DEF ProcessExits, output
    <3>3. QED
      BY <3>1, <3>2 DEF Abstract!Next, Abstract!Fail
  <2>4. CASE Finish
    <3>1. phase = "running" /\ phase' = "returned"
      BY <2>4 DEF Finish, Goto
    <3>2. UNCHANGED <<analysed, allChildren>> /\ result' = MergeResourceInfos({}, allChildren)
      BY <2>4 DEF Finish, loopVars
    <3>3. QED
      BY <3>1, <3>2 DEF Abstract!Next, Abstract!Return
  <2>5. CASE AddStatus \/ Return
    <3>1. phase = "running" /\ phase' = "running"
      BY <2>5 DEF AddStatus, Return, Goto
    <3>2. UNCHANGED <<analysed, result>>
      BY <2>5 DEF AddStatus, Return, loopVars
    <3>3. /\ Collected \subseteq Collected'
          /\ Collected' \subseteq Collected \cup UNION { Offer[a] : a \in analysed' }
      BY <3>2, CollectedStep, KindKeys DEF Inv, Collected
    <3>4. QED
      BY <3>1, <3>2, <3>3 DEF Abstract!Next, Abstract!Collect, Abstract!Grow, Collected
  <2>6. CASE ~(\/ ListApplications \/ ListApplicationsFails \/ ProcessExits \/ Finish
               \/ AddStatus \/ Return)
    <3>1. UNCHANGED <<analysed, allChildren, result>>
      BY <2>6 DEF Next, vars, loopVars, output, FetchManifests, GetQueryServer,
          GetQueryServerFails, TraverseManifest, Query, QueryFails, VisitChild, TraversalsDone
    <3>2. phase' = phase
      BY <2>6 DEF Next, vars, FetchManifests, GetQueryServer, GetQueryServerFails,
          TraverseManifest, Query, QueryFails, VisitChild, Call, TraversalsDone, Goto
    <3>3. QED
      BY <3>1, <3>2
  <2>7. QED
    BY <2>1, <2>2, <2>3, <2>4, <2>5, <2>6
<1>3. QED
  BY <1>1, <1>2, Invariance, PTL DEF Spec, ImplementsAnalysis, Abstract!Spec

---------------------------------------------------------------------------
(* A query server that is in use, or has queried a kind, is in the cache. *)

MadeInv ==
    /\ pc \in {"traverse", "query"} => \A a \in app : Destination[a] \in queryServers
    /\ \A s \in Servers : visitedKinds[s] # {} => s \in queryServers

LEMMA MadeNext == TypeInv /\ MadeInv /\ [Next]_vars => MadeInv'
<1>. SUFFICES ASSUME TypeInv, MadeInv, [Next]_vars PROVE MadeInv'
  OBVIOUS
<1>1. CASE GetQueryServer
  <2>1. queryServers \subseteq queryServers' /\ \A a \in app : Destination[a] \in queryServers'
    BY <1>1 DEF GetQueryServer, servers, TypeInv, LoopInv, AtApplication, Goto
  <2>2. QED
    BY <1>1, <2>1 DEF MadeInv, GetQueryServer, loopVars, traversal
<1>2. CASE Query
  <2>1. PICK a \in Apps : app = {a} /\ pc = "query"
    BY <1>2 DEF Query, Goto, TypeInv, TypeOK, LoopInv, AtApplication
  <2>2. Server \in Servers /\ Server \in queryServers
    BY <2>1, ServerOf DEF MadeInv
  <2>3. \A s \in Servers : visitedKinds'[s] = visitedKinds[s] \/ s = Server
    BY <1>2, <2>2 DEF Query, TypeInv, TypeOK
  <2>4. app' = app /\ queryServers' = queryServers
    BY <1>2 DEF Query, loopVars, servers
  <2>5. QED
    BY <2>1, <2>2, <2>3, <2>4 DEF MadeInv
<1>3. CASE ~GetQueryServer /\ ~Query
  <2>1. visitedKinds' = visitedKinds /\ queryServers' = queryServers
    BY <1>3 DEF Next, vars, servers, traversal, ListApplications, ListApplicationsFails,
        FetchManifests, GetQueryServerFails, ProcessExits, TraverseManifest, QueryFails, VisitChild,
        Return, TraversalsDone, AddStatus, Finish
  <2>2. pc' \in {"traverse", "query"} => pc \in {"traverse", "query"} /\ app' = app
    BY <1>3 DEF Next, vars, loopVars, Goto, ListApplications, ListApplicationsFails,
        FetchManifests, GetQueryServerFails, ProcessExits, TraverseManifest, QueryFails, VisitChild,
        Return, TraversalsDone, AddStatus, Finish
  <2>3. QED
    BY <2>1, <2>2 DEF MadeInv
<1>4. QED
  BY <1>1, <1>2, <1>3

\* The executor of a query server is not exchanged.
LEMMA ExecutorStep ==
    ASSUME TypeInv, [Next]_vars, NEW s \in Servers, s \in queryServers
    PROVE  executor'[s] = executor[s]
<1>1. CASE GetQueryServer
  <2>1. PICK a \in app :
          \/ UNCHANGED servers
          \/ /\ Destination[a] \notin queryServers
             /\ \E c \in Executors(Destination[a]) :
                  executor' = [executor EXCEPT ![Destination[a]] = c]
    BY <1>1 DEF GetQueryServer
  <2>2. executor \in [Servers -> Servers]
    BY DEF TypeInv, TypeOK
  <2>3. QED
    BY <2>1, <2>2 DEF servers
<1>2. CASE ~GetQueryServer
  BY <1>2 DEF Next, vars, servers, ListApplications, ListApplicationsFails, FetchManifests,
      GetQueryServerFails, ProcessExits, TraverseManifest, Query, QueryFails, VisitChild, Return,
      TraversalsDone, AddStatus, Finish
<1>3. QED
  BY <1>1, <1>2

---------------------------------------------------------------------------
(* What a query has yielded is reported, if resources of a kind are owned alike. *)

Uniform ==
    \A s \in Servers : \A r, q \in Resources :
        Kind[r] = Kind[q] =>
            { Kind[c] : c \in Answer(s, r) } = { Kind[c] : c \in Answer(s, q) }

\* The query for the manifest itself is no longer to be made.
RootPassed == stack # <<>> /\ ~(pc = "query" /\ Len(stack) = 1)

Pending(k) == \E f \in Elements(stack) : \E c \in f.rest : Kind[c] = k

\* Whatever fails from now on, k will be in the result.
Reported(k) == k \in allChildren \/ (RootPassed /\ \E r \in visitedNodes : Kind[r] = k)

\* No query for k on s has still to be made, other than the one that is next.
Covered(s, k) ==
    \/ k.kind \in LeafKinds \cup BlackListedKinds
    \/ k \in visitedKinds[s]
    \/ pc = "query" /\ Server = s /\ Kind[Top.resource] = k

FrameInv == \A f \in Elements(stack) : f.resource \in visitedNodes

SettledInv ==
    \A s \in Servers : \A r \in Resources :
        Kind[r] \in visitedKinds[s] =>
            \A c \in Answer(executor[s], r) : Reported(Kind[c]) \/ Pending(Kind[c])

\* Outside the traversal nothing of it changes.
LEMMA QuietStep ==
    ASSUME TypeInv, TreeInv, [Next]_vars,
           ~(TraverseManifest \/ Query \/ QueryFails \/ VisitChild \/ Return)
    PROVE  \/ /\ stack = <<>> /\ stack' = <<>> /\ pc # "query" /\ pc' # "query"
              /\ visitedKinds' = visitedKinds /\ allChildren \subseteq allChildren'
           \/ UNCHANGED vars
<1>1. allChildren \subseteq allChildren'
  BY CollectedStep
<1>2. QED
  BY <1>1 DEF Next, Goto, TypeInv, LoopInv, ListApplications, ListApplicationsFails,
      FetchManifests, GetQueryServer, GetQueryServerFails, ProcessExits, TraversalsDone,
      AddStatus, Finish, traversal

\* The frames after a step of the traversal.
LEMMA FramesStep ==
    ASSUME TypeInv
    PROVE  /\ TraverseManifest =>
                /\ stack = <<>> /\ Len(stack') = 1
                /\ \E r \in manifests :
                     /\ visitedNodes' = {r} /\ manifests' = manifests \ {r}
                     /\ Elements(stack)' = {[resource |-> r, rest |-> {}]}
                     /\ Top' = [resource |-> r, rest |-> {}]
                     /\ pc' = IF Skipped(r) THEN "traverse" ELSE "query"
           /\ Query =>
                /\ stack # <<>> /\ Top.rest = {} /\ Len(stack') = Len(stack) /\ stack' # <<>>
                /\ Elements(stack)' = Elements(Below) \cup
                      {[resource |-> Top.resource, rest |-> Answer(executor[Server], Top.resource)]}
           /\ QueryFails \/ Return =>
                /\ stack # <<>> /\ Top.rest = {} /\ Len(stack') = Len(stack) - 1
                /\ Elements(stack)' = Elements(Below)
           /\ VisitChild =>
                /\ stack # <<>> /\ stack' # <<>>
                /\ \E r \in Top.rest :
                     /\ r \in Resources /\ visitedNodes' = visitedNodes \cup {r}
                     /\ \E F \in {{}, {[resource |-> r, rest |-> {}]}} :
                          /\ Elements(stack)' = Elements(Below) \cup
                                {[resource |-> Top.resource, rest |-> Top.rest \ {r}]} \cup F
                     /\ \/ r \in visitedNodes /\ pc' = "traverse"
                        \/ /\ Len(stack') # 1
                           /\ Top' = [resource |-> r, rest |-> {}]
                           /\ pc' = IF Skipped(r) THEN "traverse" ELSE "query"
           /\ stack # <<>> =>
                /\ Elements(stack) = Elements(Below) \cup {Top} /\ Top \in Frame
                /\ Len(stack) \in Nat \ {0}
<1>1. stack # <<>> =>
        /\ Elements(stack) = Elements(Below) \cup {Top} /\ Top \in Frame
        /\ Below \in Seq(Frame) /\ Len(Below) = Len(stack) - 1
        /\ Len(stack) \in Nat \ {0}
  BY StackTop, EmptySeq DEF TypeInv, TypeOK
<1>2. ASSUME TraverseManifest
      PROVE  /\ stack = <<>> /\ Len(stack') = 1
             /\ \E r \in manifests :
                  /\ visitedNodes' = {r} /\ manifests' = manifests \ {r}
                  /\ Elements(stack)' = {[resource |-> r, rest |-> {}]}
                  /\ Top' = [resource |-> r, rest |-> {}]
                  /\ pc' = IF Skipped(r) THEN "traverse" ELSE "query"
  <2>1. PICK r \in manifests :
          /\ manifests' = manifests \ {r} /\ visitedNodes' = {r}
          /\ stack' = << [resource |-> r, rest |-> {}] >>
          /\ pc' = IF Skipped(r) THEN "traverse" ELSE "query"
    BY <1>2 DEF TraverseManifest
  <2>2. /\ Elements(stack)' = {[resource |-> r, rest |-> {}]} /\ Len(stack') = 1
        /\ Top' = [resource |-> r, rest |-> {}]
    BY <2>1 DEF Elements, Top
  <2>3. QED
    BY <1>2, <2>1, <2>2 DEF TraverseManifest
<1>3. ASSUME Query
      PROVE  /\ stack # <<>> /\ Top.rest = {} /\ Len(stack') = Len(stack) /\ stack' # <<>>
             /\ Elements(stack)' = Elements(Below) \cup
                   {[resource |-> Top.resource, rest |-> Answer(executor[Server], Top.resource)]}
  <2>. DEFINE frame == [Top EXCEPT !.rest = Answer(executor[Server], Top.resource)]
  <2>1. stack # <<>> /\ Top.rest = {} /\ frame \in Frame
    BY <1>3, StackStep DEF Query, Goto, TypeInv, LoopInv
  <2>2. frame = [resource |-> Top.resource, rest |-> Answer(executor[Server], Top.resource)]
    BY <1>1, <2>1 DEF Frame
  <2>. HIDE DEF frame
  <2>3. stack' = Append(Below, frame)
    BY <1>3 DEF Query, frame
  <2>4. /\ Len(stack') = Len(Below) + 1 /\ stack' # <<>>
        /\ Elements(stack)' = Elements(Below) \cup {frame}
    BY <1>1, <2>1, <2>3, Pushed DEF Elements
  <2>5. QED
    BY <1>1, <2>1, <2>2, <2>4
<1>4. ASSUME QueryFails \/ Return
      PROVE  /\ stack # <<>> /\ Top.rest = {} /\ Len(stack') = Len(stack) - 1
             /\ Elements(stack)' = Elements(Below)
  <2>1. stack # <<>> /\ Top.rest = {} /\ stack' = Below
    BY <1>4 DEF QueryFails, Return, Goto, TypeInv, LoopInv
  <2>2. QED
    BY <1>1, <2>1 DEF Elements
<1>5. ASSUME VisitChild
      PROVE  /\ stack # <<>> /\ stack' # <<>>
             /\ \E r \in Top.rest :
                  /\ r \in Resources /\ visitedNodes' = visitedNodes \cup {r}
                  /\ \E F \in {{}, {[resource |-> r, rest |-> {}]}} :
                       /\ Elements(stack)' = Elements(Below) \cup
                             {[resource |-> Top.resource, rest |-> Top.rest \ {r}]} \cup F
                  /\ \/ r \in visitedNodes /\ pc' = "traverse"
                     \/ /\ Len(stack') # 1
                        /\ Top' = [resource |-> r, rest |-> {}]
                        /\ pc' = IF Skipped(r) THEN "traverse" ELSE "query"
  <2>. DEFINE frame(r) == [Top EXCEPT !.rest = @ \ {r}]
              callers(r) == Append(Below, frame(r))
  <2>1. PICK r \in Top.rest : Call(r, callers(r))
    BY <1>5 DEF VisitChild
  <2>2. stack # <<>> /\ r \in Resources /\ frame(r) \in Frame
    BY <1>5, StackStep DEF VisitChild
  <2>3. frame(r) = [resource |-> Top.resource, rest |-> Top.rest \ {r}]
    <3>1. PICK q \in Resources, S \in SUBSET Resources : Top = [resource |-> q, rest |-> S]
      BY <1>1, <2>2 DEF Frame
    <3>2. QED
      BY <3>1
  <2>. HIDE DEF frame
  <2>4. /\ callers(r) \in Seq(Frame) /\ callers(r) # <<>> /\ Len(callers(r)) = Len(stack)
        /\ Elements(callers(r)) = Elements(Below) \cup {frame(r)}
    BY <1>1, <2>2, Pushed
  <2>. HIDE DEF callers
  <2>5. CASE r \in visitedNodes
    <3>1. stack' = callers(r) /\ pc' = "traverse" /\ UNCHANGED visitedNodes
      BY <2>1, <2>2, <2>4, <2>5, CallStep
    <3>2. Elements(stack)' = Elements(callers(r))
      BY <3>1 DEF Elements
    <3>3. QED
      BY <2>2, <2>3, <2>4, <2>5, <3>1, <3>2
  <2>6. CASE r \notin visitedNodes
    <3>1. /\ visitedNodes' = visitedNodes \cup {r} /\ stack' # <<>>
          /\ Top' = [resource |-> r, rest |-> {}]
          /\ Elements(stack)' = Elements(callers(r)) \cup {[resource |-> r, rest |-> {}]}
          /\ Len(stack') = Len(callers(r)) + 1
          /\ pc' = IF Skipped(r) THEN "traverse" ELSE "query"
      BY <2>1, <2>2, <2>4, <2>6, CallStep
    <3>2. Len(stack') # 1
      BY <1>1, <2>2, <2>4, <3>1
    <3>3. QED
      BY <2>2, <2>3, <2>4, <3>1, <3>2
  <2>7. QED
    BY <2>5, <2>6
<1>6. QED
  BY <1>1, <1>2, <1>3, <1>4, <1>5

LEMMA FrameNext == TypeInv /\ TreeInv /\ FrameInv /\ [Next]_vars => FrameInv'
<1>. SUFFICES ASSUME TypeInv, TreeInv, FrameInv, [Next]_vars, NEW f \in Elements(stack)'
     PROVE  f.resource \in visitedNodes'
  BY DEF FrameInv
<1>1. CASE TraverseManifest
  BY <1>1, FramesStep
<1>2. CASE Query
  <2>1. visitedNodes' = visitedNodes
    BY <1>2 DEF Query
  <2>2. QED
    BY <1>2, <2>1, FramesStep DEF FrameInv
<1>3. CASE QueryFails \/ Return
  <2>1. visitedNodes' = visitedNodes
    BY <1>3 DEF QueryFails, Return
  <2>2. QED
    BY <1>3, <2>1, FramesStep DEF FrameInv
<1>4. CASE VisitChild
  BY <1>4, FramesStep DEF FrameInv
<1>5. CASE ~(TraverseManifest \/ Query \/ QueryFails \/ VisitChild \/ Return)
  <2>1. stack' = <<>> \/ UNCHANGED vars
    BY <1>5, QuietStep
  <2>2. stack' = <<>> => Elements(stack)' = {}
    BY EmptyStack DEF Elements
  <2>3. QED
    BY <2>1, <2>2 DEF vars, traversal, FrameInv, Elements
<1>6. QED
  BY <1>1, <1>2, <1>3, <1>4, <1>5

\* What will be reported stays so, and what is pending is visited in time.
LEMMA ReportedStep ==
    ASSUME TypeInv, TreeInv, FrameInv, [Next]_vars, NEW k
    PROVE  /\ Reported(k) => Reported(k)'
           /\ Pending(k) => Pending(k)' \/ Reported(k)'
<1>1. CASE TraverseManifest
  <2>1. stack = <<>> /\ allChildren' = allChildren
    BY <1>1 DEF TraverseManifest, output
  <2>2. QED
    BY <2>1, EmptyStack DEF Reported, RootPassed, Pending
<1>2. CASE Query
  <2>1. /\ UNCHANGED <<allChildren, visitedNodes>> /\ pc' = "traverse" /\ stack' # <<>>
        /\ stack # <<>> /\ Top.rest = {} /\ Elements(Below) \subseteq Elements(stack)'
        /\ Elements(stack) = Elements(Below) \cup {Top}
    BY <1>2, FramesStep DEF Query, Goto, output
  <2>2. QED
    BY <2>1 DEF Reported, RootPassed, Pending
<1>3. CASE QueryFails \/ Return
  <2>1. /\ UNCHANGED visitedNodes /\ pc' = "traverse"
        /\ stack # <<>> /\ Top.rest = {} /\ Elements(stack)' = Elements(Below)
        /\ Elements(stack) = Elements(Below) \cup {Top}
        /\ Len(stack) \in Nat \ {0} /\ Len(stack') = Len(stack) - 1
    BY <1>3, FramesStep DEF QueryFails, Return, Goto
  <2>2. Pending(k) => Pending(k)'
    BY <2>1 DEF Pending
  <2>3. CASE QueryFails
    <3>1. UNCHANGED allChildren /\ pc = "query"
      BY <2>3 DEF QueryFails, Goto, output
    <3>2. RootPassed => stack' # <<>>
      BY <2>1, <3>1, EmptySeq DEF RootPassed
    <3>3. QED
      BY <2>1, <2>2, <3>1, <3>2 DEF Reported, RootPassed
  <2>4. CASE Return
    <3>1. /\ stack' = Below /\ pc = "traverse"
          /\ allChildren' = IF Below = <<>> THEN allChildren \cup { Kind[r] : r \in visitedNodes }
                                            ELSE allChildren
      BY <2>4 DEF Return
    <3>2. QED
      BY <2>1, <2>2, <3>1 DEF Reported, RootPassed
  <2>5. QED
    BY <1>3, <2>3, <2>4
<1>4. CASE VisitChild
  <2>1. PICK r \in Top.rest :
          /\ visitedNodes' = visitedNodes \cup {r}
          /\ [resource |-> Top.resource, rest |-> Top.rest \ {r}] \in Elements(stack)'
          /\ Elements(Below) \subseteq Elements(stack)'
          /\ pc' = "traverse" \/ Len(stack') # 1
    BY <1>4, FramesStep
  <2>2. /\ UNCHANGED allChildren /\ stack' # <<>>
        /\ Elements(stack) = Elements(Below) \cup {Top}
    BY <1>4, FramesStep DEF VisitChild, output
  <2>3. RootPassed'
    BY <2>1, <2>2 DEF RootPassed
  <2>4. Kind[r] = k => Reported(k)'
    BY <2>1, <2>3 DEF Reported
  <2>5. Pending(k) => Pending(k)' \/ Reported(k)'
    <3>1. SUFFICES ASSUME NEW f \in Elements(stack), NEW c \in f.rest, Kind[c] = k, c # r
          PROVE  Pending(k)'
      BY <2>4 DEF Pending
    <3>2. CASE f = Top
      BY <2>1, <3>1, <3>2 DEF Pending
    <3>3. CASE f \in Elements(Below)
      BY <2>1, <3>1, <3>3 DEF Pending
    <3>4. QED
      BY <2>2, <3>2, <3>3
  <2>6. QED
    BY <2>1, <2>2, <2>3, <2>5 DEF Reported
<1>5. CASE ~(TraverseManifest \/ Query \/ QueryFails \/ VisitChild \/ Return)
  <2>1. CASE UNCHANGED vars
    BY <2>1 DEF vars, traversal, output, Reported, RootPassed, Pending, Elements
  <2>2. CASE stack = <<>> /\ allChildren \subseteq allChildren'
    BY <2>2, EmptyStack DEF Reported, RootPassed, Pending
  <2>3. QED
    BY <1>5, <2>1, <2>2, QuietStep
<1>6. QED
  BY <1>1, <1>2, <1>3, <1>4, <1>5

\* Only a query that has been answered marks a kind.
LEMMA MarkedStep ==
    ASSUME TypeInv, [Next]_vars, NEW s \in Servers, NEW k
    PROVE  /\ k \in visitedKinds[s] => k \in visitedKinds'[s]
           /\ k \in visitedKinds'[s] =>
                k \in visitedKinds[s] \/ (Query /\ Server = s /\ k = Kind[Top.resource])
<1>1. CASE Query
  <2>1. /\ Server \in Servers /\ visitedKinds \in [Servers -> SUBSET Info]
        /\ visitedKinds' = [visitedKinds EXCEPT ![Server] = @ \cup {Kind[Top.resource]}]
    BY <1>1, StackStep DEF Query, Goto, TypeInv, TypeOK
  <2>2. QED
    BY <1>1, <2>1
<1>2. CASE ~Query
  BY <1>2 DEF Next, vars, traversal, ListApplications, ListApplicationsFails, FetchManifests,
      GetQueryServer, GetQueryServerFails, ProcessExits, TraverseManifest, QueryFails, VisitChild,
      Return, TraversalsDone, AddStatus, Finish
<1>3. QED
  BY <1>1, <1>2

LEMMA SettledNext ==
    ASSUME Uniform
    PROVE  TypeInv /\ MadeInv /\ TreeInv /\ FrameInv /\ SettledInv /\ [Next]_vars => SettledInv'
<1>. SUFFICES ASSUME TypeInv, MadeInv, TreeInv, FrameInv, SettledInv, [Next]_vars,
                     NEW s \in Servers, NEW r \in Resources, Kind[r] \in visitedKinds'[s],
                     NEW c \in Answer(executor'[s], r)
     PROVE  Reported(Kind[c])' \/ Pending(Kind[c])'
  BY DEF SettledInv
<1>1. CASE Kind[r] \in visitedKinds[s]
  <2>1. executor'[s] = executor[s]
    BY <1>1, ExecutorStep DEF MadeInv
  <2>2. Reported(Kind[c]) \/ Pending(Kind[c])
    BY <1>1, <2>1 DEF SettledInv
  <2>3. QED
    BY <2>2, ReportedStep
<1>2. CASE Query /\ Server = s /\ Kind[r] = Kind[Top.resource]
  <2>1. stack # <<>> /\ Top.resource \in Resources
    BY <1>2, StackStep DEF Query, Goto, TypeInv, LoopInv
  <2>2. PICK q \in Answer(executor[s], Top.resource) : Kind[q] = Kind[c]
    <3>1. executor' = executor /\ executor[s] \in Servers
      BY <1>2 DEF Query, servers, TypeInv, TypeOK
    <3>2. { Kind[q] : q \in Answer(executor[s], r) }
            = { Kind[q] : q \in Answer(executor[s], Top.resource) }
      BY <1>2, <2>1, <3>1 DEF Uniform
    <3>3. QED
      BY <3>1, <3>2
  <2>3. [resource |-> Top.resource, rest |-> Answer(executor[Server], Top.resource)]
          \in Elements(stack)'
    BY <1>2, FramesStep
  <2>4. QED
    BY <1>2, <2>2, <2>3 DEF Pending
<1>3. QED
  BY <1>1, <1>2, MarkedStep

---------------------------------------------------------------------------
(* Without a failure, the whole tree is asked for. *)

OnServer(s) == \E a \in app : Destination[a] = s

AnswersCovered ==
    \A s \in Servers : \A r \in Resources :
        Kind[r] \in visitedKinds[s] =>
            \A c \in Answer(executor[s], r) :
                Covered(s, Kind[c]) \/ (OnServer(s) /\ Pending(Kind[c]))

VisitedCovered == stack # <<>> => \A r \in visitedNodes : Covered(Server, Kind[r])

\* m is still to be traversed, or the query for it is the next.
InHand(m) == m \in manifests \/ (pc = "query" /\ Len(stack) = 1 /\ Top.resource = m)

ManifestsCovered ==
    \A a \in analysed \ todo : \A m \in Manifests[a] :
        \/ a \in app /\ InHand(m)
        \/ Covered(Destination[a], Kind[m]) /\ Reported(Kind[m])

CoverInv == failures = {} => AnswersCovered /\ VisitedCovered /\ ManifestsCovered

WalkInv == TypeInv /\ MadeInv /\ TreeInv /\ FrameInv

\* A call is the traversal's only with the application it is at.
LEMMA ServerStep ==
    ASSUME TypeInv, [Next]_vars
    PROVE  /\ (pc \in {"traverse", "query"} /\ pc' \in {"traverse", "query"}) \/ stack # <<>>
                => app' = app /\ Server' = Server
           /\ stack # <<>> => \E a \in Apps : app = {a} /\ Server = Destination[a]
<1>1. ASSUME (pc \in {"traverse", "query"} /\ pc' \in {"traverse", "query"}) \/ stack # <<>>
      PROVE  app' = app
  BY <1>1 DEF Next, vars, loopVars, TypeInv, LoopInv, Goto, ListApplications,
      ListApplicationsFails, FetchManifests, GetQueryServer, GetQueryServerFails, ProcessExits,
      TraverseManifest, Query, QueryFails, VisitChild, Return, TraversalsDone, AddStatus, Finish
<1>2. app' = app => Server' = Server
  BY DEF Server
<1>3. ASSUME stack # <<>> PROVE \E a \in Apps : app = {a} /\ Server = Destination[a]
  BY <1>3, ServerOf DEF TypeInv, TypeOK, LoopInv, AtApplication
<1>4. QED
  BY <1>1, <1>2, <1>3

LEMMA CoveredStep ==
    ASSUME TypeInv, [Next]_vars, failures' = {}, NEW s \in Servers, NEW k, Covered(s, k)
    PROVE  Covered(s, k)'
<1>1. CASE k.kind \in LeafKinds \cup BlackListedKinds
  BY <1>1 DEF Covered
<1>2. CASE k \in visitedKinds[s]
  BY <1>2, MarkedStep DEF Covered
<1>3. CASE pc = "query" /\ Server = s /\ Kind[Top.resource] = k
  <2>1. Query \/ QueryFails \/ UNCHANGED vars
    BY <1>3 DEF Next, Goto, ListApplications, ListApplicationsFails, FetchManifests,
        GetQueryServer, GetQueryServerFails, ProcessExits, TraverseManifest, VisitChild, Return,
        TraversalsDone, AddStatus, Finish
  <2>2. ~QueryFails
    BY DEF QueryFails, Fails
  <2>3. CASE Query
    <3>1. k \in visitedKinds'[s]
      BY <1>3, <2>3 DEF Query, TypeInv, TypeOK
    <3>2. QED
      BY <3>1 DEF Covered
  <2>4. CASE UNCHANGED vars
    BY <1>3, <2>4 DEF vars, loopVars, traversal, Covered, Server, Top
  <2>5. QED
    BY <2>1, <2>2, <2>3, <2>4
<1>4. QED
  BY <1>1, <1>2, <1>3 DEF Covered

\* A resource that a call starts with, or finds visited, is covered.
LEMMA VisitedNext ==
    ASSUME WalkInv, VisitedCovered, [Next]_vars, failures' = {}
    PROVE  /\ VisitedCovered'
           /\ \A k : Pending(k) => Pending(k)' \/ Covered(Server, k)'
<1>. USE DEF WalkInv
<1>1. CASE TraverseManifest
  <2>1. PICK r \in manifests :
          /\ stack = <<>> /\ visitedNodes' = {r} /\ Top' = [resource |-> r, rest |-> {}]
          /\ pc' = IF Skipped(r) THEN "traverse" ELSE "query"
    BY <1>1, FramesStep
  <2>2. Server' = Server /\ visitedKinds' = visitedKinds
    BY <1>1 DEF TraverseManifest, loopVars, Server
  <2>3. Covered(Server, Kind[r])'
    BY <2>1, <2>2 DEF Skipped, Covered
  <2>4. QED
    BY <2>1, <2>3, EmptyStack DEF VisitedCovered, Pending
<1>2. CASE VisitChild
  <2>1. PICK r \in Top.rest :
          /\ visitedNodes' = visitedNodes \cup {r}
          /\ [resource |-> Top.resource, rest |-> Top.rest \ {r}] \in Elements(stack)'
          /\ Elements(Below) \subseteq Elements(stack)'
          /\ \/ r \in visitedNodes
             \/ /\ Top' = [resource |-> r, rest |-> {}]
                /\ pc' = IF Skipped(r) THEN "traverse" ELSE "query"
    BY <1>2, FramesStep
  <2>2. stack # <<>> /\ Elements(stack) = Elements(Below) \cup {Top}
    BY <1>2, FramesStep
  <2>3. PICK a \in Apps : Server = Destination[a] /\ Server' = Server
    BY <2>2, ServerStep
  <2>4. Server \in Servers /\ visitedKinds' = visitedKinds
    BY <1>2, <2>3, GraphAssumption DEF VisitChild
  <2>5. ASSUME NEW q \in visitedNodes PROVE Covered(Server, Kind[q])'
    BY <2>2, <2>3, <2>4, <2>5, CoveredStep DEF VisitedCovered, Covered
  <2>6. Covered(Server, Kind[r])'
    BY <2>1, <2>3, <2>4, <2>5 DEF Skipped, Covered
  <2>7. ASSUME NEW k, Pending(k) PROVE Pending(k)' \/ Covered(Server, k)'
    <3>. PICK f \in Elements(stack) : \E c \in f.rest : Kind[c] = k
      BY <2>7 DEF Pending
    <3>1. PICK c \in f.rest : Kind[c] = k
      OBVIOUS
    <3>2. CASE c = r
      BY <2>6, <3>1, <3>2
    <3>3. CASE f = Top /\ c # r
      BY <2>1, <3>1, <3>3 DEF Pending
    <3>4. CASE f \in Elements(Below)
      BY <2>1, <3>1, <3>4 DEF Pending
    <3>5. QED
      BY <2>2, <3>2, <3>3, <3>4
  <2>8. QED
    BY <2>1, <2>5, <2>6, <2>7 DEF VisitedCovered
<1>3. CASE Query \/ Return
  <2>1. /\ stack # <<>> /\ visitedNodes' = visitedNodes /\ Top.rest = {}
        /\ Elements(Below) \subseteq Elements(stack)'
        /\ Elements(stack) = Elements(Below) \cup {Top}
    BY <1>3, FramesStep DEF Query, Return
  <2>2. PICK a \in Apps : Server = Destination[a] /\ Server' = Server
    BY <2>1, ServerStep
  <2>3. Server \in Servers
    BY <2>2, GraphAssumption
  <2>4. ASSUME NEW q \in visitedNodes PROVE Covered(Server, Kind[q])'
    BY <2>1, <2>2, <2>3, <2>4, CoveredStep DEF VisitedCovered, Covered
  <2>5. QED
    BY <2>1, <2>4 DEF VisitedCovered, Pending
<1>4. CASE QueryFails
  BY <1>4 DEF QueryFails, Fails
<1>5. CASE ~(TraverseManifest \/ Query \/ QueryFails \/ VisitChild \/ Return)
  <2>1. CASE UNCHANGED vars
    BY <2>1 DEF vars, loopVars, traversal, VisitedCovered, Covered, Server, Top, Pending, Elements
  <2>2. CASE stack = <<>> /\ stack' = <<>>
    BY <2>2, EmptyStack DEF VisitedCovered, Pending
  <2>3. QED
    BY <1>5, <2>1, <2>2, QuietStep
<1>6. QED
  BY <1>1, <1>2, <1>3, <1>4, <1>5

LEMMA AnswersNext ==
    ASSUME Uniform, WalkInv, VisitedCovered, AnswersCovered, [Next]_vars, failures' = {}
    PROVE  AnswersCovered'
<1>. USE DEF WalkInv
<1>. SUFFICES ASSUME NEW s \in Servers, NEW r \in Resources, Kind[r] \in visitedKinds'[s],
                     NEW c \in Answer(executor'[s], r)
     PROVE  Covered(s, Kind[c])' \/ (OnServer(s) /\ Pending(Kind[c]))'
  BY DEF AnswersCovered
<1>1. CASE Kind[r] \in visitedKinds[s]
  <2>1. CASE Covered(s, Kind[c])
    BY <2>1, CoveredStep
  <2>2. CASE OnServer(s) /\ Pending(Kind[c])
    <3>1. stack # <<>>
      BY <2>2, EmptyStack DEF Pending
    <3>2. PICK a \in Apps : app = {a} /\ Server = Destination[a] /\ app' = app /\ Server' = Server
      BY <3>1, ServerStep
    <3>3. s = Server /\ OnServer(s)'
      BY <2>2, <3>2 DEF OnServer
    <3>4. Pending(Kind[c])' \/ Covered(Server, Kind[c])'
      BY <2>2, VisitedNext
    <3>5. QED
      BY <3>2, <3>3, <3>4 DEF Covered
  <2>3. executor'[s] = executor[s]
    BY <1>1, ExecutorStep DEF MadeInv
  <2>4. QED
    BY <1>1, <2>1, <2>2, <2>3 DEF AnswersCovered
<1>2. CASE Query /\ Server = s /\ Kind[r] = Kind[Top.resource]
  <2>1. stack # <<>> /\ Top.resource \in Resources
    BY <1>2, StackStep DEF Query, Goto, TypeInv, LoopInv
  <2>2. PICK q \in Answer(executor[s], Top.resource) : Kind[q] = Kind[c]
    <3>1. executor' = executor /\ executor[s] \in Servers
      BY <1>2 DEF Query, servers, TypeInv, TypeOK
    <3>2. { Kind[q] : q \in Answer(executor[s], r) }
            = { Kind[q] : q \in Answer(executor[s], Top.resource) }
      BY <1>2, <2>1, <3>1 DEF Uniform
    <3>3. QED
      BY <3>1, <3>2
  <2>3. [resource |-> Top.resource, rest |-> Answer(executor[Server], Top.resource)]
          \in Elements(stack)'
    BY <1>2, FramesStep
  <2>4. PICK a \in Apps : app = {a} /\ Server = Destination[a] /\ app' = app
    BY <2>1, ServerStep
  <2>5. QED
    BY <1>2, <2>2, <2>3, <2>4 DEF Pending, OnServer
<1>3. QED
  BY <1>1, <1>2, MarkedStep

LEMMA ManifestsNext ==
    ASSUME WalkInv, VisitedCovered, VisitedCovered', ManifestsCovered, [Next]_vars,
           failures' = {}
    PROVE  ManifestsCovered'
<1>. USE DEF WalkInv
<1>. SUFFICES ASSUME NEW a \in analysed', a \notin todo', NEW m \in Manifests[a]
     PROVE  \/ a \in app' /\ InHand(m)'
            \/ Covered(Destination[a], Kind[m])' /\ Reported(Kind[m])'
  BY DEF ManifestsCovered
<1>1. a \in Apps /\ Destination[a] \in Servers
  BY TypeNext, GraphAssumption DEF TypeInv, TypeOK
<1>2. CASE a \in analysed /\ a \notin todo
           /\ Covered(Destination[a], Kind[m]) /\ Reported(Kind[m])
  BY <1>1, <1>2, CoveredStep, ReportedStep
<1>3. CASE ~(a \in analysed /\ a \notin todo)
  <2>1. ListApplications \/ FetchManifests
    BY <1>3 DEF Next, vars, loopVars, ListApplicationsFails, GetQueryServer,
        GetQueryServerFails, ProcessExits, TraverseManifest, Query, QueryFails, VisitChild, Return,
        TraversalsDone, AddStatus, Finish
  <2>2. FetchManifests
    BY <2>1 DEF ListApplications
  <2>3. app' = {a} /\ manifests' = Manifests[a]
    BY <1>3, <2>2 DEF FetchManifests, Fails
  <2>4. QED
    BY <2>3 DEF InHand
<1>4. CASE a \in app /\ m \in manifests
  <2>1. pc \in {"server", "traverse", "query"}
    BY <1>4 DEF TypeInv, LoopInv
  <2>2. app' = app
    BY <2>1 DEF Next, vars, loopVars, Goto, ListApplications, ListApplicationsFails,
        FetchManifests, GetQueryServer, GetQueryServerFails, ProcessExits, TraverseManifest, Query,
        QueryFails, VisitChild, Return, TraversalsDone, AddStatus, Finish, Fails
  <2>3. m \in manifests' \/ TraverseManifest
    BY <1>4, <2>1 DEF Next, vars, Goto, ListApplications, ListApplicationsFails, FetchManifests,
        GetQueryServer, GetQueryServerFails, ProcessExits, Query, QueryFails, VisitChild, Return,
        TraversalsDone, AddStatus, Finish, Fails, NoQueryServer
  <2>4. ASSUME TraverseManifest, m \notin manifests'
        PROVE  InHand(m)' \/ (Covered(Destination[a], Kind[m])' /\ Reported(Kind[m])')
    <3>1. PICK r \in manifests :
            /\ visitedNodes' = {r} /\ manifests' = manifests \ {r}
            /\ Top' = [resource |-> r, rest |-> {}] /\ Len(stack') = 1
            /\ pc' = IF Skipped(r) THEN "traverse" ELSE "query"
      BY <2>4, FramesStep
    <3>2. r = m
      BY <1>4, <2>4, <3>1
    <3>3. stack' # <<>>
      BY <2>4 DEF TraverseManifest
    <3>4. app = {a} /\ Server' = Destination[a]
      <4>1. app = {a} /\ Server = Destination[a]
        BY <1>1, <1>4, <2>1, ServerOf DEF TypeInv, LoopInv, AtApplication
      <4>2. QED
        BY <2>2, <4>1 DEF Server
    <3>5. CASE Skipped(r)
      <4>1. Covered(Server, Kind[m])'
        BY <3>1, <3>2, <3>3 DEF VisitedCovered
      <4>2. Covered(Destination[a], Kind[m])'
        BY <3>1, <3>4, <3>5, <4>1 DEF Covered
      <4>3. QED
        BY <3>1, <3>2, <3>3, <3>5, <4>2 DEF Reported, RootPassed
    <3>6. CASE ~Skipped(r)
      BY <3>1, <3>2, <3>6 DEF InHand
    <3>7. QED
      BY <3>5, <3>6
  <2>5. QED
    BY <1>4, <2>2, <2>3, <2>4 DEF InHand
<1>5. CASE a \in app /\ pc = "query" /\ Len(stack) = 1 /\ Top.resource = m
  <2>1. Query \/ QueryFails \/ UNCHANGED vars
    BY <1>5 DEF Next, Goto, ListApplications, ListApplicationsFails, FetchManifests,
        GetQueryServer, GetQueryServerFails, ProcessExits, TraverseManifest, VisitChild, Return,
        TraversalsDone, AddStatus, Finish
  <2>2. ~QueryFails
    BY DEF QueryFails, Fails
  <2>3. CASE UNCHANGED vars
    BY <1>5, <2>3 DEF vars, loopVars, traversal, InHand, Top
  <2>4. CASE Query
    <3>1. /\ stack # <<>> /\ stack' # <<>> /\ Top \in Elements(stack)
          /\ visitedNodes' = visitedNodes /\ pc' = "traverse"
      BY <2>4, FramesStep DEF Query, Goto
    <3>2. m \in visitedNodes'
      BY <1>5, <3>1 DEF FrameInv
    <3>3. Server' = Destination[a]
      BY <1>5, <3>1, ServerStep
    <3>4. Covered(Server, Kind[m])'
      BY <3>1, <3>2 DEF VisitedCovered
    <3>5. QED
      BY <3>1, <3>2, <3>3, <3>4 DEF Covered, Reported, RootPassed
  <2>5. QED
    BY <2>1, <2>2, <2>3, <2>4
<1>6. QED
  BY <1>2, <1>3, <1>4, <1>5 DEF ManifestsCovered, InHand

FullInv == WalkInv /\ ResultInv /\ SettledInv /\ CoverInv

LEMMA FullInvariance ==
    ASSUME Uniform
    PROVE  Spec => []FullInv
<1>1. Init => FullInv
  <2>. SUFFICES ASSUME Init PROVE FullInv
    OBVIOUS
  <2>1. \A s \in Servers : visitedKinds[s] = {}
    BY DEF Init
  <2>2. Elements(stack) = {}
    BY EmptyStack DEF Init
  <2>3. QED
    BY <2>1, <2>2, TypeInit DEF FullInv, WalkInv, Init, MadeInv, TreeInv, FrameInv, ResultInv,
        SettledInv, CoverInv, AnswersCovered, VisitedCovered, ManifestsCovered
<1>2. FullInv /\ [Next]_vars => FullInv'
  <2>. SUFFICES ASSUME FullInv, [Next]_vars PROVE FullInv'
    OBVIOUS
  <2>. USE DEF FullInv, WalkInv
  <2>1. TypeInv' /\ MadeInv' /\ TreeInv' /\ FrameInv' /\ ResultInv' /\ SettledInv'
    BY TypeNext, MadeNext, TreeNext, FrameNext, ResultNext, SettledNext
  <2>2. ASSUME failures' = {} PROVE failures = {}
    BY <2>2 DEF Next, vars, ListApplications, ListApplicationsFails, FetchManifests,
        GetQueryServer, GetQueryServerFails, ProcessExits, TraverseManifest, Query, QueryFails,
        VisitChild, Return, TraversalsDone, AddStatus, Finish, Fails, NoQueryServer
  <2>3. CoverInv'
    BY <2>2, VisitedNext, AnswersNext, ManifestsNext DEF CoverInv
  <2>4. QED
    BY <2>1, <2>3
<1>3. QED
  BY <1>1, <1>2, PTL DEF Spec

\* A kind that counts as queried is reported with its children, whatever fails,
\* if the resources of a kind own the same kinds on a cluster.
THEOREM QueriedKindsInResult ==
    ASSUME Uniform
    PROVE  Spec => []QueriedKindsReported
<1>1. FullInv => QueriedKindsReported
  <2>. SUFFICES ASSUME FullInv, pc = "done", NEW s \in Servers, NEW r \in Resources,
                       Kind[r] \in visitedKinds[s]
       PROVE  KindsOf(Answer(executor[s], r)) \subseteq result
    BY DEF QueriedKindsReported
  <2>1. stack = <<>> /\ result = Collected
    BY DEF FullInv, WalkInv, TypeInv, LoopInv, ResultInv
  <2>2. \A c \in Answer(executor[s], r) : Kind[c] \in allChildren
    BY <2>1, EmptyStack DEF FullInv, SettledInv, Reported, RootPassed, Pending
  <2>3. QED
    BY <2>1, <2>2, KindKeys DEF Collected
<1>2. QED
  BY <1>1, FullInvariance, PTL

\* The kinds of the whole tree are reported when nothing fails, although a kind
\* is queried once on a cluster, on the same condition.
THEOREM UniformTreeComplete ==
    ASSUME Uniform
    PROVE  Spec => []DependencyTreeComplete
<1>1. FullInv => DependencyTreeComplete
  <2>. SUFFICES ASSUME FullInv, pc = "done", failures = {}, NEW a \in analysed
       PROVE  KindsOf(OwnTree(a)) \subseteq result
    BY DEF DependencyTreeComplete, OwnTree
  <2>. DEFINE s == Destination[a]
              S == { r \in Resources : Covered(s, Kind[r]) /\ Kind[r] \in allChildren }
  <2>1. /\ stack = <<>> /\ app = {} /\ todo = {} /\ result = Collected
        /\ a \in Apps /\ s \in Servers /\ executor[s] \in Servers
    BY GraphAssumption DEF FullInv, WalkInv, TypeInv, TypeOK, LoopInv, AtApplication, ResultInv
  <2>2. \A k : Reported(k) => k \in allChildren
    BY <2>1 DEF Reported, RootPassed
  <2>3. Manifests[a] \subseteq S
    BY <2>1, <2>2, GraphAssumption DEF FullInv, CoverInv, ManifestsCovered
  <2>4. ASSUME NEW r \in S, Queried(r) PROVE Answer(executor[s], r) \subseteq S
    <3>1. Kind[r] \in visitedKinds[s]
      BY <2>4 DEF Covered, Queried
    <3>2. \A c \in Answer(executor[s], r) : Covered(s, Kind[c])
      BY <2>1, <3>1 DEF FullInv, CoverInv, AnswersCovered, OnServer
    <3>3. \A c \in Answer(executor[s], r) : Kind[c] \in allChildren
      BY <2>1, <2>2, <3>1, EmptyStack DEF FullInv, SettledInv, Pending
    <3>4. QED
      BY <2>1, <3>2, <3>3, AnswerType
  <2>5. OwnTree(a) \subseteq S
    BY <2>1, <2>3, <2>4, TreeClosed DEF OwnTree
  <2>6. QED
    BY <2>1, <2>5, KindKeys DEF Collected
<1>2. QED
  BY <1>1, FullInvariance, PTL

=============================================================================
