----------------------------- MODULE GraphQuery -----------------------------
(***************************************************************************)
(* The graph strategy: the backend takes the applications one by one, and  *)
(* the query server of the application's cluster traverses the resources   *)
(* from each manifest, depth first, with one query per kind.  The servers, *)
(* and the kinds each has queried, stay for the whole execution.           *)
(*                                                                         *)
(* A resource is a member of Resources, and Kind gives its group and kind. *)
(* The answer of a query is external: the resources that the relationship  *)
(* rules of the graph library connect with the one asked about.  So is the *)
(* executor that a new query server gets from the library, by an accessor  *)
(* of the process: whether it answers from the server's own cluster, or    *)
(* from that of the executor made first, is the parameter SharedExecutor.  *)
(* An application asked for by name has its query server looked up before  *)
(* its manifests are fetched, the applications of a list after that; each  *)
(* of the two calls leaves nothing to traverse if it fails.                *)
(***************************************************************************)
EXTENDS ResourceGraph, FiniteSets

CONSTANTS
    Resources,   \* the resources of the clusters and of the manifests
    Kind,        \* Kind[r]: group and kind
    Servers,     \* the clusters
    Connected,   \* Connected[s][r]: what the query for r on s yields
    Apps,        \* applications
    Destination, \* Destination[a]: its cluster
    ByName,      \* the applications that give it by its name
    Manifests,   \* Manifests[a]: the resources that the repo-server renders
    Status,      \* Status[a]: the kinds that its status reports
    Faults,      \* the calls that may fail
    SharedExecutor \* core.GetQueryExecutorInstance makes one executor only

ASSUME GraphAssumption ==
    /\ Kind \in [Resources -> Info]
    /\ Connected \in [Servers -> [Resources -> SUBSET Resources]]
    /\ Destination \in [Apps -> Servers]
    /\ ByName \subseteq Apps
    /\ Manifests \in [Apps -> SUBSET Resources]
    /\ Status \in [Apps -> SUBSET Info]
    /\ SharedExecutor \in BOOLEAN

LeafKinds ==
    {"Role", "RoleBinding", "ClusterRole", "ClusterRoleBinding", "ConfigMap", "Secret",
     "ServiceAccount", "Namespace", "PersistentVolume", "PersistentVolumeClaim", "Endpoints",
     "EndpointSlice", "NetworkPolicy", "Ingress", "Route", "SecurityContextConstraints"}

BlackListedKinds ==
    {"projects", "projectRequests", "configmaps", "secrets", "serviceaccounts", "pods", "nodes",
     "apiservices", "namespaces"}

\* What extractResourceInfo keeps of the answer for r on s.
Answer(s, r) ==
    { c \in Connected[s][r] : Kind[c].kind \notin {"Namespace", "Node", "APIService"} }

VARIABLES
    pc,            \* where the backend stands
    todo,          \* applications that the loop has still to reach
    analysed,      \* history: the applications that the loop is over
    app,           \* the application it is at, in a set
    queryServers,  \* the clusters that have a query server
    executor,      \* the cluster that answers the queries of each query server
    visitedKinds,  \* VisitedKinds of each query server
    manifests,     \* manifests of the application still to traverse
    visitedNodes,  \* visitedNodes of the traversal
    stack,         \* the active calls of depthFirstTraversal, innermost last:
                   \* the resource, and the children it has still to visit
    allChildren,   \* allAppChildren
    result,        \* what Execute returns
    failures       \* history: <<what, where>> for each call that failed

loopVars == <<todo, analysed, app>>
servers == <<queryServers, executor>>
traversal == <<visitedNodes, stack, visitedKinds>>
output == <<allChildren, result>>
vars == <<pc, loopVars, servers, traversal, manifests, output, failures>>

Calls == {"manifests", "name", "server", "executor", "query", "status"}

Frame == [resource : Resources, rest : SUBSET Resources]

TypeOK ==
    /\ pc \in {"list", "next", "server", "traverse", "query", "status", "done", "error"}
    /\ todo \subseteq analysed /\ analysed \subseteq Apps
    /\ app \subseteq Apps /\ Cardinality(app) <= 1
    /\ queryServers \subseteq Servers
    /\ executor \in [Servers -> Servers]
    /\ \A s \in Servers : SharedExecutor \/ executor[s] = s
    /\ visitedKinds \in [Servers -> SUBSET Info]
    /\ manifests \subseteq Resources
    /\ visitedNodes \subseteq Resources
    /\ stack \in Seq(Frame)
    /\ allChildren \subseteq Info
    /\ result \subseteq Key
    /\ failures \subseteq Calls \X (Apps \cup Resources)

Init ==
    /\ pc = "list"
    /\ todo = {} /\ analysed = {} /\ app = {}
    /\ queryServers = {} /\ executor = [s \in Servers |-> s]
    /\ visitedKinds = [s \in Servers |-> {}]
    /\ manifests = {}
    /\ visitedNodes = {} /\ stack = <<>>
    /\ allChildren = {}
    /\ result = {}
    /\ failures = {}

Goto(from, to) == pc = from /\ pc' = to

Fails(what, where) == what \in Faults /\ failures' = failures \cup {<<what, where>>}

---------------------------------------------------------------------------
(* The loop over the applications. *)

\* One application is asked for by name, or all are listed.
ListApplications ==
    /\ Goto("list", "next")
    /\ \E chosen \in {Apps} \cup { {a} : a \in Apps } : todo' = chosen /\ analysed' = chosen
    /\ UNCHANGED <<app, servers, traversal, manifests, output, failures>>

ListApplicationsFails ==
    /\ Goto("list", "error")
    /\ "list" \in Faults
    /\ UNCHANGED <<loopVars, servers, traversal, manifests, output, failures>>

FetchManifests ==
    /\ Goto("next", "server")
    /\ \E a \in todo :
         /\ app' = {a}
         /\ todo' = todo \ {a}
         /\ \/ manifests' = Manifests[a] /\ UNCHANGED failures
            \/ manifests' = {} /\ Fails("manifests", a)
    /\ UNCHANGED <<analysed, servers, traversal, output>>

\* The clusters that a new executor for s may answer from.
Executors(s) ==
    IF SharedExecutor /\ queryServers # {} THEN { executor[t] : t \in queryServers } ELSE {s}

\* getQueryServerForApp: the server that is cached, or a new one, which has no
\* visited kinds.
GetQueryServer ==
    /\ Goto("server", "traverse")
    /\ \E a \in app :
         \/ Destination[a] \in queryServers /\ UNCHANGED servers
         \/ /\ Destination[a] \notin queryServers
            /\ queryServers' = queryServers \cup {Destination[a]}
            /\ \E s \in Executors(Destination[a]) :
                 executor' = [executor EXCEPT ![Destination[a]] = s]
    /\ UNCHANGED <<loopVars, traversal, manifests, output, failures>>

\* A name is resolved before the cache is looked at; the cluster, its
\* configuration and the provider are only asked for if it has no server yet.
NoQueryServer(a) ==
    \/ a \in ByName /\ Fails("name", a)
    \/ Destination[a] \notin queryServers /\ Fails("server", a)

\* Variant: the loop goes on with the next application.
GetQueryServerFailsContinue ==
    /\ Goto("server", "next")
    /\ \E a \in app : NoQueryServer(a)
    /\ manifests' = {} /\ app' = {}
    /\ UNCHANGED <<todo, analysed, servers, traversal, output>>

\* Variant: the application is tried again after the others.
GetQueryServerFailsRetries ==
    /\ Goto("server", "next")
    /\ \E a \in app : NoQueryServer(a)
    /\ todo' = todo \cup app /\ app' = {} /\ manifests' = {}
    /\ UNCHANGED <<analysed, servers, traversal, output>>

GetQueryServerFails ==
    /\ Goto("server", "status")
    /\ \E a \in app : NoQueryServer(a)
    /\ manifests' = {}
    /\ UNCHANGED <<loopVars, servers, traversal, output>>

\* The process ends: the library has no executor for a new query server, or the
\* name is that of no cluster, and the first of none is taken.
ProcessExits ==
    /\ Goto("server", "error")
    /\ \E a \in app : \/ a \in ByName /\ Fails("name", a)
                      \/ Destination[a] \notin queryServers /\ Fails("executor", a)
    /\ app' = {} /\ manifests' = {}
    /\ UNCHANGED <<todo, analysed, servers, traversal, output>>

---------------------------------------------------------------------------
(* The traversal. *)

Top == stack[Len(stack)]
Below == SubSeq(stack, 1, Len(stack) - 1)

\* Variant: the cached query server, whichever cluster it was made for.
FirstServer == CHOOSE s \in queryServers : TRUE

\* The query server in use is that of this cluster.
Server == CHOOSE s \in Servers : \E a \in app : s = Destination[a]

\* No query is made for a leaf, nor for a kind that was queried before.
Skipped(r) ==
    Kind[r].kind \in LeafKinds \cup BlackListedKinds \/ Kind[r] \in visitedKinds[Server]

\* A call of depthFirstTraversal, from the frames of its callers.
Call(r, callers) ==
    IF r \in visitedNodes
      THEN stack' = callers /\ pc' = "traverse" /\ UNCHANGED visitedNodes
      ELSE /\ stack' = Append(callers, [resource |-> r, rest |-> {}])
           /\ pc' = IF Skipped(r) THEN "traverse" ELSE "query"
           /\ visitedNodes' = visitedNodes \cup {r}

\* GetNestedChildResources of the next manifest.
TraverseManifest ==
    /\ pc = "traverse" /\ stack = <<>>
    /\ \E r \in manifests :
         /\ manifests' = manifests \ {r}
         /\ visitedNodes' = {r}
         /\ stack' = << [resource |-> r, rest |-> {}] >>
         /\ pc' = IF Skipped(r) THEN "traverse" ELSE "query"
    /\ UNCHANGED <<loopVars, servers, visitedKinds, output, failures>>

Query ==
    /\ Goto("query", "traverse")
    /\ visitedKinds' = [visitedKinds EXCEPT ![Server] = @ \cup {Kind[Top.resource]}]
    /\ stack' = Append(Below, [Top EXCEPT !.rest = Answer(executor[Server], Top.resource)])
    /\ UNCHANGED <<loopVars, servers, visitedNodes, manifests, output, failures>>

\* Variant: the kind is marked before the query is made.
QueryFailsMarked ==
    /\ pc = "query"
    /\ pc' = "traverse"
    /\ Fails("query", Top.resource)
    /\ stack' = Below
    /\ visitedKinds' = [visitedKinds EXCEPT ![Server] = @ \cup {Kind[Top.resource]}]
    /\ UNCHANGED <<loopVars, servers, visitedNodes, manifests, output>>

\* The error of a child is logged, and its parent goes on; the error of a
\* manifest drops what its traversal has: the manifest itself.
QueryFails ==
    /\ Goto("query", "traverse")
    /\ Fails("query", Top.resource)
    /\ stack' = Below
    /\ UNCHANGED <<loopVars, servers, visitedNodes, visitedKinds, manifests, output>>

VisitChild ==
    /\ pc = "traverse" /\ stack # <<>>
    /\ \E r \in Top.rest : Call(r, Append(Below, [Top EXCEPT !.rest = @ \ {r}]))
    /\ UNCHANGED <<loopVars, servers, visitedKinds, manifests, output, failures>>

\* Variant: only what the manifest's own query yields is kept.
ReturnFirstLevel ==
    /\ pc = "traverse" /\ stack # <<>> /\ Top.rest = {}
    /\ stack' = Below
    /\ allChildren' = IF Len(stack) <= 2 THEN allChildren \cup {Kind[Top.resource]}
                                         ELSE allChildren
    /\ UNCHANGED <<pc, loopVars, servers, visitedKinds, visitedNodes, manifests, result,
                   failures>>

\* A call returns; the outermost hands its nodes to the backend.
Return ==
    /\ pc = "traverse" /\ stack # <<>> /\ Top.rest = {}
    /\ stack' = Below
    /\ allChildren' = IF Below = <<>> THEN allChildren \cup { Kind[r] : r \in visitedNodes }
                                      ELSE allChildren
    /\ UNCHANGED <<pc, loopVars, servers, visitedKinds, visitedNodes, manifests, result,
                   failures>>

TraversalsDone ==
    /\ Goto("traverse", "status")
    /\ stack = <<>> /\ manifests = {}
    /\ UNCHANGED <<loopVars, servers, traversal, manifests, output, failures>>

---------------------------------------------------------------------------
(* The end of an application, and of the execution. *)

AddStatus ==
    /\ Goto("status", "next")
    /\ \E a \in app : \/ allChildren' = allChildren \cup Status[a] /\ UNCHANGED failures
                      \/ UNCHANGED allChildren /\ Fails("status", a)
    /\ app' = {}
    /\ UNCHANGED <<todo, analysed, servers, traversal, manifests, result>>

Finish ==
    /\ Goto("next", "done")
    /\ todo = {}
    /\ result' = MergeResourceInfos({}, allChildren)
    /\ UNCHANGED <<loopVars, servers, traversal, manifests, allChildren, failures>>

Next ==
    \/ ListApplications \/ ListApplicationsFails
    \/ FetchManifests \/ GetQueryServer \/ GetQueryServerFails \/ ProcessExits
    \/ TraverseManifest \/ Query \/ QueryFails \/ VisitChild \/ Return \/ TraversalsDone
    \/ AddStatus \/ Finish

\* The backend is one goroutine, and its calls answer or fail.
Fairness == WF_vars(Next)

Spec == Init /\ [][Next]_vars /\ Fairness

---------------------------------------------------------------------------
(* Properties. *)

\* The resources below those of an application, on cluster s.
Tree(s, a) ==
    LET queried == { r \in Resources : Kind[r].kind \notin LeafKinds \cup BlackListedKinds }
    IN  Reachable([r \in queried |-> Answer(s, r)], Manifests[a])

KindsOf(resources) == MergeResourceInfos({}, { Kind[r] : r \in resources })

\* Without a failure, the kinds of the whole dependency tree of each application,
\* on the cluster that its query server reaches, are in the result, although a
\* kind is queried once, for whichever resource of whichever application comes
\* first, and although ownership may be cyclic (docs/reference.md: "repeats this
\* process recursively for each child until the full dependency tree is built").
DependencyTreeComplete ==
    pc = "done" /\ failures = {} =>
        \A a \in analysed : KindsOf(Tree(executor[Destination[a]], a)) \subseteq result

\* What may be reported for an application: the kinds of its status, and of its
\* own tree; on its own cluster, where query servers have executors of their own.
Offer ==
    [a \in Apps |->
        MergeResourceInfos({}, Status[a]) \cup
          UNION { KindsOf(Tree(s, a)) :
                    s \in IF SharedExecutor THEN Servers ELSE {Destination[a]} }]

Abstract == INSTANCE Analysis WITH
    phase <- CASE pc = "list" -> "listing" [] pc = "error" -> "failed"
               [] pc = "done" -> "returned" [] OTHER -> "running",
    asked <- analysed,
    collected <- MergeResourceInfos({}, allChildren),
    report <- result

\* The strategy keeps the promise of an analysis, whatever fails: the traversal
\* of an application uses the query server of its cluster, and so adds no kind
\* from another if the servers do not share an executor; an application that
\* fails takes nothing from the others; the report is all that was collected.
ImplementsAnalysis == Abstract!Spec

\* The execution ends, although ownership may be cyclic and queries may fail.
AnalysisEnds == <>(pc \in {"done", "error"})

\* "Always try to augment with resources inferred from Application.status, even
\* if graph traversal failed" (pkg/analyzer/graph/backend.go).
StatusReported ==
    pc = "done" =>
        \A a \in analysed :
            <<"status", a>> \in failures \/ MergeResourceInfos({}, Status[a]) \subseteq result

\* A kind that counts as queried by a query server has its children in the
\* result: a query that failed, for one resource, is made again for the next.
QueriedKindsReported ==
    pc = "done" =>
        \A s \in Servers : \A r \in Resources :
            Kind[r] \in visitedKinds[s] => KindsOf(Answer(executor[s], r)) \subseteq result

=============================================================================
