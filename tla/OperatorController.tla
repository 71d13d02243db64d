------------------------- MODULE OperatorController -------------------------
(***************************************************************************)
(* The operator: an informer on Argo CD applications calls execute for     *)
(* every event, one call at a time; a call within the check interval of    *)
(* the last one returns at once; another queries every cluster, computes   *)
(* the grouped kinds, and writes them into the resource.inclusions of the  *)
(* argocd-cm ConfigMap (or of an ArgoCD resource) if they differ from what *)
(* is there, or prints them.  The clusters are those that were registered  *)
(* when the process started.  Users edit the same object, and create and   *)
(* delete applications; clusters are registered and get lost; calls fail,  *)
(* answers get lost, and the process is restarted, between any two steps.  *)
(*                                                                         *)
(* The traversal of a host is one step here (GraphQuery has its steps): as *)
(* of one moment, it visits what the applications have there and goes on   *)
(* from one resource of each kind only, whichever it comes to first; or it *)
(* fails at its first query; or nested queries fail, whose errors it       *)
(* swallows.  A resource stands for its kind and for what the query for it *)
(* answers, which is external: without resources of ignored kinds, and     *)
(* nothing for a resource of a leaf kind, which no query is made for.      *)
(***************************************************************************)
EXTENDS Inclusions

CONSTANTS
    Configs,         \* update-resource-kind, update-resource-name, update-enabled
    Apps,            \* applications that may exist
    Permanent,       \* those that are never deleted
    Hosts,           \* the API servers there are
    OwnHost,         \* the one of the operator's own cluster
    NoHost,          \* the empty Host of a parsed config
    SecretSets,      \* the sets of cluster secrets that may be registered
    SharedExecutor,  \* whether the query servers of a process have one executor
    Resources,       \* the resources on the hosts
    Kind,            \* Kind[r]: group and kind
    Tracked,         \* Tracked[a][h]: those of a that the first query on host h yields
    Ownerships,      \* what owned may be
    Missing,         \* Missing[a]: the kinds its conditions report as excluded
    UserInclusions,  \* what a user may write into resource.inclusions
    Garbled,         \* a text that does not parse
    Attempts,        \* Steps of retry.DefaultRetry
    MaxEvents,       \* bound: further pending events count as one of these
    MaxEdits,        \* bound on the edits by users
    MaxChanges,      \* bound on the changes of applications and clusters
    MaxFailures,     \* bound on the calls that fail or whose answer is lost
    MaxRestarts      \* bound on the restarts of the process

\* applications.argoproj.io, the node that the traversal of a host starts from;
\* it is among the nodes that the traversal returns.
RootInfo == [group |-> "argoproj.io", kind |-> "applications.argoproj.io"]

ASSUME ConfigAssumption ==
    Configs \subseteq [kind : STRING, name : STRING, update : BOOLEAN]

\* A cluster secret: whether it is annotated as managed by Argo CD, what
\* becomes of its data.config, and the Host in it.
Secret == [managed : BOOLEAN, config : {"absent", "broken", "parsed"}, host : Hosts \cup {NoHost}]

ASSUME OperatorAssumption ==
    /\ IsFiniteSet(Apps) /\ Permanent \subseteq Apps
    /\ OwnHost \in Hosts /\ NoHost \notin Hosts
    /\ SecretSets \subseteq SUBSET Secret
    /\ RootInfo \in Info
    /\ SharedExecutor \in BOOLEAN
    /\ Kind \in [Resources -> Info]
    /\ Tracked \in [Apps -> [Hosts -> SUBSET Resources]]
    /\ Ownerships \subseteq [Hosts -> [Resources -> SUBSET Resources]]
    /\ Missing \in [Apps -> SUBSET [group : Names, kind : Names]]
    /\ UserInclusions \subseteq (SUBSET Entry) \cup {Garbled}
    /\ Attempts \in Nat \ {0} /\ MaxEvents \in Nat \ {0}
    /\ {MaxEdits, MaxChanges, MaxFailures, MaxRestarts} \subseteq Nat

VARIABLES
    config,        \* the flags of the process
    apps,          \* the applications that exist
    registered,    \* the cluster secrets that exist
    gone,          \* the hosts that have become unreachable
    owned,         \* owned[h][r]: what the query for r on host h yields
    resource,      \* the object that is updated: its inclusions, and how often users edited it
    pc,            \* where the process stands
    queryServers,  \* for each host it has to query, fixed when it starts, the one
                   \* that the executor of its query server reaches
    events,        \* informer events that wait for the handler
    recent,        \* the check interval has not passed since lastRunTime
    unqueried,     \* the hosts whose query servers the loop has still to reach
    found,         \* allAppChildren
    grouped,       \* groupedKinds
    previous,      \* previousGroupedKinds
    printed,       \* what was printed last
    attempt,       \* the attempts of RetryOnConflict
    fetched,       \* the copy of the object that the update will send
    stale,         \* the object has another resourceVersion than the copy
    steady,        \* history: the applications that existed all through the run
    lossy,         \* history: an error was swallowed in this run
    seen,          \* history: the applications that existed at some time of the run
    spent          \* the bounded events that have happened

world == <<config, apps, registered, gone, owned>>
process == <<queryServers, events, recent>>
memory == <<previous, printed>>
update == <<attempt, fetched, stale>>
history == <<steady, lossy, seen>>
run == <<unqueried, found, grouped, update, history>>
vars == <<world, resource, pc, process, memory, run, spent>>

Resource == [inclusions : (SUBSET Entry) \cup {Garbled}, edits : Nat]
Spent == [edits : 0..MaxEdits, changes : 0..MaxChanges, failures : 0..MaxFailures,
          restarts : 0..MaxRestarts]

\* The locations at which execute waits for a remote call.
Remote == {"query", "missing", "compare", "fetch", "put"}

\* The process has not started, or ended with an error when it started.
Down == {"down", "failed"}

TypeOK ==
    /\ config \in Configs
    /\ apps \subseteq Apps
    /\ registered \in SecretSets
    /\ gone \subseteq Hosts
    /\ owned \in Ownerships
    /\ resource \in Resource
    /\ pc \in {"idle"} \cup Down \cup Remote
    /\ DOMAIN queryServers \subseteq Hosts
    /\ \A h \in DOMAIN queryServers :
         queryServers[h] \in Hosts /\ (SharedExecutor \/ queryServers[h] = h)
    /\ events \in 0..MaxEvents
    /\ recent \in BOOLEAN
    /\ unqueried \subseteq Hosts
    /\ found \subseteq Info
    /\ grouped \subseteq Key
    /\ previous \subseteq Key
    /\ printed \subseteq Key
    /\ attempt \in 0..Attempts
    /\ fetched \in Resource
    /\ stale \in BOOLEAN
    /\ steady \subseteq apps
    /\ lossy \in BOOLEAN
    /\ seen \subseteq Apps
    /\ spent \in Spent

NoInclusions == [inclusions |-> {}, edits |-> 0]
NoServers == [h \in {} |-> h]

Init ==
    /\ config \in Configs
    /\ apps \in SUBSET Apps /\ Permanent \subseteq apps
    /\ registered \in SecretSets
    /\ gone = {}
    /\ owned \in Ownerships
    /\ resource = NoInclusions
    /\ pc = "down"
    /\ queryServers = NoServers /\ events = 0 /\ recent = FALSE
    /\ unqueried = {} /\ found = {} /\ grouped = {} /\ previous = {} /\ printed = {}
    /\ attempt = 0 /\ fetched = NoInclusions /\ stale = FALSE
    /\ steady = {} /\ lossy = FALSE /\ seen = {}
    /\ spent = [edits |-> 0, changes |-> 0, failures |-> 0, restarts |-> 0]

Capped(n) == IF n > MaxEvents THEN MaxEvents ELSE n

Spend(kind) == spent' = [spent EXCEPT ![kind] = @ + 1]

Goto(from, to) == pc = from /\ pc' = to

\* execute returns, or the process ends: the variables of the run are no more.
EndRun(to) ==
    /\ pc' = to
    /\ unqueried' = {} /\ found' = {} /\ grouped' = {}
    /\ attempt' = 0 /\ fetched' = NoInclusions /\ stale' = FALSE
    /\ steady' = {} /\ lossy' = FALSE /\ seen' = {}

---------------------------------------------------------------------------
(* The process starts. *)

\* The secrets whose config is read: the others of the namespace are skipped.
Managed(secrets) == { s \in secrets : s.managed }

\* The hosts of the configs that listClusterConfigs returns.
ListClusterConfigs(secrets) ==
    { s.host : s \in { t \in Managed(secrets) : t.config = "parsed" /\ t.host # NoHost } }

\* What ends newBaseController with an error: flags that it rejects (it tests
\* the name of the resource, not its kind), and a config that does not parse.
Rejected == config.kind # "ConfigMap" /\ config.name # "ArgoCD"
Unreadable == \E s \in Managed(registered) : s.config = "broken"

\* The query servers of the registered hosts, in the order of the listing, and
\* of the operator's own.  core.GetQueryExecutorInstance, which gives each its
\* executor, is external: an executor for each, or the one that the process has
\* made first.
NewQueryServers(registeredHosts, first) ==
    [h \in registeredHosts \cup {OwnHost} |-> IF SharedExecutor THEN first ELSE h]

\* newBaseController; an event for every application follows the first listing.
\* Whether a query server can be made for an unreachable cluster is external; a
\* start that fails, or exits, for it would leave no trace.
Start ==
    /\ pc \in Down
    /\ IF Rejected \/ Unreadable
         THEN pc' = "failed" /\ UNCHANGED process
         ELSE /\ pc' = "idle"
              /\ LET hosts == ListClusterConfigs(registered)
                 IN  \E first \in IF hosts = {} THEN {OwnHost} ELSE hosts :
                       queryServers' = NewQueryServers(hosts, first)
              /\ events' = Capped(Cardinality(apps))
              /\ UNCHANGED recent
    /\ UNCHANGED <<world, resource, memory, run, spent>>

---------------------------------------------------------------------------
(* execute *)

HandleEvent == events > 0 /\ events' = events - 1

SkipRun ==
    /\ Goto("idle", "idle")
    /\ recent
    /\ HandleEvent
    /\ UNCHANGED <<world, resource, queryServers, recent, memory, run, spent>>

BeginRun ==
    /\ Goto("idle", "query")
    /\ ~recent
    /\ HandleEvent
    /\ recent' = TRUE
    /\ unqueried' = DOMAIN queryServers
    /\ found' = {}
    /\ steady' = apps /\ lossy' = FALSE /\ seen' = apps
    /\ UNCHANGED <<world, resource, queryServers, memory, grouped, update, spent>>

\* The resources that the first query on a host yields, for all applications.
FirstChildren(h, present) == UNION { Tracked[a][h] : a \in present }

\* The resources that a traversal visits if it has answers for those in asked.
Visited(o, h, first, asked) == Reachable([r \in asked |-> o[h][r]], first)

\* Every later resource of a kind is skipped.
OncePerKind == { asked \in SUBSET Resources : \A r, q \in asked : Kind[r] = Kind[q] => r = q }

\* Traversals[o][h][first]: the ways to go on from first on a host, where the
\* ownership is o, in an order that nothing determines.  A traversal gets answers
\* only for resources that it visits.
Traversals ==
    [o \in Ownerships |-> [h \in Hosts |->
      [first \in { FirstChildren(h, present) : present \in SUBSET Apps } |->
        { [asked |-> asked, visited |-> Visited(o, h, first, asked)] :
            asked \in { s \in OncePerKind : s \subseteq Visited(o, h, first, s) } }]]]

\* No query fails: it has an answer for one resource of each kind that it visits.
Whole(t) == \A r \in t.visited : \E q \in t.asked : Kind[q] = Kind[r]

\* The ways that the query server made for h has to go.
Ways(h) ==
    LET g == queryServers[h]
    IN  IF g \in gone THEN {} ELSE Traversals[owned][g][FirstChildren(g, apps)]

Traverse(h, t) ==
    /\ unqueried' = unqueried \ {h}
    /\ found' = found \cup {RootInfo} \cup { Kind[r] : r \in t.visited }

\* GetApplicationChildResources.
QueryHost ==
    /\ Goto("query", "query")
    /\ \E h \in unqueried : \E t \in Ways(h) : Whole(t) /\ Traverse(h, t)
    /\ UNCHANGED <<world, resource, process, memory, grouped, update, history, spent>>

\* For a kind all queries fail, and what they would have found is missing: the
\* errors are logged only.  (If one succeeds, nothing is: its kind is visited.)
NestedQueryFails ==
    /\ Goto("query", "query")
    /\ spent.failures < MaxFailures /\ Spend("failures")
    /\ \E h \in unqueried : \E t \in Ways(h) : ~Whole(t) /\ Traverse(h, t)
    /\ lossy' = TRUE
    /\ UNCHANGED <<world, resource, process, memory, grouped, update, steady, seen>>

\* Variant: a host that cannot be reached is passed over.
UnreachableSkipsHost ==
    /\ Goto("query", "query")
    /\ \E h \in unqueried : queryServers[h] \in gone /\ unqueried' = unqueried \ {h}
    /\ UNCHANGED <<world, resource, process, memory, found, grouped, update, history, spent>>

\* A host that cannot be reached ends the run with an error.
UnreachableEndsRun ==
    /\ pc = "query" /\ EndRun("idle")
    /\ \E h \in unqueried : queryServers[h] \in gone
    /\ UNCHANGED <<world, resource, process, memory, spent>>

QueriesDone ==
    /\ Goto("query", "missing")
    /\ unqueried = {}
    /\ UNCHANGED <<world, resource, process, memory, run, spent>>

AddMissing(kinds, infos) == kinds \cup { <<i.group, i.kind>> : i \in infos }

\* Variant: merged into what the last run computed.
ComputedOnTop ==
    AddMissing(MergeResourceInfos(previous, found), UNION { Missing[a] : a \in apps })

Computed == AddMissing(MergeResourceInfos({}, found), UNION { Missing[a] : a \in apps })

\* Without update-enabled the result is printed, if it is another than before.
PrintInclusions ==
    /\ pc = "missing" /\ EndRun("idle")
    /\ ~config.update
    /\ printed' = IF GroupedEqual(previous, Computed) THEN printed ELSE Computed
    /\ previous' = Computed
    /\ UNCHANGED <<world, resource, process, spent>>

\* Variant: what the last run computed is taken for what the object holds.
CollectTrustsPrevious ==
    /\ config.update /\ pc = "missing"
    /\ IF Computed = previous
         THEN EndRun("idle")
         ELSE /\ pc' = "compare" /\ grouped' = Computed /\ found' = {}
              /\ UNCHANGED <<unqueried, update, history>>
    /\ UNCHANGED <<world, resource, process, memory, spent>>

Collect ==
    /\ Goto("missing", "compare")
    /\ config.update
    /\ grouped' = Computed /\ found' = {}
    /\ UNCHANGED <<world, resource, process, memory, unqueried, update, history, spent>>

\* handleUpdateInCM, handleUpdateInArgoCDCR: the run ends well when the object
\* holds what was computed, with an error when its text does not parse.
Same == GroupedEqual(FromYaml(resource.inclusions), grouped)

CompareEnds ==
    /\ pc = "compare" /\ EndRun("idle")
    /\ \/ resource.inclusions = Garbled /\ UNCHANGED previous
       \/ resource.inclusions # Garbled /\ Same /\ previous' = grouped
    /\ UNCHANGED <<world, resource, process, printed, spent>>

CompareDiffers ==
    /\ Goto("compare", "fetch")
    /\ resource.inclusions # Garbled /\ ~Same
    /\ UNCHANGED <<world, resource, process, memory, run, spent>>

\* The Get of one attempt of RetryOnConflict.
Fetch ==
    /\ Goto("fetch", "put")
    /\ attempt' = attempt + 1
    /\ fetched' = resource
    /\ stale' = FALSE
    /\ UNCHANGED <<world, resource, process, memory, unqueried, found, grouped, history, spent>>

\* What the update leaves in the object.
Updated == [fetched EXCEPT !.inclusions = Entries(grouped)]

\* Variant: the resourceVersion of the copy is not sent.
PutUnchecked ==
    /\ pc = "put" /\ EndRun("idle")
    /\ resource' = Updated
    /\ previous' = grouped
    /\ UNCHANGED <<world, process, printed, spent>>

Put ==
    /\ pc = "put" /\ EndRun("idle")
    /\ ~stale
    /\ resource' = Updated
    /\ previous' = grouped
    /\ UNCHANGED <<world, process, printed, spent>>

\* A conflict: the next attempt, or the end of the run with an error.
PutConflicts ==
    /\ Goto("put", "fetch")
    /\ stale /\ attempt < Attempts
    /\ UNCHANGED <<world, resource, process, memory, run, spent>>

GiveUp ==
    /\ pc = "put" /\ EndRun("idle")
    /\ stale /\ attempt = Attempts
    /\ UNCHANGED <<world, resource, process, memory, spent>>

\* The update is made, and its answer lost: the run ends with an error.
PutAnswerLost ==
    /\ pc = "put" /\ EndRun("idle")
    /\ ~stale
    /\ spent.failures < MaxFailures /\ Spend("failures")
    /\ resource' = Updated
    /\ UNCHANGED <<world, process, memory>>

\* Any remote call may fail.  The handler logs the error; lastRunTime stays.
CallFails ==
    /\ pc \in Remote /\ EndRun("idle")
    /\ pc = "query" => unqueried # {}
    /\ spent.failures < MaxFailures /\ Spend("failures")
    /\ UNCHANGED <<world, resource, process, memory>>

---------------------------------------------------------------------------
(* The environment. *)

Change == spent.changes < MaxChanges /\ Spend("changes")

\* The informer tells a running process of every change.
Notify == events' = IF pc \in Down THEN events ELSE Capped(events + 1)

AppCreated ==
    /\ Change
    /\ \E a \in Apps \ apps :
         /\ apps' = apps \cup {a}
         /\ seen' = IF pc \in Remote THEN seen \cup {a} ELSE seen
    /\ Notify
    /\ UNCHANGED <<config, registered, gone, owned, resource, pc, queryServers, recent, memory, unqueried,
                   found, grouped, update, steady, lossy>>

AppDeleted ==
    /\ Change
    /\ \E a \in apps \ Permanent : apps' = apps \ {a} /\ steady' = steady \ {a}
    /\ Notify
    /\ UNCHANGED <<config, registered, gone, owned, resource, pc, queryServers, recent, memory, unqueried,
                   found, grouped, update, lossy, seen>>

\* Clusters are registered, changed or removed; the operator is not told.
SecretsChange ==
    /\ Change
    /\ \E secrets \in SecretSets \ {registered} : registered' = secrets
    /\ UNCHANGED <<config, apps, gone, owned, resource, pc, process, memory, run>>

ClusterLost ==
    /\ Change
    /\ \E h \in Hosts \ (gone \cup {OwnHost}) : gone' = gone \cup {h}
    /\ UNCHANGED <<config, apps, registered, owned, resource, pc, process, memory, run>>

\* The resync of the informer: an update event for every application it knows.
Resync ==
    /\ pc \notin Down
    /\ apps # {} /\ events = 0
    /\ events' = Capped(Cardinality(apps))
    /\ UNCHANGED <<world, resource, pc, queryServers, recent, memory, run, spent>>

IntervalLapses ==
    /\ recent
    /\ recent' = FALSE
    /\ UNCHANGED <<world, resource, pc, queryServers, events, memory, run, spent>>

\* A user changes the inclusions, or another setting of the same object.
UserEdit ==
    /\ \E text \in UserInclusions \cup {resource.inclusions} :
         resource' = [inclusions |-> text, edits |-> resource.edits + 1]
    /\ stale' = (pc = "put")
    /\ spent.edits < MaxEdits /\ Spend("edits")
    /\ UNCHANGED <<world, pc, process, memory, unqueried, found, grouped, attempt, fetched, history>>

\* The process ends, and its memory with it.
Stop ==
    /\ pc \notin Down
    /\ EndRun("down")
    /\ queryServers' = NoServers /\ events' = 0 /\ recent' = FALSE /\ previous' = {}
    /\ spent.restarts < MaxRestarts /\ Spend("restarts")
    /\ UNCHANGED <<world, resource, printed>>

---------------------------------------------------------------------------

Execute ==
    \/ SkipRun \/ BeginRun \/ QueryHost \/ NestedQueryFails \/ UnreachableEndsRun \/ QueriesDone
    \/ PrintInclusions \/ Collect \/ CompareEnds \/ CompareDiffers \/ Fetch
    \/ Put \/ PutConflicts \/ GiveUp \/ PutAnswerLost \/ CallFails

Next ==
    \/ Start \/ Execute
    \/ AppCreated \/ AppDeleted \/ SecretsChange \/ ClusterLost
    \/ Resync \/ IntervalLapses \/ UserEdit \/ Stop

\* The process is scheduled and restarted, time passes, and the informer
\* resyncs once a minute.  Nothing makes users act or calls fail.
Fairness ==
    /\ WF_vars(Start) /\ WF_vars(Execute)
    /\ WF_vars(Resync) /\ WF_vars(IntervalLapses)

Spec == Init /\ [][Next]_vars /\ Fairness

---------------------------------------------------------------------------
(* Properties. *)

\* The hosts that are queried: each that has a query server, if each query
\* server has an executor of its own.
Reached == { queryServers[h] : h \in DOMAIN queryServers }

\* Trees[o][a][h]: the resources below those of an application on a host, where
\* the ownership is o.
Trees ==
    [o \in Ownerships |-> [a \in Apps |-> [h \in Hosts |-> Reachable(o[h], Tracked[a][h])]]]

\* The kinds that an application needs, and those of them that do not hang on
\* any nested query.
KindsOn(resources, a) ==
    AddMissing(MergeResourceInfos({}, { Kind[r] : r \in UNION resources }), Missing[a])
KindsOf(a) == KindsOn({ Trees[owned][a][h] : h \in Reached }, a)
FirstKinds(a) == KindsOn({ Tracked[a][h] : h \in Reached }, a)

\* What the grouped kinds should be for the applications there are.
Target ==
    MergeResourceInfos({}, {RootInfo}) \cup UNION { KindsOf(a) : a \in apps }

\* The resources of a kind lead to the same kinds: it does not matter which of
\* them the traversal asks about.
UniformOwnerships ==
    { o \in Ownerships :
        \A h \in Hosts : \A r, q \in Resources :
            Kind[r] = Kind[q] => { Kind[c] : c \in o[h][r] } = { Kind[c] : c \in o[h][q] } }
Uniform == owned \in UniformOwnerships

\* An update, and a line of output.
Writes == pc = "put" /\ pc' = "idle" /\ resource' # resource
Prints == printed' # printed

CoversSteady(kinds) ==
    \A a \in steady :
        /\ FirstKinds(a) \subseteq kinds
        /\ Uniform /\ ~lossy => KindsOf(a) \subseteq kinds

\* What the operator gives out covers every application that existed all
\* through the run, on every host that it queries: no failing call and no
\* unreachable cluster makes it write a part, which would take kinds away from
\* Argo CD that are in use.  That is true of the whole trees of the applications
\* only where the resources of a kind lead to the same kinds (Uniform), since one
\* of a kind is asked about (pkg/graph/query.go:164), and if no error was
\* swallowed (pkg/graph/query.go:232); else of what the first queries yield.
WritesCoverSteadyApps ==
    [][/\ Writes => CoversSteady(FromYaml(resource'.inclusions))
       /\ Prints => CoversSteady(printed')]_vars

OnlyOfSeen(kinds) ==
    kinds \subseteq MergeResourceInfos({}, {RootInfo}) \cup UNION { KindsOf(a) : a \in seen }

\* And it has nothing else: kinds only of applications that existed at some
\* time of this run, none left over from an earlier run or from the object.
WritesOnlySeenApps ==
    [][/\ Writes => OnlyOfSeen(FromYaml(resource'.inclusions))
       /\ Prints => OnlyOfSeen(printed')]_vars

\* To users, whose edits of the same object may come between any two steps of
\* an update, it is as if it were one step: it never undoes what they have
\* changed elsewhere in the object, it is not made twice, whichever conflicts
\* are met and answers lost, and the inclusions are never erased.
Updates == INSTANCE AtomicUpdate
UpdatesAreAtomic == Updates!Spec

\* When users and applications have come to rest, the operator stops writing:
\* it reads back from the object what it has written there.  Where resources of
\* a kind differ, two runs may find different kinds, and it need not stop.
Quiesces == Uniform => <>[](pc # "put")

\* What keeps the inclusions from becoming right, and needs a user: a start
\* that fails, a cluster that was known at the start and is gone, a text in the
\* object that does not parse.
Blocked ==
    \/ pc = "failed"
    \/ Reached \cap gone # {}
    \/ config.update /\ resource.inclusions = Garbled

Right(kinds) ==
    /\ kinds \subseteq Target
    /\ \A a \in apps : FirstKinds(a) \subseteq kinds
    /\ Uniform => kinds = Target

\* Whenever an application changes, the inclusions are computed, and end up
\* right (operator/common.go: "whenever a change to any Argo Application is
\* detected, the graph query is executed and the resource inclusion entries are
\* computed"), whichever events the check interval drops, calls fail, nested
\* or not, answers get lost, edits interfere, and restarts intervene: right for
\* the clusters that were registered when the process started, and whole where
\* the resources of a kind lead to the same kinds; else, never more than that,
\* and what the first queries yield.
Converges ==
    <>[](\/ Blocked
         \/ ~config.update /\ Right(printed)
         \/ config.update /\ Right(FromYaml(resource.inclusions)))

\* Kinds of applications that are gone leave the inclusions.
DeletedAppsLeave ==
    <>[](resource.inclusions # Garbled => FromYaml(resource.inclusions) \subseteq Target)

=============================================================================
