--------------------------- MODULE AnalyzeCommand ---------------------------
(***************************************************************************)
(* The command "analyze": from the flags, through the configuration of the *)
(* control plane and the address of the repo-server, to the backend and to *)
(* what is printed.  Of the backend it takes what Analysis says of it,     *)
(* which both strategies implement, together with the clusters that it     *)
(* connects to; a user may switch the context of a kubeconfig meanwhile.   *)
(* A text that cannot be built (printInclusions) cannot occur.             *)
(***************************************************************************)
EXTENDS KubeConfig, Naturals, Sequences

CONSTANTS
    Segments,     \* names and namespaces, between slashes
    Empty,        \* the empty one
    AllFlags,     \* the command lines that may be given
    Machines,     \* the machines it may run on
    Apps,         \* the applications of the control plane
    Identity,     \* Identity[a]: their [namespace, name]
    Clusters,     \* the registered clusters
    Destination,  \* Destination[a]: the one that a is deployed to
    Kinds,        \* kinds that may be reported
    Status,       \* Status[a]: of status its conditions (whether they are of the type
                  \* ExcludedResourceWarning, whether the message has the known form, and the
                  \* kind it tells of) and the kinds of its resources
    Found,        \* Found[a][h]: the kinds found for a on API server h
    MaxSwitches   \* bound on the switches of context

ASSUME CommandAssumption ==
    /\ Machines \subseteq Machine
    /\ "given" \notin Hosts
    /\ Empty \in Segments
    /\ \A flags \in AllFlags :
         /\ flags.app \in Seq(Segments) /\ Len(flags.app) \in {1, 2}
         /\ flags.namespace \in Segments
         /\ flags.path \in Paths \cup {NoPath}
    /\ Identity \in [Apps -> [namespace : Segments \ {Empty}, name : Segments \ {Empty}]]
    /\ Clusters \subseteq Cluster
    /\ Destination \in [Apps -> Clusters]
    /\ Status \in [Apps -> [conditions : SUBSET [excluded : BOOLEAN, matches : BOOLEAN, kind : Kinds],
                           resources : SUBSET Kinds]]
    /\ Found \in [Apps -> [Hosts -> SUBSET Kinds]]
    /\ MaxSwitches \in Nat

VARIABLES
    flags,      \* the command line: app (its segments), namespace, allApps, path,
                \* repoServer, strategy, validLevel
    machine,    \* what the process finds on the machine
    switches,   \* how often a context has been switched
    pc,         \* the next step
    target,     \* opts.TargetApp, as its segments, and its namespace
    config,     \* the API server of the control plane
    repo,       \* the cluster of the repo-server, or "given"
    reached,    \* the API server by which the backend analyses a cluster
    phase, asked, collected, report,  \* of the backend, see Analysis
    printed,    \* what is printed
    exit        \* how the process ends

backend == <<phase, asked, collected, report>>
vars == <<flags, machine, switches, pc, target, config, repo, reached, backend, printed, exit>>

\* The kinds that Argo CD has reported to be excluded.
GetMissingResources(status) ==
    { c.kind : c \in { d \in status.conditions : d.excluded /\ d.matches } }

GetResourcesFromApplicationStatus(a) ==
    GetMissingResources(Status[a]) \cup Status[a].resources

Backend == INSTANCE Analysis WITH
    Offer <- [a \in Apps |->
                 GetResourcesFromApplicationStatus(a) \cup UNION { Found[a][h] : h \in Hosts }]

NoTarget == [namespace |-> Empty, name |-> <<Empty>>]

TypeOK ==
    /\ flags \in AllFlags /\ machine \in Machine
    /\ switches \in 0..MaxSwitches
    /\ pc \in {"parse", "config", "repo", "strategy", "execute", "exited"}
    /\ target \in [namespace : Segments, name : Seq(Segments)]
    /\ config \in Hosts \cup {NoConfig}
    /\ repo \in Hosts \cup {NoConfig, "given"}
    /\ DOMAIN reached \subseteq Clusters
    /\ \A cluster \in DOMAIN reached : reached[cluster] \in Hosts
    /\ phase \in {"listing", "running", "returned", "failed"}
    /\ asked \subseteq Apps /\ collected \subseteq Kinds /\ report \subseteq Kinds
    /\ printed \subseteq Kinds
    /\ exit \in {"none", "ok", "error"}

Init ==
    /\ flags \in AllFlags /\ machine \in Machines /\ switches = 0
    /\ pc = "parse" /\ target = NoTarget
    /\ config = NoConfig /\ repo = NoConfig
    /\ reached = [cluster \in {} |-> NoConfig]
    /\ Backend!Init
    /\ printed = {} /\ exit = "none"

\* RunE returns an error.
Error == pc' = "exited" /\ exit' = "error"

---------------------------------------------------------------------------
(* Up to the backend. *)

\* Variant: of "namespace/name" only the name is taken.
SplitDropsNamespace(line) ==
    [namespace |-> line.namespace,
     name |-> IF line.allApps THEN line.app ELSE << line.app[Len(line.app)] >>]

\* "namespace/name" overrides --app-namespace; with --all-apps it stays a name,
\* which no application has.
Split(line) ==
    IF line.allApps \/ Len(line.app) = 1
    THEN [namespace |-> line.namespace, name |-> line.app]
    ELSE [namespace |-> line.app[1], name |-> << line.app[2] >>]

ParseFlags ==
    /\ pc = "parse"
    /\ IF flags.validLevel /\ (flags.allApps \/ flags.app # <<Empty>>)
       THEN pc' = "config" /\ target' = Split(flags) /\ UNCHANGED exit
       ELSE Error /\ UNCHANGED target
    /\ UNCHANGED <<flags, machine, switches, config, repo, reached, backend, printed>>

LoadConfig ==
    /\ pc = "config"
    /\ config' = GetKubeConfig(machine, flags.path)
    /\ IF config' # NoConfig THEN pc' = "repo" /\ UNCHANGED exit ELSE Error
    /\ UNCHANGED <<flags, machine, switches, target, repo, reached, backend, printed>>

\* The address that is given, or a port that is forwarded to the repo-server
\* after its service has been looked up.
EnsureRepoServer ==
    /\ pc = "repo" /\ pc' = "strategy"
    /\ repo' = IF flags.repoServer THEN "given" ELSE PortForwardHost(machine)
    /\ repo' # NoConfig
    /\ UNCHANGED <<flags, machine, switches, target, config, reached, backend, printed, exit>>

EnsureRepoServerFails ==
    /\ pc = "repo" /\ ~flags.repoServer
    /\ Error
    /\ UNCHANGED <<flags, machine, switches, target, config, repo, reached, backend, printed>>

SelectStrategy ==
    /\ pc = "strategy"
    /\ IF flags.strategy \in {"graph", "dynamic"}
       THEN pc' = "execute" /\ UNCHANGED exit
       ELSE Error
    /\ UNCHANGED <<flags, machine, switches, target, config, repo, reached, backend, printed>>

---------------------------------------------------------------------------
(* The backend. *)

\* The one application, which must exist in one namespace, or all that the
\* namespace has, where the empty namespace has those of all.
Targets ==
    { a \in Apps : /\ target.name \in { << Identity[a].name >>, <<Empty>> }
                   /\ \/ Identity[a].namespace = target.namespace
                      \/ target.namespace = Empty /\ target.name = <<Empty>> }

\* The kinds that the status of these applications adds.
FromStatus(apps) == UNION { GetResourcesFromApplicationStatus(a) : a \in apps }

List ==
    /\ pc = "execute"
    /\ target.name # <<Empty>> => Targets # {}
    /\ asked' = Targets
    /\ \E apps \in SUBSET Targets : collected' = FromStatus(apps)
    /\ Backend!List
    /\ UNCHANGED <<flags, machine, switches, pc, target, config, repo, reached, printed, exit>>

\* The clients cannot be built, or the applications cannot be had.
ExecuteFails ==
    /\ pc = "execute" /\ phase = "listing"
    /\ Backend!Fail
    /\ Error
    /\ UNCHANGED <<flags, machine, switches, target, config, repo, reached, printed>>

\* The backend connects to the cluster of an application: once per cluster,
\* but for a worker of the dynamic strategy that has missed the connection of
\* another and replaces it.
ConnectCluster ==
    /\ pc = "execute" /\ phase = "running"
    /\ \E a \in asked :
         LET cluster == Destination[a]
             host == RestConfigFromCluster(machine, cluster, flags.path)
         IN  /\ cluster \in DOMAIN reached => flags.strategy = "dynamic"
             /\ host # NoConfig
             /\ reached' = [c \in DOMAIN reached \cup {cluster} |->
                               IF c = cluster THEN host ELSE reached[c]]
    /\ UNCHANGED <<flags, machine, switches, pc, target, config, repo, backend, printed, exit>>

\* Kinds are found on a connected cluster, or taken from a status.
Collect ==
    /\ pc = "execute"
    /\ \E a \in asked :
         \/ collected' = collected \cup FromStatus({a})
         \/ /\ Destination[a] \in DOMAIN reached
            /\ collected' = collected \cup Found[a][reached[Destination[a]]]
    /\ Backend!Collect
    /\ UNCHANGED <<flags, machine, switches, pc, target, config, repo, reached, printed, exit>>

PrintInclusions ==
    /\ pc = "execute"
    /\ Backend!Return
    /\ printed' = report'
    /\ pc' = "exited" /\ exit' = "ok"
    /\ UNCHANGED <<flags, machine, switches, target, config, repo, reached>>

---------------------------------------------------------------------------

\* A user switches the current context of the default kubeconfig or of a file.
SwitchContext ==
    /\ switches < MaxSwitches /\ switches' = switches + 1
    /\ \E host \in Hosts :
         \/ machine' = [machine EXCEPT !.default = host]
         \/ \E path \in Paths : machine' = [machine EXCEPT !.file[path] = host]
    /\ UNCHANGED <<flags, pc, target, config, repo, reached, backend, printed, exit>>

Next ==
    \/ ParseFlags \/ LoadConfig
    \/ EnsureRepoServer \/ EnsureRepoServerFails
    \/ SelectStrategy
    \/ List \/ ExecuteFails \/ ConnectCluster \/ Collect \/ PrintInclusions
    \/ SwitchContext

Spec == Init /\ [][Next]_vars

---------------------------------------------------------------------------
(* Properties. *)

\* Two look-ups of the local API server agree: an application in the cluster
\* of Argo CD is analysed on the API server that the applications were read
\* from, and a forwarded repo-server is that cluster's when no kubeconfig is
\* named and the process is in no cluster, if no context is switched.
OneControlPlane ==
    switches = 0 =>
        /\ \A cluster \in DOMAIN reached : IsInCluster(cluster) => reached[cluster] = config
        /\ repo \in Hosts /\ flags.path = NoPath /\ machine.inCluster = NotInCluster
               => repo = config

\* Where an application is deployed to.
Home(a) == IF IsInCluster(Destination[a]) THEN config ELSE Destination[a].host

\* From the flags to the output: with --app namespace/name, and a name, what
\* is printed belongs to the application of that name in that namespace, and
\* was found where it is deployed, even if other applications have that name.
OnlyTheNamedPrinted ==
    LET named == { a \in Apps : <<Identity[a].namespace, Identity[a].name>> = flags.app }
    IN  exit = "ok" /\ switches = 0 /\ ~flags.allApps /\ Len(flags.app) = 2 /\ flags.app[2] # Empty =>
            printed \subseteq FromStatus(named) \cup UNION { Found[a][Home(a)] : a \in named }

=============================================================================
