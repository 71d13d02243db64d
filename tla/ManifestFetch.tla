---------------------------- MODULE ManifestFetch ----------------------------
(***************************************************************************)
(* How a backend comes by the manifests of one application: it reads the   *)
(* project, repositories, credentials and settings, connects to the        *)
(* repo-server, looks up the version of the destination cluster, and has   *)
(* every source rendered for it.  The destination is looked up twice: by   *)
(* the fetch, which ignores every failure and takes the first cluster of a *)
(* name, and by the backend, which refuses an ambiguous name, before the   *)
(* fetch or after it.  Clusters may be registered or renamed meanwhile.    *)
(* A destination name that no cluster has ends the process, where this     *)
(* module has the look-up fail; DynamicAnalysis models that.               *)
(***************************************************************************)
EXTENDS Naturals, Sequences, FiniteSets

CONSTANTS
    Apps,          \* the applications
    Servers,       \* API server addresses of clusters
    ClusterNames,  \* names that a destination may give instead
    None,          \* an absent server, name or version
    Destination,   \* Destination[a]: spec.destination, [server, name]
    AllSources,    \* sources of applications
    Sources,       \* Sources[a]: those of a, one or several
    Infos,         \* kinds of rendered manifests
    Rendered,      \* Rendered[source][v]: what it renders to for the version of cluster v,
                   \* or, with None, for the repo-server's default
    Registries,    \* the registries of clusters there may be: name -> servers
    MaxChanges     \* bound on the changes of the registry

ASSUME FetchAssumption ==
    /\ IsFiniteSet(Servers)
    /\ None \notin Servers \cup ClusterNames
    /\ Destination \in [Apps -> [server : Servers \cup {None}, name : ClusterNames \cup {None}]]
    /\ Sources \in [Apps -> SUBSET AllSources]
    /\ Rendered \in [AllSources -> [Servers \cup {None} -> SUBSET Infos]]
    /\ Registries \subseteq [ClusterNames -> SUBSET Servers]
    /\ MaxChanges \in Nat

\* The calls before the connection is made; each may fail.
Preparation ==
    <<"GetAppProject", "ListHelmRepositories", "GetPermittedRepos",
      "GetAllHelmRepositoryCredentials", "GetPermittedReposCredentials",
      "GetEnabledSourceTypes", "GetKustomizeSettings">>

VARIABLES
    app,         \* the application
    fetchFirst,  \* the backend resolves the destination after the fetch
    registry,    \* the servers of the clusters of each name
    changes,     \* how often it has changed
    pc,          \* where the call chain stands
    prepared,    \* how many calls of Preparation have returned
    connected,   \* the connection to the repo-server is open
    version,     \* the cluster whose version is rendered for
    todo,        \* sources that are still to be rendered
    targetObjs,  \* what the others have rendered to
    result,      \* of the fetch
    manifests,   \* what the fetch returns
    server       \* the destination, as the backend resolves it

world == <<app, fetchFirst, registry, changes>>
fetch == <<prepared, connected, version, todo, targetObjs, result, manifests>>
vars == <<world, pc, fetch, server>>

TypeOK ==
    /\ app \in Apps
    /\ fetchFirst \in BOOLEAN
    /\ registry \in Registries
    /\ changes \in 0..MaxChanges
    /\ pc \in {"resolve", "prepare", "refs", "version", "render", "done"}
    /\ prepared \in 0..Len(Preparation)
    /\ connected \in BOOLEAN
    /\ version \in Servers \cup {None}
    /\ todo \subseteq Sources[app]
    /\ targetObjs \subseteq Infos
    /\ result \in {"none", "ok", "error"}
    /\ manifests \subseteq Infos
    /\ server \in Servers \cup {None}

Init ==
    /\ app \in Apps
    /\ fetchFirst \in BOOLEAN
    /\ registry \in Registries
    /\ changes = 0
    /\ pc = IF fetchFirst THEN "prepare" ELSE "resolve"
    /\ prepared = 0
    /\ connected = FALSE
    /\ version = None
    /\ todo = Sources[app]
    /\ targetObjs = {}
    /\ result = "none"
    /\ manifests = {}
    /\ server = None

\* The servers that the destination of the application may stand for.
Candidates ==
    LET destination == Destination[app]
    IN  IF destination.server # None THEN {destination.server}
        ELSE IF destination.name # None THEN registry[destination.name]
        ELSE {}

---------------------------------------------------------------------------
(* The backend resolves the destination. *)

\* Variant: the first cluster of an ambiguous name is taken.
ResolveFirstOfMany ==
    /\ pc = "resolve"
    /\ pc' = IF fetchFirst THEN "done" ELSE "prepare"
    /\ server' \in Candidates
    /\ UNCHANGED <<world, fetch>>

Resolve ==
    /\ pc = "resolve"
    /\ pc' = IF fetchFirst THEN "done" ELSE "prepare"
    /\ Cardinality(Candidates) = 1 /\ server' \in Candidates
    /\ UNCHANGED <<world, fetch>>

\* No or several clusters of that name, no destination, or a failed look-up of
\* the cluster: the application is not analysed.
ResolveFails ==
    /\ pc = "resolve" /\ pc' = "done"
    /\ UNCHANGED <<world, fetch, server>>

---------------------------------------------------------------------------
(* GetApplicationChildManifests. *)

Prepare ==
    /\ pc = "prepare" /\ prepared < Len(Preparation)
    /\ prepared' = prepared + 1
    /\ UNCHANGED <<world, pc, connected, version, todo, targetObjs, result, manifests, server>>

Connect ==
    /\ pc = "prepare" /\ pc' = "refs" /\ prepared = Len(Preparation)
    /\ connected' = TRUE
    /\ UNCHANGED <<world, prepared, version, todo, targetObjs, result, manifests, server>>

GetRefSources ==
    /\ pc = "refs" /\ pc' = "version"
    /\ UNCHANGED <<world, fetch, server>>

\* Variant: a name that no cluster has is taken for a server.
LookupVersionByName ==
    /\ pc = "version" /\ pc' = "render"
    /\ version' \in IF Candidates = {} THEN {Destination[app].name} ELSE Candidates \cup {None}
    /\ UNCHANGED <<world, prepared, connected, todo, targetObjs, result, manifests, server>>

\* The version of a cluster that the destination may stand for, or none when
\* there is no such cluster or a look-up fails; neither is an error.
LookupVersion ==
    /\ pc = "version" /\ pc' = "render"
    /\ version' \in Candidates \cup {None}
    /\ UNCHANGED <<world, prepared, connected, todo, targetObjs, result, manifests, server>>

\* GenerateManifest of one source, in any order.
Render ==
    /\ pc = "render"
    /\ \E source \in todo :
         /\ todo' = todo \ {source}
         /\ targetObjs' = targetObjs \cup Rendered[source][version]
    /\ UNCHANGED <<world, pc, prepared, connected, version, result, manifests, server>>

\* What follows the fetch, well or not: the deferred close of the connection,
\* and in the loop over a list the backend's look-up.
FetchReturns(outcome) ==
    /\ result' = outcome
    /\ connected' = FALSE
    /\ pc' = IF fetchFirst THEN "resolve" ELSE "done"
    /\ UNCHANGED <<world, prepared, version, todo, targetObjs, server>>

FetchSucceeds ==
    /\ pc = "render" /\ todo = {}
    /\ manifests' = targetObjs
    /\ FetchReturns("ok")

\* Variant: a source that cannot be rendered is passed over.
FetchFailsSkipsSource ==
    /\ pc = "render"
    /\ \E source \in todo : todo' = todo \ {source}
    /\ UNCHANGED <<world, pc, prepared, connected, version, targetObjs, result, manifests, server>>

FetchFails ==
    /\ pc \in {"prepare", "refs", "render"}
    /\ pc = "render" => todo # {}
    /\ UNCHANGED manifests
    /\ FetchReturns("error")

---------------------------------------------------------------------------

\* Clusters are registered, renamed or removed.
RegistryChanges ==
    /\ changes < MaxChanges /\ changes' = changes + 1
    /\ registry' \in Registries \ {registry}
    /\ UNCHANGED <<app, fetchFirst, pc, fetch, server>>

Next ==
    \/ Resolve \/ ResolveFails
    \/ Prepare \/ Connect \/ GetRefSources \/ LookupVersion \/ Render
    \/ FetchSucceeds \/ FetchFails
    \/ RegistryChanges

Spec == Init /\ [][Next]_vars

---------------------------------------------------------------------------
(* Properties. *)

\* The chain of calls is all or nothing for the backends: all sources of an
\* application or an error, all rendered for one version, and the connection
\* closed on every path.  DynamicAnalysis and GraphQuery take it for one step.
Atomic == INSTANCE AtomicFetch WITH Versions <- Servers \cup {None}

ImplementsAtomicFetch == Atomic!Spec

\* The two look-ups of a destination agree, in either order, although one
\* ignores what the other refuses: the manifests of an application that is
\* analysed on a cluster are rendered for that cluster, or for the default
\* version, and never for another cluster of the same name, as long as nobody
\* changes the registry between the two.
RenderedForDestination ==
    pc = "done" /\ result = "ok" /\ server # None /\ changes = 0 => version \in {server, None}

=============================================================================
