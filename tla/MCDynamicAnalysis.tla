------------------------- MODULE MCDynamicAnalysis -------------------------
(***************************************************************************)
(* Small instances of DynamicAnalysis.  The kinds are those of a usual     *)
(* application: a Deployment owns ReplicaSets, which own Pods; a Service   *)
(* owns EndpointSlices, which are excluded; a Certificate, a custom        *)
(* resource whose CRD may arrive during the run, owns Secrets.             *)
(***************************************************************************)
EXTENDS DynamicAnalysis, TLC

CONSTANTS a1, a2, a3, a4, east, west, prod, ghost

MCNames == STRING \ {""}

V1 == <<"v1">>
AppsV1 == <<"apps", "v1">>
CertV1 == <<"cert.io", "v1">>

Owner(apiVersion, kind) == [apiVersion |-> apiVersion, kind |-> kind]
Object(apiVersion, kind, owners) == [apiVersion |-> apiVersion, kind |-> kind, owners |-> owners]
Api(apiVersion, kind, name) ==
    [groupVersion |-> apiVersion, kind |-> kind, name |-> name, namespaced |-> TRUE]

Deployment == [group |-> "apps", kind |-> "Deployment"]
Service == [group |-> "", kind |-> "Service"]
Certificate == [group |-> "cert.io", kind |-> "Certificate"]
Namespace == [group |-> "", kind |-> "Namespace"]

ReplicaSetGvr == [group |-> "apps", version |-> "v1", resource |-> "replicasets"]
PodGvr == [group |-> "", version |-> "v1", resource |-> "pods"]
SecretGvr == [group |-> "", version |-> "v1", resource |-> "secrets"]
OrderGvr == [group |-> "cert.io", version |-> "v1", resource |-> "orders"]
SliceItem == Object(<<"discovery.k8s.io", "v1">>, "EndpointSlice", {Owner(V1, "Service")})

WorkloadApis ==
    {Api(AppsV1, "ReplicaSet", "replicasets"), Api(V1, "Pod", "pods"),
     Api(<<"discovery.k8s.io", "v1">>, "EndpointSlice", "endpointslices"),
     [Api(V1, "Namespace", "namespaces") EXCEPT !.namespaced = FALSE]}
CertApis == {Api(V1, "Secret", "secrets"), Api(CertV1, "Order", "orders")}

OrderCrd ==
    [group |-> "cert.io", kind |-> "Order", plural |-> "orders", scope |-> "Namespaced",
     versions |-> {[name |-> "v1", served |-> TRUE], [name |-> "v1alpha1", served |-> FALSE]}]
IssuerCrd ==
    [group |-> "cert.io", kind |-> "ClusterIssuer", plural |-> "clusterissuers",
     scope |-> "Cluster", versions |-> {[name |-> "v1", served |-> TRUE]}]

ReplicaSetPages == << {Object(AppsV1, "ReplicaSet", {Owner(AppsV1, "Deployment")})} >>
\* The Pods come in two pages: one without an owner, one owned by a ReplicaSet.
PodPages ==
    << {Object(V1, "Pod", {}), SliceItem}, {Object(V1, "Pod", {Owner(AppsV1, "ReplicaSet")})} >>
SecretPages == << {Object(V1, "Secret", {Owner(CertV1, "Certificate")})} >>
OrderPages == << {Object(CertV1, "Order", {Owner(CertV1, "Certificate")})} >>

At(s) == [server |-> s, name |-> None]
Named(n) == [server |-> None, name |-> n]
Nowhere == [server |-> None, name |-> None]

WorkloadPages == (ReplicaSetGvr :> ReplicaSetPages) @@ (PodGvr :> PodPages)


---------------------------------------------------------------------------
(* One cluster.  Its list of resources can grow during a scan, two workers *)
(* can create a mapper for it, and two need a sync of it; one application  *)
(* has no destination.                                                     *)

SingleApps == {a1, a2, a3}
SingleDestination == a1 :> At(east) @@ a2 :> Named(prod) @@ a3 :> Nowhere
SingleNames == prod :> {east}
SingleStatus == a1 :> {Namespace} @@ a2 :> {} @@ a3 :> {Service}
SingleManifests ==
    a1 :> {Deployment, Certificate} @@ a2 :> {Service, Certificate} @@ a3 :> {Deployment}
SingleApis == east :> WorkloadApis
SingleCrds == east :> {OrderCrd, IssuerCrd}
SinglePages == east :> (WorkloadPages @@ OrderGvr :> OrderPages)

---------------------------------------------------------------------------
(* Two clusters, and every remote call may fail.  A Certificate owns       *)
(* objects of two kinds, so a scan cut short finds a part of its children; *)
(* a second application of the cluster asks for a second scan.  One        *)
(* application names a cluster that does not exist.                        *)

PairApps == {a1, a2, a3, a4}
PairDestination ==
    a1 :> At(east) @@ a2 :> At(east) @@ a3 :> At(west) @@ a4 :> Named(ghost)
PairNames == ghost :> {}
PairStatus == [a \in PairApps |-> {}]
PairManifests ==
    a1 :> {Certificate} @@ a2 :> {Certificate, Service} @@ a3 :> {Service} @@ a4 :> {}
PairApis == east :> CertApis @@ west :> {}
PairCrds == [s \in {east, west} |-> {}]
PairPages ==
    east :> (SecretGvr :> SecretPages @@ OrderGvr :> OrderPages) @@ west :> EmptyRelation

---------------------------------------------------------------------------
(* The same kinds deployed to two clusters, only one of which has objects  *)
(* of the dependent kinds.                                                 *)

TwoApps == {a1, a2}
TwoDestination == a1 :> At(east) @@ a2 :> At(west)
TwoNames == ghost :> {}
TwoStatus == [a \in TwoApps |-> {}]
TwoManifests == [a \in TwoApps |-> {Deployment}]
TwoApis == [s \in {east, west} |-> WorkloadApis]
TwoCrds == [s \in {east, west} |-> {}]
TwoPages == east :> (ReplicaSetGvr :> << {} >> @@ PodGvr :> << {} >>) @@ west :> WorkloadPages

---------------------------------------------------------------------------
(* A second application of a cluster whose Deployments have been scanned.  *)

RescanDestination == [a \in TwoApps |-> At(east)]
RescanManifests == a1 :> {Service} @@ a2 :> {Deployment}
RescanPages == east :> WorkloadPages
RescanApis == east :> WorkloadApis
RescanCrds == east :> {}

---------------------------------------------------------------------------
(* The hypotheses of the theorems on complete and justified trees: two     *)
(* clusters of different kinds meet them, two clusters of the same do not. *)

ASSUME KindsApart == Destination # TwoDestination => OwnKeys /\ OthersAddNothing

ASSUME KindsShared == Destination = TwoDestination => ~OwnKeys

=============================================================================
