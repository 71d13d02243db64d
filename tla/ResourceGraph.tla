--------------------------- MODULE ResourceGraph ---------------------------
(***************************************************************************)
(* The data and the pure functions of the dynamic strategy: resource keys, *)
(* the kinds a cluster scan visits, the parent -> children relation that   *)
(* one listed object contributes, the merge of relations, and the kinds    *)
(* reachable from an application's direct resources.                       *)
(*                                                                         *)
(* An apiVersion is the sequence of its "/"-separated segments, such as    *)
(* <<"apps", "v1">> or <<"v1">>; a resource key "group_Kind" is the pair   *)
(* <<group, kind>>; a relation is a partial function from keys to sets of  *)
(* keys, as the Go map[string]*hashset.Set.                                *)
(***************************************************************************)
EXTENDS Naturals, Sequences

CONSTANT Names  \* names of API groups, versions, kinds and resources

ASSUME NamesAssumption ==
    /\ "" \notin Names
    /\ {"core", "v1", "apps", "operators.coreos.com",
        "OperatorGroup", "ServiceAccount", "StatefulSet"} \subseteq Names

Key == Names \X Names

ApiVersion == Seq(Names)

\* A ResourceInfo; its name and namespace play no part in the dynamic strategy.
Info == [group : Names \cup {""}, kind : Names]

IsRelation(rel) ==
    /\ rel = [p \in DOMAIN rel |-> rel[p]]
    /\ DOMAIN rel \subseteq Key
    /\ \A p \in DOMAIN rel : rel[p] \subseteq Key

EmptyRelation == [p \in {} |-> {}]

---------------------------------------------------------------------------
(* Keys. *)

CoreIfEmpty(group) == IF group = "" THEN "core" ELSE group

\* GetResourceKey: an apiVersion without a "/" is taken for the core group.
GetResourceKey(groupVersion, kind) ==
    << IF Len(groupVersion) > 1 THEN groupVersion[1] ELSE "core", kind >>

\* The keys of the direct resources that the traversal starts from.
RootKey(info) == << CoreIfEmpty(info.group), info.kind >>

\* The key that the cache is probed with: the group is handed over where
\* GetResourceKey expects an apiVersion.
ProbeKey(info) == GetResourceKey(<<info.group>>, info.kind)

KeyInfo(key) == [group |-> IF key[1] = "core" THEN "" ELSE key[1], kind |-> key[2]]

---------------------------------------------------------------------------
(* The kinds a scan visits. *)

\* resource.exclusions of Argo CD, as <<group, kind>> pairs.
ExcludedGroupsKinds ==
    ({""} \X {"Endpoints"})
      \cup ({"discovery.k8s.io"} \X {"EndpointSlice"})
      \cup ({"coordination.k8s.io"} \X {"Lease"})
      \cup ({"authentication.k8s.io"} \X {"SelfSubjectReview", "TokenReview"})
      \cup ({"authorization.k8s.io"} \X
              {"LocalSubjectAccessReview", "SelfSubjectAccessReview",
               "SelfSubjectRulesReview", "SubjectAccessReview"})
      \cup ({"certificates.k8s.io"} \X {"CertificateSigningRequest"})
      \cup ({"cert-manager.io"} \X {"CertificateRequest"})
      \cup ({"cilium.io"} \X {"CiliumIdentity", "CiliumEndpoint", "CiliumEndpointSlice"})
      \cup ({"kyverno.io"} \X
              {"EphemeralReport", "ClusterEphemeralReport", "AdmissionReport",
               "ClusterAdmissionReport", "BackgroundScanReport",
               "ClusterBackgroundScanReport", "UpdateRequest"})
      \cup ({"reports.kyverno.io", "wgpolicyk8s.io"} \X
              {"PolicyReport", "ClusterPolicyReport"})

IsExcludedKind(group, kind) == <<group, kind>> \in ExcludedGroupsKinds

\* schema.ParseGroupVersion: fails on more than one "/".
Parses(groupVersion) == Len(groupVersion) \in 1..2
GroupOf(groupVersion) == IF Len(groupVersion) > 1 THEN groupVersion[1] ELSE ""
VersionOf(groupVersion) == groupVersion[Len(groupVersion)]

\* The GVRs that discovery of the given API resources puts on the list.
DiscoveredGvrs(apiResources) ==
    { [group |-> GroupOf(r.groupVersion), version |-> VersionOf(r.groupVersion),
       resource |-> r.name] :
        r \in { q \in apiResources :
                  /\ Parses(q.groupVersion)
                  /\ q.namespaced
                  /\ ~IsExcludedKind(GroupOf(q.groupVersion), q.kind) } }

\* The GVRs that one CRD add or update event puts on the list: its served
\* versions, unless it is cluster scoped.
CrdGvrs(crd) ==
    { [group |-> crd.group, version |-> v.name, resource |-> crd.plural] :
        v \in { w \in crd.versions : w.served /\ crd.scope = "Namespaced" } }

---------------------------------------------------------------------------
(* Relations. *)

Children(rel, key) == IF key \in DOMAIN rel THEN rel[key] ELSE {}

RelationOf(edges) ==
    [p \in { e[1] : e \in edges } |-> { c \in { e[2] : e \in edges } : <<p, c>> \in edges }]

\* Parents that are implied by the kind of an object, whatever its owners.
ImpliedParents(kind) ==
    CASE kind = "ClusterServiceVersion" ->
            {GetResourceKey(<<"operators.coreos.com", "v1">>, "OperatorGroup")}
      [] kind = "Secret" -> {GetResourceKey(<<"v1">>, "ServiceAccount")}
      [] kind = "volumeClaimTemplates" -> {GetResourceKey(<<"apps", "v1">>, "StatefulSet")}
      [] OTHER -> {}

\* A listed object, with its owner references.
Item == [apiVersion : ApiVersion, kind : Names,
         owners : SUBSET [apiVersion : ApiVersion, kind : Names]]

ItemEdges(item) ==
    IF IsExcludedKind(GroupOf(item.apiVersion), item.kind)
      THEN {}
      ELSE ({ GetResourceKey(o.apiVersion, o.kind) : o \in item.owners }
              \cup ImpliedParents(item.kind))
             \X {GetResourceKey(item.apiVersion, item.kind)}

ItemsRelation(items) == RelationOf(UNION { ItemEdges(i) : i \in items })

\* mergeInto(dst, rel)
MergeInto(dst, rel) ==
    [p \in DOMAIN dst \cup DOMAIN rel |-> Children(dst, p) \cup Children(rel, p)]

---------------------------------------------------------------------------
(* Reachability. *)

ClosedUnder(rel, keys) == \A p \in keys : Children(rel, p) \subseteq keys

\* The keys that the depth first search from the roots visits: the least set
\* that holds the roots and is closed under the relation.  RelationWalk has
\* the search itself, and shows that this is what it computes.
Reachable(rel, roots) ==
    LET nodes == roots \cup UNION { rel[p] : p \in DOMAIN rel }
    IN  { n \in nodes :
            \A S \in SUBSET nodes : (roots \subseteq S /\ ClosedUnder(rel, S)) => n \in S }

\* GetResourceRelation: the kinds reachable from the direct resources.
GetResourceRelation(rel, direct) ==
    { KeyInfo(k) : k \in Reachable(rel, { RootKey(i) : i \in direct }) }

\* Variant: the empty group is kept as it is.
MergeRawGroups(grouped, infos) == grouped \cup { <<i.group, i.kind>> : i \in infos }

\* MergeResourceInfos: GroupedResourceKinds is the set of its <<group, kind>> pairs.
MergeResourceInfos(grouped, infos) ==
    grouped \cup { <<CoreIfEmpty(i.group), i.kind>> : i \in infos }

=============================================================================
