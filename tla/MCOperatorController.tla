------------------------ MODULE MCOperatorController ------------------------
(***************************************************************************)
(* Small instances of OperatorController: the operator's own cluster and a *)
(* remote one, two applications with a Deployment each, of which both own  *)
(* a Pod or only one does, one of them with a Certificate on the remote    *)
(* cluster, the other with an excluded kind, cluster secrets of every      *)
(* sort, and a user who writes an entry as Argo CD documents it, or a text *)
(* that does not parse.                                                    *)
(***************************************************************************)
EXTENDS OperatorController, TLC

CONSTANTS a1, a2, own, remote, d1, d2, pod, cert

MCNames == STRING \ {""}

MCKind ==
    d1 :> [group |-> "apps", kind |-> "Deployment"] @@ d2 :> [group |-> "apps", kind |-> "Deployment"]
      @@ pod :> [group |-> "", kind |-> "Pod"] @@ cert :> [group |-> "cert.io", kind |-> "Certificate"]

MCTracked ==
    a1 :> (own :> {d1} @@ remote :> {cert}) @@ a2 :> (own :> {d2} @@ remote :> {})

\* What the Deployments lead to; nothing else leads to anything.
Owning(deployments) ==
    [h \in Hosts |-> [r \in Resources |-> IF r \in deployments THEN {pod} ELSE {}]]
Even == Owning({d1, d2})
Uneven == Owning({d2})
EvenOrNot == {Even, Uneven}
EvenOnly == {Even}

MCMissing == a1 :> {} @@ a2 :> {[group |-> "core", kind |-> "Service"]}

Cluster(managed, data, host) == [managed |-> managed, config |-> data, host |-> host]
RemoteCluster == {Cluster(TRUE, "parsed", remote)}
Skipped ==
    {Cluster(FALSE, "broken", remote), Cluster(TRUE, "absent", NoHost), Cluster(TRUE, "parsed", NoHost)}
Broken == RemoteCluster \cup {Cluster(TRUE, "broken", NoHost)}
AnySecrets == {RemoteCluster, Skipped, Broken}
OneRemote == {RemoteCluster}

HandWritten ==
    {[field |-> "apiGroups", apiGroups |-> <<"apps">>, kinds |-> {"Deployment"}]}
MCUserInclusions == {HandWritten, Garbled}

ConfigMap(enabled) == [kind |-> "ConfigMap", name |-> "argocd-cm", update |-> enabled]
AnyConfig == {ConfigMap(TRUE), ConfigMap(FALSE), [kind |-> "ArgoCD", name |-> "argocd", update |-> TRUE]}
Updating == {ConfigMap(TRUE)}

=============================================================================
