---------------------------- MODULE MCGraphQuery ----------------------------
(***************************************************************************)
(* Two clusters and three applications, two of them on one cluster with a  *)
(* Deployment each.  The ownership is cyclic (the operator of a Cluster    *)
(* resource owns the Deployment whose ReplicaSet manages another), a leaf  *)
(* kind has a child that no query reaches, and a namespace is in an answer *)
(* and ignored.  What a Deployment or a Certificate owns differs from      *)
(* cluster to cluster.                                                     *)
(***************************************************************************)
EXTENDS GraphQuery, TLC

CONSTANTS s1, s2, a1, a2, a3, op, d1, d2, r1, r2, pod, cm, ns, cert, sec

MCNames == STRING \ {""}

MCKind ==
    op :> [group |-> "db.io", kind |-> "Cluster"]
      @@ d1 :> [group |-> "apps", kind |-> "Deployment"]
      @@ d2 :> [group |-> "apps", kind |-> "Deployment"]
      @@ r1 :> [group |-> "apps", kind |-> "ReplicaSet"]
      @@ r2 :> [group |-> "apps", kind |-> "ReplicaSet"]
      @@ pod :> [group |-> "", kind |-> "Pod"]
      @@ cm :> [group |-> "", kind |-> "ConfigMap"]
      @@ ns :> [group |-> "", kind |-> "Namespace"]
      @@ cert :> [group |-> "cert.io", kind |-> "Certificate"]
      @@ sec :> [group |-> "", kind |-> "Secret"]

None == [r \in Resources |-> {}]

MCConnected ==
    s1 :> [None EXCEPT ![op] = {d1, ns}, ![d1] = {r1}, ![d2] = {r2},
                       ![r1] = {op}, ![r2] = {op}, ![cm] = {cert}, ![cert] = {sec}]
      @@ s2 :> [None EXCEPT ![d2] = {pod, cm}, ![d1] = {pod, cm}]

\* Only the first Deployment has a ReplicaSet: the other is an old one.
UnevenConnected == s1 :> [None EXCEPT ![d1] = {r1}] @@ s2 :> None

MCDestination == a1 :> s1 @@ a2 :> s2 @@ a3 :> s1
MCManifests == a1 :> {op, d2} @@ a2 :> {d2, cert} @@ a3 :> {d1, cm}
MCStatus ==
    a1 :> {} @@ a2 :> {[group |-> "batch", kind |-> "Job"]}
      @@ a3 :> {[group |-> "core", kind |-> "Service"]}

=============================================================================
