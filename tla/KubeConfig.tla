----------------------------- MODULE KubeConfig -----------------------------
(***************************************************************************)
(* Which API server a client configuration leads to (pkg/kube).  What the  *)
(* process finds on the machine it runs on is one record: the cluster it   *)
(* runs in, the current context of the default kubeconfig, and that of     *)
(* each file that --kubeconfig may name.  Credentials are left out.        *)
(***************************************************************************)

CONSTANTS
    Hosts,         \* API servers
    Own,           \* the server that Argo CD registers its own cluster with
    Paths,         \* kubeconfig files that --kubeconfig may name
    NoPath,        \* --kubeconfig is not given
    NoConfig,      \* there is no such configuration, or it cannot be loaded
    NotInCluster,  \* the process does not run in a cluster
    Broken         \* it does, and its service account cannot be read

ASSUME KubeConfigAssumption ==
    /\ {Own, NoConfig, NotInCluster, Broken} \cap Hosts = {}
    /\ NotInCluster # Broken
    /\ NoPath \notin Paths

Machine ==
    [inCluster : Hosts \cup {NotInCluster, Broken},
     default : Hosts \cup {NoConfig},
     file : [Paths -> Hosts \cup {NoConfig}]]

\* A cluster that is registered with Argo CD.
Cluster == [host : Hosts \cup {Own}, badProxy : BOOLEAN]

\* Its server is https://kubernetes.default.svc.
IsInCluster(cluster) == cluster.host = Own

Load(machine, path) ==
    IF path = NoPath THEN machine.default ELSE machine.file[path]

\* The configuration of the cluster the process runs in, if it does, even when
\* a path is given.
LocalConfig(machine, path) ==
    IF machine.inCluster = Broken THEN NoConfig
    ELSE IF machine.inCluster = NotInCluster THEN Load(machine, path)
    ELSE machine.inCluster

\* Variant: outside of a cluster no kubeconfig is tried.
GetKubeConfigOfCluster(machine, path) ==
    IF machine.inCluster = Broken THEN NoConfig ELSE machine.inCluster

\* That of the control plane.
GetKubeConfig(machine, path) == LocalConfig(machine, path)

\* Variant: the local cluster is always found through the default kubeconfig.
RestConfigFromDefault(machine, cluster, path) ==
    IF cluster.badProxy THEN NoConfig
    ELSE IF IsInCluster(cluster) THEN LocalConfig(machine, NoPath)
    ELSE cluster.host

RestConfigFromCluster(machine, cluster, path) ==
    IF cluster.badProxy THEN NoConfig
    ELSE IF IsInCluster(cluster) THEN LocalConfig(machine, path)
    ELSE cluster.host

\* The port-forward of Argo CD's library, which is given neither a path nor a
\* configuration: the default kubeconfig, and without one the own cluster.
PortForwardHost(machine) ==
    IF machine.default # NoConfig THEN machine.default
    ELSE IF machine.inCluster \in Hosts THEN machine.inCluster
    ELSE NoConfig

=============================================================================
