------------------------ MODULE AnalyzeCommand_proofs ------------------------
(***************************************************************************)
(* Proofs about AnalyzeCommand, for any command lines, machines, clusters  *)
(* and applications.  The invariant follows the command from the flags to  *)
(* the output: which applications it asks for, which API server it takes   *)
(* for the control plane, and on which one it looks at each cluster.       *)
(***************************************************************************)
EXTENDS AnalyzeCommand, SequenceTheorems, TLAPS

---------------------------------------------------------------------------
(* Configurations. *)

LEMMA LocalConfigType ==
    ASSUME NEW m \in Machine, NEW path \in Paths \cup {NoPath}
    PROVE  LocalConfig(m, path) \in Hosts \cup {NoConfig}
BY KubeConfigAssumption DEF LocalConfig, Load, Machine

LEMMA ClusterConfigType ==
    ASSUME NEW m \in Machine, NEW cluster \in Clusters, NEW path \in Paths \cup {NoPath}
    PROVE  /\ RestConfigFromCluster(m, cluster, path) \in Hosts \cup {NoConfig}
           /\ RestConfigFromCluster(m, cluster, path) # NoConfig =>
                RestConfigFromCluster(m, cluster, path) =
                  IF IsInCluster(cluster) THEN GetKubeConfig(m, path) ELSE cluster.host
<1>1. cluster \in Cluster
  BY CommandAssumption
<1>2. cluster.host \in Hosts \cup {Own}
  BY <1>1 DEF Cluster
<1>3. QED
  BY <1>2, LocalConfigType DEF RestConfigFromCluster, GetKubeConfig, IsInCluster

\* Outside of a cluster, and without a path, the port is forwarded to the
\* cluster that the control plane is read from.
LEMMA SameDefault ==
    ASSUME NEW m \in Machine, m.inCluster = NotInCluster, PortForwardHost(m) # NoConfig
    PROVE  PortForwardHost(m) = GetKubeConfig(m, NoPath)
BY KubeConfigAssumption DEF PortForwardHost, GetKubeConfig, LocalConfig, Load, Machine

LEMMA PortForwardType ==
    ASSUME NEW m \in Machine
    PROVE  PortForwardHost(m) \in Hosts \cup {NoConfig}
BY DEF PortForwardHost, Machine

LEMMA FlagsType ==
    ASSUME TypeOK
    PROVE  /\ flags.path \in Paths \cup {NoPath} /\ flags.namespace \in Segments
           /\ flags.app \in Seq(Segments) /\ Len(flags.app) \in {1, 2}
BY CommandAssumption DEF TypeOK

LEMMA SplitType ==
    ASSUME TypeOK
    PROVE  Split(flags) \in [namespace : Segments, name : Seq(Segments)]
<1>1. /\ flags.namespace \in Segments
      /\ \A i \in 1..Len(flags.app) : flags.app[i] \in Segments
      /\ Len(flags.app) \in {1, 2}
  BY FlagsType, ElementOfSeq
<1>2. flags.app[1] \in Segments /\ (Len(flags.app) = 2 => flags.app[2] \in Segments)
  BY <1>1
<1>3. flags.app \in Seq(Segments) /\ (Len(flags.app) = 2 => << flags.app[2] >> \in Seq(Segments))
  BY <1>2, FlagsType
<1>4. QED
  BY <1>1, <1>2, <1>3 DEF Split

LEMMA StatusType ==
    ASSUME NEW apps \in SUBSET Apps
    PROVE  FromStatus(apps) \subseteq Kinds
BY CommandAssumption DEF FromStatus, GetResourcesFromApplicationStatus, GetMissingResources

LEMMA DestinationType ==
    ASSUME NEW a \in Apps
    PROVE  Destination[a] \in Clusters /\ \A h \in Hosts : Found[a][h] \subseteq Kinds
BY CommandAssumption

---------------------------------------------------------------------------
(* The invariant. *)

Running == {"repo", "strategy", "execute"}

\* Before the backend runs, there is nothing of it.
QuietInv ==
    /\ pc \notin {"execute", "exited"} =>
          DOMAIN reached = {} /\ phase = "listing" /\ asked = {} /\ collected = {}
    /\ pc # "exited" => printed = {} /\ exit = "none"
    /\ phase # "returned" => report = {}
    /\ exit # "ok" => printed = {}

\* The applications asked for are those of the flags.
TargetInv ==
    pc \in Running \cup {"config"} \/ asked # {} \/ exit = "ok" => target = Split(flags)

\* The first look-up of the local API server.
ConfigInv ==
    /\ pc \in {"parse", "config"} => config = NoConfig
    /\ pc \in Running \/ DOMAIN reached # {} \/ exit = "ok" => config \in Hosts
    /\ switches = 0 /\ config \in Hosts => config = GetKubeConfig(machine, flags.path)

\* The other look-ups, if no context is switched meanwhile.
ReachedInv ==
    switches = 0 => \A cluster \in DOMAIN reached :
        reached[cluster] = IF IsInCluster(cluster) THEN config ELSE cluster.host

RepoInv ==
    /\ pc \in {"parse", "config", "repo"} => repo = NoConfig
    /\ switches = 0 /\ repo \in Hosts /\ flags.path = NoPath
         /\ machine.inCluster = NotInCluster => repo = config

\* One application is named, with its namespace.
Precise == ~flags.allApps /\ Len(flags.app) = 2 /\ flags.app[2] # Empty
Named == { a \in Apps : <<Identity[a].namespace, Identity[a].name>> = flags.app }
Allowed == FromStatus(Named) \cup UNION { Found[a][Home(a)] : a \in Named }

FoundInv ==
    Precise =>
        /\ asked \subseteq Named
        /\ switches = 0 /\ config \in Hosts =>
              collected \subseteq Allowed /\ printed \subseteq Allowed

CommandInv == TypeOK /\ QuietInv /\ TargetInv /\ ConfigInv /\ ReachedInv /\ RepoInv /\ FoundInv

\* Of a command line that names an application, the targets are what it names.
LEMMA TargetsAreNamed ==
    ASSUME TypeOK, target = Split(flags), Precise
    PROVE  Targets = Named
<1>1. /\ flags.app \in Seq(Segments) /\ Len(flags.app) = 2
      /\ target = [namespace |-> flags.app[1], name |-> << flags.app[2] >>]
  BY FlagsType DEF Precise, Split
<1>2. flags.app = << flags.app[1], flags.app[2] >>
  BY <1>1
<1>3. /\ target.name = << flags.app[2] >> /\ target.namespace = flags.app[1]
      /\ target.name # <<Empty>>
      /\ \A a \in Apps : target.name = << Identity[a].name >> <=> Identity[a].name = flags.app[2]
  BY <1>1 DEF Precise
<1>4. ASSUME NEW a \in Apps
      PROVE  <<Identity[a].namespace, Identity[a].name>> = flags.app
               <=> Identity[a].namespace = flags.app[1] /\ Identity[a].name = flags.app[2]
  BY <1>2
<1>5. QED
  BY <1>3, <1>4 DEF Targets, Named

---------------------------------------------------------------------------
(* It holds, and every action keeps it. *)

LEMMA CommandInitially == Init => CommandInv
<1>1. SUFFICES ASSUME Init PROVE CommandInv
  OBVIOUS
<1>2. /\ pc = "parse" /\ DOMAIN reached = {} /\ phase = "listing" /\ asked = {}
      /\ collected = {} /\ report = {} /\ printed = {} /\ exit = "none"
      /\ config = NoConfig /\ repo = NoConfig
  BY <1>1 DEF Init, Backend!Init
<1>3. NoConfig \notin Hosts
  BY KubeConfigAssumption
<1>4. TypeOK
  BY <1>1, <1>2, CommandAssumption DEF Init, TypeOK, NoTarget
<1>5. QuietInv /\ TargetInv /\ ConfigInv /\ ReachedInv /\ RepoInv /\ FoundInv
  BY <1>2, <1>3 DEF QuietInv, TargetInv, ConfigInv, ReachedInv, RepoInv, FoundInv, Running
<1>6. QED
  BY <1>4, <1>5 DEF CommandInv

LEMMA CommandStep == CommandInv /\ [Next]_vars => CommandInv'
<1>1. SUFFICES ASSUME CommandInv, [Next]_vars PROVE CommandInv'
  OBVIOUS
<1>2. TypeOK /\ QuietInv /\ TargetInv /\ ConfigInv /\ ReachedInv /\ RepoInv /\ FoundInv
  BY <1>1 DEF CommandInv
<1>3. NoConfig \notin Hosts /\ "given" \notin Hosts
  BY KubeConfigAssumption, CommandAssumption
<1>4. flags.path \in Paths \cup {NoPath} /\ machine \in Machine
  BY <1>2, FlagsType DEF TypeOK
<1>5. CASE ParseFlags
  <2>1. TypeOK'
    BY <1>2, <1>5, SplitType DEF TypeOK, ParseFlags, Error, backend
  <2>2. QuietInv' /\ TargetInv' /\ ConfigInv' /\ ReachedInv' /\ RepoInv'
    BY <1>2, <1>3, <1>5
    DEF ParseFlags, Error, backend, QuietInv, TargetInv, ConfigInv, ReachedInv, RepoInv, Running, Split
  <2>3. FoundInv'
    BY <1>2, <1>5 DEF ParseFlags, backend, FoundInv, QuietInv, Precise, Named
  <2>4. QED
    BY <2>1, <2>2, <2>3 DEF CommandInv
<1>6. CASE LoadConfig
  <2>1. config' \in Hosts \cup {NoConfig}
    BY <1>4, <1>6, LocalConfigType DEF LoadConfig, GetKubeConfig
  <2>2. TypeOK'
    BY <1>2, <1>6, <2>1 DEF TypeOK, LoadConfig, Error, backend
  <2>3. QuietInv' /\ TargetInv' /\ ReachedInv' /\ RepoInv'
    BY <1>2, <1>3, <1>6
    DEF LoadConfig, Error, backend, QuietInv, TargetInv, ReachedInv, RepoInv, Running, Split
  <2>4. ConfigInv'
    BY <1>2, <1>6, <2>1
    DEF LoadConfig, Error, backend, ConfigInv, QuietInv, Running
  <2>5. FoundInv'
    BY <1>2, <1>6 DEF LoadConfig, backend, FoundInv, QuietInv, Precise, Named
  <2>6. QED
    BY <2>2, <2>3, <2>4, <2>5 DEF CommandInv
<1>7. CASE EnsureRepoServer
  <2>1. repo' \in Hosts \cup {"given"}
    BY <1>4, <1>7, PortForwardType DEF EnsureRepoServer
  <2>2. TypeOK'
    BY <1>2, <1>7, <2>1 DEF TypeOK, EnsureRepoServer, backend
  <2>3. QuietInv' /\ TargetInv' /\ ConfigInv' /\ ReachedInv'
    BY <1>2, <1>7
    DEF EnsureRepoServer, backend, QuietInv, TargetInv, ConfigInv, ReachedInv, Running, Split
  <2>4. RepoInv'
    <3>1. ASSUME switches = 0, repo' \in Hosts, flags.path = NoPath, machine.inCluster = NotInCluster
          PROVE  repo' = config
      <4>1. repo' = PortForwardHost(machine) /\ repo' # NoConfig
        BY <1>3, <1>7, <3>1 DEF EnsureRepoServer
      <4>2. config = GetKubeConfig(machine, NoPath)
        BY <1>2, <1>7, <3>1 DEF ConfigInv, Running, EnsureRepoServer
      <4>3. QED
        BY <1>4, <3>1, <4>1, <4>2, SameDefault
    <3>2. QED
      BY <1>7, <3>1 DEF EnsureRepoServer, RepoInv
  <2>5. FoundInv'
    BY <1>2, <1>7 DEF EnsureRepoServer, backend, FoundInv, Precise, Named, Allowed, Home
  <2>6. QED
    BY <2>2, <2>3, <2>4, <2>5 DEF CommandInv
<1>8. CASE EnsureRepoServerFails
  <2>1. TypeOK' /\ QuietInv' /\ TargetInv' /\ ConfigInv' /\ ReachedInv' /\ RepoInv'
    BY <1>2, <1>3, <1>8
    DEF EnsureRepoServerFails, Error, backend, TypeOK, QuietInv, TargetInv, ConfigInv, ReachedInv,
        RepoInv, Running, Split
  <2>2. FoundInv'
    BY <1>2, <1>8 DEF EnsureRepoServerFails, backend, FoundInv, Precise, Named, Allowed, Home
  <2>3. QED
    BY <2>1, <2>2 DEF CommandInv
<1>9. CASE SelectStrategy
  <2>1. TypeOK' /\ QuietInv' /\ TargetInv' /\ ConfigInv' /\ ReachedInv' /\ RepoInv'
    BY <1>2, <1>3, <1>9
    DEF SelectStrategy, Error, backend, TypeOK, QuietInv, TargetInv, ConfigInv, ReachedInv,
        RepoInv, Running, Split
  <2>2. FoundInv'
    BY <1>2, <1>9 DEF SelectStrategy, backend, FoundInv, Precise, Named, Allowed, Home
  <2>3. QED
    BY <2>1, <2>2 DEF CommandInv
<1>10. CASE List
  <2>1. PICK apps \in SUBSET Targets : collected' = FromStatus(apps)
    BY <1>10 DEF List
  <2>2. /\ pc = "execute" /\ phase = "listing" /\ phase' = "running"
        /\ asked' = Targets /\ report' = report
        /\ UNCHANGED <<flags, machine, switches, pc, target, config, repo, reached, printed, exit>>
    BY <1>10 DEF List, Backend!List
  <2>3. Targets \subseteq Apps
    BY DEF Targets
  <2>4. collected' \subseteq Kinds
    BY <2>1, <2>3, StatusType
  <2>5. TypeOK'
    BY <1>2, <2>2, <2>3, <2>4 DEF TypeOK
  <2>6. QuietInv' /\ TargetInv' /\ ConfigInv' /\ ReachedInv' /\ RepoInv'
    <3>1. QuietInv' /\ TargetInv'
      BY <1>2, <2>2 DEF QuietInv, TargetInv, Running, Split
    <3>2. ConfigInv' /\ ReachedInv' /\ RepoInv'
      BY <1>2, <2>2 DEF ConfigInv, ReachedInv, RepoInv, Running
    <3>3. QED
      BY <3>1, <3>2
  <2>7. FoundInv'
    <3>1. ASSUME Precise
          PROVE  asked' \subseteq Named /\ collected' \subseteq Allowed /\ printed' = {}
      <4>1. target = Split(flags) /\ printed = {}
        BY <1>2, <2>2 DEF TargetInv, Running, QuietInv
      <4>2. Targets = Named
        BY <1>2, <3>1, <4>1, TargetsAreNamed
      <4>3. FromStatus(apps) \subseteq FromStatus(Named)
        BY <4>2 DEF FromStatus
      <4>4. QED
        BY <2>1, <2>2, <4>1, <4>2, <4>3 DEF Allowed
    <3>2. QED
      BY <2>2, <3>1 DEF FoundInv, Precise, Named, Allowed, Home
  <2>8. QED
    BY <2>5, <2>6, <2>7 DEF CommandInv
<1>11. CASE ExecuteFails
  <2>1. /\ phase' = "failed" /\ UNCHANGED <<asked, collected, report>>
        /\ pc = "execute" /\ phase = "listing" /\ pc' = "exited" /\ exit' = "error"
        /\ UNCHANGED <<flags, machine, switches, target, config, repo, reached, printed>>
    BY <1>11 DEF ExecuteFails, Backend!Fail, Error
  <2>2. TypeOK' /\ QuietInv' /\ ConfigInv' /\ ReachedInv' /\ RepoInv'
    BY <1>2, <2>1 DEF TypeOK, QuietInv, ConfigInv, ReachedInv, RepoInv, Running
  <2>3. TargetInv'
    BY <1>2, <2>1 DEF TargetInv, Running, Split
  <2>4. FoundInv'
    BY <1>2, <2>1 DEF FoundInv, Precise, Named, Allowed, Home
  <2>5. QED
    BY <2>2, <2>3, <2>4 DEF CommandInv
<1>12. CASE ConnectCluster
  <2>1. PICK a \in asked :
          LET cluster == Destination[a]
              host == RestConfigFromCluster(machine, cluster, flags.path)
          IN  /\ host # NoConfig
              /\ reached' = [c \in DOMAIN reached \cup {cluster} |->
                                IF c = cluster THEN host ELSE reached[c]]
    BY <1>12 DEF ConnectCluster
  <2>2. /\ pc = "execute" /\ phase = "running"
        /\ UNCHANGED <<flags, machine, switches, pc, target, config, repo, phase, asked, collected,
                       report, printed, exit>>
    BY <1>12 DEF ConnectCluster, backend
  <2> DEFINE cluster == Destination[a]
             host == RestConfigFromCluster(machine, cluster, flags.path)
  <2>3. /\ cluster \in Clusters /\ host \in Hosts
        /\ host = IF IsInCluster(cluster) THEN GetKubeConfig(machine, flags.path) ELSE cluster.host
    <3>1. cluster \in Clusters
      BY <1>2, DestinationType DEF TypeOK
    <3>2. host # NoConfig
      BY <2>1
    <3>3. QED
      BY <1>4, <3>1, <3>2, ClusterConfigType
  <2>4. /\ DOMAIN reached' = DOMAIN reached \cup {cluster}
        /\ \A c \in DOMAIN reached' : reached'[c] = IF c = cluster THEN host ELSE reached[c]
    BY <2>1
  <2> HIDE DEF cluster, host
  <2>5. TypeOK'
    <3>1. DOMAIN reached' \subseteq Clusters /\ \A c \in DOMAIN reached' : reached'[c] \in Hosts
      BY <1>2, <2>3, <2>4 DEF TypeOK
    <3>2. QED
      BY <1>2, <2>2, <3>1 DEF TypeOK
  <2>6. QuietInv' /\ TargetInv' /\ ConfigInv' /\ RepoInv'
    BY <1>2, <2>2 DEF QuietInv, TargetInv, ConfigInv, RepoInv, Running, Split
  <2>7. ReachedInv'
    <3>1. switches = 0 => config = GetKubeConfig(machine, flags.path)
      BY <1>2, <2>2 DEF ConfigInv, Running
    <3>2. QED
      BY <1>2, <2>2, <2>3, <2>4, <3>1 DEF ReachedInv, IsInCluster
  <2>8. FoundInv'
    BY <1>2, <2>2 DEF FoundInv, Precise, Named, Allowed, Home
  <2>9. QED
    BY <2>5, <2>6, <2>7, <2>8 DEF CommandInv
<1>13. CASE Collect
  <2>1. /\ pc = "execute" /\ phase = "running"
        /\ UNCHANGED <<flags, machine, switches, pc, target, config, repo, reached, phase, asked,
                       report, printed, exit>>
    BY <1>13 DEF Collect, Backend!Collect
  <2>2. PICK a \in asked :
          \/ collected' = collected \cup FromStatus({a})
          \/ /\ Destination[a] \in DOMAIN reached
             /\ collected' = collected \cup Found[a][reached[Destination[a]]]
    BY <1>13 DEF Collect
  <2>3. a \in Apps /\ FromStatus({a}) \subseteq Kinds
    BY <1>2, StatusType DEF TypeOK
  <2>4. TypeOK'
    <3>1. Destination[a] \in DOMAIN reached => Found[a][reached[Destination[a]]] \subseteq Kinds
      BY <1>2, <2>3, DestinationType DEF TypeOK
    <3>2. collected' \subseteq Kinds
      BY <1>2, <2>2, <2>3, <3>1 DEF TypeOK
    <3>3. QED
      BY <1>2, <2>1, <3>2 DEF TypeOK
  <2>5. QuietInv' /\ TargetInv' /\ ConfigInv' /\ ReachedInv' /\ RepoInv'
    BY <1>2, <2>1 DEF QuietInv, TargetInv, ConfigInv, ReachedInv, RepoInv, Running, Split
  <2>6. FoundInv'
    <3>1. ASSUME Precise, switches = 0
          PROVE  collected' \subseteq Allowed
      <4>1. a \in Named /\ collected \subseteq Allowed
        BY <1>2, <2>1, <3>1 DEF FoundInv, ConfigInv, Running
      <4>2. FromStatus({a}) \subseteq Allowed
        BY <4>1 DEF FromStatus, Allowed
      <4>3. ASSUME Destination[a] \in DOMAIN reached
            PROVE  Found[a][reached[Destination[a]]] \subseteq Allowed
        <5>1. reached[Destination[a]] = Home(a)
          BY <1>2, <3>1, <4>3 DEF ReachedInv, Home
        <5>2. QED
          BY <4>1, <5>1 DEF Allowed
      <4>4. QED
        BY <2>2, <4>1, <4>2, <4>3
    <3>2. QED
      BY <1>2, <2>1, <3>1 DEF FoundInv, Precise, Named, Allowed, Home
  <2>7. QED
    BY <2>4, <2>5, <2>6 DEF CommandInv
<1>14. CASE PrintInclusions
  <2>1. /\ pc = "execute" /\ phase = "running" /\ phase' = "returned" /\ report' = collected
        /\ printed' = report' /\ pc' = "exited" /\ exit' = "ok"
        /\ UNCHANGED <<flags, machine, switches, target, config, repo, reached, asked, collected>>
    BY <1>14 DEF PrintInclusions, Backend!Return
  <2>2. TypeOK' /\ QuietInv' /\ TargetInv' /\ ConfigInv' /\ ReachedInv' /\ RepoInv'
    BY <1>2, <2>1
    DEF TypeOK, QuietInv, TargetInv, ConfigInv, ReachedInv, RepoInv, Running, Split
  <2>3. FoundInv'
    BY <1>2, <2>1 DEF FoundInv, Precise, Named, Allowed, Home
  <2>4. QED
    BY <2>2, <2>3 DEF CommandInv
<1>15. CASE SwitchContext
  <2>1. /\ switches < MaxSwitches /\ switches' = switches + 1
        /\ UNCHANGED <<flags, pc, target, config, repo, reached, phase, asked, collected, report,
                       printed, exit>>
    BY <1>15 DEF SwitchContext, backend
  <2>2. machine' \in Machine
    BY <1>4, <1>15 DEF SwitchContext, Machine
  <2>3. switches' \in 0..MaxSwitches /\ switches' # 0
    BY <1>2, <2>1, CommandAssumption DEF TypeOK
  <2>4. TypeOK'
    BY <1>2, <2>1, <2>2, <2>3 DEF TypeOK
  <2>5. QuietInv' /\ TargetInv' /\ ConfigInv' /\ ReachedInv' /\ RepoInv' /\ FoundInv'
    BY <1>2, <2>1, <2>3
    DEF QuietInv, TargetInv, ConfigInv, ReachedInv, RepoInv, FoundInv, Running, Split, Precise, Named
  <2>6. QED
    BY <2>4, <2>5 DEF CommandInv
<1>16. CASE UNCHANGED vars
  BY <1>2, <1>16
  DEF vars, backend, CommandInv, TypeOK, QuietInv, TargetInv, ConfigInv, ReachedInv, RepoInv, FoundInv,
      Running, Split, Precise, Named, Allowed, Home
<1>17. QED
  BY <1>1, <1>5, <1>6, <1>7, <1>8, <1>9, <1>10, <1>11, <1>12, <1>13, <1>14, <1>15, <1>16 DEF Next

---------------------------------------------------------------------------
(* What follows. *)

LEMMA CommandAlways == Spec => []CommandInv
BY CommandInitially, CommandStep, PTL DEF Spec

\* The variables keep their types, for any command lines and machines.
THEOREM CommandTypeCorrect == Spec => []TypeOK
<1>1. CommandInv => TypeOK
  BY DEF CommandInv
<1>2. QED
  BY <1>1, CommandAlways, PTL

\* The look-ups of the local API server agree: that of the control plane, those
\* of every worker that connects to the own cluster, and that of the port-forward.
THEOREM LookupsAgree == Spec => []OneControlPlane
<1>1. CommandInv => OneControlPlane
  <2>1. SUFFICES ASSUME CommandInv, switches = 0 PROVE OneControlPlane
    BY DEF OneControlPlane
  <2>2. QED
    BY <2>1 DEF CommandInv, ReachedInv, RepoInv, OneControlPlane
<1>2. QED
  BY <1>1, CommandAlways, PTL

\* With --app namespace/name only what belongs to that application is printed.
THEOREM NamedOnly == Spec => []OnlyTheNamedPrinted
<1>1. CommandInv => OnlyTheNamedPrinted
  BY DEF CommandInv, FoundInv, ConfigInv, Running, OnlyTheNamedPrinted, Precise, Named, Allowed
<1>2. QED
  BY <1>1, CommandAlways, PTL

=============================================================================
