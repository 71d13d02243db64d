-------------------------- MODULE MCAnalyzeCommand --------------------------
(***************************************************************************)
(* An instance of AnalyzeCommand: two applications of one name, in the     *)
(* cluster of Argo CD and in a registered one, a third that is registered  *)
(* with a proxy that does not parse; machines inside and outside a         *)
(* cluster, with kubeconfigs that lead to the one or the other.            *)
(***************************************************************************)
EXTENDS AnalyzeCommand, TLC

CONSTANTS hub, east, kubeconfig, argocd, team, web, batch, webHub, webTeam, job,
          pod, route, cronjob, secret

MCAppArguments == {<<Empty>>, <<web>>, <<team, web>>, <<team, Empty>>, <<Empty, web>>, <<team, batch>>}

MCFlags ==
    [app : MCAppArguments, namespace : {argocd}, allApps : BOOLEAN,
     path : Paths \cup {NoPath}, repoServer : BOOLEAN,
     strategy : {"dynamic", "graph"}, validLevel : {TRUE}]
      \cup [app : {<<web>>}, namespace : {Empty}, allApps : {TRUE, FALSE},
            path : {NoPath}, repoServer : {TRUE},
            strategy : {"dynamic", "unknown"}, validLevel : BOOLEAN]

MCMachines ==
    [inCluster : {NotInCluster}, default : {hub, NoConfig}, file : [Paths -> {east, NoConfig}]]
      \cup [inCluster : {hub, Broken}, default : {east, NoConfig}, file : [Paths -> {east}]]

MCIdentity ==
    webHub :> [namespace |-> argocd, name |-> web]
      @@ webTeam :> [namespace |-> team, name |-> web]
      @@ job :> [namespace |-> team, name |-> batch]

MCOwnCluster == [host |-> Own, badProxy |-> FALSE]
MCEastCluster == [host |-> east, badProxy |-> FALSE]
MCProxyCluster == [host |-> east, badProxy |-> TRUE]
MCClusters == {MCOwnCluster, MCEastCluster, MCProxyCluster}

MCDestination == webHub :> MCEastCluster @@ webTeam :> MCOwnCluster @@ job :> MCProxyCluster

MCStatus ==
    webHub :> [conditions |-> {[excluded |-> TRUE, matches |-> TRUE, kind |-> secret]},
               resources |-> {route}]
      @@ webTeam :> [conditions |-> {[excluded |-> FALSE, matches |-> TRUE, kind |-> cronjob],
                                     [excluded |-> TRUE, matches |-> FALSE, kind |-> route]},
                     resources |-> {}]
      @@ job :> [conditions |-> {}, resources |-> {}]

MCFound ==
    webHub :> (hub :> {} @@ east :> {route})
      @@ webTeam :> (hub :> {pod} @@ east :> {route})
      @@ job :> (hub :> {} @@ east :> {cronjob})

=============================================================================
