--------------------------- MODULE MCManifestFetch ---------------------------
(***************************************************************************)
(* An instance of ManifestFetch: destinations by server, by a name that    *)
(* one cluster has, by a name that two have, and none; a chart that        *)
(* renders to more on the newer cluster; an application of two sources.    *)
(***************************************************************************)
EXTENDS ManifestFetch, TLC

CONSTANTS byServer, byName, adrift, old, new, prod, chart, overlay, deployment, gateway

MCDestination ==
    byServer :> [server |-> old, name |-> None]
      @@ byName :> [server |-> None, name |-> prod]
      @@ adrift :> [server |-> None, name |-> None]

MCSources == byServer :> {chart, overlay} @@ byName :> {chart, overlay} @@ adrift :> {overlay}

MCRendered ==
    chart :> (old :> {deployment} @@ new :> {deployment, gateway} @@ None :> {deployment})
      @@ overlay :> [v \in {old, new, None} |-> IF v = old THEN {deployment} ELSE {gateway}]

MCRegistries == { prod :> servers : servers \in {{}, {new}, {old, new}} }

=============================================================================
