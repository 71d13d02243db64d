----------------------------- MODULE AtomicFetch -----------------------------
(***************************************************************************)
(* What a backend takes the fetching of an application's manifests for: it *)
(* fails and gives nothing, or it gives what all sources of the            *)
(* application render to for one and the same cluster version; and it      *)
(* leaves no connection to the repo-server behind.                         *)
(***************************************************************************)

CONSTANTS
    Apps,      \* the applications
    Sources,   \* Sources[a]: the sources of a
    Versions,  \* the versions that manifests may be rendered for
    Rendered   \* Rendered[source][v]: what a source renders to for version v

VARIABLES
    app,        \* the application
    connected,  \* a connection to the repo-server is open
    result,     \* "none", then "ok" or "error"
    manifests   \* what was fetched

vars == <<app, connected, result, manifests>>

Init ==
    /\ app \in Apps
    /\ connected = FALSE /\ result = "none" /\ manifests = {}

Connect ==
    /\ result = "none" /\ connected' = TRUE
    /\ UNCHANGED <<app, result, manifests>>

Succeed ==
    /\ result = "none" /\ result' = "ok"
    /\ \E v \in Versions : manifests' = UNION { Rendered[source][v] : source \in Sources[app] }
    /\ connected' = FALSE
    /\ UNCHANGED app

Fail ==
    /\ result = "none" /\ result' = "error"
    /\ connected' = FALSE
    /\ UNCHANGED <<app, manifests>>

Next == Connect \/ Succeed \/ Fail

Spec == Init /\ [][Next]_vars

=============================================================================
