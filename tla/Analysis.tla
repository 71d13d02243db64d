------------------------------ MODULE Analysis ------------------------------
(***************************************************************************)
(* What the caller of an analysis may rely on, whichever strategy runs it  *)
(* (analyzer.Backend): it asks for some of the applications; kinds are     *)
(* collected, in any order and at any time, each of them on the account of *)
(* one of these applications, and what is collected is never lost; the     *)
(* report is all that was collected, and is given once; or the analysis    *)
(* fails and reports nothing.                                              *)
(***************************************************************************)

CONSTANTS
    Apps,  \* the applications there are
    Offer  \* Offer[a]: the kinds that may be reported for a

VARIABLES
    phase,      \* "listing", "running", "returned" or "failed"
    asked,      \* the applications to be analysed
    collected,  \* the kinds found so far
    report      \* what Execute returns

vars == <<phase, asked, collected, report>>

Init ==
    /\ phase = "listing"
    /\ asked = {} /\ collected = {} /\ report = {}

\* What is collected grows, by kinds of the applications asked for.
Grow ==
    /\ collected \subseteq collected'
    /\ collected' \subseteq collected \cup UNION { Offer[a] : a \in asked' }

List ==
    /\ phase = "listing" /\ phase' = "running"
    /\ asked' \subseteq Apps
    /\ Grow
    /\ UNCHANGED report

Collect ==
    /\ phase = "running"
    /\ UNCHANGED <<phase, asked, report>>
    /\ Grow

Return ==
    /\ phase = "running" /\ phase' = "returned"
    /\ report' = collected
    /\ UNCHANGED <<asked, collected>>

Fail ==
    /\ phase \in {"listing", "running"} /\ phase' = "failed"
    /\ UNCHANGED <<asked, collected, report>>

Next == List \/ Collect \/ Return \/ Fail

Spec == Init /\ [][Next]_vars

=============================================================================
