---------------------------- MODULE AtomicUpdate ----------------------------
(***************************************************************************)
(* What the update of the inclusions amounts to for those who share the    *)
(* object with the operator, whichever attempts, conflicts, lost answers   *)
(* and restarts it takes: one step, at most one for each computation, that *)
(* replaces the inclusions by what was computed, and by something, and     *)
(* leaves the rest of the object as it is at that moment (but for          *)
(* resource.exclusions, which it empties and which counts as part of the   *)
(* inclusions here).                                                       *)
(***************************************************************************)
EXTENDS Naturals

CONSTANTS
    Key,             \* pairs of group and kind
    Entries(_),      \* the text of a set of these
    UserInclusions,  \* what a user may write into resource.inclusions
    NoInclusions     \* the object before anything is written

VARIABLES
    resource,  \* the object: its inclusions, and how often users edited it
    grouped    \* what a run has computed and not yet written, or nothing

vars == <<resource, grouped>>

Init == resource = NoInclusions /\ grouped = {}

Compute ==
    /\ grouped = {} /\ grouped' \in SUBSET Key
    /\ UNCHANGED resource

\* The run ends without an update.
Drop ==
    /\ grouped' = {}
    /\ UNCHANGED resource

Write ==
    /\ grouped # {} /\ grouped' = {}
    /\ resource' = [resource EXCEPT !.inclusions = Entries(grouped)]

UserEdit ==
    /\ \E text \in UserInclusions \cup {resource.inclusions} :
         resource' = [inclusions |-> text, edits |-> resource.edits + 1]
    /\ UNCHANGED grouped

Next == Compute \/ Drop \/ Write \/ UserEdit

Spec == Init /\ [][Next]_vars

=============================================================================
