----------------------------- MODULE AtomicWalk -----------------------------
(***************************************************************************)
(* What GetResourceRelation promises: given a relation and the direct      *)
(* resources of an application, it eventually returns the kinds that are   *)
(* reachable from them, and it does so once.                               *)
(***************************************************************************)
EXTENDS ResourceGraph

CONSTANTS Relations, DirectSets

VARIABLES relation, direct, returned, out

vars == <<relation, direct, returned, out>>

Init ==
    /\ relation \in Relations
    /\ direct \in DirectSets
    /\ returned = FALSE
    /\ out = {}

Answer ==
    /\ ~returned
    /\ returned' = TRUE
    /\ out' = GetResourceRelation(relation, direct)
    /\ UNCHANGED <<relation, direct>>

Spec ==
    /\ Init
    /\ [][Answer]_vars
    /\ WF_vars(Answer)

=============================================================================
