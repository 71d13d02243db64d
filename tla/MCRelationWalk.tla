--------------------------- MODULE MCRelationWalk ---------------------------
(***************************************************************************)
(* Every relation over three kinds, cycles and self-loops included, whose  *)
(* keys may be absent, leaves or parents, and none, one or two kinds of     *)
(* direct resources, one of which the relation does not know: the three    *)
(* kinds are interchangeable, so these stand for all such sets.            *)
(***************************************************************************)
EXTENDS RelationWalk

MCNames == STRING \ {""}

MCKeys == {<<"apps", "Deployment">>, <<"apps", "ReplicaSet">>, <<"core", "Pod">>}

MCRelations == UNION { [parents -> SUBSET MCKeys] : parents \in SUBSET MCKeys }

Deployment == [group |-> "apps", kind |-> "Deployment"]
Pod == [group |-> "", kind |-> "Pod"]
Service == [group |-> "", kind |-> "Service"]

MCDirectSets == {{}, {Deployment}, {Deployment, Pod}, {Deployment, Service}}

=============================================================================
