---------------------------- MODULE RelationWalk ----------------------------
(***************************************************************************)
(* The depth first search of GetResourceRelation, call by call.  The stack *)
(* holds the keys whose calls of dfs are active, the innermost last;       *)
(* rest[k] is what the loop over the children of k has still to visit.  A  *)
(* hash set yields its values in any order, and so do the direct resources *)
(* here.  DynamicAnalysis takes the search in one step, under the read     *)
(* lock of the cache, as Reachable; Atomic is the specification of that    *)
(* step, and this module implements it.                                    *)
(***************************************************************************)
EXTENDS ResourceGraph

CONSTANTS
    Relations,   \* the relations that the cache may hold
    DirectSets   \* the sets of direct resources of an application

ASSUME WalkAssumption ==
    /\ \A r \in Relations : IsRelation(r)
    /\ DirectSets \subseteq SUBSET Info

VARIABLES
    relation,   \* resourceRelation
    direct,     \* directChildren
    waiting,    \* the root keys that the loop has still to start from
    stack,      \* the active calls
    rest,       \* rest[k]: the children that the call of k has still to visit
    returned,   \* GetResourceRelation has returned
    out         \* its result

vars == <<relation, direct, waiting, stack, rest, returned, out>>

\* The keys of visited are those whose call went past the check.
visited == DOMAIN rest

TypeOK ==
    /\ relation \in Relations
    /\ direct \in DirectSets
    /\ waiting \subseteq Key
    /\ stack \in Seq(visited)
    /\ IsRelation(rest)
    /\ returned \in BOOLEAN
    /\ out \subseteq Info

Init ==
    /\ relation \in Relations
    /\ direct \in DirectSets
    /\ waiting = { RootKey(i) : i \in direct }
    /\ stack = <<>>
    /\ rest = EmptyRelation
    /\ returned = FALSE
    /\ out = {}

Top == stack[Len(stack)]

\* Variant: a key is not marked when its call starts.
CallUnmarked(key, loops) ==
    IF key \in visited
      THEN rest' = loops /\ UNCHANGED stack
      ELSE rest' = loops /\ stack' = Append(stack, key)

\* Variant: the call does not ask whether the key has been visited.
CallUnchecked(key, loops) ==
    /\ rest' = [k \in visited \cup {key} |->
                  IF k = key THEN Children(relation, key) ELSE loops[k]]
    /\ stack' = Append(stack, key)

\* dfs(key), up to its loop; loops is the progress of the loops that are active.
Call(key, loops) ==
    IF key \in visited
      THEN rest' = loops /\ UNCHANGED stack
      ELSE /\ rest' = [k \in visited \cup {key} |->
                         IF k = key THEN Children(relation, key) ELSE loops[k]]
           /\ stack' = Append(stack, key)

StartRoot ==
    /\ stack = <<>>
    /\ \E key \in waiting :
         /\ waiting' = waiting \ {key}
         /\ Call(key, rest)
    /\ UNCHANGED <<relation, direct, returned, out>>

VisitChild ==
    /\ stack # <<>>
    /\ \E child \in rest[Top] : Call(child, [rest EXCEPT ![Top] = @ \ {child}])
    /\ UNCHANGED <<relation, direct, waiting, returned, out>>

\* Variant: the end of one child's call ends the parent's loop.
ReturnEarly ==
    /\ stack # <<>>
    /\ stack' = SubSeq(stack, 1, Len(stack) - 1)
    /\ UNCHANGED <<relation, direct, waiting, rest, returned, out>>

Return ==
    /\ stack # <<>>
    /\ rest[Top] = {}
    /\ stack' = SubSeq(stack, 1, Len(stack) - 1)
    /\ UNCHANGED <<relation, direct, waiting, rest, returned, out>>

\* Variant: the roots are left out of the result, as in a list of dependents.
FinishWithoutRoots ==
    /\ stack = <<>> /\ waiting = {} /\ ~returned
    /\ returned' = TRUE
    /\ out' = { KeyInfo(k) : k \in visited \ { RootKey(i) : i \in direct } }
    /\ UNCHANGED <<relation, direct, waiting, stack, rest>>

Finish ==
    /\ stack = <<>> /\ waiting = {} /\ ~returned
    /\ returned' = TRUE
    /\ out' = { KeyInfo(k) : k \in visited }
    /\ UNCHANGED <<relation, direct, waiting, stack, rest>>

Next == StartRoot \/ VisitChild \/ Return \/ Finish

Spec == Init /\ [][Next]_vars /\ WF_vars(Next)

---------------------------------------------------------------------------
(* Properties. *)

\* However the kinds own each other, in cycles too, a key has one active call
\* at most: the recursion is never deeper than there are kinds.
NoNestedCall == \A i, j \in 1..Len(stack) : stack[i] = stack[j] => i = j

\* What is left unfinished belongs to an active call, so that nothing is
\* forgotten when the search backtracks.
NothingForgotten ==
    \A k \in visited :
        /\ Children(relation, k) \subseteq visited \cup rest[k]
        /\ rest[k] # {} => \E i \in 1..Len(stack) : stack[i] = k

\* In one step the result appears, and it is the least closure of the direct
\* resources under the relation: what DynamicAnalysis takes the search for.
Atomic == INSTANCE AtomicWalk

ImplementsAtomicWalk == Atomic!Spec

=============================================================================
