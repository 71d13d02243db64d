------------------------ MODULE RelationWalk_proofs ------------------------
(***************************************************************************)
(* The depth first search computes the least closure of the direct         *)
(* resources, for every relation, in whatever order it visits.             *)
(***************************************************************************)
EXTENDS RelationWalk, ResourceGraph_proofs, SequenceTheorems

Roots == { RootKey(i) : i \in direct }

\* The loops run over children only, and what they or the roots have still to
\* visit is all that can be missing.
LoopInv ==
    /\ waiting \subseteq Roots
    /\ Roots \subseteq visited \cup waiting
    /\ \A k \in visited : rest[k] \subseteq Children(relation, k)

\* Nothing is visited that is not reachable.
LeastInv ==
    \A S : Roots \subseteq S /\ ClosedUnder(relation, S) => visited \subseteq S

ResultInv == returned => out = GetResourceRelation(relation, direct)

WalkInv == TypeOK /\ LoopInv /\ LeastInv /\ NothingForgotten /\ ResultInv

---------------------------------------------------------------------------
(* One call of dfs. *)

\* What the call of an unvisited or visited key does to the stack and the loops.
LEMMA CallEffect ==
    ASSUME relation \in Relations, stack \in Seq(visited),
           NEW key \in Key, NEW loops, IsRelation(loops), DOMAIN loops = visited,
           Call(key, loops)
    PROVE  /\ IsRelation(rest')
           /\ visited' = visited \cup {key}
           /\ stack' \in Seq(visited')
           /\ \A k \in visited : rest'[k] = loops[k]
           /\ key \notin visited => rest'[key] = Children(relation, key)
           /\ key \notin visited => stack' = Append(stack, key)
           /\ key \in visited => stack' = stack
<1>1. Children(relation, key) \subseteq Key
  BY WalkAssumption, ChildrenType
<1>2. CASE key \in visited
  BY <1>2 DEF Call, visited
<1>3. CASE key \notin visited
  <2>1. rest' = [k \in visited \cup {key} |-> IF k = key THEN Children(relation, key) ELSE loops[k]]
    BY <1>3 DEF Call
  <2>2. stack' = Append(stack, key)
    BY <1>3 DEF Call
  <2>3. visited' = visited \cup {key}
    BY <2>1 DEF visited
  <2>4. stack \in Seq(visited \cup {key})
    OBVIOUS
  <2>5. stack' \in Seq(visited')
    BY <2>2, <2>3, <2>4
  <2>6. IsRelation(rest')
    <3>1. DOMAIN rest' = visited \cup {key}
      BY <2>1
    <3>2. \A k \in visited \cup {key} : rest'[k] \subseteq Key
      BY <1>1, <2>1 DEF IsRelation
    <3>3. rest' = [k \in DOMAIN rest' |-> rest'[k]]
      BY <2>1
    <3>4. visited \cup {key} \subseteq Key
      BY DEF IsRelation
    <3>5. QED
      BY <3>1, <3>2, <3>3, <3>4 DEF IsRelation
  <2>7. QED
    BY <1>3, <2>1, <2>2, <2>3, <2>5, <2>6
<1>4. QED
  BY <1>2, <1>3

\* The innermost call is that of a visited key.
LEMMA TopVisited ==
    ASSUME stack \in Seq(visited), stack # <<>>
    PROVE  Top \in visited /\ Len(stack) \in 1..Len(stack)
<1>1. Len(stack) \in 1..Len(stack)
  OBVIOUS
<1>2. QED
  BY <1>1 DEF Top

\* The progress of the loops after the innermost has taken its next child.
LEMMA LoopProgress ==
    ASSUME TypeOK, stack # <<>>, NEW child \in rest[Top]
    PROVE  LET loops == [rest EXCEPT ![Top] = @ \ {child}]
           IN  /\ IsRelation(loops)
               /\ DOMAIN loops = visited
               /\ loops[Top] = rest[Top] \ {child}
               /\ \A k \in visited : k # Top => loops[k] = rest[k]
               /\ child \in Key
<1>1. Top \in visited
  BY TopVisited DEF TypeOK
<1>. DEFINE loops == [rest EXCEPT ![Top] = @ \ {child}]
<1>2. IsRelation(rest) /\ Top \in DOMAIN rest
  BY <1>1 DEF TypeOK, visited
<1>3. loops = [k \in DOMAIN rest |-> IF k = Top THEN rest[Top] \ {child} ELSE rest[k]]
  BY <1>2
<1>. HIDE DEF loops
<1>4. /\ DOMAIN loops = DOMAIN rest
      /\ \A k \in DOMAIN rest : loops[k] \subseteq rest[k]
      /\ loops = [k \in DOMAIN loops |-> loops[k]]
  BY <1>3
<1>5. IsRelation(loops)
  BY <1>2, <1>4 DEF IsRelation
<1>6. loops[Top] = rest[Top] \ {child} /\ \A k \in DOMAIN rest : k # Top => loops[k] = rest[k]
  BY <1>2, <1>3
<1>7. child \in Key
  BY <1>2 DEF IsRelation
<1>8. QED
  BY <1>4, <1>5, <1>6, <1>7 DEF loops, visited

---------------------------------------------------------------------------
(* The steps. *)

LEMMA WalkInit == Init => WalkInv /\ NoNestedCall
<1>. SUFFICES ASSUME Init PROVE WalkInv /\ NoNestedCall
  OBVIOUS
<1>1. visited = {} /\ IsRelation(rest)
  BY EmptyRelationType DEF Init, visited, EmptyRelation
<1>2. waiting \subseteq Key
  BY WalkAssumption, ResourceKeyType DEF Init
<1>3. stack = <<>> /\ stack \in Seq(visited)
  BY DEF Init
<1>4. TypeOK
  BY <1>1, <1>2, <1>3 DEF Init, TypeOK
<1>5. LoopInv /\ ResultInv
  BY <1>1 DEF Init, LoopInv, Roots, ResultInv
<1>6. LeastInv /\ NothingForgotten
  BY <1>1 DEF LeastInv, NothingForgotten
<1>7. NoNestedCall
  BY <1>3 DEF NoNestedCall
<1>8. QED
  BY <1>4, <1>5, <1>6, <1>7 DEF WalkInv

\* A root is started: it is in every closed set that holds the roots.
LEMMA StartRootStep == WalkInv /\ NoNestedCall /\ StartRoot => WalkInv' /\ NoNestedCall'
<1>. SUFFICES ASSUME WalkInv, NoNestedCall, StartRoot PROVE WalkInv' /\ NoNestedCall'
  OBVIOUS
<1>1. PICK key \in waiting : waiting' = waiting \ {key} /\ Call(key, rest)
  BY DEF StartRoot
<1>2. key \in Key /\ key \in Roots /\ stack = <<>> /\ relation' = relation /\ direct' = direct
        /\ returned' = returned /\ out' = out
  BY <1>1 DEF StartRoot, WalkInv, TypeOK, LoopInv
<1>3. /\ IsRelation(rest')
      /\ visited' = visited \cup {key}
      /\ stack' \in Seq(visited')
      /\ \A k \in visited : rest'[k] = rest[k]
      /\ key \notin visited => rest'[key] = Children(relation, key)
      /\ key \notin visited => stack' = Append(stack, key)
      /\ key \in visited => stack' = stack
  BY <1>1, <1>2, CallEffect DEF WalkInv, TypeOK, visited
<1>4. TypeOK'
  BY <1>1, <1>2, <1>3 DEF WalkInv, TypeOK
<1>5. LoopInv'
  BY <1>1, <1>2, <1>3 DEF WalkInv, LoopInv, Roots
<1>6. LeastInv'
  BY <1>2, <1>3 DEF WalkInv, LeastInv, Roots
<1>7. NothingForgotten'
  <2>1. \A k \in visited' : Children(relation, k) \subseteq visited' \cup rest'[k]
    BY <1>2, <1>3 DEF WalkInv, NothingForgotten
  <2>2. \A k \in visited : rest[k] = {}
    BY <1>2 DEF WalkInv, NothingForgotten
  <2>3. key \notin visited => stack'[1] = key /\ Len(stack') = 1
    BY <1>2, <1>3
  <2>4. QED
    BY <1>2, <1>3, <2>1, <2>2, <2>3 DEF NothingForgotten
<1>8. ResultInv'
  BY <1>2 DEF WalkInv, ResultInv
<1>9. NoNestedCall'
  BY <1>2, <1>3 DEF NoNestedCall
<1>10. QED
  BY <1>4, <1>5, <1>6, <1>7, <1>8, <1>9 DEF WalkInv

\* A child of a visited key is in every closed set that holds the roots.
LEMMA VisitChildStep == WalkInv /\ NoNestedCall /\ VisitChild => WalkInv' /\ NoNestedCall'
<1>. SUFFICES ASSUME WalkInv, NoNestedCall, VisitChild PROVE WalkInv' /\ NoNestedCall'
  OBVIOUS
<1>1. PICK child \in rest[Top] : Call(child, [rest EXCEPT ![Top] = @ \ {child}])
  BY DEF VisitChild
<1>2. stack # <<>> /\ relation' = relation /\ direct' = direct /\ waiting' = waiting
        /\ returned' = returned /\ out' = out
  BY DEF VisitChild
<1>. DEFINE loops == [rest EXCEPT ![Top] = @ \ {child}]
<1>3. /\ IsRelation(loops)
      /\ DOMAIN loops = visited
      /\ loops[Top] = rest[Top] \ {child}
      /\ \A k \in visited : k # Top => loops[k] = rest[k]
      /\ child \in Key
  BY <1>1, <1>2, LoopProgress DEF WalkInv
<1>4. Call(child, loops)
  BY <1>1
<1>. HIDE DEF loops
<1>5. Top \in visited /\ Len(stack) \in 1..Len(stack) /\ stack \in Seq(visited)
  BY <1>2, TopVisited DEF WalkInv, TypeOK
<1>6. /\ IsRelation(rest')
      /\ visited' = visited \cup {child}
      /\ stack' \in Seq(visited')
      /\ \A k \in visited : rest'[k] = loops[k]
      /\ child \notin visited => rest'[child] = Children(relation, child)
      /\ child \notin visited => stack' = Append(stack, child)
      /\ child \in visited => stack' = stack
  BY <1>3, <1>4, <1>5, CallEffect DEF WalkInv, TypeOK
<1>7. TypeOK'
  BY <1>2, <1>6 DEF WalkInv, TypeOK
<1>8. LoopInv'
  BY <1>2, <1>3, <1>5, <1>6 DEF WalkInv, LoopInv, Roots
<1>9. child \in Children(relation, Top)
  BY <1>5 DEF WalkInv, LoopInv
<1>10. LeastInv'
  BY <1>2, <1>5, <1>6, <1>9 DEF WalkInv, LeastInv, Roots, ClosedUnder
<1>11. \A i \in 1..Len(stack) : i \in 1..Len(stack') /\ stack'[i] = stack[i]
  BY <1>5, <1>6
<1>12. child \notin visited => Len(stack') = Len(stack) + 1 /\ stack'[Len(stack')] = child
  BY <1>5, <1>6
<1>13. NothingForgotten'
  <2>1. \A k \in visited' : Children(relation, k) \subseteq visited' \cup rest'[k]
    BY <1>3, <1>5, <1>6 DEF WalkInv, NothingForgotten
  <2>2. ASSUME NEW k \in visited', rest'[k] # {}
        PROVE  \E i \in 1..Len(stack') : stack'[i] = k
    <3>1. CASE k \in visited
      <4>1. rest[k] # {}
        BY <1>3, <1>6, <2>2, <3>1
      <4>2. PICK i \in 1..Len(stack) : stack[i] = k
        BY <3>1, <4>1 DEF WalkInv, NothingForgotten
      <4>3. QED
        BY <1>11, <4>2
    <3>2. CASE k \notin visited
      <4>1. k = child /\ child \notin visited
        BY <1>6, <3>2
      <4>2. Len(stack') \in 1..Len(stack')
        BY <1>5, <1>12, <4>1
      <4>3. QED
        BY <1>12, <4>1, <4>2
    <3>3. QED
      BY <3>1, <3>2
  <2>3. QED
    BY <1>2, <2>1, <2>2 DEF NothingForgotten
<1>14. ResultInv'
  BY <1>2 DEF WalkInv, ResultInv
<1>15. NoNestedCall'
  <2>1. CASE child \in visited
    BY <1>6, <2>1 DEF NoNestedCall
  <2>2. CASE child \notin visited
    <3>1. \A i \in 1..Len(stack) : stack[i] \in visited
      BY <1>5
    <3>2. \A i \in 1..Len(stack') : i \in 1..Len(stack) \/ i = Len(stack')
      BY <1>5, <1>12, <2>2
    <3>3. QED
      BY <1>11, <1>12, <2>2, <3>1, <3>2 DEF NoNestedCall
  <2>3. QED
    BY <2>1, <2>2
<1>16. QED
  BY <1>7, <1>8, <1>10, <1>13, <1>14, <1>15 DEF WalkInv

\* The loop that ends has nothing left.
LEMMA ReturnStep == WalkInv /\ NoNestedCall /\ Return => WalkInv' /\ NoNestedCall'
<1>. SUFFICES ASSUME WalkInv, NoNestedCall, Return PROVE WalkInv' /\ NoNestedCall'
  OBVIOUS
<1>1. stack # <<>> /\ rest[Top] = {} /\ stack' = SubSeq(stack, 1, Len(stack) - 1)
        /\ relation' = relation /\ direct' = direct /\ waiting' = waiting
        /\ rest' = rest /\ returned' = returned /\ out' = out
  BY DEF Return
<1>2. visited' = visited
  BY <1>1 DEF visited
<1>3. stack \in Seq(visited) /\ Len(stack) \in Nat /\ Len(stack) > 0
  BY <1>1 DEF WalkInv, TypeOK
<1>. DEFINE n == Len(stack) - 1
<1>4. /\ stack' \in Seq(visited) /\ Len(stack') = Len(stack) - 1
      /\ \A i \in 1..n : stack'[i] = stack[i]
  <2>1. n \in Nat /\ 1 \in Int /\ n \in Int /\ \A i \in 1..n : stack[i] \in visited
    BY <1>3
  <2>2. /\ SubSeq(stack, 1, n) \in Seq(visited)
        /\ Len(SubSeq(stack, 1, n)) = IF 1 <= n THEN n - 1 + 1 ELSE 0
        /\ \A i \in 1..n - 1 + 1 : SubSeq(stack, 1, n)[i] = stack[1 + i - 1]
    BY <2>1, SubSeqProperties
  <2>. HIDE DEF n
  <2>3. (IF 1 <= n THEN n - 1 + 1 ELSE 0) = n /\ n - 1 + 1 = n /\ \A i \in 1..n : 1 + i - 1 = i
    BY <2>1
  <2>4. stack' = SubSeq(stack, 1, n)
    BY <1>1 DEF n
  <2>5. QED
    BY <2>2, <2>3, <2>4 DEF n
<1>5. \A i \in 1..Len(stack') : i \in 1..Len(stack) /\ stack'[i] = stack[i]
  BY <1>3, <1>4
<1>6. TypeOK'
  BY <1>1, <1>2, <1>4 DEF WalkInv, TypeOK
<1>7. LoopInv' /\ LeastInv' /\ ResultInv'
  BY <1>1, <1>2 DEF WalkInv, LoopInv, LeastInv, ResultInv, Roots
<1>8. NothingForgotten'
  <2>1. ASSUME NEW k \in visited, rest[k] # {} PROVE \E i \in 1..Len(stack') : stack'[i] = k
    <3>1. PICK i \in 1..Len(stack) : stack[i] = k
      BY <2>1 DEF WalkInv, NothingForgotten
    <3>2. i # Len(stack)
      BY <1>1, <2>1, <3>1 DEF Top
    <3>3. i \in 1..Len(stack')
      BY <1>3, <1>4, <3>1, <3>2
    <3>4. QED
      BY <1>5, <3>1, <3>3
  <2>2. QED
    BY <1>1, <1>2, <2>1 DEF WalkInv, NothingForgotten
<1>9. NoNestedCall'
  BY <1>5 DEF NoNestedCall
<1>10. QED
  BY <1>6, <1>7, <1>8, <1>9 DEF WalkInv

\* When the search ends, the visited keys are closed, hold the roots, and are
\* in every set that is and does: they are what is reachable.
LEMMA VisitedReachable ==
    ASSUME WalkInv, stack = <<>>, waiting = {}
    PROVE  visited = Reachable(relation, Roots)
<1>1. Roots \subseteq visited
  BY DEF WalkInv, LoopInv
<1>2. ClosedUnder(relation, visited)
  <2>1. \A k \in visited : rest[k] = {}
    BY DEF WalkInv, NothingForgotten
  <2>2. QED
    BY <2>1 DEF WalkInv, NothingForgotten, ClosedUnder
<1>3. IsRelation(relation)
  BY WalkAssumption DEF WalkInv, TypeOK
<1>4. /\ Roots \subseteq Reachable(relation, Roots)
      /\ ClosedUnder(relation, Reachable(relation, Roots))
      /\ \A S : Roots \subseteq S /\ ClosedUnder(relation, S) => Reachable(relation, Roots) \subseteq S
  BY <1>3, ReachableIsLeastClosure
<1>5. QED
  BY <1>1, <1>2, <1>4 DEF WalkInv, LeastInv

LEMMA FinishAnswers ==
    WalkInv /\ Finish => out' = GetResourceRelation(relation, direct)
BY VisitedReachable DEF Finish, GetResourceRelation, Roots

LEMMA FinishStep == WalkInv /\ NoNestedCall /\ Finish => WalkInv' /\ NoNestedCall'
<1>. SUFFICES ASSUME WalkInv, NoNestedCall, Finish PROVE WalkInv' /\ NoNestedCall'
  OBVIOUS
<1>1. returned' = TRUE /\ out' = { KeyInfo(k) : k \in visited }
        /\ relation' = relation /\ direct' = direct /\ waiting' = waiting
        /\ stack' = stack /\ rest' = rest
  BY DEF Finish
<1>2. out' \subseteq Info
  <2>1. visited \subseteq Key
    BY DEF WalkInv, TypeOK, IsRelation, visited
  <2>2. \A k \in visited : KeyInfo(k) \in Info
    BY <2>1, KeyInfoRoundTrip
  <2>3. QED
    BY <1>1, <2>2
<1>3. TypeOK'
  BY <1>1, <1>2 DEF WalkInv, TypeOK, visited
<1>4. ResultInv'
  BY <1>1, FinishAnswers DEF ResultInv
<1>5. QED
  BY <1>1, <1>3, <1>4
     DEF WalkInv, LoopInv, LeastInv, NothingForgotten, NoNestedCall, Roots, visited

LEMMA WalkStep == WalkInv /\ NoNestedCall /\ [Next]_vars => WalkInv' /\ NoNestedCall'
<1>. SUFFICES ASSUME WalkInv, NoNestedCall, [Next]_vars PROVE WalkInv' /\ NoNestedCall'
  OBVIOUS
<1>1. CASE StartRoot
  BY <1>1, StartRootStep
<1>2. CASE VisitChild
  BY <1>2, VisitChildStep
<1>3. CASE Return
  BY <1>3, ReturnStep
<1>4. CASE Finish
  BY <1>4, FinishStep
<1>5. CASE UNCHANGED vars
  BY <1>5
     DEF vars, WalkInv, TypeOK, LoopInv, LeastInv, NothingForgotten, ResultInv, NoNestedCall,
         Roots, visited
<1>6. QED
  BY <1>1, <1>2, <1>3, <1>4, <1>5 DEF Next

LEMMA WalkInvariant == Spec => [](WalkInv /\ NoNestedCall)
BY WalkInit, WalkStep, PTL DEF Spec

---------------------------------------------------------------------------
(* The theorems. *)

\* The recursion of dfs never holds two calls of one key, for any relation.
THEOREM RecursionBounded == Spec => []NoNestedCall
BY WalkInvariant, PTL

\* The stack and the loops of the search keep their types: a call that is active
\* has marked its key as visited, and its loop runs over kinds.
THEOREM TypeCorrect == Spec => []TypeOK
<1>1. WalkInv => TypeOK
  BY DEF WalkInv
<1>2. QED
  BY <1>1, WalkInvariant, PTL

\* Backtracking forgets no child.
THEOREM SearchForgetsNothing == Spec => []NothingForgotten
<1>1. WalkInv => NothingForgotten
  BY DEF WalkInv
<1>2. QED
  BY <1>1, WalkInvariant, PTL

\* Every step of the search is a step of AtomicWalk or leaves its variables
\* alone: the search answers once, with the least closure.  That it answers is
\* left to the run "walk".
THEOREM SearchIsAtomicWalk == Spec => Atomic!Init /\ [][Atomic!Answer]_(Atomic!vars)
<1>1. Init => Atomic!Init
  BY DEF Init, Atomic!Init
<1>2. WalkInv /\ [Next]_vars => [Atomic!Answer]_(Atomic!vars)
  <2>. SUFFICES ASSUME WalkInv, [Next]_vars PROVE [Atomic!Answer]_(Atomic!vars)
    OBVIOUS
  <2>1. CASE Finish
    <3>1. out' = GetResourceRelation(relation, direct)
      BY <2>1, FinishAnswers
    <3>2. QED
      BY <2>1, <3>1
         DEF Finish, Atomic!Answer, Atomic!GetResourceRelation, GetResourceRelation, Atomic!KeyInfo, KeyInfo,
             Atomic!Reachable, Reachable, Atomic!RootKey, RootKey, Atomic!CoreIfEmpty, CoreIfEmpty,
             Atomic!ClosedUnder, ClosedUnder, Atomic!Children, Children
  <2>2. CASE StartRoot
    BY <2>2 DEF StartRoot, Atomic!vars
  <2>3. CASE VisitChild
    BY <2>3 DEF VisitChild, Atomic!vars
  <2>4. CASE Return
    BY <2>4 DEF Return, Atomic!vars
  <2>5. CASE UNCHANGED vars
    BY <2>5 DEF vars, Atomic!vars
  <2>6. QED
    BY <2>1, <2>2, <2>3, <2>4, <2>5 DEF Next
<1>3. QED
  BY <1>1, <1>2, WalkInvariant, PTL DEF Spec

=============================================================================
