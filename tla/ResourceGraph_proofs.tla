------------------------ MODULE ResourceGraph_proofs -----------------------
(***************************************************************************)
(* Facts about the operators of ResourceGraph: the types of keys and       *)
(* relations, what a merge keeps, and what Reachable returns.              *)
(***************************************************************************)
EXTENDS ResourceGraph, TLAPS

---------------------------------------------------------------------------
(* Keys. *)

\* GetResourceKey yields a key, for an apiVersion and for a bare group.
LEMMA ResourceKeyType ==
    /\ \A gv \in ApiVersion, kind \in Names : GetResourceKey(gv, kind) \in Key
    /\ \A info \in Info : ProbeKey(info) \in Key
    /\ \A info \in Info : RootKey(info) \in Key
<1>1. ASSUME NEW gv \in ApiVersion, NEW kind \in Names
      PROVE  GetResourceKey(gv, kind) \in Key
  <2>1. Len(gv) > 1 => gv[1] \in Names
    BY DEF ApiVersion
  <2>2. QED
    BY <2>1, NamesAssumption DEF GetResourceKey, Key
<1>2. ASSUME NEW info \in Info PROVE ProbeKey(info) \in Key
  <2>1. ~(Len(<<info.group>>) > 1)
    OBVIOUS
  <2>2. QED
    BY <2>1, NamesAssumption DEF ProbeKey, GetResourceKey, Key, Info
<1>3. ASSUME NEW info \in Info PROVE RootKey(info) \in Key
  BY NamesAssumption DEF RootKey, CoreIfEmpty, Key, Info
<1>4. QED
  BY <1>1, <1>2, <1>3

\* A key survives the way through a ResourceInfo and back.
LEMMA KeyInfoRoundTrip ==
    \A key \in Key : KeyInfo(key) \in Info /\ RootKey(KeyInfo(key)) = key
<1>. SUFFICES ASSUME NEW key \in Key
     PROVE  KeyInfo(key) \in Info /\ RootKey(KeyInfo(key)) = key
  OBVIOUS
<1>1. key = <<key[1], key[2]>> /\ key[1] \in Names /\ key[2] \in Names
  BY DEF Key
<1>2. QED
  BY <1>1, NamesAssumption DEF KeyInfo, RootKey, CoreIfEmpty, Info

---------------------------------------------------------------------------
(* Relations. *)

LEMMA EmptyRelationType == IsRelation(EmptyRelation)
BY DEF IsRelation, EmptyRelation

\* A merge is a relation, and has every child that either side has.
LEMMA MergeIntoRelation ==
    ASSUME NEW dst, NEW src, IsRelation(dst), IsRelation(src)
    PROVE  /\ IsRelation(MergeInto(dst, src))
           /\ DOMAIN MergeInto(dst, src) = DOMAIN dst \cup DOMAIN src
           /\ \A p : Children(MergeInto(dst, src), p) = Children(dst, p) \cup Children(src, p)
<1>1. DOMAIN MergeInto(dst, src) = DOMAIN dst \cup DOMAIN src
  BY DEF MergeInto
<1>2. \A p : Children(MergeInto(dst, src), p) = Children(dst, p) \cup Children(src, p)
  BY <1>1 DEF MergeInto, Children
<1>3. IsRelation(MergeInto(dst, src))
  BY DEF MergeInto, IsRelation, Children
<1>4. QED
  BY <1>1, <1>2, <1>3

LEMMA ChildrenType ==
    ASSUME NEW rel, IsRelation(rel), NEW p
    PROVE  Children(rel, p) \subseteq Key
BY DEF IsRelation, Children

\* The relation of a set of edges has these edges and no other.
LEMMA RelationOfEdges ==
    ASSUME NEW edges \in SUBSET (Key \X Key)
    PROVE  /\ IsRelation(RelationOf(edges))
           /\ \A p, c : c \in Children(RelationOf(edges), p) <=> <<p, c>> \in edges
<1>1. \A e \in edges : e = <<e[1], e[2]>> /\ e[1] \in Key /\ e[2] \in Key
  OBVIOUS
<1>2. IsRelation(RelationOf(edges))
  BY <1>1 DEF IsRelation, RelationOf
<1>3. \A p, c : c \in Children(RelationOf(edges), p) <=> <<p, c>> \in edges
  BY <1>1 DEF RelationOf, Children
<1>4. QED
  BY <1>2, <1>3

LEMMA ItemEdgesType ==
    ASSUME NEW item \in Item
    PROVE  ItemEdges(item) \subseteq Key \X Key
<1>1. GetResourceKey(item.apiVersion, item.kind) \in Key
  BY ResourceKeyType DEF Item
<1>2. \A o \in item.owners : GetResourceKey(o.apiVersion, o.kind) \in Key
  BY ResourceKeyType DEF Item
<1>3. ImpliedParents(item.kind) \subseteq Key
  <2>1. /\ GetResourceKey(<<"operators.coreos.com", "v1">>, "OperatorGroup")
             = <<"operators.coreos.com", "OperatorGroup">>
        /\ GetResourceKey(<<"v1">>, "ServiceAccount") = <<"core", "ServiceAccount">>
        /\ GetResourceKey(<<"apps", "v1">>, "StatefulSet") = <<"apps", "StatefulSet">>
    BY DEF GetResourceKey
  <2>2. /\ <<"operators.coreos.com", "OperatorGroup">> \in Key
        /\ <<"core", "ServiceAccount">> \in Key
        /\ <<"apps", "StatefulSet">> \in Key
    BY NamesAssumption DEF Key
  <2>3. QED
    BY <2>1, <2>2 DEF ImpliedParents
<1>4. QED
  BY <1>1, <1>2, <1>3 DEF ItemEdges

\* The relation of a set of items is the union of what each contributes.
LEMMA ItemsRelationEdges ==
    ASSUME NEW items \in SUBSET Item
    PROVE  /\ IsRelation(ItemsRelation(items))
           /\ \A p, c : c \in Children(ItemsRelation(items), p)
                          <=> \E i \in items : <<p, c>> \in ItemEdges(i)
<1>. DEFINE edges == UNION { ItemEdges(i) : i \in items }
<1>1. edges \in SUBSET (Key \X Key)
  BY ItemEdgesType
<1>2. \A p, c : <<p, c>> \in edges <=> \E i \in items : <<p, c>> \in ItemEdges(i)
  OBVIOUS
<1>3. ItemsRelation(items) = RelationOf(edges)
  BY DEF ItemsRelation
<1>. HIDE DEF edges
<1>4. QED
  BY <1>1, <1>2, <1>3, RelationOfEdges

\* More items have more parents.
LEMMA ItemsRelationGrows ==
    ASSUME NEW items, NEW fewer \in SUBSET items
    PROVE  DOMAIN ItemsRelation(fewer) \subseteq DOMAIN ItemsRelation(items)
<1>1. UNION { ItemEdges(i) : i \in fewer } \subseteq UNION { ItemEdges(i) : i \in items }
  OBVIOUS
<1>2. ASSUME NEW edges, NEW some \in SUBSET edges
      PROVE  DOMAIN RelationOf(some) \subseteq DOMAIN RelationOf(edges)
  BY DEF RelationOf
<1>3. QED
  BY <1>1, <1>2 DEF ItemsRelation

---------------------------------------------------------------------------
(* Reachability. *)

\* Reachable is closed, holds the roots, and is the least such set: the fixed
\* point that a depth first search is meant to compute, whatever the nodes are.
THEOREM ReachableClosure ==
    ASSUME NEW rel, NEW roots
    PROVE  /\ roots \subseteq Reachable(rel, roots)
           /\ ClosedUnder(rel, Reachable(rel, roots))
           /\ \A S : roots \subseteq S /\ ClosedUnder(rel, S) => Reachable(rel, roots) \subseteq S
<1>. DEFINE nodes == roots \cup UNION { rel[p] : p \in DOMAIN rel }
            R == Reachable(rel, roots)
<1>1. \A p : Children(rel, p) \subseteq nodes
  BY DEF Children
<1>2. R = { n \in nodes :
              \A S \in SUBSET nodes : (roots \subseteq S /\ ClosedUnder(rel, S)) => n \in S }
  BY DEF Reachable
<1>. HIDE DEF R
<1>3. roots \subseteq R
  BY <1>2
<1>4. ClosedUnder(rel, R)
  <2>1. SUFFICES ASSUME NEW p \in R, NEW c \in Children(rel, p) PROVE c \in R
    BY DEF ClosedUnder
  <2>2. ASSUME NEW S \in SUBSET nodes, roots \subseteq S, ClosedUnder(rel, S) PROVE c \in S
    <3>1. p \in S
      BY <1>2, <2>2
    <3>2. QED
      BY <2>2, <3>1 DEF ClosedUnder
  <2>3. QED
    BY <1>1, <1>2, <2>2
<1>5. ASSUME NEW S, roots \subseteq S, ClosedUnder(rel, S) PROVE R \subseteq S
  <2>1. S \cap nodes \in SUBSET nodes /\ roots \subseteq S \cap nodes
    BY <1>5
  <2>2. ClosedUnder(rel, S \cap nodes)
    BY <1>1, <1>5 DEF ClosedUnder
  <2>3. QED
    BY <1>2, <2>1, <2>2
<1>6. QED
  BY <1>3, <1>4, <1>5 DEF R

\* For a relation of keys it holds keys only.
LEMMA ReachableIsLeastClosure ==
    ASSUME NEW rel, IsRelation(rel), NEW roots
    PROVE  /\ roots \subseteq Reachable(rel, roots)
           /\ ClosedUnder(rel, Reachable(rel, roots))
           /\ \A S : roots \subseteq S /\ ClosedUnder(rel, S) => Reachable(rel, roots) \subseteq S
           /\ roots \subseteq Key => Reachable(rel, roots) \subseteq Key
<1>1. ClosedUnder(rel, Key)
  BY ChildrenType DEF ClosedUnder
<1>2. QED
  BY <1>1, ReachableClosure

\* What GetResourceRelation returns are infos, whose root keys are the keys
\* that the traversal has visited.
LEMMA ResourceRelationKeys ==
    ASSUME NEW rel, IsRelation(rel), NEW direct \in SUBSET Info
    PROVE  /\ GetResourceRelation(rel, direct) \subseteq Info
           /\ { RootKey(i) : i \in GetResourceRelation(rel, direct) }
                = Reachable(rel, { RootKey(i) : i \in direct })
<1>. DEFINE R == Reachable(rel, { RootKey(i) : i \in direct })
<1>1. { RootKey(i) : i \in direct } \subseteq Key
  BY ResourceKeyType
<1>2. R \subseteq Key
  BY <1>1, ReachableIsLeastClosure
<1>3. GetResourceRelation(rel, direct) = { KeyInfo(k) : k \in R }
  BY DEF GetResourceRelation
<1>. DEFINE found == GetResourceRelation(rel, direct)
<1>4. \A k \in R : KeyInfo(k) \in Info /\ RootKey(KeyInfo(k)) = k
  BY <1>2, KeyInfoRoundTrip
<1>. HIDE DEF R, found
<1>5. found \subseteq Info
  BY <1>3, <1>4 DEF found
<1>6. { RootKey(i) : i \in found } = R
  <2>1. \A i \in found : \E k \in R : i = KeyInfo(k)
    BY <1>3 DEF found
  <2>2. \A k \in R : KeyInfo(k) \in found
    BY <1>3 DEF found
  <2>3. \A i \in found : RootKey(i) \in R
    BY <1>4, <2>1
  <2>4. QED
    BY <1>4, <2>2, <2>3
<1>7. QED
  BY <1>5, <1>6 DEF R, found

LEMMA MergeResourceInfosType ==
    ASSUME NEW grouped \in SUBSET Key, NEW infos \in SUBSET Info
    PROVE  MergeResourceInfos(grouped, infos) \subseteq Key
<1>1. \A i \in infos : <<CoreIfEmpty(i.group), i.kind>> \in Key
  <2>1. SUFFICES ASSUME NEW i \in Info PROVE <<CoreIfEmpty(i.group), i.kind>> \in Key
    OBVIOUS
  <2>2. QED
    BY NamesAssumption DEF CoreIfEmpty, Key, Info
<1>2. QED
  BY <1>1 DEF MergeResourceInfos

=============================================================================
