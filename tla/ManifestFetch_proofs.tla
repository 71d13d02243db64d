------------------------ MODULE ManifestFetch_proofs ------------------------
(***************************************************************************)
(* The fetch is all or nothing, for whatever sources and clusters, and the *)
(* two look-ups of a destination agree.                                    *)
(***************************************************************************)
EXTENDS ManifestFetch, FiniteSetTheorems, TLAPS

\* Nothing is returned before the end, and nothing rendered before the version
\* is known.
PhaseInv ==
    /\ pc \in {"prepare", "refs", "version", "render"} => result = "none"
    /\ pc \in {"prepare", "refs", "version"} => todo = Sources[app] /\ targetObjs = {}
    /\ pc = "resolve" /\ ~fetchFirst =>
           result = "none" /\ todo = Sources[app] /\ targetObjs = {}

\* What has been rendered is what the sources that are done render to.
RenderInv ==
    pc = "render" =>
        targetObjs = UNION { Rendered[source][version] : source \in Sources[app] \ todo }

\* Before the registry changes, both look-ups see the same clusters.
LookupInv ==
    changes = 0 =>
        /\ version \in Candidates \cup {None}
        /\ server # None => Candidates = {server}

FetchInv == TypeOK /\ PhaseInv /\ RenderInv /\ LookupInv

---------------------------------------------------------------------------
(* Lemmas. *)

LEMMA CandidatesAreServers == TypeOK => Candidates \subseteq Servers
<1>. SUFFICES ASSUME TypeOK PROVE Candidates \subseteq Servers
  OBVIOUS
<1>1. /\ Destination[app] \in [server : Servers \cup {None}, name : ClusterNames \cup {None}]
      /\ registry \in [ClusterNames -> SUBSET Servers]
  BY FetchAssumption DEF TypeOK
<1>2. Destination[app].server \in Servers \cup {None} /\ Destination[app].name \in ClusterNames \cup {None}
  BY <1>1
<1>. QED  BY <1>1, <1>2 DEF Candidates

\* A set of one element, of which x is one, is {x}.
LEMMA OnlyElement ==
    ASSUME NEW S, IsFiniteSet(S), Cardinality(S) = 1, NEW x \in S
    PROVE  S = {x}
<1>1. PICK y : S = {y}
  BY FS_Singleton
<1>. QED  BY <1>1

LEMMA RenderedType ==
    ASSUME TypeOK, NEW source \in Sources[app]
    PROVE  Rendered[source][version] \subseteq Infos
<1>1. source \in AllSources
  BY FetchAssumption DEF TypeOK
<1>2. Rendered[source] \in [Servers \cup {None} -> SUBSET Infos]
  BY <1>1, FetchAssumption
<1>. QED  BY <1>2 DEF TypeOK

LEMMA InitFetch == Init => FetchInv
<1>. SUFFICES ASSUME Init PROVE FetchInv
  OBVIOUS
<1>1. TypeOK
  <2>1. Len(Preparation) \in Nat
    BY DEF Preparation
  <2>2. 0 \in 0..Len(Preparation) /\ 0 \in 0..MaxChanges
    BY <2>1, FetchAssumption
  <2>. QED  BY <2>2 DEF Init, TypeOK
<1>2. PhaseInv /\ RenderInv /\ LookupInv
  BY DEF Init, PhaseInv, RenderInv, LookupInv
<1>. QED  BY <1>1, <1>2 DEF FetchInv

---------------------------------------------------------------------------
(* Every step keeps the invariant. *)

\* What no step of the backend or the fetch changes.
LEMMA SameCandidates ==
    ASSUME UNCHANGED world
    PROVE  Candidates' = Candidates
BY DEF world, Candidates

LEMMA StepResolve ==
    ASSUME FetchInv, Resolve \/ ResolveFails
    PROVE  FetchInv'
<1>1. CASE Resolve
  <2>1. Candidates' = Candidates
    BY <1>1, SameCandidates DEF Resolve
  <2>2. server' \in Servers /\ TypeOK'
    BY <1>1, CandidatesAreServers DEF FetchInv, Resolve, TypeOK, world, fetch
  <2>3. Candidates = {server'}
    <3>1. IsFiniteSet(Candidates)
      BY CandidatesAreServers, FetchAssumption, FS_Subset DEF FetchInv
    <3>. QED  BY <1>1, <3>1, OnlyElement DEF Resolve
  <2>4. PhaseInv' /\ RenderInv'
    <3>1. CASE fetchFirst
      BY <1>1, <3>1 DEF FetchInv, Resolve, PhaseInv, RenderInv, world, fetch
    <3>2. CASE ~fetchFirst
      BY <1>1, <3>2 DEF FetchInv, Resolve, PhaseInv, RenderInv, world, fetch
    <3>. QED  BY <3>1, <3>2
  <2>5. LookupInv'
    BY <1>1, <2>1, <2>3 DEF FetchInv, Resolve, LookupInv, world, fetch
  <2>. QED  BY <2>2, <2>4, <2>5 DEF FetchInv
<1>2. CASE ResolveFails
  <2>1. Candidates' = Candidates
    BY <1>2, SameCandidates DEF ResolveFails
  <2>2. TypeOK' /\ PhaseInv' /\ RenderInv'
    BY <1>2 DEF FetchInv, ResolveFails, TypeOK, PhaseInv, RenderInv, world, fetch
  <2>3. LookupInv'
    BY <1>2, <2>1 DEF FetchInv, ResolveFails, LookupInv, world, fetch
  <2>. QED  BY <2>2, <2>3 DEF FetchInv
<1>. QED  BY <1>1, <1>2

LEMMA StepBeforeRender ==
    ASSUME FetchInv, Prepare \/ Connect \/ GetRefSources \/ LookupVersion
    PROVE  FetchInv'
<1>1. Candidates' = Candidates
  BY SameCandidates DEF Prepare, Connect, GetRefSources, LookupVersion
<1>2. CASE Prepare
  <2>1. prepared' \in 0..Len(Preparation)
    <3>1. Len(Preparation) \in Nat
      BY DEF Preparation
    <3>. QED  BY <1>2, <3>1 DEF FetchInv, TypeOK, Prepare
  <2>2. TypeOK' /\ PhaseInv' /\ RenderInv'
    BY <1>2, <2>1 DEF FetchInv, Prepare, TypeOK, PhaseInv, RenderInv, world
  <2>3. LookupInv'
    BY <1>1, <1>2 DEF FetchInv, Prepare, LookupInv, world
  <2>. QED  BY <2>2, <2>3 DEF FetchInv
<1>3. CASE Connect
  <2>1. TypeOK' /\ PhaseInv' /\ RenderInv'
    BY <1>3 DEF FetchInv, Connect, TypeOK, PhaseInv, RenderInv, world
  <2>2. LookupInv'
    BY <1>1, <1>3 DEF FetchInv, Connect, LookupInv, world
  <2>. QED  BY <2>1, <2>2 DEF FetchInv
<1>4. CASE GetRefSources
  <2>1. TypeOK' /\ PhaseInv' /\ RenderInv'
    BY <1>4 DEF FetchInv, GetRefSources, TypeOK, PhaseInv, RenderInv, world, fetch
  <2>2. LookupInv'
    BY <1>1, <1>4 DEF FetchInv, GetRefSources, LookupInv, world, fetch
  <2>. QED  BY <2>1, <2>2 DEF FetchInv
<1>5. CASE LookupVersion
  <2>1. version' \in Servers \cup {None}
    BY <1>5, CandidatesAreServers DEF FetchInv, LookupVersion
  <2>2. TypeOK' /\ PhaseInv'
    BY <1>5, <2>1 DEF FetchInv, LookupVersion, TypeOK, PhaseInv, world
  <2>3. RenderInv'
    <3>1. targetObjs' = {} /\ Sources'[app'] \ todo' = {}
      BY <1>5 DEF FetchInv, LookupVersion, PhaseInv, world
    <3>. QED  BY <3>1 DEF RenderInv
  <2>4. LookupInv'
    BY <1>1, <1>5 DEF FetchInv, LookupVersion, LookupInv, world
  <2>. QED  BY <2>2, <2>3, <2>4 DEF FetchInv
<1>. QED  BY <1>2, <1>3, <1>4, <1>5

LEMMA StepRender ==
    ASSUME FetchInv, Render
    PROVE  FetchInv'
<1>1. PICK source \in todo :
          /\ todo' = todo \ {source}
          /\ targetObjs' = targetObjs \cup Rendered[source][version]
  BY DEF Render
<1>2. source \in Sources[app] /\ Rendered[source][version] \subseteq Infos
  BY RenderedType DEF FetchInv, TypeOK
<1>3. TypeOK'
  BY <1>1, <1>2 DEF FetchInv, Render, TypeOK, world
<1>4. PhaseInv'
  BY DEF FetchInv, Render, PhaseInv, world
<1>5. RenderInv'
  <2>1. targetObjs = UNION { Rendered[s][version] : s \in Sources[app] \ todo }
    BY DEF FetchInv, Render, RenderInv
  <2>2. Sources[app] \ todo' = (Sources[app] \ todo) \cup {source}
    BY <1>1, <1>2
  <2>3. targetObjs' = UNION { Rendered[s][version] : s \in Sources[app] \ todo' }
    BY <1>1, <2>1, <2>2
  <2>. QED  BY <2>3 DEF Render, RenderInv, world
<1>6. LookupInv'
  <2>1. Candidates' = Candidates
    BY SameCandidates DEF Render
  <2>. QED  BY <2>1 DEF FetchInv, Render, LookupInv, world
<1>. QED  BY <1>3, <1>4, <1>5, <1>6 DEF FetchInv

LEMMA StepReturn ==
    ASSUME FetchInv, FetchSucceeds \/ FetchFails
    PROVE  FetchInv'
<1>1. Candidates' = Candidates
  BY SameCandidates DEF FetchSucceeds, FetchFails, FetchReturns
<1>2. TypeOK'
  BY DEF FetchInv, FetchSucceeds, FetchFails, FetchReturns, TypeOK, world
<1>3. PhaseInv' /\ RenderInv'
  BY DEF FetchInv, FetchSucceeds, FetchFails, FetchReturns, PhaseInv, RenderInv, world
<1>4. LookupInv'
  BY <1>1 DEF FetchInv, FetchSucceeds, FetchFails, FetchReturns, LookupInv, world
<1>. QED  BY <1>2, <1>3, <1>4 DEF FetchInv

LEMMA StepRegistry ==
    ASSUME FetchInv, RegistryChanges
    PROVE  FetchInv'
<1>1. changes' \in 0..MaxChanges /\ changes' # 0
  BY FetchAssumption DEF FetchInv, RegistryChanges, TypeOK
<1>2. TypeOK'
  BY <1>1 DEF FetchInv, RegistryChanges, TypeOK, fetch
<1>3. PhaseInv' /\ RenderInv' /\ LookupInv'
  BY <1>1 DEF FetchInv, RegistryChanges, PhaseInv, RenderInv, LookupInv, fetch
<1>. QED  BY <1>2, <1>3 DEF FetchInv

LEMMA NextFetch == FetchInv /\ [Next]_vars => FetchInv'
<1>. SUFFICES ASSUME FetchInv, [Next]_vars PROVE FetchInv'
  OBVIOUS
<1>1. CASE UNCHANGED vars
  <2>1. Candidates' = Candidates
    BY <1>1, SameCandidates DEF vars
  <2>2. TypeOK' /\ PhaseInv' /\ RenderInv'
    BY <1>1 DEF FetchInv, vars, world, fetch, TypeOK, PhaseInv, RenderInv
  <2>3. LookupInv'
    BY <1>1, <2>1 DEF FetchInv, vars, world, fetch, LookupInv
  <2>. QED  BY <2>2, <2>3 DEF FetchInv
<1>2. CASE Resolve \/ ResolveFails
  BY <1>2, StepResolve
<1>3. CASE Prepare \/ Connect \/ GetRefSources \/ LookupVersion
  BY <1>3, StepBeforeRender
<1>4. CASE Render
  BY <1>4, StepRender
<1>5. CASE FetchSucceeds \/ FetchFails
  BY <1>5, StepReturn
<1>6. CASE RegistryChanges
  BY <1>6, StepRegistry
<1>. QED  BY <1>1, <1>2, <1>3, <1>4, <1>5, <1>6 DEF Next

LEMMA FetchInvariant == Spec => []FetchInv
<1>. QED  BY InitFetch, NextFetch, PTL DEF Spec

---------------------------------------------------------------------------
(* Theorems. *)

\* The variables of the call chain keep their types: the version is always
\* that of a registered cluster or the default.
THEOREM TypeCorrect == Spec => []TypeOK
<1>1. FetchInv => TypeOK
  BY DEF FetchInv
<1>. QED  BY <1>1, FetchInvariant, PTL

\* The look-up that ignores failures and the one that refuses ambiguity never
\* disagree on an application that is analysed, unless the registry changes.
THEOREM DestinationsAgree == Spec => []RenderedForDestination
<1>1. FetchInv => RenderedForDestination
  BY DEF FetchInv, LookupInv, RenderedForDestination
<1>. QED  BY <1>1, FetchInvariant, PTL

LEMMA AtomicStep ==
    ASSUME FetchInv, [Next]_vars
    PROVE  [Atomic!Next]_(Atomic!vars)
<1>1. CASE UNCHANGED vars
  BY <1>1 DEF vars, world, fetch, Atomic!vars
<1>2. CASE Resolve \/ ResolveFails \/ GetRefSources
  BY <1>2 DEF Resolve, ResolveFails, GetRefSources, world, fetch, Atomic!vars
<1>3. CASE Prepare \/ LookupVersion \/ Render
  BY <1>3 DEF Prepare, LookupVersion, Render, world, Atomic!vars
<1>4. CASE Connect
  <2>1. Atomic!Connect
    BY <1>4 DEF FetchInv, PhaseInv, Connect, world, Atomic!Connect
  <2>. QED  BY <2>1 DEF Atomic!Next
<1>5. CASE FetchSucceeds
  <2>1. version \in Servers \cup {None} /\ result = "none"
    BY <1>5 DEF FetchInv, TypeOK, PhaseInv, FetchSucceeds
  <2>2. manifests' = UNION { Rendered[source][version] : source \in Sources[app] }
    <3>1. Sources[app] \ todo = Sources[app]
      BY <1>5 DEF FetchSucceeds
    <3>. QED  BY <1>5, <3>1 DEF FetchInv, RenderInv, FetchSucceeds
  <2>3. result' = "ok" /\ connected' = FALSE /\ UNCHANGED app
    BY <1>5 DEF FetchSucceeds, FetchReturns, world
  <2>4. Atomic!Succeed
    BY <2>1, <2>2, <2>3 DEF Atomic!Succeed
  <2>. QED  BY <2>4 DEF Atomic!Next
<1>6. CASE FetchFails
  <2>1. Atomic!Fail
    BY <1>6 DEF FetchInv, PhaseInv, FetchFails, FetchReturns, world, Atomic!Fail
  <2>. QED  BY <2>1 DEF Atomic!Next
<1>7. CASE RegistryChanges
  BY <1>7 DEF RegistryChanges, fetch, Atomic!vars
<1>. QED  BY <1>1, <1>2, <1>3, <1>4, <1>5, <1>6, <1>7 DEF Next

\* The chain of calls gives all manifests of an application for one version,
\* or an error and none, and closes its connection on every path.
THEOREM FetchIsAtomic == Spec => ImplementsAtomicFetch
<1>1. Init => Atomic!Init
  BY DEF Init, Atomic!Init
<1>2. FetchInv /\ [Next]_vars => [Atomic!Next]_(Atomic!vars)
  BY AtomicStep
<1>. QED  BY <1>1, <1>2, FetchInvariant, PTL DEF Spec, ImplementsAtomicFetch, Atomic!Spec

=============================================================================
