----------------------------- MODULE Inclusions -----------------------------
(***************************************************************************)
(* GroupedResourceKinds and the text of resource.inclusions that stands    *)
(* for it.  The grouped kinds are the set of their <<group, kind>> pairs:  *)
(* no code path leaves a group without a kind.  The text is the set of its *)
(* entries, since nothing reads their order.  yaml.v2 ignores the json     *)
(* tags of an entry: it writes and reads the field "apigroups", and does   *)
(* not see the "apiGroups" of an entry written by hand as Argo CD          *)
(* documents it.                                                           *)
(***************************************************************************)
EXTENDS ResourceGraph, FiniteSets

Entry == [field : {"apigroups", "apiGroups"}, apiGroups : Seq(Names \cup {""}),
          kinds : SUBSET Names]

Groups(grouped) == { p[1] : p \in grouped }
KindsIn(grouped, group) == { p[2] : p \in { q \in grouped : q[1] = group } }

\* The text that String returns: one entry per group.
Entries(grouped) ==
    { [field |-> "apigroups",
       apiGroups |-> << IF group = "core" THEN "" ELSE group >>,
       kinds |-> KindsIn(grouped, group)] : group \in Groups(grouped) }

\* Variant: the core group is not given its name back.
FromYamlRaw(entries) ==
    UNION { {e.apiGroups[1]} \X e.kinds :
              e \in { f \in entries : f.field = "apigroups" /\ f.apiGroups # <<>> } }

\* Only the first API group of an entry counts.
FromYaml(entries) ==
    UNION { {CoreIfEmpty(e.apiGroups[1])} \X e.kinds :
              e \in { f \in entries : f.field = "apigroups" /\ f.apiGroups # <<>> } }

\* Kinds.Equal: as many kinds, and each of the one in the other.
KindsEqual(k, other) == Cardinality(k) = Cardinality(other) /\ k \subseteq other

\* GroupedResourceKinds.Equal
GroupedEqual(g, other) ==
    /\ Cardinality(Groups(other)) = Cardinality(Groups(g))
    /\ \A group \in Groups(other) :
         group \in Groups(g) /\ KindsEqual(KindsIn(g, group), KindsIn(other, group))

=============================================================================
