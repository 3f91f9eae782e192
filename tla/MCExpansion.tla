------------------------------ MODULE MCExpansion ------------------------------
(***************************************************************************)
(* The order of a proposed expansion against its definition, for every     *)
(* proposal over Names: a proposal grows by a key or by a dependency, of   *)
(* which some may name keys outside it.                                    *)
(***************************************************************************)
EXTENDS Expansion

CONSTANT Names

VARIABLE deps

Init == deps = <<>>

AddChild ==
    \E k \in Names \ DOMAIN deps :
        deps' = [n \in DOMAIN deps \cup {k} |-> IF n = k THEN {} ELSE deps[n]]

AddDependency ==
    \E k \in DOMAIN deps : \E d \in Names : deps' = [deps EXCEPT ![k] = @ \cup {d}]

Next == AddChild \/ AddDependency

Spec == Init /\ [][Next]_deps

\* A set of keys no one of which can come first.
Cyclic(S) == S # {} /\ \A k \in S : deps[k] \cap S # {}

\* The rounds of _topological_order place every child exactly when the known
\* dependencies have no cycle, a child that depends on itself included.
OrderableIsAcyclic ==
    DependenciesKnown(deps) =>
        (Orderable(deps) <=> ~\E S \in SUBSET DOMAIN deps : Cyclic(S))

\* _topological_order lists every child in a later round than each of its
\* dependencies, and nothing it orders depends on a child it does not know.
DependenciesComeFirst ==
    Orderable(deps) =>
        /\ DependenciesKnown(deps)
        /\ \A k \in DOMAIN deps : \A d \in deps[k] : RoundOf(deps, d) < RoundOf(deps, k)
================================================================================
