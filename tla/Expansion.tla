------------------------------- MODULE Expansion -------------------------------
(***************************************************************************)
(* The pure checks a child expansion passes before anything is reserved:   *)
(* the dependency graph of the proposed children is known and acyclic, and *)
(* _topological_order lists it in rounds, every round holding the keys all *)
(* of whose dependencies earlier rounds have placed.                       *)
(*                                                                         *)
(* A proposal is abstracted to what the checks read: deps maps each        *)
(* proposed key to its dependencies.                                       *)
(***************************************************************************)
EXTENDS Naturals, FiniteSets

\* No dependency names a child outside the expansion.
DependenciesKnown(deps) ==
    \A k \in DOMAIN deps : deps[k] \subseteq DOMAIN deps

\* Mutant of PlacedAfter: a key does not wait for itself.
PlacedDespiteItself(deps) ==
    LET placed[n \in 0..Cardinality(DOMAIN deps)] ==
          IF n = 0
          THEN {}
          ELSE placed[n - 1] \cup {k \in DOMAIN deps : deps[k] \subseteq placed[n - 1] \cup {k}}
    IN  placed

\* Mutant of PlacedAfter: a key waits for one of its dependencies only.
PlacedAfterOne(deps) ==
    LET placed[n \in 0..Cardinality(DOMAIN deps)] ==
          IF n = 0
          THEN {}
          ELSE placed[n - 1] \cup
                 {k \in DOMAIN deps : deps[k] = {} \/ deps[k] \cap placed[n - 1] # {}}
    IN  placed

(***************************************************************************)
(* The while loop of _topological_order: PlacedAfter(deps)[n] is the set   *)
(* of keys n rounds have moved from `remaining` to `ordered`.  One round   *)
(* places every key left without an unplaced dependency; a self dependency *)
(* is never discharged.                                                    *)
(***************************************************************************)
PlacedAfter(deps) ==
    LET placed[n \in 0..Cardinality(DOMAIN deps)] ==
          IF n = 0
          THEN {}
          ELSE placed[n - 1] \cup {k \in DOMAIN deps : deps[k] \subseteq placed[n - 1]}
    IN  placed

\* The loop ends with nothing remaining rather than raising on a cycle.
Orderable(deps) ==
    PlacedAfter(deps)[Cardinality(DOMAIN deps)] = DOMAIN deps

\* The round that places k, for a key that some round places.
RoundOf(deps, k) ==
    CHOOSE n \in 1..Cardinality(DOMAIN deps) :
        /\ k \in PlacedAfter(deps)[n]
        /\ k \notin PlacedAfter(deps)[n - 1]
================================================================================
