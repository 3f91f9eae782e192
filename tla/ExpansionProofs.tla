---------------------------- MODULE ExpansionProofs ----------------------------
(***************************************************************************)
(* _topological_order is right for every proposal, of any size: it orders  *)
(* a proposal exactly when its dependencies have no cycle, and then every  *)
(* child comes after what it depends on.                                   *)
(*                                                                         *)
(* The rounds are a function on numbers, and the induction over them is    *)
(* made with sets: of the rounds at which a claim fails there would be a   *)
(* first one (FirstOf), at which it is shown to hold after all.            *)
(***************************************************************************)
EXTENDS MCExpansion, FiniteSetTheorems, WellFoundedInduction, TLAPS

\* A set of natural numbers that is not empty has a least one.
LEMMA FirstOf ==
  ASSUME NEW T \in SUBSET Nat, T # {}
  PROVE  \E n \in T : \A m \in T : n =< m
<1> DEFINE R == OpToRel(<, Nat)
<1>1. IsWellFoundedOn(R, Nat)
  BY NatLessThanWellFounded
<1>2. \A x, y \in Nat : <<y, x>> \in R <=> y < x
  BY DEF OpToRel
<1> HIDE DEF R
<1>3. PICK n \in T : \A m \in T : <<m, n>> \notin R
  BY <1>1, WFMin
<1>4. \A m \in T : ~(m < n)
  BY <1>2, <1>3
<1>5. \A m \in T : n =< m
  BY <1>4, SMT
<1> QED
  BY <1>5

--------------------------------------------------------------------------------
(* The rounds.                                                             *)

\* The first n rounds, as a function that is to be found.
RoundsUpTo(d, n, f) ==
    f = [i \in 0..n |-> IF i = 0 THEN {}
                        ELSE f[i - 1] \cup {k \in DOMAIN d : d[k] \subseteq f[i - 1]}]

\* Rounds that go up to a number can go on to the next.
LEMMA OneMoreRound ==
  ASSUME NEW d, NEW n \in Nat, NEW f, RoundsUpTo(d, n, f)
  PROVE  \E g : RoundsUpTo(d, n + 1, g)
<1> DEFINE g == [i \in 0..(n + 1) |->
                   IF i \in 0..n THEN f[i]
                   ELSE f[n] \cup {k \in DOMAIN d : d[k] \subseteq f[n]}]
<1>1. /\ \A i \in 0..n : g[i] = f[i]
      /\ g[n + 1] = f[n] \cup {k \in DOMAIN d : d[k] \subseteq f[n]}
      /\ n + 1 # 0 /\ (n + 1) - 1 = n
  OBVIOUS
<1>2. ASSUME NEW i \in 0..n
      PROVE  f[i] = IF i = 0 THEN {}
                    ELSE f[i - 1] \cup {k \in DOMAIN d : d[k] \subseteq f[i - 1]}
  BY Zenon DEF RoundsUpTo
<1>3. ASSUME NEW i \in 0..(n + 1)
      PROVE  g[i] = IF i = 0 THEN {}
                    ELSE g[i - 1] \cup {k \in DOMAIN d : d[k] \subseteq g[i - 1]}
  <2>1. CASE i = n + 1
    <3>1. i - 1 = n /\ i # 0 /\ n \in 0..n
      BY <2>1
    <3>2. g[i - 1] = f[n] /\ g[i] = f[n] \cup {k \in DOMAIN d : d[k] \subseteq f[n]}
      BY <1>1, <2>1, <3>1, Zenon
    <3> QED
      BY <3>1, <3>2, Zenon
  <2>2. CASE i \in 0..n
    <3>1. i # 0 => i - 1 \in 0..n
      BY <2>2
    <3>2. g[i] = f[i] /\ (i # 0 => g[i - 1] = f[i - 1])
      BY <1>1, <2>2, <3>1, Zenon
    <3> QED
      BY <1>2, <2>2, <3>2, Zenon
  <2> QED
    BY <2>1, <2>2
<1>4. g = [i \in 0..(n + 1) |-> g[i]]
  OBVIOUS
<1> HIDE DEF g
<1>5. g = [i \in 0..(n + 1) |->
             IF i = 0 THEN {} ELSE g[i - 1] \cup {k \in DOMAIN d : d[k] \subseteq g[i - 1]}]
  BY <1>3, <1>4, Zenon
<1> QED
  BY <1>5, Zenon DEF RoundsUpTo

\* The rounds exist up to any number: otherwise there is a first to which they do not.
LEMMA RoundsExist ==
  ASSUME NEW d, NEW N \in Nat
  PROVE  \E f : RoundsUpTo(d, N, f)
<1> DEFINE T == {n \in Nat : ~\E f : RoundsUpTo(d, n, f)}
<1>1. SUFFICES ASSUME T # {} PROVE FALSE
  OBVIOUS
<1>2. PICK n \in T : \A m \in T : n =< m
  BY <1>1, FirstOf
<1>3. n # 0
  <2> DEFINE f == [i \in 0..0 |-> {}]
  <2>1. \A i \in 0..0 : i = 0
    OBVIOUS
  <2>2. f = [i \in 0..0 |-> IF i = 0 THEN {}
                            ELSE f[i - 1] \cup {k \in DOMAIN d : d[k] \subseteq f[i - 1]}]
    BY <2>1, Zenon
  <2>3. RoundsUpTo(d, 0, f)
    BY <2>2, Zenon DEF RoundsUpTo
  <2> QED
    BY <2>3
<1>4. n - 1 \in Nat /\ ~(n =< n - 1) /\ (n - 1) + 1 = n
  BY <1>3
<1>5. n - 1 \notin T
  BY <1>2, <1>4
<1>6. PICK f : RoundsUpTo(d, n - 1, f)
  BY <1>4, <1>5
<1>7. \E g : RoundsUpTo(d, (n - 1) + 1, g)
  BY <1>4, <1>6, OneMoreRound
<1> QED
  BY <1>2, <1>4, <1>7

\* What PlacedAfter is: nothing is placed before the first round, and a round
\* adds the keys all of whose dependencies are placed.
LEMMA Rounds ==
  ASSUME NEW d, IsFiniteSet(DOMAIN d)
  PROVE  LET N == Cardinality(DOMAIN d)
             placed == PlacedAfter(d)
         IN  /\ N \in Nat
             /\ placed[0] = {}
             /\ \A n \in 1..N :
                   placed[n] = placed[n - 1] \cup {k \in DOMAIN d : d[k] \subseteq placed[n - 1]}
<1> DEFINE N == Cardinality(DOMAIN d)
<1> DEFINE placed == PlacedAfter(d)
<1>1. N \in Nat
  BY FS_CardinalityType
<1>2. placed = CHOOSE f : RoundsUpTo(d, N, f)
  BY DEF PlacedAfter, RoundsUpTo
<1> HIDE DEF N, placed
<1>3. RoundsUpTo(d, N, placed)
  BY <1>1, <1>2, RoundsExist
<1>4. ASSUME NEW i \in 0..N
      PROVE  placed[i] = IF i = 0 THEN {}
                         ELSE placed[i - 1] \cup {k \in DOMAIN d : d[k] \subseteq placed[i - 1]}
  BY <1>3, Zenon DEF RoundsUpTo
<1>5. 0 \in 0..N /\ \A n \in 1..N : n \in 0..N /\ n # 0
  BY <1>1
<1> QED
  BY <1>1, <1>4, <1>5, Zenon DEF N, placed


\* What is placed is a child of the proposal.
LEMMA PlacedAreChildren ==
  ASSUME NEW d, IsFiniteSet(DOMAIN d), NEW n \in 0..Cardinality(DOMAIN d)
  PROVE  PlacedAfter(d)[n] \subseteq DOMAIN d
<1> DEFINE N == Cardinality(DOMAIN d)
<1> DEFINE placed == PlacedAfter(d)
<1> DEFINE T == {i \in 0..N : ~(placed[i] \subseteq DOMAIN d)}
<1>1. /\ N \in Nat
      /\ placed[0] = {}
      /\ \A i \in 1..N : placed[i] = placed[i - 1] \cup {k \in DOMAIN d : d[k] \subseteq placed[i - 1]}
  BY Rounds
<1> HIDE DEF placed, N
<1>2. SUFFICES ASSUME T # {} PROVE FALSE
  BY DEF N, placed
<1>3. T \in SUBSET Nat
  BY <1>1
<1>4. PICK i \in T : \A j \in T : i =< j
  BY <1>2, <1>3, FirstOf
<1>5. i # 0
  BY <1>1, <1>4
<1>6. i \in 1..N /\ i - 1 \in 0..N /\ ~(i =< i - 1)
  BY <1>1, <1>4, <1>5
<1>7. placed[i - 1] \subseteq DOMAIN d
  BY <1>4, <1>6
<1>8. placed[i] = placed[i - 1] \cup {k \in DOMAIN d : d[k] \subseteq placed[i - 1]}
  BY <1>1, <1>6
<1> QED
  BY <1>4, <1>7, <1>8

\* What is placed stays placed.
LEMMA PlacedStay ==
  ASSUME NEW d, IsFiniteSet(DOMAIN d),
         NEW m \in 0..Cardinality(DOMAIN d), NEW n \in 0..Cardinality(DOMAIN d), m =< n
  PROVE  PlacedAfter(d)[m] \subseteq PlacedAfter(d)[n]
<1> DEFINE N == Cardinality(DOMAIN d)
<1> DEFINE placed == PlacedAfter(d)
<1> DEFINE T == {i \in 0..N : m =< i /\ ~(placed[m] \subseteq placed[i])}
<1>1. /\ N \in Nat
      /\ \A i \in 1..N : placed[i] = placed[i - 1] \cup {k \in DOMAIN d : d[k] \subseteq placed[i - 1]}
  BY Rounds
<1>2. m \in 0..N /\ n \in 0..N
  OBVIOUS
<1> HIDE DEF placed, N
<1>3. SUFFICES ASSUME T # {} PROVE FALSE
  BY <1>2 DEF N, placed
<1>4. T \in SUBSET Nat
  BY <1>1
<1>5. PICK i \in T : \A j \in T : i =< j
  BY <1>3, <1>4, FirstOf
<1>6. i # m
  BY <1>5
<1>7. i \in 1..N /\ i - 1 \in 0..N /\ m =< i - 1 /\ ~(i =< i - 1)
  BY <1>1, <1>2, <1>5, <1>6
<1>8. placed[m] \subseteq placed[i - 1]
  BY <1>5, <1>7
<1>9. placed[i - 1] \subseteq placed[i]
  BY <1>1, <1>7
<1> QED
  BY <1>5, <1>8, <1>9

\* A child that is placed in the end has a round that places it, and RoundOf names that round.
LEMMA RoundPlaces ==
  ASSUME NEW d, IsFiniteSet(DOMAIN d),
         NEW k \in PlacedAfter(d)[Cardinality(DOMAIN d)]
  PROVE  /\ RoundOf(d, k) \in 1..Cardinality(DOMAIN d)
         /\ k \in PlacedAfter(d)[RoundOf(d, k)]
         /\ k \notin PlacedAfter(d)[RoundOf(d, k) - 1]
<1> DEFINE N == Cardinality(DOMAIN d)
<1> DEFINE placed == PlacedAfter(d)
<1> DEFINE T == {i \in 0..N : k \in placed[i]}
<1>1. N \in Nat /\ placed[0] = {}
  BY Rounds
<1>2. k \in placed[N]
  OBVIOUS
<1>3. RoundOf(d, k) = CHOOSE n \in 1..N : k \in placed[n] /\ k \notin placed[n - 1]
  BY DEF RoundOf
<1> HIDE DEF placed, N
<1>4. T \in SUBSET Nat /\ N \in T
  BY <1>1, <1>2
<1>5. PICK i \in T : \A j \in T : i =< j
  BY <1>4, FirstOf
<1>6. i # 0
  BY <1>1, <1>5
<1>7. i \in 1..N /\ i - 1 \in 0..N /\ ~(i =< i - 1)
  BY <1>1, <1>5, <1>6
<1>8. k \in placed[i] /\ k \notin placed[i - 1]
  BY <1>5, <1>7
<1> QED
  BY <1>3, <1>7, <1>8 DEF N, placed

--------------------------------------------------------------------------------
(* Order.                                                                  *)

\* The keys that are never placed hold each other up, when all dependencies are known
\* and a round places nothing new.
LEMMA StuckIsCyclic ==
  ASSUME NEW d, IsFiniteSet(DOMAIN d), DependenciesKnown(d), NEW n \in 1..Cardinality(DOMAIN d),
         PlacedAfter(d)[n] = PlacedAfter(d)[n - 1], PlacedAfter(d)[n] # DOMAIN d
  PROVE  LET S == DOMAIN d \ PlacedAfter(d)[n]
         IN  S # {} /\ \A k \in S : d[k] \cap S # {}
<1> DEFINE placed == PlacedAfter(d)[n]
<1>1. placed = placed \cup {k \in DOMAIN d : d[k] \subseteq placed}
  <2>1. PlacedAfter(d)[n] = PlacedAfter(d)[n - 1]
                              \cup {k \in DOMAIN d : d[k] \subseteq PlacedAfter(d)[n - 1]}
    BY Rounds
  <2> QED
    BY <2>1
<1>2. placed \subseteq DOMAIN d
  <2>1. n \in 0..Cardinality(DOMAIN d)
    BY FS_CardinalityType
  <2> QED
    BY <2>1, PlacedAreChildren
<1>3. placed # DOMAIN d
  OBVIOUS
<1> HIDE DEF placed
<1>4. \A k \in DOMAIN d \ placed : d[k] \cap (DOMAIN d \ placed) # {}
  BY <1>1 DEF DependenciesKnown
<1> QED
  BY <1>2, <1>3, <1>4 DEF placed

\* As long as children are missing, every round places at least one, unless they are stuck.
LEMMA RoundsPlaceOne ==
  ASSUME NEW d, IsFiniteSet(DOMAIN d), DependenciesKnown(d),
         ~\E S \in SUBSET DOMAIN d : S # {} /\ \A k \in S : d[k] \cap S # {},
         NEW n \in 0..Cardinality(DOMAIN d)
  PROVE  PlacedAfter(d)[n] = DOMAIN d \/ Cardinality(PlacedAfter(d)[n]) >= n
<1> DEFINE N == Cardinality(DOMAIN d)
<1> DEFINE placed == PlacedAfter(d)
<1> DEFINE T == {i \in 0..N : placed[i] # DOMAIN d /\ ~(Cardinality(placed[i]) >= i)}
<1>1. /\ N \in Nat
      /\ placed[0] = {}
      /\ \A i \in 1..N : placed[i] = placed[i - 1] \cup {k \in DOMAIN d : d[k] \subseteq placed[i - 1]}
  BY Rounds
<1>2. \A i \in 0..N : placed[i] \subseteq DOMAIN d
  BY PlacedAreChildren
<1>3. \A i \in 0..N : IsFiniteSet(placed[i]) /\ Cardinality(placed[i]) \in Nat
  BY <1>2, FS_Subset, FS_CardinalityType
<1>4. \A i \in 1..N : placed[i] # DOMAIN d => placed[i] # placed[i - 1]
  <2> SUFFICES ASSUME NEW i \in 1..N, placed[i] # DOMAIN d, placed[i] = placed[i - 1]
               PROVE  FALSE
    OBVIOUS
  <2> DEFINE S == DOMAIN d \ placed[i]
  <2>1. S # {} /\ \A k \in S : d[k] \cap S # {}
    BY StuckIsCyclic
  <2> QED
    BY <2>1, Zenon
<1> HIDE DEF placed, N
<1>5. SUFFICES ASSUME T # {} PROVE FALSE
  BY DEF N, placed
<1>6. T \in SUBSET Nat
  BY <1>1
<1>7. PICK i \in T : \A j \in T : i =< j
  BY <1>5, <1>6, FirstOf
<1>8. i # 0
  BY <1>1, <1>3, <1>7, FS_EmptySet
<1>9. i \in 1..N /\ i \in 0..N /\ i - 1 \in 0..N /\ ~(i =< i - 1)
  BY <1>1, <1>7, <1>8
<1>10. placed[i] = placed[i - 1] \cup {k \in DOMAIN d : d[k] \subseteq placed[i - 1]}
  BY <1>1, <1>9
<1>11. placed[i - 1] # DOMAIN d
  BY <1>2, <1>7, <1>9, <1>10
<1>12. Cardinality(placed[i - 1]) >= i - 1
  BY <1>7, <1>9, <1>11
<1>13. placed[i - 1] \in SUBSET placed[i] /\ placed[i - 1] # placed[i]
  BY <1>4, <1>7, <1>9, <1>10
<1>14. Cardinality(placed[i - 1]) =< Cardinality(placed[i])
       /\ Cardinality(placed[i - 1]) # Cardinality(placed[i])
  BY <1>3, <1>9, <1>13, FS_Subset
<1>15. ~(Cardinality(placed[i]) >= i)
  BY <1>7
<1> QED
  BY <1>3, <1>9, <1>12, <1>14, <1>15, SMT

\* A proposal whose known dependencies have no cycle is ordered.
LEMMA AcyclicIsOrdered ==
  ASSUME NEW d, IsFiniteSet(DOMAIN d), DependenciesKnown(d),
         ~\E S \in SUBSET DOMAIN d : S # {} /\ \A k \in S : d[k] \cap S # {}
  PROVE  Orderable(d)
<1> DEFINE N == Cardinality(DOMAIN d)
<1> DEFINE all == PlacedAfter(d)[N]
<1>1. N \in Nat /\ N \in 0..N
  BY FS_CardinalityType
<1>2. all \in SUBSET DOMAIN d
  BY <1>1, PlacedAreChildren
<1>3. all = DOMAIN d \/ Cardinality(all) >= N
  BY <1>1, RoundsPlaceOne
<1>4. /\ Cardinality(all) \in Nat
      /\ Cardinality(all) =< N
      /\ N = Cardinality(all) => DOMAIN d = all
  BY <1>2, FS_Subset, FS_CardinalityType
<1> HIDE DEF all
<1>5. all = DOMAIN d
  BY <1>1, <1>3, <1>4
<1> QED
  BY <1>5 DEF Orderable, all

\* A child comes in a later round than what it depends on.
LEMMA LaterThanDependencies ==
  ASSUME NEW d, IsFiniteSet(DOMAIN d), Orderable(d), NEW k \in DOMAIN d, NEW e \in d[k]
  PROVE  /\ e \in DOMAIN d
         /\ RoundOf(d, e) < RoundOf(d, k)
<1> DEFINE N == Cardinality(DOMAIN d)
<1> DEFINE placed == PlacedAfter(d)
<1> DEFINE r == RoundOf(d, k)
<1> DEFINE q == RoundOf(d, e)
<1>1. N \in Nat /\ \A i \in 1..N :
        placed[i] = placed[i - 1] \cup {x \in DOMAIN d : d[x] \subseteq placed[i - 1]}
  BY Rounds
<1>2. placed[N] = DOMAIN d
  BY DEF Orderable
<1>3. r \in 1..N /\ k \in placed[r] /\ k \notin placed[r - 1]
  BY <1>2, RoundPlaces
<1>4. e \in placed[r - 1]
  BY <1>1, <1>3, Zenon
<1>5. r - 1 \in 0..N
  BY <1>1, <1>3
<1>6. e \in DOMAIN d
  BY <1>4, <1>5, PlacedAreChildren
<1>7. q \in 1..N /\ e \notin placed[q - 1]
  BY <1>2, <1>6, RoundPlaces
<1>8. ASSUME ~(q < r) PROVE FALSE
  <2>1. q - 1 \in 0..N /\ r - 1 =< q - 1
    BY <1>1, <1>3, <1>7, <1>8
  <2>2. placed[r - 1] \subseteq placed[q - 1]
    BY <1>5, <2>1, PlacedStay
  <2> QED
    BY <1>4, <1>7, <2>2
<1> QED
  BY <1>6, <1>8

\* Of a set of keys that hold each other up none is ever placed.
LEMMA CyclicIsNotOrdered ==
  ASSUME NEW d, IsFiniteSet(DOMAIN d), NEW S \in SUBSET DOMAIN d,
         S # {}, \A k \in S : d[k] \cap S # {}
  PROVE  ~Orderable(d)
<1> SUFFICES ASSUME Orderable(d) PROVE FALSE
  OBVIOUS
<1> DEFINE T == {RoundOf(d, k) : k \in S}
<1>1. \A k \in S : RoundOf(d, k) \in 1..Cardinality(DOMAIN d)
  BY RoundPlaces DEF Orderable
<1>2. T \in SUBSET Nat /\ T # {}
  <2>1. 1..Cardinality(DOMAIN d) \subseteq Nat
    BY FS_CardinalityType
  <2> QED
    BY <1>1, <2>1, Zenon
<1>3. PICK n \in T : \A m \in T : n =< m
  BY <1>2, FirstOf
<1>4. PICK k \in S : n = RoundOf(d, k)
  BY <1>3
<1>5. PICK e \in S : e \in d[k]
  BY <1>4
<1>6. RoundOf(d, e) < n
  BY <1>4, <1>5, LaterThanDependencies
<1>7. n =< RoundOf(d, e) /\ n \in Nat /\ RoundOf(d, e) \in Nat
  BY <1>2, <1>3, <1>5
<1> QED
  BY <1>6, <1>7, SMT

--------------------------------------------------------------------------------
(* Every proposal over a finite set of names.                              *)

\* A proposal is of finitely many children, all of them named.
ProposalInv ==
    /\ DOMAIN deps \subseteq Names
    /\ IsFiniteSet(DOMAIN deps)

\* Every proposal that can be built has finitely many children.
LEMMA ProposalsAreFinite == Spec => []ProposalInv
<1>1. Init => ProposalInv
  <2>1. DOMAIN << >> = {}
    OBVIOUS
  <2> QED
    BY <2>1, FS_EmptySet, Zenon DEF Init, ProposalInv
<1>2. ProposalInv /\ [Next]_deps => ProposalInv'
  <2> SUFFICES ASSUME ProposalInv, [Next]_deps PROVE ProposalInv'
    OBVIOUS
  <2>1. CASE AddChild
    <3>1. PICK k \in Names \ DOMAIN deps :
             deps' = [n \in DOMAIN deps \cup {k} |-> IF n = k THEN {} ELSE deps[n]]
      BY <2>1 DEF AddChild
    <3> DEFINE more == [n \in DOMAIN deps \cup {k} |-> IF n = k THEN {} ELSE deps[n]]
    <3>2. deps' = more /\ DOMAIN more = DOMAIN deps \cup {k}
      BY <3>1
    <3> HIDE DEF more
    <3>3. DOMAIN deps' = DOMAIN deps \cup {k}
      BY <3>2
    <3> QED
      BY <3>1, <3>3, FS_AddElement DEF ProposalInv
  <2>2. CASE AddDependency
    <3>1. DOMAIN deps' = DOMAIN deps
      BY <2>2 DEF AddDependency
    <3> QED
      BY <3>1 DEF ProposalInv
  <2>3. CASE UNCHANGED deps
    BY <2>3 DEF ProposalInv
  <2> QED
    BY <2>1, <2>2, <2>3 DEF Next
<1> QED
  BY <1>1, <1>2, PTL DEF Spec

\* _topological_order places every child of a proposal exactly when its known
\* dependencies have no cycle: the loop neither refuses a proposal that could be
\* ordered nor orders one that could not.
THEOREM AcyclicAreOrdered == Spec => []OrderableIsAcyclic
<1>1. ProposalInv => OrderableIsAcyclic
  <2> SUFFICES ASSUME ProposalInv, DependenciesKnown(deps)
               PROVE  Orderable(deps) <=> ~\E S \in SUBSET DOMAIN deps : Cyclic(S)
    BY DEF OrderableIsAcyclic
  <2>1. IsFiniteSet(DOMAIN deps)
    BY DEF ProposalInv
  <2>2. ASSUME ~\E S \in SUBSET DOMAIN deps : Cyclic(S)
        PROVE  Orderable(deps)
    <3>1. ~\E S \in SUBSET DOMAIN deps : S # {} /\ \A k \in S : deps[k] \cap S # {}
      BY <2>2, Zenon DEF Cyclic
    <3> QED
      BY <2>1, <3>1, AcyclicIsOrdered, Zenon
  <2>3. ASSUME NEW S \in SUBSET DOMAIN deps, Cyclic(S)
        PROVE  ~Orderable(deps)
    BY <2>1, <2>3, CyclicIsNotOrdered DEF Cyclic
  <2> QED
    BY <2>2, <2>3
<1> QED
  BY <1>1, ProposalsAreFinite, PTL

\* In the order every child comes in a later round than each of its dependencies,
\* all of which are children of the proposal.
THEOREM OrderRespectsDependencies == Spec => []DependenciesComeFirst
<1>1. ProposalInv => DependenciesComeFirst
  <2> SUFFICES ASSUME ProposalInv, Orderable(deps)
               PROVE  /\ DependenciesKnown(deps)
                      /\ \A k \in DOMAIN deps : \A e \in deps[k] : RoundOf(deps, e) < RoundOf(deps, k)
    BY DEF DependenciesComeFirst
  <2>1. IsFiniteSet(DOMAIN deps)
    BY DEF ProposalInv
  <2>2. \A k \in DOMAIN deps : \A e \in deps[k] : e \in DOMAIN deps /\ RoundOf(deps, e) < RoundOf(deps, k)
    BY <2>1, LaterThanDependencies
  <2> QED
    BY <2>2 DEF DependenciesKnown
<1> QED
  BY <1>1, ProposalsAreFinite, PTL

================================================================================
