--------------------------- MODULE FiltersProofs ---------------------------
(***************************************************************************)
(* Proofs about the smaller filters, the parts all of them share and the   *)
(* programs around the library, for every value of the constants. Each     *)
(* part has its inductive invariant, which the part's Init implies and     *)
(* each of its steps keeps; a step of SpecFilters is a step of one part    *)
(* that leaves the variables of the others alone, so that all of them hold *)
(* together. Induction over numbers and finite sets is stated for a set of *)
(* those that have the property (NatSets, FiniteSubsets).                  *)
(***************************************************************************)
EXTENDS MCFilters, SequenceTheorems, FiniteSetTheorems, WellFoundedInduction, TLAPS

(* Induction over a set: sets of numbers and of finite sets *)

\* A set of numbers with 0 in it and with every successor is all of them.
LEMMA NatSets ==
  ASSUME NEW holding, 0 \in holding, \A n \in Nat : n \in holding => n + 1 \in holding
  PROVE  Nat \subseteq holding
<1> DEFINE missing == {n \in Nat : n \notin holding}
           less == OpToRel(<, Nat)
<1> SUFFICES ASSUME missing # {} PROVE FALSE
  OBVIOUS
<1>1. IsWellFoundedOn(less, Nat)
  BY NatLessThanWellFounded
<1>2. PICK n \in missing : \A m \in missing : ~(<<m, n>> \in less)
  <2> HIDE DEF less
  <2>1. missing \subseteq Nat
    OBVIOUS
  <2> HIDE DEF missing
  <2> QED BY <1>1, <2>1, WFMin
<1>3. n \in Nat /\ n \notin holding
  OBVIOUS
<1>4. n - 1 \in Nat /\ n - 1 + 1 = n
  <2>1. n # 0
    BY <1>3
  <2> HIDE DEF less
  <2> QED BY <1>3, <2>1
<1>5. n - 1 \in missing
  BY <1>3, <1>4
<1>6. <<n - 1, n>> \in less
  BY <1>3, <1>4 DEF OpToRel
<1> QED BY <1>2, <1>5, <1>6

\* A set that has the empty set and that has, with a part of set, the part with one element
\* of set more, has set.
LEMMA FiniteSubsets ==
  ASSUME NEW set, IsFiniteSet(set), NEW holding,
         {} \in holding,
         \A A \in SUBSET set, x \in set : A \in holding /\ x \notin A => A \cup {x} \in holding
  PROVE  set \in holding
<1> DEFINE N == {n \in Nat : \A A \in SUBSET set : Cardinality(A) = n => A \in holding}
<1>1. 0 \in N
  <2>1. \A A \in SUBSET set : Cardinality(A) = 0 => A = {}
    BY FS_EmptySet, FS_Subset
  <2> QED BY <2>1
<1>2. ASSUME NEW n \in Nat, n \in N PROVE n + 1 \in N
  <2> SUFFICES ASSUME NEW A \in SUBSET set, Cardinality(A) = n + 1 PROVE A \in holding
    OBVIOUS
  <2>1. IsFiniteSet(A)
    BY FS_Subset
  <2>2. PICK x \in A : TRUE
    BY <2>1, FS_EmptySet
  <2>3. Cardinality(A \ {x}) = Cardinality(A) - 1
    BY <2>1, FS_RemoveElement
  <2>4. Cardinality(A \ {x}) = n
    BY <2>3
  <2>5. A \ {x} \in holding
    BY <1>2, <2>4
  <2>6. (A \ {x}) \cup {x} = A /\ A \ {x} \in SUBSET set /\ x \in set /\ x \notin A \ {x}
    OBVIOUS
  <2> QED BY <2>5, <2>6
<1>3. Nat \subseteq N
  <2> HIDE DEF N
  <2> QED BY <1>1, <1>2, NatSets
<1>4. Cardinality(set) \in Nat
  BY FS_CardinalityType
<1> QED BY <1>3, <1>4

-----------------------------------------------------------------------------
(* Sums over finite sets *)

\* What the sets X[f], of which there is one for each f of A, have together.
Spread(X, A) == UNION {{f} \X X[f] : f \in A}

\* One of the sets after another, the sizes add up.
LEMMA SpreadAdded ==
  ASSUME NEW A, IsFiniteSet(A), NEW X, \A f \in A : IsFiniteSet(X[f])
  PROVE  /\ IsFiniteSet(Spread(X, A))
         /\ \A f \in A :
              Cardinality(Spread(X, A)) = Cardinality(X[f]) + Cardinality(Spread(X, A \ {f}))
<1> DEFINE finite == {s \in SUBSET A : IsFiniteSet(Spread(X, s))}
<1>1. {} \in finite
  <2>1. Spread(X, {}) = {}
    BY DEF Spread
  <2> QED BY <2>1, FS_EmptySet
<1>2. ASSUME NEW f \in A
      PROVE  IsFiniteSet({f} \X X[f]) /\ Cardinality({f} \X X[f]) = Cardinality(X[f])
  <2>1. IsFiniteSet({f}) /\ Cardinality({f}) = 1 /\ Cardinality(X[f]) \in Nat
    BY FS_Singleton, FS_CardinalityType
  <2>2. 1 * Cardinality(X[f]) = Cardinality(X[f])
    BY <2>1
  <2> QED BY <2>1, <2>2, FS_Product, SMTT(30)
<1>3. \A s \in SUBSET A, f \in A : Spread(X, s \cup {f}) = Spread(X, s) \cup ({f} \X X[f])
  BY DEF Spread
<1>4. ASSUME NEW s \in SUBSET A, NEW f \in A, s \in finite PROVE s \cup {f} \in finite
  <2>1. IsFiniteSet(Spread(X, s) \cup ({f} \X X[f]))
    BY <1>2, <1>4, FS_Union
  <2> QED BY <1>3, <2>1
<1>5. A \in finite
  <2> HIDE DEF finite
  <2> QED BY <1>1, <1>4, FiniteSubsets
<1>6. ASSUME NEW f \in A
      PROVE  Cardinality(Spread(X, A)) = Cardinality(X[f]) + Cardinality(Spread(X, A \ {f}))
  <2> DEFINE other == Spread(X, A \ {f})
             own == {f} \X X[f]
  <2>1. (A \ {f}) \cup {f} = A /\ A \ {f} \in SUBSET A
    OBVIOUS
  <2>2. Spread(X, A) = other \cup own
    BY <1>3, <2>1
  <2>3. other \cap own = {}
    BY DEF Spread
  <2>4. IsFiniteSet(other)
    <3>1. other \subseteq Spread(X, A)
      BY <2>2
    <3> QED BY <1>5, <3>1, FS_Subset
  <2>5. IsFiniteSet(own) /\ Cardinality(own) = Cardinality(X[f])
    BY <1>2
  <2> HIDE DEF other, own
  <2>6. Cardinality(other \cup own) = Cardinality(other) + Cardinality(own) - Cardinality({})
    BY <2>3, <2>4, <2>5, FS_Union
  <2>7. Cardinality({}) = 0 /\ Cardinality(other) \in Nat /\ Cardinality(own) \in Nat
    BY <2>4, <2>5, FS_EmptySet, FS_CardinalityType
  <2>8. Cardinality(Spread(X, A)) = Cardinality(X[f]) + Cardinality(other)
    BY <2>2, <2>5, <2>6, <2>7
  <2> QED BY <2>8 DEF other
<1> QED BY <1>5, <1>6

\* The nodes of the fingers of A, if those of f are numbered from 1 to n[f].
NodesOf(n, A) == UNION {{f} \X (1 .. n[f]) : f \in A}

LEMMA NodesAdded ==
  ASSUME NEW A, IsFiniteSet(A), NEW n, \A f \in A : n[f] \in Nat
  PROVE  /\ IsFiniteSet(NodesOf(n, A))
         /\ \A f \in A :
              Cardinality(NodesOf(n, A)) = n[f] + Cardinality(NodesOf(n, A \ {f}))
<1> DEFINE X == [f \in A |-> 1 .. n[f]]
<1>1. \A f \in A : IsFiniteSet(X[f]) /\ Cardinality(X[f]) = n[f]
  BY FS_Interval
<1>2. ASSUME NEW s \in SUBSET A PROVE NodesOf(n, s) = Spread(X, s)
  BY DEF NodesOf, Spread
<1>3. A \in SUBSET A /\ \A f \in A : A \ {f} \in SUBSET A
  OBVIOUS
<1> HIDE DEF X
<1>4. /\ IsFiniteSet(Spread(X, A))
      /\ \A f \in A :
           Cardinality(Spread(X, A)) = Cardinality(X[f]) + Cardinality(Spread(X, A \ {f}))
  BY <1>1, SpreadAdded
<1>5. Spread(X, A) = NodesOf(n, A) /\ \A f \in A : Spread(X, A \ {f}) = NodesOf(n, A \ {f})
  BY <1>2, <1>3
<1> QED BY <1>1, <1>4, <1>5

\* The sum of n over A, as the library has it.
SumOf(n, A) ==
  (CHOOSE sum : sum = [s \in SUBSET A |->
     IF s = {} THEN 0 ELSE n[CHOOSE x \in s : TRUE] + sum[s \ {CHOOSE x \in s : TRUE}]])[A]

\* Of every part of A, count is the sum, whichever element is added last.
AddsUp(count, n, A) ==
  /\ count \in [SUBSET A -> Int] /\ count[{}] = 0
  /\ \A s \in SUBSET A : \A f \in s : count[s] = n[f] + count[s \ {f}]

LEMMA SumIsCount ==
  ASSUME NEW A, IsFiniteSet(A), NEW n, NEW count, AddsUp(count, n, A)
  PROVE  SumOf(n, A) = count[A]
<1>0. /\ count \in [SUBSET A -> Int] /\ count[{}] = 0
      /\ \A s \in SUBSET A : \A f \in s : count[s] = n[f] + count[s \ {f}]
  BY DEF AddsUp
<1> DEFINE Of(sum, s) == IF s = {} THEN 0
                         ELSE n[CHOOSE x \in s : TRUE] + sum[s \ {CHOOSE x \in s : TRUE}]
           Sums(sum) == sum = [s \in SUBSET A |-> Of(sum, s)]
<1>1. SumOf(n, A) = (CHOOSE sum : Sums(sum))[A]
  BY DEF SumOf
<1>2. ASSUME NEW s \in SUBSET A, s # {}
      PROVE  LET x == CHOOSE x \in s : TRUE
             IN x \in s /\ count[s] = n[x] + count[s \ {x}]
  <2> DEFINE x == CHOOSE x \in s : TRUE
  <2>1. x \in s
    BY <1>2
  <2> HIDE DEF x
  <2>2. count[s] = n[x] + count[s \ {x}]
    BY <1>0, <2>1
  <2> USE DEF x
  <2> QED BY <2>1, <2>2
<1>3. Sums(count)
  <2>1. ASSUME NEW s \in SUBSET A PROVE count[s] = Of(count, s)
    BY <1>0, <1>2
  <2> HIDE DEF Of
  <2> QED BY <1>0, <2>1
<1>4. ASSUME NEW sum, Sums(sum) PROVE sum[A] = count[A]
  <2> DEFINE N == {k \in Nat : \A s \in SUBSET A : Cardinality(s) = k => sum[s] = count[s]}
  <2>1. \A s \in SUBSET A : sum[s] = Of(sum, s)
    <3> HIDE DEF Of
    <3> QED BY <1>4
  <2>2. 0 \in N
    <3>1. \A s \in SUBSET A : Cardinality(s) = 0 => s = {}
      BY FS_EmptySet, FS_Subset
    <3>2. sum[{}] = 0
      BY <2>1
    <3> QED BY <1>0, <3>1, <3>2
  <2>3. ASSUME NEW k \in Nat, k \in N PROVE k + 1 \in N
    <3>0. k + 1 \in Nat
      OBVIOUS
    <3> SUFFICES ASSUME NEW s \in SUBSET A, Cardinality(s) = k + 1 PROVE sum[s] = count[s]
      BY <3>0, Zenon
    <3> DEFINE x == CHOOSE x \in s : TRUE
    <3>1. IsFiniteSet(s) /\ s # {}
      BY FS_Subset, FS_EmptySet
    <3>2. x \in s /\ count[s] = n[x] + count[s \ {x}]
      BY <1>2, <3>1
    <3>3. sum[s] = n[x] + sum[s \ {x}]
      BY <2>1, <3>1
    <3> HIDE DEF x
    <3>4. Cardinality(s \ {x}) = Cardinality(s) - 1
      BY <3>1, <3>2, FS_RemoveElement
    <3>5. Cardinality(s \ {x}) = k /\ s \ {x} \in SUBSET A
      BY <3>4
    <3>6. sum[s \ {x}] = count[s \ {x}]
      BY <2>3, <3>5
    <3> QED BY <3>2, <3>3, <3>6
  <2>4. Nat \subseteq N
    <3> HIDE DEF N
    <3> QED BY <2>2, <2>3, NatSets
  <2>5. Cardinality(A) \in Nat
    BY FS_CardinalityType
  <2> HIDE DEF Sums
  <2> QED BY <2>4, <2>5
<1> HIDE DEF Sums
<1>5. Sums(CHOOSE sum : Sums(sum))
  BY <1>3
<1> QED BY <1>1, <1>4, <1>5

LEMMA SumIsNodes ==
  ASSUME NEW A, IsFiniteSet(A), NEW n, \A f \in A : n[f] \in Nat
  PROVE  SumOf(n, A) = Cardinality(NodesOf(n, A))
<1> DEFINE count == [s \in SUBSET A |-> Cardinality(NodesOf(n, s))]
<1>1. count[{}] = 0
  <2>1. NodesOf(n, {}) = {}
    BY DEF NodesOf
  <2> QED BY <2>1, FS_EmptySet
<1>2. ASSUME NEW s \in SUBSET A, NEW f \in s PROVE count[s] = n[f] + count[s \ {f}]
  <2>1. IsFiniteSet(s) /\ \A g \in s : n[g] \in Nat
    BY FS_Subset
  <2>2. Cardinality(NodesOf(n, s)) = n[f] + Cardinality(NodesOf(n, s \ {f}))
    BY <2>1, NodesAdded
  <2> QED BY <2>2
<1>3. count \in [SUBSET A -> Int] /\ count[A] = Cardinality(NodesOf(n, A))
  <2>1. ASSUME NEW s \in SUBSET A PROVE Cardinality(NodesOf(n, s)) \in Int
    <3>1. IsFiniteSet(NodesOf(n, s))
      BY FS_Subset, NodesAdded
    <3> QED BY <3>1, FS_CardinalityType
  <2> QED BY <2>1
<1> HIDE DEF count
<1>4. AddsUp(count, n, A)
  BY <1>1, <1>2, <1>3 DEF AddsUp
<1>5. SumOf(n, A) = count[A]
  BY <1>4, SumIsCount
<1> QED BY <1>3, <1>5

\* Numbers from 0 on may be summed up in any order.
LEMMA SumPeeled ==
  ASSUME NEW A, IsFiniteSet(A), NEW n, \A f \in A : n[f] \in Nat
  PROVE  /\ SumOf(n, A) \in Nat
         /\ \A f \in A : SumOf(n, A) = n[f] + SumOf(n, A \ {f})
         /\ \A m : (\A f \in A : m[f] = n[f]) => SumOf(m, A) = SumOf(n, A)
         /\ (\A f \in A : n[f] = 0) => SumOf(n, A) = 0
<1>1. SumOf(n, A) = Cardinality(NodesOf(n, A)) /\ IsFiniteSet(NodesOf(n, A))
  BY SumIsNodes, NodesAdded
<1>2. SumOf(n, A) \in Nat
  BY <1>1, FS_CardinalityType
<1>3. ASSUME NEW f \in A PROVE SumOf(n, A) = n[f] + SumOf(n, A \ {f})
  <2>1. IsFiniteSet(A \ {f}) /\ \A g \in A \ {f} : n[g] \in Nat
    BY FS_Subset
  <2>2. SumOf(n, A \ {f}) = Cardinality(NodesOf(n, A \ {f}))
    BY <2>1, SumIsNodes
  <2> QED BY <1>1, <2>2, NodesAdded
<1>4. ASSUME NEW m, \A f \in A : m[f] = n[f] PROVE SumOf(m, A) = SumOf(n, A)
  <2>1. SumOf(m, A) = Cardinality(NodesOf(m, A))
    BY <1>4, SumIsNodes
  <2>2. NodesOf(m, A) = NodesOf(n, A)
    BY <1>4 DEF NodesOf
  <2> QED BY <1>1, <2>1, <2>2
<1>5. ASSUME \A f \in A : n[f] = 0 PROVE SumOf(n, A) = 0
  <2>1. NodesOf(n, A) = {}
    <3>1. \A f \in A : {f} \X (1 .. n[f]) = {}
      BY <1>5
    <3> QED BY <3>1 DEF NodesOf
  <2> QED BY <1>1, <2>1, FS_EmptySet
<1> QED BY <1>2, <1>3, <1>4, <1>5

-----------------------------------------------------------------------------
\* A palm with no palm's pressure has rested for long, and a finger that has been away from
\* the edge can no longer be taken for a palm at rest: it has been told apart from one, or
\* has been there for too long to be judged.
PalmsHaveRested == \A f \in palm : max_pressure[f] = 0 => age[f] > StationaryTime

EdgeIsRemembered ==
  \A f \in fingers_not_in_edge \ unjudged :
    max_pressure[f] = 0 => f \in non_stationary_palm \/ age[f] > StationaryTime

PalmInv == TypeOK /\ PalmsDoNotPoint /\ PalmsHaveRested /\ EdgeIsRemembered

\* Ages are bounded, do not fall, and stay beyond the time for palms at rest.
LEMMA Ages ==
  ASSUME NEW a \in 0 .. AgeCap, NEW dt \in 0 .. MaxStep
  PROVE  /\ Older(a, dt) \in 0 .. AgeCap
         /\ a > StationaryTime => Older(a, dt) > StationaryTime
BY TimesAssumption DEF Older, AgeCap

LEMMA AgeCapIsNat == AgeCap \in Nat
BY TimesAssumption DEF AgeCap

LEMMA PalmInit == Init => PalmInv
<1> SUFFICES ASSUME Init PROVE PalmInv
  OBVIOUS
<1>1. PalmsDoNotPoint /\ PalmsHaveRested /\ EdgeIsRemembered
  BY DEF Init, PalmsDoNotPoint, PalmsHaveRested, EdgeIsRemembered
<1>2. age \in [present -> 0 .. AgeCap]
  BY DEF Init
<1>3. max_pressure \in [present -> Pressures]
  BY DEF Init
<1>4. others \in 0 .. MaxOthers
  BY IdsAssumption DEF Init
<1> QED BY <1>1, <1>2, <1>3, <1>4 DEF Init, PalmInv, TypeOK

\* What every state does to the fingers' ages and pressures.
LEMMA Filled ==
  ASSUME TypeOK,
         NEW new \in SUBSET Ids, NEW dt \in 0 .. MaxStep, NEW pressure \in [new -> Pressures],
         age' = FillOriginInfo(new, dt),
         max_pressure' = FillMaxPressureWidthInfo(new, pressure)
  PROVE  /\ age' \in [new -> 0 .. AgeCap]
         /\ max_pressure' \in [new -> Pressures]
         /\ \A f \in new : max_pressure'[f] = 0 => pressure[f] = 0
         /\ \A f \in new \cap present :
              /\ max_pressure'[f] = 0 => max_pressure[f] = 0
              /\ age[f] > StationaryTime => age'[f] > StationaryTime
<1>1. age' \in [new -> 0 .. AgeCap]
  BY Ages, AgeCapIsNat DEF FillOriginInfo, TypeOK
<1>2. max_pressure' \in [new -> Pressures]
  BY DEF FillMaxPressureWidthInfo, TypeOK
<1>3. ASSUME NEW f \in new, max_pressure'[f] = 0 PROVE pressure[f] = 0
  BY <1>3 DEF FillMaxPressureWidthInfo, TypeOK, Pressures
<1>4. ASSUME NEW f \in new \cap present
      PROVE  /\ max_pressure'[f] = 0 => max_pressure[f] = 0
             /\ age[f] > StationaryTime => age'[f] > StationaryTime
  <2>1. max_pressure'[f] = 0 => max_pressure[f] = 0
    BY DEF FillMaxPressureWidthInfo, TypeOK, Pressures
  <2>2. age'[f] = Older(age[f], dt) /\ age[f] \in 0 .. AgeCap
    BY DEF FillOriginInfo, TypeOK
  <2> QED BY <2>1, <2>2, Ages
<1> QED BY <1>1, <1>2, <1>3, <1>4

\* What the two branches of a state have in common.
FilledStep(new, dt, pressure) ==
  /\ present' = new
  /\ age' = FillOriginInfo(new, dt)
  /\ max_pressure' = FillMaxPressureWidthInfo(new, pressure)

LEMMA SkipKeepsInv ==
  ASSUME PalmInv,
         NEW new \in SUBSET Ids, NEW dt \in 0 .. MaxStep, NEW pressure \in [new -> Pressures],
         NEW reads \in BOOLEAN,
         FilledStep(new, dt, pressure), SkipUpdate(new),
         others' \in 0 .. MaxOthers, started' = TRUE,
         unjudged' = IF reads THEN unjudged \cap new ELSE new
  PROVE  PalmInv'
<1> USE DEF PalmInv, FilledStep
<1>1. /\ age' \in [new -> 0 .. AgeCap] /\ max_pressure' \in [new -> Pressures]
      /\ \A f \in new \cap present :
              /\ max_pressure'[f] = 0 => max_pressure[f] = 0
              /\ age[f] > StationaryTime => age'[f] > StationaryTime
  BY Filled
<1>2. TypeOK'
  BY <1>1 DEF TypeOK, SkipUpdate
<1>3. PalmsDoNotPoint'
  BY DEF PalmsDoNotPoint, SkipUpdate
<1>4. PalmsHaveRested'
  BY <1>1 DEF PalmsHaveRested, SkipUpdate, TypeOK
<1>5. EdgeIsRemembered'
  BY <1>1 DEF EdgeIsRemembered, SkipUpdate, TypeOK
<1> QED BY <1>2, <1>3, <1>4, <1>5

\* What UpdatePalmState makes of the sets, by the names its definition has for the steps.
UpdateTo(new, pressure, p, reads, palms, loose, open, stationary) ==
  /\ palms = (palm \cap new) \cup {f \in new : pressure[f] > 0}
  /\ loose = new \ Locked(palms, p)
  /\ open = {f \in loose : /\ f \notin non_stationary_palm
                          /\ IF f \in present THEN age[f] <= StationaryTime ELSE reads}
  /\ stationary = {f \in open \ (NonStationary(open, p) \cup p.near) : age'[f] > StationaryTime}
  /\ palm' = Locked(palms, p) \cup stationary
  /\ pointing' =
       NoLongerPointing(Pointing(loose, (pointing \cap new) \ {f \in new : pressure[f] > 0}, p),
                        stationary)
  /\ non_stationary_palm' = (non_stationary_palm \cap new) \cup NonStationary(open, p)
  /\ was_near_other_fingers' = (was_near_other_fingers \cap new) \cup (p.near \cap loose)
  /\ fingers_not_in_edge' = (fingers_not_in_edge \cap new) \cup (new \ p.edge)

LEMMA PalmsAfter ==
  ASSUME NEW new, NEW pressure, NEW p, NEW reads, UpdatePalmState(new, pressure, p, reads)
  PROVE  \E palms, loose, open, stationary :
           UpdateTo(new, pressure, p, reads, palms, loose, open, stationary)
BY Zenon DEF UpdatePalmState, UpdateTo

LEMMA UpdateKeepsInv ==
  ASSUME PalmInv,
         NEW new \in SUBSET Ids, NEW dt \in 0 .. MaxStep, NEW pressure \in [new -> Pressures],
         NEW reads \in BOOLEAN, NEW p \in Places(new),
         FilledStep(new, dt, pressure), UpdatePalmState(new, pressure, p, reads),
         others' \in 0 .. MaxOthers, started' = TRUE,
         unjudged' = IF reads THEN unjudged \cap new ELSE new
  PROVE  /\ PalmInv'
         /\ \A f \in (pointing \cap fingers_not_in_edge \cap present') \ unjudged :
              max_pressure'[f] = 0 /\ age'[f] >= EvalTimeout => f \notin MayBeFlagged'
<1> USE DEF PalmInv, FilledStep
<1>1. /\ age' \in [new -> 0 .. AgeCap] /\ max_pressure' \in [new -> Pressures]
      /\ \A f \in new : max_pressure'[f] = 0 => pressure[f] = 0
      /\ \A f \in new \cap present :
              /\ max_pressure'[f] = 0 => max_pressure[f] = 0
              /\ age[f] > StationaryTime => age'[f] > StationaryTime
  BY Filled
<1> DEFINE pressed == {f \in new : pressure[f] > 0}
<1>1a. PICK palms, loose, open, stationary :
           UpdateTo(new, pressure, p, reads, palms, loose, open, stationary)
  BY PalmsAfter
<1>2. /\ palms = (palm \cap new) \cup pressed
      /\ loose = new \ Locked(palms, p)
      /\ open = {f \in loose : /\ f \notin non_stationary_palm
                              /\ IF f \in present THEN age[f] <= StationaryTime ELSE reads}
      /\ stationary = {f \in open \ (NonStationary(open, p) \cup p.near) :
                         age'[f] > StationaryTime}
      /\ palm' = Locked(palms, p) \cup stationary
      /\ pointing' =
           Pointing(loose, (pointing \cap new) \ pressed, p) \ stationary
      /\ non_stationary_palm' = (non_stationary_palm \cap new) \cup NonStationary(open, p)
      /\ was_near_other_fingers' = (was_near_other_fingers \cap new) \cup (p.near \cap loose)
      /\ fingers_not_in_edge' = (fingers_not_in_edge \cap new) \cup (new \ p.edge)
  BY <1>1a, Zenon DEF UpdateTo, NoLongerPointing
<1>3. /\ p.edge \subseteq new /\ p.near \subseteq new
      /\ NonStationary(open, p) = {f \in open : f \in p.moved \/ f \notin p.edge}
      /\ Locked(palms, p) = {f \in palms : max_pressure'[f] = 2 \/ f \notin p.far}
  BY DEF Places, NonStationary, Locked
<1>4. Pointing(loose, (pointing \cap new) \ pressed, p) \subseteq loose
  BY DEF Pointing
<1>5. TypeOK'
  <2>1. palm' \cup pointing' \cup non_stationary_palm' \cup was_near_other_fingers' \cup
        fingers_not_in_edge' \cup unjudged' \subseteq new
    <3>1. palms \subseteq new /\ Locked(palms, p) \subseteq palms /\ loose \subseteq new
      BY <1>2, <1>3
    <3>2. /\ open \subseteq loose /\ NonStationary(open, p) \subseteq open
          /\ stationary \subseteq open
      BY <1>2, <1>3
    <3>3. unjudged' \subseteq new
      OBVIOUS
    <3>4. palm' \subseteq new
      BY <3>1, <3>2, <1>2
    <3>5. pointing' \subseteq new
      BY <3>1, <1>2, <1>4
    <3>6. non_stationary_palm' \subseteq new
      BY <3>1, <3>2, <1>2
    <3>7. was_near_other_fingers' \subseteq new /\ fingers_not_in_edge' \subseteq new
      BY <1>2, <1>3
    <3> QED BY <3>3, <3>4, <3>5, <3>6, <3>7
  <2> QED BY <1>1, <2>1 DEF TypeOK
<1>6. PalmsDoNotPoint'
  BY <1>2, <1>4 DEF PalmsDoNotPoint
<1>7. PalmsHaveRested'
  <2> SUFFICES ASSUME NEW f \in palm', max_pressure'[f] = 0
               PROVE  age'[f] > StationaryTime
    BY DEF PalmsHaveRested
  <2>1. CASE f \in stationary
    BY <2>1, <1>2
  <2>2. CASE f \in Locked(palms, p)
    <3>1. f \in palm \cap new
      BY <2>2, <1>1, <1>2, <1>3
    <3> QED BY <3>1, <1>1 DEF PalmsHaveRested, TypeOK
  <2> QED BY <2>1, <2>2, <1>2
<1>8. EdgeIsRemembered'
  <2> SUFFICES ASSUME NEW f \in fingers_not_in_edge', f \notin unjudged', max_pressure'[f] = 0
               PROVE  f \in non_stationary_palm' \/ age'[f] > StationaryTime
    BY DEF EdgeIsRemembered
  <2>1. f \in new /\ reads /\ f \notin unjudged
    BY <1>2
  <2>2. CASE f \in fingers_not_in_edge
    BY <2>1, <2>2, <1>1, <1>2 DEF EdgeIsRemembered, TypeOK
  <2>3. CASE f \in new \ p.edge /\ f \in loose
    <3>1. CASE f \in open
      BY <2>3, <3>1, <1>2, <1>3
    <3>2. CASE f \notin open
      <4>1. f \in non_stationary_palm \/ (f \in present /\ ~(age[f] <= StationaryTime))
        BY <2>1, <2>3, <3>2, <1>2
      <4>2. f \in present => age[f] \in Int
        BY DEF TypeOK
      <4> QED BY <4>1, <4>2, <2>1, <1>1, <1>2, TimesAssumption
    <3> QED BY <3>1, <3>2
  <2>4. CASE f \notin loose
    <3>1. f \in palm \cap new
      BY <2>1, <2>4, <1>1, <1>2, <1>3
    <3> QED BY <3>1, <1>1 DEF PalmsHaveRested, TypeOK
  <2> QED BY <2>2, <2>3, <2>4, <1>2
<1>9. ASSUME NEW f \in (pointing \cap fingers_not_in_edge \cap present') \ unjudged,
             max_pressure'[f] = 0, age'[f] >= EvalTimeout
      PROVE  f \notin MayBeFlagged'
  <2>1. f \in new /\ f \in present /\ f \notin palm
    BY <1>9 DEF TypeOK, PalmsDoNotPoint
  <2>2. f \notin pressed
    BY <2>1, <1>9, <1>1
  <2>3. f \in loose /\ f \notin Locked(palms, p)
    BY <2>1, <2>2, <1>2, <1>3
  <2>4. f \in non_stationary_palm \/ age[f] > StationaryTime
    BY <1>9, <2>1, <1>1 DEF EdgeIsRemembered
  <2>5. age[f] \in Int
    BY <2>1 DEF TypeOK
  <2>6. f \notin open
    BY <2>1, <2>4, <2>5, <1>2, TimesAssumption
  <2>7. f \in Pointing(loose, (pointing \cap new) \ pressed, p)
    BY <1>9, <2>1, <2>2, <2>3 DEF Pointing
  <2>8. f \in pointing' /\ f \notin palm'
    BY <2>3, <2>6, <2>7, <1>2
  <2> QED BY <2>8 DEF MayBeFlagged
<1> QED BY <1>5, <1>6, <1>7, <1>8, <1>9

\* A step keeps the invariant and lets a finger that points go on.
LEMMA PalmStep ==
  ASSUME PalmInv, [Next]_vars
  PROVE  /\ PalmInv'
         /\ \A f \in (pointing \cap fingers_not_in_edge \cap present') \ unjudged :
              \/ max_pressure'[f] = 0 /\ age'[f] >= EvalTimeout => f \notin MayBeFlagged'
              \/ UNCHANGED vars
<1>1. CASE UNCHANGED vars
  <2>1. PalmInv'
    BY <1>1 DEF PalmInv, TypeOK, PalmsDoNotPoint, PalmsHaveRested, EdgeIsRemembered, vars, sets
  <2> QED BY <1>1, <2>1
<1>2. CASE Next
  <2>1. PICK new \in SUBSET Ids, n \in 0 .. MaxOthers, dt \in 0 .. MaxStep :
        \E pressure \in [new -> Pressures], reads \in BOOLEAN :
          /\ FilledStep(new, dt, pressure) /\ others' = n
          /\ IF Cardinality(present) + others > Cardinality(new) + n THEN SkipUpdate(new)
             ELSE \E p \in Places(new) : UpdatePalmState(new, pressure, p, reads)
          /\ started' = TRUE
          /\ unjudged' = IF reads THEN unjudged \cap new ELSE new
    BY <1>2, ZenonT(60) DEF Next, SyncInterpret, FilledStep
  <2>2. PICK pressure \in [new -> Pressures], reads \in BOOLEAN :
          /\ FilledStep(new, dt, pressure) /\ others' = n
          /\ IF Cardinality(present) + others > Cardinality(new) + n THEN SkipUpdate(new)
             ELSE \E p \in Places(new) : UpdatePalmState(new, pressure, p, reads)
          /\ started' = TRUE
          /\ unjudged' = IF reads THEN unjudged \cap new ELSE new
    BY <2>1
  <2>3. CASE SkipUpdate(new)
    <3>1. PalmInv'
      BY <2>2, <2>3, SkipKeepsInv
    <3>2. ASSUME NEW f \in (pointing \cap fingers_not_in_edge \cap present') \ unjudged
          PROVE  f \notin MayBeFlagged'
      BY <2>2, <2>3 DEF SkipUpdate, MayBeFlagged, PalmInv, PalmsDoNotPoint, TypeOK, FilledStep
    <3> QED BY <3>1, <3>2
  <2>4. CASE \E p \in Places(new) : UpdatePalmState(new, pressure, p, reads)
    BY <2>2, <2>4, UpdateKeepsInv
  <2> QED BY <2>2, <2>3, <2>4
<1> QED BY <1>1, <1>2

\* The sets of the filter hold fingers that are on the pad, for all timeouts.
THEOREM PalmTyping == Spec => []TypeOK
<1>1. PalmInv => TypeOK
  BY DEF PalmInv
<1>2. PalmInv /\ [Next]_vars => PalmInv'
  BY PalmStep
<1> QED BY <1>1, <1>2, PalmInit, PTL DEF Spec

\* No finger is a palm and points at once.
THEOREM PalmsNeverPoint == Spec => []PalmsDoNotPoint
<1>1. PalmInv => PalmsDoNotPoint
  BY DEF PalmInv
<1>2. PalmInv /\ [Next]_vars => PalmInv'
  BY PalmStep
<1> QED BY <1>1, <1>2, PalmInit, PTL DEF Spec

\* A finger that pointed away from the edge is not taken for a palm later on.
THEOREM PointsForGood == Spec => PointingIsKept
<1>1. PalmInv /\ [Next]_vars => PalmInv'
  BY PalmStep
<1>2. PalmInv /\ [Next]_vars =>
        [\A f \in (pointing \cap fingers_not_in_edge \cap present') \ unjudged :
           max_pressure'[f] = 0 /\ age'[f] >= EvalTimeout => f \notin MayBeFlagged']_vars
  BY PalmStep
<1> QED BY <1>1, <1>2, PalmInit, PTL DEF Spec, PointingIsKept

-----------------------------------------------------------------------------
PoolInv == P!TypeOK /\ P!StackIsFree

LEMMA PoolInit == P!PoolSizeAssumption /\ P!Init => PoolInv
BY DEF P!PoolSizeAssumption, P!Init, PoolInv, P!TypeOK, P!StackIsFree, P!Slots

\* As long as a slot is used there is room on the stack to give it back.
LEMMA RoomToFree ==
  ASSUME P!PoolSizeAssumption, PoolInv, NEW p \in P!Slots, used_mark[p]
  PROVE  head < PoolSlots
<1> SUFFICES ASSUME head = PoolSlots PROVE FALSE
  BY DEF PoolInv, P!TypeOK, P!PoolSizeAssumption
<1> DEFINE Nums == 0 .. PoolSlots - 1
           f == [i \in Nums |-> free_slots[i]]
<1>1. P!Slots = Nums /\ PoolSlots \in Nat /\ PoolSlots > 0
  BY DEF P!PoolSizeAssumption, P!Slots
<1>2. IsFiniteSet(Nums) /\ Cardinality(Nums) = PoolSlots
  BY <1>1, FS_Interval
<1>3. IsFiniteSet(Nums \ {p}) /\ Cardinality(Nums \ {p}) = PoolSlots - 1
  <2>1. p \in Nums
    BY <1>1
  <2> HIDE DEF Nums
  <2> QED BY <1>2, <2>1, FS_RemoveElement
<1>4. ASSUME NEW i \in Nums PROVE free_slots[i] \in Nums \ {p}
  <2>1. free_slots[i] \in P!Slots /\ ~used_mark[free_slots[i]]
    BY DEF PoolInv, P!TypeOK, P!StackIsFree, P!Slots
  <2> QED BY <2>1, <1>1
<1>5. f \in [Nums -> Nums \ {p}]
  BY <1>4
<1>6. PICK i, j \in Nums : i # j /\ f[i] = f[j]
  <2> HIDE DEF Nums, f
  <2> QED BY <1>1, <1>2, <1>3, <1>5, FS_PigeonHole
<1> QED BY <1>6 DEF PoolInv, P!StackIsFree

\* Allocating takes the top of the stack, a slot nobody has.
LEMMA AllocateStep ==
  ASSUME P!PoolSizeAssumption, PoolInv, P!Allocate
  PROVE  PoolInv' /\ P!P!Allocate
<1> USE DEF P!PoolSizeAssumption, PoolInv, P!TypeOK, P!StackIsFree, P!Slots
<1>1. CASE head = 0
  <2>1. \A s \in P!Slots : used_mark[s]
    BY <1>1
  <2> QED BY <1>1, <2>1 DEF P!Allocate, P!P!Allocate
<1>2. CASE head # 0
  <2> DEFINE top == free_slots[head - 1]
  <2>1. head - 1 \in 0 .. head - 1 /\ head \in 1 .. PoolSlots
    BY <1>2
  <2>2. top \in P!Slots /\ ~used_mark[top]
    BY <2>1
  <2>3. /\ head' = head - 1 /\ free_slots' = free_slots
        /\ used_mark' = [used_mark EXCEPT ![top] = TRUE]
        /\ result' = <<"Allocate", top>>
    BY <1>2 DEF P!Allocate
  <2>4. {s \in P!Slots : used_mark'[s]} = {s \in P!Slots : used_mark[s]} \cup {top}
    BY <2>2, <2>3
  <2>5. P!P!Allocate
    BY <2>2, <2>3, <2>4 DEF P!P!Allocate
  <2>6. P!TypeOK'
    BY <2>1, <2>2, <2>3
  <2>7. \A i, j \in 0 .. head' - 1 : free_slots'[i] = free_slots'[j] => i = j
    BY <2>1, <2>3
  <2>8. ASSUME NEW i \in 0 .. head' - 1 PROVE ~used_mark'[free_slots'[i]]
    <3>1. i \in 0 .. head - 1 /\ i # head - 1
      BY <2>1, <2>3
    <3>2. free_slots[i] \in P!Slots /\ ~used_mark[free_slots[i]] /\ free_slots[i] # top
      BY <2>1, <3>1, SMTT(30)
    <3> QED BY <3>2, <2>2, <2>3
  <2>9. ASSUME NEW s \in P!Slots, ~used_mark'[s]
        PROVE  \E i \in 0 .. head' - 1 : free_slots'[i] = s
    <3>1. ~used_mark[s] /\ s # top
      BY <2>2, <2>3, <2>9
    <3>2. PICK i \in 0 .. head - 1 : free_slots[i] = s
      BY <3>1
    <3>3. i \in 0 .. head' - 1
      BY <2>1, <2>3, <3>1, <3>2, SMTT(30)
    <3> QED BY <2>3, <3>2, <3>3
  <2> HIDE DEF top
  <2> QED BY <2>5, <2>6, <2>7, <2>8, <2>9
<1> QED BY <1>1, <1>2

\* Freeing puts a used slot on top of the stack and refuses every other pointer.
LEMMA FreeStep ==
  ASSUME P!PoolSizeAssumption, PoolInv, P!Free
  PROVE  PoolInv' /\ P!P!Free
<1> USE DEF P!PoolSizeAssumption, P!Slots
<1>1. PICK p \in P!Slots \cup {Pointer} :
        IF P!MayBeFreed(p)
        THEN /\ free_slots' = [free_slots EXCEPT ![head] = p]
             /\ head' = head + 1
             /\ used_mark' = [used_mark EXCEPT ![p] = FALSE]
             /\ result' = <<"Free", TRUE>>
        ELSE result' = <<"Free", FALSE>> /\ UNCHANGED <<free_slots, used_mark, head>>
  BY DEF P!Free
<1>2. CASE P!MayBeFreed(p)
  <2>1. p \in P!Slots /\ used_mark[p] /\ head < PoolSlots
    BY <1>2, RoomToFree DEF P!MayBeFreed
  <2> USE DEF PoolInv, P!TypeOK, P!StackIsFree
  <2>2. {s \in P!Slots : used_mark'[s]} = {s \in P!Slots : used_mark[s]} \ {p}
    BY <1>1, <1>2, <2>1
  <2>3. P!P!Free
    BY <1>1, <1>2, <2>1, <2>2 DEF P!P!Free
  <2>4. P!TypeOK'
    <3>1. head \in P!Slots /\ head + 1 \in 0 .. PoolSlots
      BY <2>1
    <3>2. /\ free_slots' = [free_slots EXCEPT ![head] = p] /\ head' = head + 1
          /\ used_mark' = [used_mark EXCEPT ![p] = FALSE]
      BY <1>1, <1>2
    <3>3. free_slots' \in [P!Slots -> P!Slots] /\ used_mark' \in [P!Slots -> BOOLEAN]
      <4> HIDE DEF P!Slots
      <4> QED BY <2>1, <3>1, <3>2
    <3> QED BY <3>1, <3>2, <3>3
  <2>5. \A i \in 0 .. head - 1 : free_slots'[i] = free_slots[i] /\ free_slots[i] # p
    <3> SUFFICES ASSUME NEW i \in 0 .. head - 1
                 PROVE  free_slots'[i] = free_slots[i] /\ free_slots[i] # p
      OBVIOUS
    <3>1. ~used_mark[free_slots[i]]
      OBVIOUS
    <3>2. free_slots'[i] = free_slots[i]
      BY <1>1, <1>2, <2>1
    <3> QED BY <2>1, <3>1, <3>2
  <2>6. free_slots'[head] = p /\ head' = head + 1
    BY <1>1, <1>2, <2>1
  <2>7. ASSUME NEW i \in 0 .. head' - 1, NEW j \in 0 .. head' - 1,
               free_slots'[i] = free_slots'[j]
        PROVE  i = j
    <3>1. (i \in 0 .. head - 1 \/ i = head) /\ (j \in 0 .. head - 1 \/ j = head)
      BY <2>1, <2>6
    <3> QED BY <2>5, <2>6, <2>7, <3>1
  <2>8. ASSUME NEW i \in 0 .. head' - 1 PROVE ~used_mark'[free_slots'[i]]
    <3>1. i \in 0 .. head - 1 \/ i = head
      BY <2>1, <2>6
    <3>2. CASE i = head
      BY <1>1, <1>2, <2>1, <2>6, <3>2
    <3>3. CASE i \in 0 .. head - 1
      <4>1. free_slots[i] \in P!Slots /\ ~used_mark[free_slots[i]]
        BY <3>3
      <4>2. free_slots'[i] = free_slots[i] /\ free_slots[i] # p
        BY <2>5, <3>3
      <4>3. used_mark' = [used_mark EXCEPT ![p] = FALSE]
        BY <1>1, <1>2
      <4> QED BY <4>1, <4>2, <4>3
    <3> QED BY <3>1, <3>2, <3>3
  <2>9. ASSUME NEW s \in P!Slots, ~used_mark'[s]
        PROVE  \E i \in 0 .. head' - 1 : free_slots'[i] = s
    <3>1. head \in 0 .. head' - 1 /\ \A i \in 0 .. head - 1 : i \in 0 .. head' - 1
      BY <2>1, <2>6
    <3>2. CASE s = p
      BY <2>6, <3>1, <3>2
    <3>3. CASE s # p
      <4>1. ~used_mark[s]
        BY <1>1, <1>2, <2>1, <2>9, <3>3
      <4>2. PICK i \in 0 .. head - 1 : free_slots[i] = s
        BY <4>1
      <4> QED BY <2>5, <3>1, <4>2
    <3> QED BY <3>2, <3>3
  <2> QED BY <2>3, <2>4, <2>7, <2>8, <2>9
<1>3. CASE ~P!MayBeFreed(p)
  <2>1. p \notin {s \in P!Slots : used_mark[s]}
    BY <1>3 DEF P!MayBeFreed
  <2>2. UNCHANGED <<free_slots, used_mark, head>> /\ result' = <<"Free", FALSE>>
    BY <1>1, <1>3
  <2>3. {s \in P!Slots : used_mark'[s]} = {s \in P!Slots : used_mark[s]} \ {p}
    BY <2>1, <2>2
  <2>4. (p \in {s \in P!Slots : used_mark[s]}) = FALSE
    BY <2>1
  <2>5. result' = <<"Free", p \in {s \in P!Slots : used_mark[s]}>>
    BY <2>2, <2>4
  <2>6. P!P!Free
    BY <2>3, <2>5, Zenon DEF P!P!Free
  <2> QED BY <2>2, <2>6 DEF PoolInv, P!TypeOK, P!StackIsFree
<1> QED BY <1>2, <1>3

LEMMA PoolStep ==
  ASSUME P!PoolSizeAssumption, PoolInv, [P!Next]_P!vars
  PROVE  PoolInv' /\ [P!P!Next]_P!P!vars
<1>1. CASE P!Allocate
  BY <1>1, AllocateStep DEF P!P!Next
<1>2. CASE P!Free
  BY <1>2, FreeStep DEF P!P!Next
<1>3. CASE UNCHANGED P!vars
  BY <1>3 DEF P!vars, P!P!vars, PoolInv, P!TypeOK, P!StackIsFree
<1> QED BY <1>1, <1>2, <1>3 DEF P!Next

\* In a pool of any size no slot is given out twice and every one that nobody has can be
\* had, whatever is freed.
THEOREM FreeStack == P!Spec => []P!StackIsFree
<1>1. P!Init => PoolInv
  BY PoolInit, SharedAssumption
<1>2. PoolInv /\ [P!Next]_P!vars => PoolInv'
  BY PoolStep, SharedAssumption
<1>3. PoolInv => P!StackIsFree
  BY DEF PoolInv
<1> QED BY <1>1, <1>2, <1>3, PTL DEF P!Spec

\* The stack of slots implements the abstract pool.
THEOREM PoolRefined == P!Spec => P!ImplementsPool
<1>1. P!Init => PoolInv /\ P!P!Init
  <2>1. P!Init => {s \in P!Slots : used_mark[s]} = {}
    BY DEF P!Init
  <2> QED BY <2>1, PoolInit, SharedAssumption DEF P!Init, P!P!Init
<1>2. PoolInv /\ [P!Next]_P!vars => PoolInv' /\ [P!P!Next]_P!P!vars
  BY PoolStep, SharedAssumption
<1> QED BY <1>1, <1>2, PTL DEF P!Spec, P!P!Spec, P!ImplementsPool

-----------------------------------------------------------------------------
(* The sensor jump filter *)

\* A movement has been seen of fingers only that were there in both states before, and a
\* flag is kept of a jump that was the last movement.
JumpInv ==
  /\ J!TypeOK
  /\ DOMAIN moves \subseteq previous_input[1]
  /\ \A f \in first_flag : moves[f] = "jump"

LEMMA JumpInit == J!Init => JumpInv
BY DEF J!Init, J!TypeOK, JumpInv

LEMMA JumpStep ==
  JumpInv /\ [J!Next]_J!vars =>
    /\ JumpInv'
    /\ [\A f \in jump_warp' : \/ moves'[f] = "jump"
                              \/ f \in DOMAIN moves /\ moves[f] = "jump"]_J!vars
<1> SUFFICES ASSUME JumpInv, J!Next
             PROVE  /\ JumpInv'
                    /\ \A f \in jump_warp' : \/ moves'[f] = "jump"
                                             \/ f \in DOMAIN moves /\ moves[f] = "jump"
  BY DEF J!vars, J!TypeOK, JumpInv
<1> USE DEF JumpInv, J!TypeOK
<1>1. PICK new \in SUBSET TouchIds :
        \E move \in [J!Known(new) -> J!Movements] :
          /\ jump_warp' = J!Warps(new, move)
          /\ first_flag' = J!FirstFlags(new, move)
          /\ moves' = move
          /\ previous_input' = [i \in 0 .. 1 |-> IF i = 0 THEN new ELSE previous_input[0] \cap new]
  BY DEF J!Next, J!SyncInterpret
<1>2. PICK move \in [J!Known(new) -> J!Movements] :
          /\ jump_warp' = J!Warps(new, move)
          /\ first_flag' = J!FirstFlags(new, move)
          /\ moves' = move
          /\ previous_input' = [i \in 0 .. 1 |-> IF i = 0 THEN new ELSE previous_input[0] \cap new]
  BY <1>1
<1>3. DOMAIN move = J!Known(new)
  OBVIOUS
<1>4. (first_flag \cap new) \subseteq DOMAIN move
  BY <1>3 DEF J!Known
<1>5. J!FirstFlags(new, move) = {f \in DOMAIN move : move[f] = "jump"}
  BY <1>4 DEF J!FirstFlags
<1>6. J!Warps(new, move) \subseteq DOMAIN move
  BY DEF J!Warps
<1>7. JumpInv'
  <2>1. /\ previous_input'[0] = new /\ previous_input'[1] = previous_input[0] \cap new
        /\ previous_input' \in [0 .. 1 -> SUBSET TouchIds]
    BY <1>2
  <2>2. DOMAIN moves' \subseteq previous_input'[1] /\ DOMAIN moves' \subseteq TouchIds
    BY <1>2, <1>3, <2>1 DEF J!Known
  <2>3. first_flag' \cup jump_warp' \subseteq DOMAIN moves'
    BY <1>2, <1>5, <1>6
  <2>4. \A f \in first_flag' : moves'[f] = "jump"
    BY <1>2, <1>5
  <2>5. moves' \in [DOMAIN moves' -> J!Movements]
    BY <1>2, <1>3
  <2> QED BY <2>1, <2>2, <2>3, <2>4, <2>5
<1>8. ASSUME NEW f \in jump_warp', moves'[f] # "jump"
      PROVE  f \in DOMAIN moves /\ moves[f] = "jump"
  BY <1>2, <1>8 DEF J!Warps
<1> QED BY <1>7, <1>8

(* The filter for pads that count touches *)

\* Unless it was taken away, the last touch count is the one that came in.
TouchesInv == T!TypeOK /\ last_touch_cnt \in {0, touch_cnt}

LEMMA TouchesInit == T!Init => TouchesInv
BY BoundsAssumption DEF T!Init, T!TypeOK, TouchesInv

LEMMA TouchesStep ==
  TouchesInv /\ [T!Next]_T!vars =>
    /\ TouchesInv'
    /\ [/\ last_finger_cnt = 0 /\ last_finger_cnt' = 0 /\ last_touch_cnt' # 0
             => last_touch_cnt' # last_touch_cnt
        /\ last_touch_cnt' # touch_cnt'
             => last_finger_cnt = 0 /\ last_finger_cnt' = 0 /\ touch_cnt' = touch_cnt]_T!vars
BY BoundsAssumption DEF T!Next, T!SyncInterpret, T!TypeOK, T!vars, TouchesInv, T!Stuck

-----------------------------------------------------------------------------
(* The object behind the C interface *)

\* The consumer's callback is the client's last, and whoever has a timer set made the timer.
HostInv ==
  /\ H!TypeOK /\ H!TimersAreProviders
  /\ consumer \in {callback, "none"}
  /\ composed => consumer = callback
  /\ initialized => composed
  /\ ~initialized => freed = {}
  /\ interpret_timer = timer_provider

LEMMA HostInit == H!Init => HostInv
BY SharedAssumption DEF H!Init, H!TypeOK, H!TimersAreProviders, HostInv, H!NamesAssumption

LEMMA HostStep ==
  HostInv /\ [H!Next]_H!vars =>
    HostInv' /\ [reached' # reached => reached' \in freed \cup {callback}]_H!vars
<1> SUFFICES ASSUME HostInv, [H!Next]_H!vars
             PROVE  HostInv' /\ (reached' # reached => reached' \in freed \cup {callback})
  BY DEF H!vars
<1> USE SharedAssumption DEF HostInv, H!TypeOK, H!TimersAreProviders, H!NamesAssumption
<1>0. ASSUME H!Sent
      PROVE  /\ reached' \in Callbacks \cup {Null}
             /\ reached' # reached => reached' \in freed \cup {callback}
  BY <1>0 DEF H!Sent
<1>1. CASE H!Initialize
  <2>1. consumer' = callback /\ UNCHANGED <<callback, timer_provider, interpret_timer, armed, reached>>
    BY <1>1 DEF H!Initialize
  <2>2. CASE composed' = TRUE /\ initialized' = FALSE /\ freed' = {}
    BY <2>1, <2>2
  <2>3. CASE /\ freed' = IF initialized THEN freed \cup {consumer} ELSE freed
             /\ UNCHANGED <<composed, initialized>>
    <3>1. initialized => consumer \in Callbacks \cup {Null}
      OBVIOUS
    <3>2. freed' \subseteq Callbacks \cup {Null} /\ (~initialized' => freed' = {})
      BY <2>3, <3>1
    <3> QED BY <2>1, <2>3, <3>2
  <2> QED BY <1>1, <2>2, <2>3 DEF H!Initialize
<1>2. CASE H!SetHardwareProperties
  BY <1>2 DEF H!SetHardwareProperties
<1>3. CASE H!SetCallback
  BY <1>3 DEF H!SetCallback, H!ConsumerCallback
<1>4. CASE H!SetTimerProvider
  BY <1>4 DEF H!SetTimerProvider, H!Freed
<1>5. CASE H!PushHardwareState
  BY <1>0, <1>5 DEF H!PushHardwareState
<1>6. CASE H!TimerCallback
  BY <1>0, <1>6 DEF H!TimerCallback
<1>7. CASE UNCHANGED H!vars
  BY <1>7 DEF H!vars
<1> QED BY <1>1, <1>2, <1>3, <1>4, <1>5, <1>6, <1>7 DEF H!Next

(* The properties and their provider *)

RegistryInv == R!TypeOK /\ R!HandlesAreProviders /\ R!DelegatesKnow

LEMMA RegistryInit == R!Init => RegistryInv
BY SharedAssumption
   DEF R!Init, R!TypeOK, R!HandlesAreProviders, R!DelegatesKnow, RegistryInv, R!PropsAssumption

LEMMA RegistryStep == RegistryInv /\ [R!Next]_R!vars => RegistryInv'
<1> SUFFICES ASSUME RegistryInv, [R!Next]_R!vars PROVE RegistryInv'
  OBVIOUS
<1> USE DEF RegistryInv, R!TypeOK, R!HandlesAreProviders, R!DelegatesKnow
<1>1. CASE R!Register
  BY <1>1 DEF R!Register, R!Told
<1>2. CASE R!Unregister
  BY <1>2 DEF R!Unregister, R!Destroyed
<1>3. CASE R!SetPropProvider
  <2>1. PICK provider \in (Providers \cup {Null}) \ {prop_provider}, v \in [Props -> Values] :
          /\ prop_provider' = provider
          /\ gprop' = [p \in Props |-> IF p \in props THEN provider ELSE gprop[p]]
          /\ IF provider = Null THEN UNCHANGED <<val, written, replayed>>
             ELSE R!CreateProp(props, provider, v)
          /\ UNCHANGED props
    BY <1>3 DEF R!SetPropProvider
  <2>2. CASE provider = Null
    BY <2>1, <2>2
  <2>3. CASE provider # Null
    <3>1. R!CreateProp(props, provider, v)
      BY <2>1, <2>3
    <3>2. R!DelegatesKnow'
      BY <2>1, <3>1 DEF R!CreateProp, R!Told
    <3> QED BY <2>1, <3>1, <3>2 DEF R!CreateProp
  <2> QED BY <2>2, <2>3
<1>4. CASE R!PropWritten \/ R!ReplayPropChange
  BY <1>4 DEF R!PropWritten, R!ReplayPropChange, R!HandleGesturesPropWritten
<1>5. CASE R!SetValue
  BY <1>5 DEF R!SetValue
<1>6. CASE UNCHANGED R!vars
  BY <1>6 DEF R!vars
<1> QED BY <1>1, <1>2, <1>3, <1>4, <1>5, <1>6 DEF R!Next

-----------------------------------------------------------------------------
(* The helper that pauses taps while the lid is closed *)

\* The last event that waits is the lid's position, if it could be read or none is missed;
\* and who is told is the touchpad found.
LastIsLid ==
  events # <<>> =>
    /\ lid_fd # "none"
    /\ lid_fd = "open" \/ ~missed => events[Len(events)] = lid
Notified == step \in {"select", "read", "sync"} /\ tp_id # Null => notifier = tp_id
LidInv ==
  /\ D!TypeOK /\ D!NotifierIsThere /\ D!PausedAsLidIs /\ D!TouchpadIsKnown
  /\ LastIsLid /\ Notified
  /\ step \in {"open", "intern", "read", "sync"} => tp_id # Null
  /\ step \in {"query", "property"} => tp_id = Null

LEMMA TailKeepsLast ==
  ASSUME NEW set, NEW s \in Seq(set), s # <<>>
  PROVE  /\ Tail(s) \in Seq(set) /\ Len(Tail(s)) = Len(s) - 1
         /\ Head(s) \in set
         /\ Tail(s) # <<>> => Tail(s)[Len(Tail(s))] = s[Len(s)]
         /\ Tail(s) = <<>> => Head(s) = s[Len(s)]
<1>1. Len(s) \in Nat \ {0} /\ Tail(s) \in Seq(set) /\ Len(Tail(s)) = Len(s) - 1
  OBVIOUS
<1>2. \A i \in 1 .. Len(s) - 1 : Tail(s)[i] = s[i + 1]
  BY <1>1
<1>3. Head(s) = s[1] /\ s[1] \in set
  BY <1>1
<1>4. ASSUME Tail(s) # <<>> PROVE Tail(s)[Len(Tail(s))] = s[Len(s)]
  <2>1. Len(s) - 1 # 0
    BY <1>1, <1>4
  <2> QED BY <1>1, <1>2, <2>1
<1>5. ASSUME Tail(s) = <<>> PROVE Head(s) = s[Len(s)]
  <2>1. Len(<<>>) = 0
    OBVIOUS
  <2>2. Len(Tail(s)) = 0
    BY <1>5, <2>1, Zenon
  <2>3. Len(s) \in Nat /\ Len(s) - 1 = 0
    BY <1>1, <2>2, Zenon
  <2>4. Len(s) = 1
    BY <2>3
  <2> QED BY <1>3, <2>4
<1> QED BY <1>1, <1>3, <1>4, <1>5

LEMMA LidInit == D!Init => LidInv
<1> SUFFICES ASSUME D!Init PROVE LidInv
  OBVIOUS
<1>1. events = <<>> /\ events \in Seq(BOOLEAN) /\ Len(events) <= MaxEvents
  BY BoundsAssumption DEF D!Init
<1> QED BY <1>1 DEF D!Init, D!TypeOK, D!NotifierIsThere, D!PausedAsLidIs, D!TouchpadIsKnown,
           LidInv, LastIsLid, Notified, D!Steps

LEMMA LidStep == LidInv /\ [D!Next]_D!vars => LidInv'
<1> SUFFICES ASSUME LidInv, [D!Next]_D!vars PROVE LidInv'
  OBVIOUS
<1>0. events \in Seq(BOOLEAN) /\ Len(events) \in Nat /\ Len(events) <= MaxEvents
  BY DEF LidInv, D!TypeOK
<1> USE DEF LidInv, D!TypeOK, D!Steps, D!NotifierIsThere, D!PausedAsLidIs, D!TouchpadIsKnown,
            Notified, D!env, D!x_vars, D!loop_vars
<1>1. CASE D!LidMoves
  <2>1. lid' \in BOOLEAN /\ UNCHANGED <<switch, touchpad, tap_paused, D!x_vars, D!loop_vars>>
    BY <1>1 DEF D!LidMoves
  <2>2. CASE lid_fd = "open"
    <3>1. events' = Append(events, lid') /\ missed' = missed /\ Len(events) < MaxEvents
      BY <1>1, <2>2 DEF D!LidMoves
    <3>2. /\ events' \in Seq(BOOLEAN) /\ events' # <<>> /\ Len(events') = Len(events) + 1
          /\ events'[Len(events')] = lid'
      BY <1>0, <2>1, <3>1
    <3>3. Len(events') <= MaxEvents
      BY <1>0, <3>1, <3>2, BoundsAssumption
    <3>4. LastIsLid'
      BY <2>1, <2>2, <3>2 DEF LastIsLid
    <3> QED BY <2>1, <2>2, <3>1, <3>2, <3>3, <3>4
  <2>3. CASE lid_fd # "open"
    <3>1. events' = events /\ missed' = TRUE
      BY <1>1, <2>3 DEF D!LidMoves
    <3>2. LastIsLid'
      BY <2>1, <2>3, <3>1 DEF LastIsLid
    <3> QED BY <2>1, <2>3, <3>1, <3>2
  <2> QED BY <2>2, <2>3
<1>2. CASE D!SwitchChanges
  <2>1. /\ switch' \in BOOLEAN
        /\ UNCHANGED <<lid, touchpad, tap_paused, D!x_vars, listed, tp_id, notifier, step,
                       running>>
    BY <1>2 DEF D!SwitchChanges
  <2>2. CASE lid_fd = "open"
    <3>1. PICK n \in D!Read : /\ events' = SubSeq(events, 1, n)
                              /\ missed' = (missed \/ n < Len(events))
      BY <1>2, <2>2 DEF D!SwitchChanges
    <3>2. n \in 0 .. Len(events)
      BY <1>0 DEF D!Read
    <3>3. events' \in Seq(BOOLEAN) /\ Len(events') = n /\ n <= MaxEvents
      BY <1>0, <3>1, <3>2, BoundsAssumption
    <3>4. CASE n = Len(events)
      <4>1. events' = events
        BY <1>0, <3>1, <3>4
      <4>2. missed' = missed /\ lid_fd' = "dead"
        BY <1>0, <1>2, <2>2, <3>1, <3>4 DEF D!SwitchChanges
      <4>3. LastIsLid'
        BY <2>1, <2>2, <4>1, <4>2 DEF LastIsLid
      <4> QED BY <2>1, <4>1, <4>2, <4>3
    <3>5. CASE n < Len(events)
      <4>1. missed' = TRUE /\ lid_fd' = "dead"
        BY <1>2, <2>2, <3>1, <3>5 DEF D!SwitchChanges
      <4>2. LastIsLid'
        BY <4>1 DEF LastIsLid
      <4> QED BY <2>1, <3>3, <4>1, <4>2
    <3> QED BY <1>0, <3>2, <3>4, <3>5
  <2>3. CASE lid_fd # "open"
    <3>1. UNCHANGED <<lid_fd, events, missed>>
      BY <1>2, <2>3 DEF D!SwitchChanges
    <3> QED BY <2>1, <3>1 DEF LastIsLid
  <2> QED BY <2>2, <2>3
<1>3. CASE D!HierarchyChanges
  BY <1>3 DEF D!HierarchyChanges, LastIsLid
<1>4. CASE D!RefreshDevices
  BY <1>4 DEF D!RefreshDevices, LastIsLid, D!DevicesNeedRefresh, D!Goes
<1>5. CASE D!GetTouchpadXId \/ D!OpenDevice \/ D!Sync
  BY <1>5 DEF D!GetTouchpadXId, LastIsLid, D!OpenDevice, D!Sync, D!Goes, D!Fails, D!RoundTrip
<1>6. CASE D!IsCmtTouchpad
  BY <1>6 DEF D!IsCmtTouchpad, LastIsLid, D!Goes, D!Fails, D!RoundTrip
<1>7. CASE D!InternAtom
  <2>1. /\ step = "intern" /\ step' = "select" /\ notifier' = tp_id
        /\ UNCHANGED <<lid, switch, touchpad, running, tap_paused, events, listed, tp_id,
                       lid_fd, missed>>
    BY <1>7 DEF D!InternAtom, D!NewNotifier, D!Goes
  <2>2. /\ {x_socket', x_queue'} \subseteq BOOLEAN
        /\ x_socket \/ x_queue => x_socket' \/ x_queue'
    <3>1. CASE D!RoundTrip
      BY <3>1 DEF D!RoundTrip
    <3>2. CASE x_socket' = x_socket /\ x_queue' = x_queue
      BY <3>2
    <3> QED BY <1>7, <3>1, <3>2, Zenon DEF D!InternAtom
  <2>3. D!TouchpadIsKnown' /\ D!PausedAsLidIs' /\ LastIsLid'
    BY <2>1, <2>2 DEF LastIsLid
  <2>4. D!TypeOK'
    BY <2>1, <2>2
  <2> QED BY <2>1, <2>3, <2>4
<1>8. CASE D!ServiceXFd
  BY <1>8 DEF D!ServiceXFd, LastIsLid, D!Rescan, D!Goes
<1>9. CASE D!ServiceLidFd
  BY <1>9 DEF D!ServiceLidFd, LastIsLid, D!DevicesNeedRefresh, D!Goes
<1>10. CASE D!HandleInput
  <2>1. /\ events # <<>> /\ events' = Tail(events) /\ step = "read"
        /\ UNCHANGED <<lid, switch, touchpad, D!x_vars, listed, tp_id, notifier, lid_fd>>
    BY <1>10 DEF D!HandleInput, D!Unread, D!Goes, D!Fails
  <2>2. /\ events' \in Seq(BOOLEAN) /\ Len(events') <= MaxEvents
        /\ events' # <<>> => events'[Len(events')] = events[Len(events)]
        /\ events' = <<>> => Head(events) = events[Len(events)]
        /\ Head(events) \in BOOLEAN
    <3>1. Len(Tail(events)) <= MaxEvents
      BY <1>0, <2>1, TailKeepsLast, BoundsAssumption
    <3> QED BY <1>0, <2>1, <3>1, TailKeepsLast
  <2>3. CASE notifier = touchpad
    <3>1. /\ tap_paused' = Head(events)
          /\ missed' = (missed /\ (events' # <<>> \/ lid_fd # "open"))
          /\ step' = "sync" /\ running' = running
      BY <1>10, <2>3 DEF D!HandleInput, D!Goes
    <3>2. tap_paused' \in BOOLEAN /\ missed' \in BOOLEAN
      BY <2>2, <3>1
    <3>3. D!TypeOK'
      BY <2>1, <2>2, <3>1, <3>2
    <3>4. D!PausedAsLidIs' /\ LastIsLid'
      BY <2>1, <2>2, <3>1 DEF LastIsLid
    <3> QED BY <2>1, <3>1, <3>3, <3>4
  <2>4. CASE notifier # touchpad
    <3>1. running' = FALSE /\ UNCHANGED <<tap_paused, missed, step>>
      BY <1>10, <2>4 DEF D!HandleInput, D!Fails
    <3>2. LastIsLid'
      BY <2>1, <2>2, <3>1 DEF LastIsLid
    <3> QED BY <2>1, <2>2, <3>1, <3>2
  <2> QED BY <2>3, <2>4
<1>11. CASE D!ReadFails
  BY <1>11 DEF D!ReadFails, LastIsLid, D!Goes
<1>12. CASE UNCHANGED D!vars
  BY <1>12 DEF D!vars, LastIsLid
<1> QED BY <1>1, <1>2, <1>3, <1>4, <1>5, <1>6, <1>7, <1>8, <1>9, <1>10, <1>11, <1>12
        DEF D!Next

-----------------------------------------------------------------------------
(* Fingers held still around a click *)

\* What is left of a suppression and how long its finger is known never make more than the
\* timeout that started it, and whatever is suppressed is flagged.
WiggleInv ==
  /\ W!TypeOK
  /\ \A f \in DOMAIN wiggle_recs :
       /\ wiggle_recs[f].suppress =>
            /\ wiggle_recs[f].left + known[f] <=
                 IF left_button THEN ButtonDownTimeout ELSE SuppressTimeout
            /\ known[f] = 0 \/ wiggle_recs[f].left > 0
            /\ f \in warped
       /\ edge = 0 => wiggle_recs[f].suppress
       /\ 0 < edge /\ edge < OneFingerTimeout /\ one_finger => f \in warped
       /\ f \in warped => wiggle_recs[f].suppress \/ edge < OneFingerTimeout

LEMMA AgeCapBounds ==
  W!AgeCap \in Nat /\ W!AgeCap > ButtonDownTimeout /\ W!AgeCap > OneFingerTimeout
<1>1. ButtonDownTimeout \in Nat /\ OneFingerTimeout \in Nat
  BY FiltersAssumption DEF W!TimesAssumption
<1> DEFINE both == {ButtonDownTimeout, OneFingerTimeout}
<1>2. \E x \in both : \A y \in both : x >= y
  BY <1>1
<1>3. W!Max(both) \in both /\ \A y \in both : W!Max(both) >= y
  BY <1>2 DEF W!Max
<1> QED BY <1>1, <1>3 DEF W!AgeCap

LEMMA WiggleInit == W!Init => WiggleInv
<1> SUFFICES ASSUME W!Init PROVE WiggleInv
  OBVIOUS
<1>1. DOMAIN wiggle_recs = {} /\ DOMAIN known = {}
  BY DEF W!Init
<1>2. W!TypeOK
  <2>1. wiggle_recs \in [{} -> [left : 0 .. ButtonDownTimeout, suppress : BOOLEAN]]
        /\ known \in [{} -> 0 .. W!AgeCap]
    BY <1>1 DEF W!Init
  <2>2. edge \in 0 .. W!AgeCap /\ left_button = FALSE /\ one_finger = FALSE /\ warped = {}
    BY AgeCapBounds DEF W!Init
  <2> QED BY <1>1, <2>1, <2>2 DEF W!TypeOK
<1> QED BY <1>1, <1>2 DEF WiggleInv

LEMMA WiggleEnds == WiggleInv => W!WarpEnds
<1> SUFFICES ASSUME WiggleInv, NEW f \in warped
             PROVE  \/ known[f] = 0 \/ known[f] < SuppressTimeout
                    \/ left_button /\ known[f] < ButtonDownTimeout
                    \/ edge < OneFingerTimeout
  BY DEF W!WarpEnds
<1>1. f \in DOMAIN wiggle_recs /\ known[f] \in Nat /\ wiggle_recs[f].left \in Nat
  BY AgeCapBounds, FiltersAssumption DEF WiggleInv, W!TypeOK, W!TimesAssumption
<1> QED BY <1>1, FiltersAssumption DEF WiggleInv, W!TimesAssumption

LEMMA WiggleStep ==
  WiggleInv /\ [W!Next]_W!vars =>
    /\ WiggleInv'
    /\ [\A f \in DOMAIN wiggle_recs \cap DOMAIN wiggle_recs' :
          f \notin warped /\ left_button = left_button' => f \notin warped']_W!vars
<1> SUFFICES ASSUME WiggleInv, [W!Next]_W!vars
             PROVE  /\ WiggleInv'
                    /\ [\A f \in DOMAIN wiggle_recs \cap DOMAIN wiggle_recs' :
                          f \notin warped /\ left_button = left_button' => f \notin warped']_W!vars
  OBVIOUS
<1>a. /\ SuppressTimeout \in Nat /\ ButtonDownTimeout \in Nat /\ OneFingerTimeout \in Nat
      /\ LongStep \in Nat /\ SuppressTimeout <= ButtonDownTimeout
  BY FiltersAssumption DEF W!TimesAssumption
<1>1. CASE W!Next
  <2>1. PICK new \in SUBSET TouchIds, down \in BOOLEAN, dt \in 1 .. LongStep :
         \E far \in SUBSET (new \cap DOMAIN wiggle_recs),
            lone \in IF W!Cardinality(new) < 2 THEN {TRUE} ELSE BOOLEAN :
          /\ wiggle_recs' = W!UpdateClickWiggle(new, down, dt, far)
          /\ left_button' = down
          /\ edge' = IF down # left_button THEN 0 ELSE W!Older(edge, dt)
          /\ one_finger' = IF down # left_button THEN lone ELSE one_finger
          /\ warped' = W!SetWarpFlags(new)
          /\ known' = [f \in new |-> IF down # left_button \/ f \notin DOMAIN wiggle_recs THEN 0
                                     ELSE W!Older(known[f], dt)]
    BY <1>1 DEF W!Next, W!SyncInterpret
  <2>2. PICK far \in SUBSET (new \cap DOMAIN wiggle_recs),
            lone \in IF W!Cardinality(new) < 2 THEN {TRUE} ELSE BOOLEAN :
          /\ wiggle_recs' = W!UpdateClickWiggle(new, down, dt, far)
          /\ left_button' = down
          /\ edge' = IF down # left_button THEN 0 ELSE W!Older(edge, dt)
          /\ one_finger' = IF down # left_button THEN lone ELSE one_finger
          /\ warped' = W!SetWarpFlags(new)
          /\ known' = [f \in new |-> IF down # left_button \/ f \notin DOMAIN wiggle_recs THEN 0
                                     ELSE W!Older(known[f], dt)]
    BY <2>1
  <2>3. lone \in BOOLEAN
    BY <2>2
  <2>4. /\ DOMAIN wiggle_recs' = new /\ DOMAIN known' = new /\ new \subseteq TouchIds
        /\ down \in BOOLEAN /\ dt \in Nat /\ dt >= 1
    BY <1>a, <2>2 DEF W!UpdateClickWiggle
  <2>5. \A a \in 0 .. W!AgeCap :
          /\ W!Older(a, dt) \in 1 .. W!AgeCap
          /\ W!Older(a, dt) <= a + dt
          /\ a >= OneFingerTimeout => W!Older(a, dt) >= OneFingerTimeout
    BY <2>4, <1>a, AgeCapBounds DEF W!Older
  <2>6. /\ edge \in 0 .. W!AgeCap /\ edge' \in 0 .. W!AgeCap
        /\ edge' = 0 => down # left_button
        /\ down = left_button => edge' = W!Older(edge, dt) /\ one_finger' = one_finger
    BY <2>2, <2>5, AgeCapBounds DEF WiggleInv, W!TypeOK
  <2>7. /\ warped' \subseteq new
        /\ 0 < edge' /\ edge' < OneFingerTimeout /\ one_finger' => warped' = new
        /\ \A f \in warped' : wiggle_recs'[f].suppress \/ edge' < OneFingerTimeout
    <3>1. CASE 0 < edge' /\ edge' < OneFingerTimeout /\ one_finger'
      BY <2>2, <3>1 DEF W!SetWarpFlags
    <3>2. CASE ~(0 < edge' /\ edge' < OneFingerTimeout /\ one_finger')
      BY <2>2, <3>2 DEF W!SetWarpFlags
    <3> QED BY <3>1, <3>2
  <2>71. \A f \in new : wiggle_recs'[f].suppress => f \in warped'
    BY <2>2 DEF W!SetWarpFlags
  <2>8. ASSUME NEW f \in new
        PROVE  /\ wiggle_recs'[f] \in [left : 0 .. ButtonDownTimeout, suppress : BOOLEAN]
               /\ known'[f] \in 0 .. W!AgeCap
               /\ wiggle_recs'[f].suppress =>
                    /\ wiggle_recs'[f].left + known'[f] <=
                         IF left_button' THEN ButtonDownTimeout ELSE SuppressTimeout
                    /\ known'[f] = 0 \/ wiggle_recs'[f].left > 0
               /\ down # left_button => wiggle_recs'[f].suppress
               /\ f \in DOMAIN wiggle_recs /\ ~wiggle_recs[f].suppress /\ down = left_button
                    => ~wiggle_recs'[f].suppress
    <3>1. CASE down # left_button \/ f \notin DOMAIN wiggle_recs
      <4>1. /\ known'[f] = 0
            /\ wiggle_recs'[f] = W!Rec(IF down /\ ~left_button THEN ButtonDownTimeout
                                       ELSE SuppressTimeout)
        BY <2>2, <3>1 DEF W!UpdateClickWiggle
      <4> QED BY <1>a, <2>2, <3>1, <4>1, AgeCapBounds DEF W!Rec
    <3>2. CASE down = left_button /\ f \in DOMAIN wiggle_recs
      <4>1. /\ known'[f] = W!Older(known[f], dt)
            /\ wiggle_recs'[f] = W!Continue(wiggle_recs[f], dt, f \in far)
        BY <2>2, <3>2 DEF W!UpdateClickWiggle
      <4>2. /\ known[f] \in 0 .. W!AgeCap
            /\ wiggle_recs[f] \in [left : 0 .. ButtonDownTimeout, suppress : BOOLEAN]
        BY <3>2 DEF WiggleInv, W!TypeOK
      <4>3. known'[f] \in 0 .. W!AgeCap /\ known'[f] <= known[f] + dt
        BY <2>5, <4>1, <4>2, AgeCapBounds
      <4>4. CASE ~wiggle_recs[f].suppress \/ f \in far \/ wiggle_recs[f].left <= dt
        BY <1>a, <3>2, <4>1, <4>3, <4>4 DEF W!Continue, W!Broken
      <4>5. CASE wiggle_recs[f].suppress /\ f \notin far /\ ~(wiggle_recs[f].left <= dt)
        <5>1. wiggle_recs'[f] = W!Rec(wiggle_recs[f].left - dt)
          BY <4>1, <4>5 DEF W!Continue
        <5>2. /\ wiggle_recs'[f].left = wiggle_recs[f].left - dt /\ wiggle_recs'[f].suppress = TRUE
              /\ wiggle_recs'[f] = [left |-> wiggle_recs[f].left - dt, suppress |-> TRUE]
          BY <5>1 DEF W!Rec
        <5>3. wiggle_recs[f].left + known[f] <=
                 IF left_button THEN ButtonDownTimeout ELSE SuppressTimeout
          BY <3>2, <4>5 DEF WiggleInv
        <5> DEFINE l == wiggle_recs[f].left
        <5>4. l \in 0 .. ButtonDownTimeout /\ known[f] \in Nat /\ known'[f] \in Nat
          BY <4>2, <4>3, AgeCapBounds
        <5>5. l - dt \in 0 .. ButtonDownTimeout /\ l - dt > 0 /\ l - dt + known'[f] <= l + known[f]
          BY <1>a, <2>4, <4>3, <4>5, <5>4
        <5>6. wiggle_recs'[f] \in [left : 0 .. ButtonDownTimeout, suppress : BOOLEAN]
          BY <5>2, <5>5
        <5>7. wiggle_recs'[f].left + known'[f] <=
                IF left_button' THEN ButtonDownTimeout ELSE SuppressTimeout
          <6> HIDE DEF l
          <6>1. l + known[f] <= IF left_button' THEN ButtonDownTimeout ELSE SuppressTimeout
            BY <2>2, <3>2, <5>3 DEF l
          <6>2. wiggle_recs'[f].left = l - dt
            BY <5>2 DEF l
          <6> QED BY <1>a, <2>4, <5>4, <5>5, <6>1, <6>2
        <5> QED BY <3>2, <4>3, <4>5, <5>2, <5>5, <5>6, <5>7
      <4> QED BY <4>4, <4>5
    <3> QED BY <3>1, <3>2
  <2>9. W!TypeOK'
    <3>1. /\ wiggle_recs' \in [new -> [left : 0 .. ButtonDownTimeout, suppress : BOOLEAN]]
          /\ known' \in [new -> 0 .. W!AgeCap]
      BY <2>2, <2>4, <2>8 DEF W!UpdateClickWiggle
    <3>2. left_button' \in BOOLEAN /\ one_finger' \in BOOLEAN
      BY <2>2, <2>3 DEF WiggleInv, W!TypeOK
    <3> QED BY <2>4, <2>6, <2>7, <3>1, <3>2 DEF W!TypeOK
  <2>10. WiggleInv'
    BY <2>4, <2>6, <2>7, <2>71, <2>8, <2>9 DEF WiggleInv
  <2>11. ASSUME NEW f \in DOMAIN wiggle_recs \cap DOMAIN wiggle_recs',
                f \notin warped, left_button = left_button'
         PROVE  f \notin warped'
    <3>1. ~wiggle_recs[f].suppress /\ edge # 0 /\ down = left_button
      BY <2>2, <2>11 DEF WiggleInv
    <3>2. ~wiggle_recs'[f].suppress
      BY <2>4, <2>8, <3>1
    <3>3. ~(0 < edge' /\ edge' < OneFingerTimeout /\ one_finger')
      <4>1. one_finger => ~(edge < OneFingerTimeout)
        BY <1>a, <2>6, <2>11, <3>1, AgeCapBounds DEF WiggleInv
      <4> QED BY <1>a, <2>5, <2>6, <3>1, <4>1, AgeCapBounds
    <3> QED BY <2>2, <3>2, <3>3 DEF W!SetWarpFlags
  <2> QED BY <2>10, <2>11
<1>2. CASE UNCHANGED W!vars
  BY <1>2 DEF W!vars, WiggleInv, W!TypeOK
<1> QED BY <1>1, <1>2

-----------------------------------------------------------------------------
(* Contacts that may be two fingers *)

\* Fingers older than max_age_ are among those that never merge.
MergeInv ==
  /\ M!TypeOK /\ M!FlagsAreRecorded
  /\ \A f \in DOMAIN start_info : start_info[f] > MaxAge => f \in never_merge_ids

LEMMA MergeInit == M!Init => MergeInv
<1> SUFFICES ASSUME M!Init PROVE MergeInv
  OBVIOUS
<1>1. DOMAIN start_info = {}
  BY DEF M!Init
<1> QED BY <1>1 DEF M!Init, MergeInv, M!TypeOK, M!FlagsAreRecorded

LEMMA MergeStep ==
  MergeInv /\ [M!Next]_M!vars =>
    /\ MergeInv'
    /\ [(\A f \in DOMAIN start_info' :
           f \in DOMAIN start_info /\ start_info[f] > MaxAge) => merge_flags' = {}]_M!vars
<1> SUFFICES ASSUME MergeInv, [M!Next]_M!vars
             PROVE  /\ MergeInv'
                    /\ [(\A f \in DOMAIN start_info' :
                           f \in DOMAIN start_info /\ start_info[f] > MaxAge)
                          => merge_flags' = {}]_M!vars
  OBVIOUS
<1>a. MaxAge \in Nat /\ MaxStep \in Nat
  BY FiltersAssumption DEF M!TimesAssumption
<1>1. CASE M!Next
  <2>1. PICK new \in SUBSET TouchIds, dt \in 0 .. MaxStep :
          /\ start_info' =
               [f \in new |-> IF f \in DOMAIN start_info THEN M!Aged(start_info[f], dt) ELSE 0]
          /\ \E order \in M!Orders(new), over \in M!Exceeded(new) :
             \E close \in SUBSET M!ClosePairs(order) :
             \E joined \in SUBSET (new \ (never_merge_ids \cup over \cup M!Flagged(close))) :
               /\ merge_flags' = M!Flags(M!Flagged(close) \cap new, over, joined)
               /\ merge_tracking_ids' =
                    (((merge_tracking_ids \cap new) \cup M!FlagClose(close)) \ over) \cup joined
               /\ never_merge_ids' = (never_merge_ids \cap new) \cup over
    BY <1>1, Zenon DEF M!Next, M!SyncInterpret
  <2>2. PICK order \in M!Orders(new), over \in M!Exceeded(new) :
             \E close \in SUBSET M!ClosePairs(order) :
             \E joined \in SUBSET (new \ (never_merge_ids \cup over \cup M!Flagged(close))) :
               /\ merge_flags' = M!Flags(M!Flagged(close) \cap new, over, joined)
               /\ merge_tracking_ids' =
                    (((merge_tracking_ids \cap new) \cup M!FlagClose(close)) \ over) \cup joined
               /\ never_merge_ids' = (never_merge_ids \cap new) \cup over
    BY <2>1, Zenon
  <2>3. PICK close \in SUBSET M!ClosePairs(order) :
             \E joined \in SUBSET (new \ (never_merge_ids \cup over \cup M!Flagged(close))) :
               /\ merge_flags' = M!Flags(M!Flagged(close) \cap new, over, joined)
               /\ merge_tracking_ids' =
                    (((merge_tracking_ids \cap new) \cup M!FlagClose(close)) \ over) \cup joined
               /\ never_merge_ids' = (never_merge_ids \cap new) \cup over
    BY <2>2, Zenon
  <2>4. PICK joined \in SUBSET (new \ (never_merge_ids \cup over \cup M!Flagged(close))) :
               /\ merge_flags' = M!Flags(M!Flagged(close) \cap new, over, joined)
               /\ merge_tracking_ids' =
                    (((merge_tracking_ids \cap new) \cup M!FlagClose(close)) \ over) \cup joined
               /\ never_merge_ids' = (never_merge_ids \cap new) \cup over
    BY <2>3, Zenon
  <2>5. /\ DOMAIN start_info' = new /\ new \subseteq TouchIds
        /\ start_info' \in [new -> 0 .. MaxAge + 1]
    BY <1>a, <2>1 DEF MergeInv, M!TypeOK, M!Aged
  <2>6. /\ over \subseteq new \ never_merge_ids
        /\ \A f \in new \ never_merge_ids : start_info'[f] > MaxAge => f \in over
    BY DEF M!Exceeded
  <2>7. /\ M!FlagClose(close) \subseteq new
        /\ new \subseteq never_merge_ids => M!FlagClose(close) = {}
    <3>1. DOMAIN order = new
      BY DEF M!Orders
    <3>2. \A p \in close : p[1] \in new /\ p[1] \notin never_merge_ids /\ p[2] \in new
      BY <3>1 DEF M!ClosePairs
    <3> QED BY <3>2 DEF M!FlagClose
  <2>8. M!TypeOK'
    BY <2>4, <2>5, <2>6, <2>7 DEF MergeInv, M!TypeOK, M!Flags, M!Flagged
  <2>9. M!FlagsAreRecorded'
    BY <2>4, <2>6, <2>7 DEF MergeInv, M!TypeOK, M!FlagsAreRecorded, M!Flags, M!Flagged
  <2>10. \A f \in DOMAIN start_info' : start_info'[f] > MaxAge => f \in never_merge_ids'
    BY <2>4, <2>5, <2>6
  <2>11. ASSUME \A f \in DOMAIN start_info' : f \in DOMAIN start_info /\ start_info[f] > MaxAge
         PROVE  merge_flags' = {}
    <3>1. new \subseteq never_merge_ids
      BY <2>5, <2>11 DEF MergeInv
    <3> QED BY <2>4, <2>6, <2>7, <3>1 DEF M!Flags, M!Flagged
  <2> QED BY <2>8, <2>9, <2>10, <2>11 DEF MergeInv
<1>2. CASE UNCHANGED M!vars
  BY <1>2 DEF M!vars, MergeInv, M!TypeOK, M!FlagsAreRecorded
<1> QED BY <1>1, <1>2

-----------------------------------------------------------------------------
(* Wiggling fingers *)

\* A history is as long as the samples since the finger came or was idle.
EnergyInv ==
  /\ G!TypeOK /\ G!FlagsAreOfOneMovement
  /\ \A f \in DOMAIN energy_histories : samples[f] = energy_histories[f].size

LEMMA EnergyInit == G!Init => EnergyInv
<1> SUFFICES ASSUME G!Init PROVE EnergyInv
  OBVIOUS
<1>1. DOMAIN energy_histories = {} /\ DOMAIN flags = {} /\ DOMAIN samples = {}
  BY DEF G!Init
<1> QED BY <1>1 DEF G!Init, EnergyInv, G!TypeOK, G!FlagsAreOfOneMovement

LEMMA EnergyStep == EnergyInv /\ [G!Next]_G!vars => EnergyInv'
<1> SUFFICES ASSUME EnergyInv, [G!Next]_G!vars PROVE EnergyInv'
  OBVIOUS
<1>a. EnergySamples \in Nat /\ EnergySamples > 1
  BY FiltersAssumption DEF G!WiggleAssumption
<1>1. CASE G!Next
  <2>1. PICK new \in SUBSET Ids, dt \in 0 .. LongStep : \E above \in SUBSET new :
          /\ energy_histories' =
               [f \in new |-> IF f \in DOMAIN energy_histories \cap new
                              THEN G!Judged(G!Pushed(energy_histories[f], dt), f \in above)
                              ELSE [size |-> 1, moving |-> FALSE]]
          /\ flags' = [f \in new |-> IF f \in DOMAIN energy_histories \cap new
                                     THEN G!Flag(energy_histories'[f]) ELSE "none"]
          /\ samples' = [f \in new |-> IF f \in DOMAIN energy_histories \cap new
                                       THEN G!Counted(f, dt) ELSE 1]
    BY <1>1 DEF G!Next, G!SyncInterpret
  <2>2. PICK above \in SUBSET new :
          /\ energy_histories' =
               [f \in new |-> IF f \in DOMAIN energy_histories \cap new
                              THEN G!Judged(G!Pushed(energy_histories[f], dt), f \in above)
                              ELSE [size |-> 1, moving |-> FALSE]]
          /\ flags' = [f \in new |-> IF f \in DOMAIN energy_histories \cap new
                                     THEN G!Flag(energy_histories'[f]) ELSE "none"]
          /\ samples' = [f \in new |-> IF f \in DOMAIN energy_histories \cap new
                                       THEN G!Counted(f, dt) ELSE 1]
    BY <2>1, Zenon
  <2>3. /\ DOMAIN energy_histories' = new /\ DOMAIN flags' = new /\ DOMAIN samples' = new
        /\ new \subseteq Ids
    BY <2>2
  <2>4. ASSUME NEW f \in new
        PROVE  /\ energy_histories'[f] \in [size : 1 .. EnergySamples, moving : BOOLEAN]
               /\ flags'[f] \in {"warp", "moving", "none"}
               /\ samples'[f] = energy_histories'[f].size
               /\ flags'[f] # "none" => samples'[f] = EnergySamples
    <3>1. CASE f \notin DOMAIN energy_histories
      BY <1>a, <2>2, <3>1
    <3>2. CASE f \in DOMAIN energy_histories
      <4> DEFINE h == energy_histories[f]
                 p == G!Pushed(h, dt)
                 j == G!Judged(p, f \in above)
      <4>1. h \in [size : 1 .. EnergySamples, moving : BOOLEAN] /\ samples[f] = h.size
        BY <3>2 DEF EnergyInv, G!TypeOK
      <4>2. /\ p \in [size : 1 .. EnergySamples, moving : BOOLEAN]
            /\ G!Counted(f, dt) = p.size
        <5>1. CASE h.moving /\ dt > IdleTime
          BY <1>a, <4>1, <5>1 DEF G!Pushed, G!Idle, G!Counted
        <5>2. CASE ~(h.moving /\ dt > IdleTime)
          <6>1. p = [h EXCEPT !.size = IF @ < EnergySamples THEN @ + 1 ELSE EnergySamples]
            BY <5>2 DEF G!Pushed, G!Idle
          <6>2. G!Counted(f, dt) = IF samples[f] < EnergySamples THEN samples[f] + 1 ELSE EnergySamples
            BY <5>2 DEF G!Counted
          <6> HIDE DEF p
          <6> QED BY <1>a, <4>1, <6>1, <6>2
        <5> QED BY <5>1, <5>2
      <4> HIDE DEF p, h
      <4>3. j \in [size : 1 .. EnergySamples, moving : BOOLEAN] /\ j.size = p.size
        <5>1. CASE p.size = EnergySamples
          <6>1. j = [p EXCEPT !.moving = f \in above]
            BY <5>1 DEF G!Judged
          <6>2. j = [p EXCEPT !.moving = TRUE] \/ j = [p EXCEPT !.moving = FALSE]
            <7>1. CASE f \in above
              <8>1. (f \in above) = TRUE
                BY <7>1
              <8> QED BY <6>1, <8>1, Zenon
            <7>2. CASE f \notin above
              <8>1. (f \in above) = FALSE
                BY <7>2
              <8> QED BY <6>1, <8>1, Zenon
            <7> QED BY <7>1, <7>2
          <6> HIDE DEF j
          <6> QED BY <4>2, <6>2
        <5>2. CASE p.size # EnergySamples
          BY <4>2, <5>2 DEF G!Judged
        <5> QED BY <5>1, <5>2
      <4>4. energy_histories'[f] = j /\ flags'[f] = G!Flag(j) /\ samples'[f] = p.size
        BY <2>2, <3>2, <4>2 DEF h, p
      <4> HIDE DEF j
      <4> QED BY <1>a, <4>3, <4>4 DEF G!Flag
    <3> QED BY <3>1, <3>2
  <2>5. G!TypeOK'
    <3>1. /\ energy_histories' \in [new -> [size : 1 .. EnergySamples, moving : BOOLEAN]]
          /\ flags' \in [new -> {"warp", "moving", "none"}]
          /\ samples' \in [new -> 1 .. EnergySamples]
      <4>1. \A f \in new : samples'[f] \in 1 .. EnergySamples
        BY <2>4
      <4> QED BY <2>2, <2>3, <2>4, <4>1
    <3> QED BY <2>3, <3>1, Zenon DEF G!TypeOK
  <2> QED BY <2>3, <2>4, <2>5 DEF EnergyInv, G!FlagsAreOfOneMovement
<1>2. CASE UNCHANGED G!vars
  BY <1>2 DEF G!vars, EnergyInv, G!TypeOK, G!FlagsAreOfOneMovement
<1> QED BY <1>1, <1>2

-----------------------------------------------------------------------------
(* Positions in a box *)

BoxInv == B!TypeOK /\ B!WithinHalfBox

LEMMA BoxInit == B!Init => BoxInv
<1> SUFFICES ASSUME B!Init PROVE BoxInv
  OBVIOUS
<1>1. DOMAIN previous_output = {} /\ DOMAIN box_input = {} /\ box_warp = {}
  BY DEF B!Init
<1> QED BY <1>1 DEF BoxInv, B!TypeOK, B!WithinHalfBox

\* Where the box leaves a position, from near where the finger was.
LEMMA BoxedNear ==
  ASSUME NEW out \in 0 .. BoxPositions, NEW was \in 0 .. BoxPositions, NEW pos \in 0 .. BoxPositions,
         B!Abs(was - out) <= HalfBox
  PROVE  /\ B!Boxed(out, pos) \in 0 .. BoxPositions
         /\ B!Abs(pos - B!Boxed(out, pos)) <= HalfBox
         /\ B!Abs(B!Boxed(out, pos) - out) <= B!Abs(pos - was)
<1> DEFINE b == B!Boxed(out, pos)
<1>1. /\ HalfBox \in Nat /\ BoxPositions \in Nat /\ out \in Nat /\ was \in Nat /\ pos \in Nat
      /\ out <= BoxPositions /\ pos <= BoxPositions
      /\ was - out <= HalfBox /\ out - was <= HalfBox
  BY FiltersAssumption DEF B!BoxAssumption, B!Abs
<1>2. /\ b \in Int
      /\ \/ b = out /\ pos - out <= HalfBox /\ out - pos <= HalfBox
         \/ b = pos - HalfBox /\ out <= b
         \/ b = pos + HalfBox /\ b <= out
  BY <1>1 DEF B!Boxed
<1> HIDE DEF b
<1>3. b \in 0 .. BoxPositions /\ pos - b <= HalfBox /\ b - pos <= HalfBox
  BY <1>1, <1>2
<1>4. (b - out <= pos - was /\ out <= b) \/ (out - b <= was - pos /\ b <= out)
  BY <1>1, <1>2
<1> QED BY <1>1, <1>2, <1>3, <1>4 DEF B!Abs, b

LEMMA BoxStep ==
  BoxInv /\ [B!Next]_B!vars =>
    /\ BoxInv'
    /\ [\A f \in (DOMAIN box_input \cap DOMAIN box_input') \ box_warp' :
          B!Abs(previous_output'[f] - previous_output[f])
            <= B!Abs(box_input'[f] - box_input[f])]_B!vars
<1> SUFFICES ASSUME BoxInv, [B!Next]_B!vars
             PROVE  /\ BoxInv'
                    /\ [\A f \in (DOMAIN box_input \cap DOMAIN box_input') \ box_warp' :
                          B!Abs(previous_output'[f] - previous_output[f])
                            <= B!Abs(box_input'[f] - box_input[f])]_B!vars
  OBVIOUS
<1>a. HalfBox \in Nat /\ BoxPositions \in Nat
  BY FiltersAssumption DEF B!BoxAssumption
<1>1. CASE B!Next
  <2>1. PICK new \in SUBSET Ids :
         \E at \in [new -> 0 .. BoxPositions], warps \in SUBSET new :
          /\ box_input' = at /\ box_warp' = warps
          /\ previous_output' =
               [f \in new |-> IF f \in DOMAIN previous_output /\ f \notin warps
                              THEN B!Boxed(previous_output[f], at[f]) ELSE at[f]]
    BY <1>1, Zenon DEF B!Next, B!SyncInterpret
  <2>2. PICK at \in [new -> 0 .. BoxPositions], warps \in SUBSET new :
          /\ box_input' = at /\ box_warp' = warps
          /\ previous_output' =
               [f \in new |-> IF f \in DOMAIN previous_output /\ f \notin warps
                              THEN B!Boxed(previous_output[f], at[f]) ELSE at[f]]
    BY <2>1
  <2>3. DOMAIN box_input' = new /\ DOMAIN previous_output' = new /\ box_warp' \subseteq new
    BY <2>2
  <2>4. ASSUME NEW f \in new
        PROVE  /\ box_input'[f] \in 0 .. BoxPositions
               /\ previous_output'[f] \in 0 .. BoxPositions
               /\ B!Abs(box_input'[f] - previous_output'[f]) <= HalfBox
               /\ f \in DOMAIN box_input \ box_warp' =>
                    B!Abs(previous_output'[f] - previous_output[f])
                      <= B!Abs(box_input'[f] - box_input[f])
    <3>1. at[f] \in 0 .. BoxPositions /\ box_input'[f] = at[f]
      BY <2>2
    <3>2. CASE f \in DOMAIN previous_output /\ f \notin warps
      <4>1. previous_output'[f] = B!Boxed(previous_output[f], at[f])
        BY <2>2, <3>2
      <4>2. /\ previous_output[f] \in 0 .. BoxPositions /\ box_input[f] \in 0 .. BoxPositions
            /\ B!Abs(box_input[f] - previous_output[f]) <= HalfBox
        BY <3>2 DEF BoxInv, B!TypeOK, B!WithinHalfBox
      <4> QED BY <3>1, <4>1, <4>2, BoxedNear
    <3>3. CASE ~(f \in DOMAIN previous_output /\ f \notin warps)
      <4>1. previous_output'[f] = at[f]
        BY <2>2, <3>3
      <4>2. f \notin DOMAIN box_input \ box_warp'
        BY <2>2, <3>3 DEF BoxInv, B!TypeOK
      <4> QED BY <1>a, <3>1, <4>1, <4>2 DEF B!Abs
    <3> QED BY <3>2, <3>3
  <2> QED BY <2>3, <2>4 DEF BoxInv, B!TypeOK, B!WithinHalfBox
<1>2. CASE UNCHANGED B!vars
  BY <1>2 DEF B!vars, BoxInv, B!TypeOK, B!WithinHalfBox
<1> QED BY <1>1, <1>2

-----------------------------------------------------------------------------
(* Scrolls in whole pixels *)

\* What the client is owed is the remainder.
IntegralInv == I!TypeOK /\ owed = remainder

LEMMA Truncated ==
  ASSUME NEW n \in Int
  PROVE  n - I!Truncate(n) \in -(Unit - 1) .. Unit - 1
<1>1. Unit \in Nat \ {0}
  BY FiltersAssumption DEF I!UnitAssumption
<1>2. \A m \in Nat : m - Unit * (m \div Unit) \in 0 .. Unit - 1
  BY <1>1
<1>3. CASE n >= 0
  BY <1>1, <1>2, <1>3 DEF I!Truncate
<1>4. CASE n < 0
  <2>1. -n \in Nat
    BY <1>4
  <2> DEFINE d == Unit * ((-n) \div Unit)
  <2>2. -n - d \in 0 .. Unit - 1
    BY <1>2, <2>1
  <2>3. I!Truncate(n) = -d
    BY <1>4 DEF I!Truncate
  <2>4. d \in Int
    BY <1>1, <2>1
  <2> HIDE DEF d
  <2> QED BY <1>1, <2>2, <2>3, <2>4
<1> QED BY <1>3, <1>4

LEMMA IntegralInit == I!Init => IntegralInv
BY FiltersAssumption DEF I!Init, IntegralInv, I!TypeOK, I!UnitAssumption

LEMMA IntegralStep == IntegralInv /\ [I!Next]_I!vars => IntegralInv'
<1> SUFFICES ASSUME IntegralInv, [I!Next]_I!vars PROVE IntegralInv'
  OBVIOUS
<1>a. Unit \in Nat \ {0} /\ MaxScroll \in Nat
  BY FiltersAssumption DEF I!UnitAssumption
<1>1. CASE I!ConsumeGesture
  <2>1. PICK d \in I!Scrolls :
          LET input == [a \in Axes |-> d[a] + remainder[a]]
              told == [a \in Axes |-> I!Truncate(input[a])]
          IN /\ remainder' = I!Remainder(input, told)
             /\ owed' = [a \in Axes |-> owed[a] + d[a] - told[a]]
    BY <1>1 DEF I!ConsumeGesture
  <2> DEFINE input == [a \in Axes |-> d[a] + remainder[a]]
             told == [a \in Axes |-> I!Truncate(input[a])]
  <2>2. /\ remainder' = [a \in Axes |-> input[a] - told[a]]
        /\ owed' = [a \in Axes |-> owed[a] + d[a] - told[a]]
    BY <2>1 DEF I!Remainder
  <2>3. \A a \in Axes : input[a] = d[a] + remainder[a] /\ told[a] = I!Truncate(input[a])
    OBVIOUS
  <2> HIDE DEF input, told
  <2>4. ASSUME NEW a \in Axes
        PROVE  remainder'[a] \in -(Unit - 1) .. Unit - 1 /\ owed'[a] = remainder'[a]
    <3>1. d \in [Axes -> -MaxScroll .. MaxScroll] /\ remainder \in [Axes -> -(Unit - 1) .. Unit - 1]
      BY DEF I!Scrolls, IntegralInv, I!TypeOK
    <3>2. d[a] \in -MaxScroll .. MaxScroll /\ remainder[a] \in -(Unit - 1) .. Unit - 1
      BY <3>1, Zenon
    <3>3. /\ d[a] \in Int /\ remainder[a] \in Int /\ owed[a] = remainder[a]
          /\ input[a] = d[a] + remainder[a] /\ input[a] \in Int
      BY <1>a, <2>3, <3>2 DEF IntegralInv
    <3>4. input[a] - told[a] \in -(Unit - 1) .. Unit - 1
      <4>1. input[a] - I!Truncate(input[a]) \in -(Unit - 1) .. Unit - 1
        BY <3>3, Truncated, Zenon
      <4>2. told[a] = I!Truncate(input[a])
        BY <2>3
      <4> QED BY <4>1, <4>2, Zenon
    <3>5. I!Truncate(input[a]) \in Int
      BY <1>a, <3>3 DEF I!Truncate
    <3>6. told[a] \in Int
      BY <2>3, <3>5
    <3>7. remainder'[a] = input[a] - told[a] /\ owed'[a] = owed[a] + d[a] - told[a]
      BY <2>2
    <3> QED BY <3>3, <3>4, <3>6, <3>7
  <2>5. remainder' = [a \in Axes |-> remainder'[a]] /\ owed' = [a \in Axes |-> owed'[a]]
    BY <2>2
  <2>6. remainder' \in [Axes -> -(Unit - 1) .. Unit - 1]
    BY <2>4, <2>5
  <2>7. owed' = remainder'
    BY <2>4, <2>5
  <2> QED BY <2>6, <2>7 DEF IntegralInv, I!TypeOK
<1>2. CASE I!SyncInterpret
  BY <1>a, <1>2 DEF I!SyncInterpret, IntegralInv, I!TypeOK
<1>3. CASE UNCHANGED I!vars
  BY <1>3 DEF I!vars, IntegralInv, I!TypeOK
<1> QED BY <1>1, <1>2, <1>3 DEF I!Next

LEMMA IntegralKept == IntegralInv => I!DistanceKept
BY FiltersAssumption DEF IntegralInv, I!TypeOK, I!DistanceKept, I!UnitAssumption

-----------------------------------------------------------------------------
(* The pad that does not number its fingers *)

ProfileIds == -(IdSpace \div 2) .. IdSpace \div 2 - 1

\* The next id is none of a finger's on the pad, but for those below 0.
ProfileInv ==
  /\ prev \in Seq(ProfileIds) /\ Len(prev) \in {0, 1, 2}
  /\ prev2 \in Seq(ProfileIds) /\ Len(prev2) \in {0, 1, 2}
  /\ last_id \in 0 .. IdSpace - 1
  /\ jumps \subseteq Axes /\ profile_warp \in BOOLEAN
  /\ Z!IdsDiffer
  /\ \A i \in 1 .. Len(prev) : prev[i] # Z!TrackingId(last_id) \/ prev[i] < 0

LEMMA IdNumbers ==
  /\ \A n \in 0 .. IdSpace - 1 : Z!After(n) = IF n = IdSpace - 1 THEN 0 ELSE n + 1
  /\ \A n \in 0 .. IdSpace - 1 :
       /\ Z!TrackingId(n) \in -(IdSpace \div 2) .. IdSpace \div 2 - 1
       /\ \A m \in 0 .. IdSpace - 1 : Z!TrackingId(n) = Z!TrackingId(m) => n = m
<1> DEFINE half == IdSpace \div 2
<1>1. IdSpace \in Nat /\ IdSpace > 2 /\ IdSpace = 2 * half /\ half \in Nat /\ half > 1
  BY FiltersAssumption DEF Z!IdsAssumption
<1>2. \A n \in 0 .. IdSpace - 1 : Z!After(n) = IF n = IdSpace - 1 THEN 0 ELSE n + 1
  <2>1. \A n \in 0 .. IdSpace - 1 : (n + 1) % IdSpace = IF n = IdSpace - 1 THEN 0 ELSE n + 1
    BY <1>1
  <2> QED BY <2>1 DEF Z!After
<1>3. \A n \in 0 .. IdSpace - 1 : Z!TrackingId(n) = IF n < half THEN n ELSE n - IdSpace
  BY DEF Z!TrackingId
<1> HIDE DEF half
<1>4. \A n \in 0 .. IdSpace - 1 :
       /\ Z!TrackingId(n) \in -half .. half - 1
       /\ \A m \in 0 .. IdSpace - 1 : Z!TrackingId(n) = Z!TrackingId(m) => n = m
  BY <1>1, <1>3
<1> QED BY <1>2, <1>4 DEF half

LEMMA ProfileInit == Z!Init => ProfileInv
<1> SUFFICES ASSUME Z!Init PROVE ProfileInv
  OBVIOUS
<1>1. IdSpace \in Nat /\ IdSpace > 2
  BY FiltersAssumption DEF Z!IdsAssumption
<1>2. Len(prev) = 0 /\ Len(prev2) = 0 /\ prev \in Seq(ProfileIds) /\ prev2 \in Seq(ProfileIds)
  BY DEF Z!Init
<1>3. last_id = 0 /\ jumps = {} /\ profile_warp = FALSE
  BY DEF Z!Init
<1>4. Len(prev) \in {0, 1, 2} /\ Len(prev2) \in {0, 1, 2} /\ 1 .. Len(prev) = {}
  BY <1>2
<1>5. last_id \in 0 .. IdSpace - 1
  BY <1>1, <1>3
<1>6. Z!IdsDiffer
  BY <1>2 DEF Z!IdsDiffer
<1>7. \A i \in 1 .. Len(prev) : prev[i] # Z!TrackingId(last_id) \/ prev[i] < 0
  BY <1>4
<1>8. jumps \subseteq Axes /\ profile_warp \in BOOLEAN
  BY <1>3
<1> QED BY <1>2, <1>4, <1>5, <1>6, <1>7, <1>8, Zenon DEF ProfileInv

LEMMA ProfileTypes == ProfileInv => Z!TypeOK
<1> SUFFICES ASSUME ProfileInv, NEW ids \in {prev, prev2}
             PROVE  ids \in Seq(ProfileIds) /\ Len(ids) <= 2
  BY DEF ProfileInv, Z!TypeOK, ProfileIds
<1>0. /\ prev \in Seq(ProfileIds) /\ Len(prev) \in {0, 1, 2}
      /\ prev2 \in Seq(ProfileIds) /\ Len(prev2) \in {0, 1, 2}
  BY Zenon DEF ProfileInv
<1>1. \A n \in {0, 1, 2} : n <= 2
  OBVIOUS
<1>2. ids = prev \/ ids = prev2
  OBVIOUS
<1> QED BY <1>0, <1>1, <1>2, Zenon

\* Short sequences, as SyncInterpret() makes them.
LEMMA ShortSequences ==
  ASSUME NEW set
  PROVE  /\ \A f : DOMAIN f = 1 .. 1 /\ f = [i \in 1 .. 1 |-> f[i]] /\ f[1] \in set
               => f \in Seq(set) /\ Len(f) = 1
         /\ \A f : DOMAIN f = 1 .. 2 /\ f = [i \in 1 .. 2 |-> f[i]] /\ f[1] \in set /\ f[2] \in set
               => f \in Seq(set) /\ Len(f) = 2
         /\ \A x \in set : <<x>> \in Seq(set) /\ Len(<<x>>) = 1 /\ <<x>>[1] = x
         /\ <<>> \in Seq(set) /\ Len(<<>>) = 0
<1>1. ASSUME NEW f, DOMAIN f = 1 .. 1, f = [i \in 1 .. 1 |-> f[i]], f[1] \in set
      PROVE  f \in Seq(set) /\ Len(f) = 1
  <2>1. f \in [1 .. 1 -> set]
    BY <1>1
  <2> QED BY <2>1, <1>1
<1>2. ASSUME NEW f, DOMAIN f = 1 .. 2, f = [i \in 1 .. 2 |-> f[i]], f[1] \in set, f[2] \in set
      PROVE  f \in Seq(set) /\ Len(f) = 2
  <2>1. f \in [1 .. 2 -> set]
    BY <1>2
  <2> QED BY <2>1, <1>2
<1> QED BY <1>1, <1>2

Fresh(ids, last) ==
  /\ ids \in Seq(ProfileIds) /\ last \in 0 .. IdSpace - 1
  /\ Len(ids) = 2 => ids[1] # ids[2] \/ ids[1] < 0
  /\ \A i \in 1 .. Len(ids) : ids[i] # Z!TrackingId(last) \/ ids[i] < 0

LEMMA Assigned ==
  ASSUME ProfileInv, NEW cnt \in 0 .. 2, NEW a \in Z!AssignTrackingId(cnt)
  PROVE  /\ Fresh(a.ids, a.last) /\ Len(a.ids) = cnt
         /\ cnt = Len(prev) => a.ids = prev
<1>a. IdSpace \in Nat /\ IdSpace > 2
  BY FiltersAssumption DEF Z!IdsAssumption
<1>b. /\ prev \in Seq(ProfileIds) /\ Len(prev) \in {0, 1, 2} /\ last_id \in 0 .. IdSpace - 1
  BY DEF ProfileInv
<1>c. \A n \in 0 .. IdSpace - 1 : Z!TrackingId(n) \in ProfileIds
  BY IdNumbers DEF ProfileIds
<1>d. \A i \in 1 .. Len(prev) : prev[i] \in ProfileIds
  BY <1>b
<1>n. \A i \in 1 .. Len(prev) : prev[i] # Z!TrackingId(last_id) \/ prev[i] < 0
  BY DEF ProfileInv
<1> DEFINE next == Z!After(last_id)
           nextbut == Z!After(next)
<1>e. /\ next \in 0 .. IdSpace - 1 /\ nextbut \in 0 .. IdSpace - 1
      /\ next # last_id /\ nextbut # next /\ nextbut # last_id
  <2>1. next = IF last_id = IdSpace - 1 THEN 0 ELSE last_id + 1
    BY <1>b, IdNumbers
  <2> HIDE DEF next
  <2>2. next \in 0 .. IdSpace - 1
    BY <1>a, <1>b, <2>1
  <2>3. nextbut = IF next = IdSpace - 1 THEN 0 ELSE next + 1
    BY <2>2, IdNumbers
  <2> HIDE DEF nextbut
  <2> QED BY <1>a, <1>b, <2>1, <2>2, <2>3
<1>f. /\ Z!TrackingId(next) # Z!TrackingId(last_id) /\ Z!TrackingId(nextbut) # Z!TrackingId(next)
      /\ Z!TrackingId(nextbut) # Z!TrackingId(last_id)
  BY <1>b, <1>e, IdNumbers
<1> HIDE DEF next, nextbut
<1>1. CASE cnt = 0
  <2>1. a.ids = <<>> /\ a.last = last_id
    BY <1>1 DEF Z!AssignTrackingId, Z!Keep
  <2>2. Len(a.ids) = 0 /\ a.ids \in Seq(ProfileIds)
    BY <2>1
  <2>3. Len(prev) = 0 => prev = <<>>
    BY <1>b
  <2> QED BY <1>b, <1>1, <2>1, <2>2, <2>3 DEF Fresh
<1>2. CASE cnt # 0 /\ Len(prev) = 0
  <2>1. a = Z!AssignNew(cnt)
    BY <1>2 DEF Z!AssignTrackingId
  <2>2. /\ a.ids = [i \in 1 .. cnt |-> Z!TrackingId((last_id + i - 1) % IdSpace)]
        /\ a.last = (last_id + cnt) % IdSpace
    BY <2>1 DEF Z!AssignNew
  <2>3. (last_id + 1 - 1) % IdSpace = last_id
    BY <1>a, <1>b
  <2>4. (last_id + 2 - 1) % IdSpace = next /\ (last_id + 1) % IdSpace = next
    BY <1>a, <1>b DEF next, Z!After
  <2>5. (last_id + 2) % IdSpace = nextbut
    <3>1. (last_id + 2) % IdSpace = IF last_id + 2 >= IdSpace THEN last_id + 2 - IdSpace ELSE last_id + 2
      BY <1>a, <1>b
    <3>2. next = IF last_id = IdSpace - 1 THEN 0 ELSE last_id + 1
      BY <1>b, IdNumbers DEF next
    <3>3. nextbut = IF next = IdSpace - 1 THEN 0 ELSE next + 1
      BY <1>e, IdNumbers DEF nextbut
    <3> QED BY <1>a, <1>b, <3>1, <3>2, <3>3
  <2>6. CASE cnt = 1
    <3>1. a.ids[1] = Z!TrackingId(last_id) /\ a.last = next
      BY <2>2, <2>3, <2>4, <2>6
    <3>2. a.ids \in Seq(ProfileIds) /\ Len(a.ids) = 1
      BY <1>b, <1>c, <2>2, <2>6, <3>1, ShortSequences
    <3> QED BY <1>2, <1>e, <1>f, <2>6, <3>1, <3>2 DEF Fresh
  <2>7. CASE cnt = 2
    <3>1. a.ids[1] = Z!TrackingId(last_id) /\ a.ids[2] = Z!TrackingId(next) /\ a.last = nextbut
      BY <2>2, <2>3, <2>4, <2>5, <2>7
    <3>2. a.ids \in Seq(ProfileIds) /\ Len(a.ids) = 2
      BY <1>b, <1>c, <1>e, <2>2, <2>7, <3>1, ShortSequences
    <3> QED BY <1>2, <1>e, <1>f, <2>7, <3>1, <3>2 DEF Fresh
  <2> QED BY <1>2, <2>6, <2>7
<1>3. CASE cnt = 2 /\ Len(prev) = 1
  <2>1. PICK old \in 1 .. 2 : a = Z!AssignSecond(old)
    BY <1>3 DEF Z!AssignTrackingId
  <2>2. /\ a.ids = [i \in 1 .. 2 |-> IF i = old THEN prev[1] ELSE Z!TrackingId(last_id)]
        /\ a.last = Z!NextBut(prev[1])
    BY <2>1 DEF Z!AssignSecond
  <2>3. prev[1] \in ProfileIds /\ (prev[1] # Z!TrackingId(last_id) \/ prev[1] < 0)
    BY <1>3, <1>d, <1>n
  <2>4. a.ids \in Seq(ProfileIds) /\ Len(a.ids) = 2
    BY <1>b, <1>c, <2>2, <2>3, ShortSequences
  <2>5. /\ a.last \in 0 .. IdSpace - 1
        /\ Z!TrackingId(a.last) # Z!TrackingId(last_id)
        /\ prev[1] # Z!TrackingId(a.last) \/ prev[1] < 0
    <3>1. CASE next = prev[1]
      <4>1. a.last = nextbut
        BY <2>2, <3>1 DEF Z!NextBut, next, nextbut
      <4>2. Z!TrackingId(next) = next
        BY <1>a, <1>e, <2>3, <3>1 DEF ProfileIds, Z!TrackingId
      <4> QED BY <1>e, <1>f, <3>1, <4>1, <4>2
    <3>2. CASE next # prev[1]
      <4>1. a.last = next
        BY <2>2, <3>2 DEF Z!NextBut, next
      <4>2. Z!TrackingId(next) = next \/ Z!TrackingId(next) < 0
        BY <1>a, <1>e DEF Z!TrackingId
      <4> QED BY <1>e, <1>f, <3>2, <4>1, <4>2
    <3> QED BY <3>1, <3>2
  <2>6. (a.ids[1] = prev[1] /\ a.ids[2] = Z!TrackingId(last_id))
        \/ (a.ids[2] = prev[1] /\ a.ids[1] = Z!TrackingId(last_id))
    BY <2>2
  <2> QED BY <1>3, <2>3, <2>4, <2>5, <2>6 DEF Fresh
<1>4. CASE cnt = 1 /\ Len(prev) = 2
  <2>1. PICK i \in 1 .. 2 : a = Z!Keep(<<prev[i]>>)
    BY <1>4 DEF Z!AssignTrackingId
  <2>2. a.ids = <<prev[i]>> /\ a.last = last_id
    BY <2>1 DEF Z!Keep
  <2>3. prev[i] \in ProfileIds /\ (prev[i] # Z!TrackingId(last_id) \/ prev[i] < 0)
    BY <1>4, <1>d, <1>n
  <2>4. a.ids \in Seq(ProfileIds) /\ Len(a.ids) = 1 /\ a.ids[1] = prev[i]
    BY <2>2, <2>3
  <2> QED BY <1>b, <1>4, <2>2, <2>3, <2>4 DEF Fresh
<1>5. CASE cnt # 0 /\ cnt = Len(prev)
  <2>1. a.ids = prev /\ a.last = last_id
    BY <1>b, <1>5 DEF Z!AssignTrackingId, Z!Keep
  <2> QED BY <1>b, <1>n, <1>5, <2>1 DEF Fresh, ProfileInv, Z!IdsDiffer
<1>6. cnt \in {0, 1, 2}
  OBVIOUS
<1> QED BY <1>b, <1>1, <1>2, <1>3, <1>4, <1>5, <1>6

LEMMA ProfileStep ==
  ProfileInv /\ [Z!Next]_Z!vars =>
    /\ ProfileInv'
    /\ [\A i \in 1 .. Len(prev) :
          /\ ~profile_warp' /\ prev # <<>> /\ prev2 # <<>> /\ prev' # <<>>
          /\ prev[i] \in Z!Range(prev')
          => Len(prev') = Len(prev) /\ Len(prev) = Len(prev2)]_Z!vars
<1> SUFFICES ASSUME ProfileInv, [Z!Next]_Z!vars
             PROVE  /\ ProfileInv'
                    /\ [\A i \in 1 .. Len(prev) :
                          /\ ~profile_warp' /\ prev # <<>> /\ prev2 # <<>> /\ prev' # <<>>
                          /\ prev[i] \in Z!Range(prev')
                          => Len(prev') = Len(prev) /\ Len(prev) = Len(prev2)]_Z!vars
  OBVIOUS
<1>a. IdSpace \in Nat /\ IdSpace > 2 /\ Axes # {}
  BY FiltersAssumption DEF Z!IdsAssumption
<1>b. /\ prev \in Seq(ProfileIds) /\ Len(prev) \in {0, 1, 2}
      /\ prev2 \in Seq(ProfileIds) /\ Len(prev2) \in {0, 1, 2}
  BY DEF ProfileInv
<1>1. CASE Z!SyncInterpret
  <2>1. PICK cnt \in 0 .. 2 : \E a \in Z!AssignTrackingId(cnt) :
          /\ profile_warp' = Z!Warps(cnt)
          /\ prev2' = prev
          /\ IF cnt = 1 /\ Len(prev) = 1 THEN Z!SuppressOneFingerJump(a)
             ELSE /\ prev' = a.ids
                  /\ last_id' = a.last
                  /\ jumps' = IF cnt = 1 THEN {} ELSE jumps
    BY <1>1, Zenon DEF Z!SyncInterpret
  <2>2. PICK a \in Z!AssignTrackingId(cnt) :
          /\ profile_warp' = Z!Warps(cnt)
          /\ prev2' = prev
          /\ IF cnt = 1 /\ Len(prev) = 1 THEN Z!SuppressOneFingerJump(a)
             ELSE /\ prev' = a.ids
                  /\ last_id' = a.last
                  /\ jumps' = IF cnt = 1 THEN {} ELSE jumps
    BY <2>1, Zenon
  <2>3. Fresh(a.ids, a.last) /\ Len(a.ids) = cnt
    BY Assigned
  <2>4. Fresh(prev', last_id') /\ Len(prev') = cnt /\ jumps' \subseteq Axes
    <3>1. CASE cnt = 1 /\ Len(prev) = 1
      <4>1. PICK on \in SUBSET Axes, new \in SUBSET Axes :
              /\ jumps' = new
              /\ last_id' = IF on = Axes THEN Z!After(Z!After(a.last))
                            ELSE IF on # {} THEN Z!After(a.last) ELSE a.last
              /\ prev' = IF on = {} THEN a.ids
                         ELSE <<Z!TrackingId(IF on = Axes THEN Z!After(a.last) ELSE a.last)>>
        BY <2>2, <3>1 DEF Z!SuppressOneFingerJump
      <4>2. CASE on = {}
        BY <1>a, <2>3, <4>1, <4>2
      <4>3. CASE on # {}
        <5> DEFINE n == IF on = Axes THEN Z!After(a.last) ELSE a.last
        <5>1. /\ n \in 0 .. IdSpace - 1 /\ last_id' = Z!After(n) /\ Z!After(n) \in 0 .. IdSpace - 1
              /\ Z!After(n) # n /\ prev' = <<Z!TrackingId(n)>>
          <6>1. a.last \in 0 .. IdSpace - 1
            BY <2>3 DEF Fresh
          <6>2. last_id' = Z!After(n) /\ prev' = <<Z!TrackingId(n)>>
            BY <4>1, <4>3
          <6>3. \A m \in 0 .. IdSpace - 1 : Z!After(m) \in 0 .. IdSpace - 1 /\ Z!After(m) # m
            BY <1>a, IdNumbers
          <6>4. n \in 0 .. IdSpace - 1
            BY <6>1, <6>3
          <6> QED BY <6>2, <6>3, <6>4
        <5> HIDE DEF n
        <5>2. Z!TrackingId(n) \in ProfileIds /\ Z!TrackingId(Z!After(n)) # Z!TrackingId(n)
          BY <5>1, IdNumbers DEF ProfileIds
        <5>3. prev' \in Seq(ProfileIds) /\ Len(prev') = 1 /\ prev'[1] = Z!TrackingId(n)
          BY <5>1, <5>2
        <5> QED BY <3>1, <4>1, <5>1, <5>2, <5>3 DEF Fresh
      <4> QED BY <4>2, <4>3
    <3>2. CASE ~(cnt = 1 /\ Len(prev) = 1)
      BY <2>2, <2>3, <3>2 DEF ProfileInv
    <3> QED BY <3>1, <3>2
  <2>5. profile_warp' = (cnt # 0 /\ (Len(prev) = 3 - cnt \/ Len(prev2) = 3 - cnt))
    BY <2>2 DEF Z!Warps
  <2>6. ProfileInv'
    <3>1. profile_warp' \in BOOLEAN
      BY <2>5
    <3>2. /\ prev' \in Seq(ProfileIds) /\ Len(prev') \in {0, 1, 2}
          /\ prev2' \in Seq(ProfileIds) /\ Len(prev2') \in {0, 1, 2}
      <4>1. cnt \in {0, 1, 2}
        OBVIOUS
      <4> QED BY <1>b, <2>2, <2>4, <4>1 DEF Fresh
    <3> QED BY <2>4, <3>1, <3>2 DEF ProfileInv, Fresh, Z!IdsDiffer
  <2>7. ASSUME ~profile_warp', prev # <<>>, prev2 # <<>>, prev' # <<>>
        PROVE  Len(prev') = Len(prev) /\ Len(prev) = Len(prev2)
    <3>1. prev' \in Seq(ProfileIds)
      BY <2>4 DEF Fresh
    <3>2. Len(prev) # 0 /\ Len(prev2) # 0 /\ Len(prev') # 0
      BY <1>b, <2>7, <3>1
    <3>3. cnt \in {0, 1, 2} /\ cnt # 0
      BY <2>4, <3>2
    <3>4. Len(prev) # 3 - cnt /\ Len(prev2) # 3 - cnt
      BY <2>5, <2>7, <3>3
    <3>5. Len(prev) \in {1, 2} /\ Len(prev2) \in {1, 2} /\ cnt \in {1, 2}
      BY <1>b, <3>2, <3>3
    <3>6. Len(prev) = cnt /\ Len(prev2) = cnt
      <4>1. CASE cnt = 1
        BY <3>4, <3>5, <4>1
      <4>2. CASE cnt = 2
        BY <3>4, <3>5, <4>2
      <4> QED BY <3>5, <4>1, <4>2
    <3> QED BY <2>4, <3>6
  <2> QED BY <2>6, <2>7
<1>2. CASE Z!ClearHistory
  <2>1. prev' = <<>> /\ prev2' = <<>> /\ profile_warp' = FALSE /\ last_id' = last_id /\ jumps' = jumps
    BY <1>2 DEF Z!ClearHistory
  <2>2. Len(prev') = 0 /\ Len(prev2') = 0 /\ prev' \in Seq(ProfileIds) /\ prev2' \in Seq(ProfileIds)
    BY <2>1
  <2>3. Len(prev') \in {0, 1, 2} /\ Len(prev2') \in {0, 1, 2} /\ 1 .. Len(prev') = {}
    BY <2>2
  <2>4. last_id' \in 0 .. IdSpace - 1 /\ jumps' \subseteq Axes /\ profile_warp' \in BOOLEAN
    BY <2>1 DEF ProfileInv
  <2>5. ProfileInv'
    BY <2>2, <2>3, <2>4 DEF ProfileInv, Z!IdsDiffer
  <2> QED BY <2>1, <2>5
<1>3. CASE UNCHANGED Z!vars
  BY <1>3 DEF Z!vars, ProfileInv, Z!IdsDiffer
<1> QED BY <1>1, <1>2, <1>3 DEF Z!Next

-----------------------------------------------------------------------------
(* Sessions and noisy ground *)

Moment == [at : 0 .. BigMoves, time : 0 .. MaxStep]
Seen == [fingers : UNION {[new -> 0 .. BigMoves] : new \in SUBSET Ids}, dt : 0 .. MaxStep]

\* h is what the last states of the pad say of the finger f, as far back as it was there.
Recalls(h, f, states) ==
  /\ h \in Seq(Moment) /\ Len(h) <= 3 /\ Len(h) <= Len(states)
  /\ \A j \in 0 .. Len(h) - 1 :
       /\ f \in DOMAIN states[Len(states) - j].fingers
       /\ h[Len(h) - j].at = states[Len(states) - j].fingers[f]
       /\ j > 0 => h[Len(h) - j].time = states[Len(states) - j + 1].dt
  /\ Len(h) < 3 /\ Len(h) < Len(states) => f \notin DOMAIN states[Len(states) - Len(h)].fingers

HistoryOf(f) == IF f \in DOMAIN finger_histories THEN finger_histories[f] ELSE <<>>

FingersInv ==
  /\ recent \in Seq(Seen) /\ Len(recent) <= 3
  /\ DOMAIN finger_histories \subseteq Ids
  /\ \A f \in Ids : Recalls(HistoryOf(f), f, recent)
  /\ \A f \in DOMAIN finger_histories : Len(finger_histories[f]) > 0
  /\ noisy = {f \in DOMAIN finger_histories : U!DetectNoisyGround(finger_histories[f])}

SessionInv ==
  /\ session_index \in 0 .. Warmup /\ length \in 0 .. 2
  /\ since \in 0 .. MovingTime + 1
  /\ pause \in Nat /\ pause <= MovingTime

MetricsInv == FingersInv /\ SessionInv

LEMMA MetricsConstants ==
  /\ MovingTime \in Nat /\ NoisyTime \in Nat /\ Warmup \in Nat /\ BigMoves \in Nat
  /\ MaxStep \in Nat /\ MaxHistorySize = 3
BY FiltersAssumption DEF U!MetricsAssumption

\* How long a sequence of the last three becomes.
Grown(n) == IF n < 3 THEN n + 1 ELSE 3

\* But for its last element t ends as s does.
Behind(t, s) == \A j \in 1 .. Len(t) - 1 : t[Len(t) - j] = s[Len(s) - j + 1]

LEMMA LastKept ==
  ASSUME NEW set, NEW s \in Seq(set), NEW e \in set, Len(s) <= 3,
         NEW t, t = U!LastOf(Append(s, e), 3)
  PROVE  /\ t \in Seq(set)
         /\ Len(t) = Grown(Len(s))
         /\ t[Len(t)] = e
         /\ Behind(t, s)
<1> DEFINE a == Append(s, e)
<1>0. t = U!LastOf(a, 3)
  OBVIOUS
<1>1. /\ a \in Seq(set) /\ Len(a) = Len(s) + 1 /\ Len(s) \in Nat
      /\ a[Len(s) + 1] = e /\ \A i \in 1 .. Len(s) : a[i] = s[i]
  OBVIOUS
<1> HIDE DEF a
<1> DEFINE n == Len(s)
<1>2. n \in Nat /\ n <= 3 /\ n = Len(s)
  BY <1>1
<1> HIDE DEF n
<1>3. CASE n < 3
  <2>1. t = a
    BY <1>0, <1>1, <1>2, <1>3 DEF U!LastOf
  <2>2. \A j \in 1 .. n : a[n + 1 - j] = s[n - j + 1]
    <3> SUFFICES ASSUME NEW j \in 1 .. n PROVE a[n + 1 - j] = s[n - j + 1]
      OBVIOUS
    <3>1. n + 1 - j \in 1 .. n /\ n - j + 1 = n + 1 - j
      BY <1>2
    <3>2. a[n + 1 - j] = s[n + 1 - j]
      BY <1>1, <1>2, <3>1
    <3> QED BY <3>1, <3>2
  <2>3. Len(t) = n + 1 /\ t[n + 1] = e /\ t \in Seq(set)
    BY <1>1, <1>2, <2>1
  <2>4. Grown(n) = n + 1
    BY <1>2, <1>3 DEF Grown
  <2>5. \A j \in 1 .. n : t[n + 1 - j] = s[n - j + 1]
    BY <2>1, <2>2
  <2>6. Len(t) = Grown(Len(s)) /\ t[Len(t)] = e
    BY <1>2, <2>3, <2>4, Zenon
  <2>7. ASSUME NEW j \in 1 .. Len(t) - 1 PROVE t[Len(t) - j] = s[Len(s) - j + 1]
    <3>0. Len(t) - 1 = n
      BY <1>2, <2>3
    <3>1. j \in 1 .. n
      BY <3>0
    <3>2. Len(t) - j = n + 1 - j /\ Len(s) - j + 1 = n - j + 1
      BY <1>2, <2>3, <3>1
    <3> QED BY <2>5, <3>1, <3>2, Zenon
  <2>8. t \in Seq(set)
    BY <2>3
  <2> QED BY <2>6, <2>7, <2>8 DEF Behind
<1>4. CASE n = 3
  <2>0. Len(a) = 4
    BY <1>1, <1>2, <1>4
  <2>a. Len(<<>>) = 0 /\ 4 # 0 /\ 4 > 3
    OBVIOUS
  <2>b. Len(a) > 3 /\ a # <<>>
    BY <2>0, <2>a, Zenon
  <2>1. t = Tail(a) /\ a # <<>> /\ Len(a) = 4
    BY <1>0, <2>0, <2>b DEF U!LastOf
  <2>2. t \in Seq(set) /\ Len(t) = Len(a) - 1 /\ \A i \in 1 .. Len(t) : t[i] = a[i + 1]
    BY <1>1, <2>1, HeadTailProperties, SMTT(30)
  <2>3. Len(a) - 1 = 3
    BY <2>1
  <2>4. t \in Seq(set) /\ Len(t) = 3 /\ \A i \in 1 .. 3 : t[i] = a[i + 1]
    BY <2>2, <2>3, Zenon
  <2>5. t[3] = e
    BY <1>1, <1>2, <1>4, <2>4
  <2>6. \A j \in 1 .. 3 - 1 : t[3 - j] = s[3 - j + 1]
    BY <1>1, <1>2, <1>4, <2>4
  <2>7. Grown(n) = 3
    BY <1>4 DEF Grown
  <2>8. Len(t) = Grown(Len(s)) /\ t[Len(t)] = e
    BY <1>2, <2>4, <2>5, <2>7, Zenon
  <2>9. ASSUME NEW j \in 1 .. Len(t) - 1 PROVE t[Len(t) - j] = s[Len(s) - j + 1]
    <3>1. j \in 1 .. 3 - 1
      BY <2>4
    <3> QED BY <1>2, <1>4, <2>4, <2>6, <3>1, Zenon
  <2> QED BY <2>4, <2>8, <2>9 DEF Behind
<1> QED BY <1>2, <1>3, <1>4

\* A history has its time put right and the new moment at its end.
LEMMA AddedTo ==
  ASSUME NEW h \in Seq(Moment), Len(h) <= 3, NEW pos \in 0 .. BigMoves, NEW dt \in 0 .. MaxStep,
         NEW g, g = U!Added(h, pos, dt)
  PROVE  /\ g \in Seq(Moment)
         /\ Len(g) = Grown(Len(h))
         /\ g[Len(g)].at = pos
         /\ \A j \in 1 .. Len(g) - 1 :
              /\ g[Len(g) - j].at = h[Len(h) - j + 1].at
              /\ g[Len(g) - j].time = IF j = 1 THEN dt ELSE h[Len(h) - j + 1].time
<1> DEFINE before == IF h = <<>> THEN <<>>
                     ELSE Append(U!Front(h), [U!Last(h) EXCEPT !.time = dt])
           new == [at |-> pos, time |-> 0]
<1>1. g = U!LastOf(Append(before, new), 3)
  BY MetricsConstants DEF U!Added
<1>2. new \in Moment /\ new.at = pos
  BY MetricsConstants DEF Moment
<1>3. /\ before \in Seq(Moment) /\ Len(before) = Len(h)
      /\ \A i \in 1 .. Len(h) :
           /\ before[i].at = h[i].at
           /\ before[i].time = IF i = Len(h) THEN dt ELSE h[i].time
  <2>1. CASE h = <<>>
    <3>1. before = <<>> /\ Len(h) = 0 /\ Len(before) = 0
      BY <2>1
    <3> QED BY <3>1
  <2>2. CASE h # <<>>
    <3> DEFINE last == [h[Len(h)] EXCEPT !.time = dt]
               front == SubSeq(h, 1, Len(h) - 1)
    <3>1. Len(h) \in Nat \ {0} /\ h[Len(h)] \in Moment
      BY <2>2
    <3>2. last \in Moment /\ last.at = h[Len(h)].at /\ last.time = dt
      BY <3>1 DEF Moment
    <3>3. front \in Seq(Moment) /\ Len(front) = Len(h) - 1 /\ \A i \in 1 .. Len(h) - 1 : front[i] = h[i]
      <4> DEFINE n == Len(h) - 1
      <4>1. n \in Int /\ n >= 0 /\ \A i \in 1 .. n : h[i] \in Moment
        BY <3>1
      <4>2. /\ SubSeq(h, 1, n) \in Seq(Moment)
            /\ Len(SubSeq(h, 1, n)) = IF 1 <= n THEN n - 1 + 1 ELSE 0
            /\ \A i \in 1 .. n - 1 + 1 : SubSeq(h, 1, n)[i] = h[1 + i - 1]
        <5> HIDE DEF n
        <5> QED BY <4>1, SubSeqProperties
      <4>3. front = SubSeq(h, 1, n)
        OBVIOUS
      <4> HIDE DEF front
      <4>4. front \in Seq(Moment) /\ Len(front) = IF 1 <= n THEN n - 1 + 1 ELSE 0
        BY <4>2, <4>3, Zenon
      <4>5. \A i \in 1 .. n - 1 + 1 : front[i] = h[1 + i - 1]
        BY <4>2, <4>3, Zenon
      <4> HIDE DEF n
      <4>6. Len(front) = n /\ \A i \in 1 .. n : front[i] = h[i]
        BY <4>1, <4>4, <4>5
      <4> QED BY <4>4, <4>6 DEF n
    <3>4. before = Append(front, last)
      BY <2>2 DEF U!Front, U!Last
    <3> HIDE DEF last, front, before
    <3>5. /\ before \in Seq(Moment) /\ Len(before) = Len(h)
          /\ before[Len(h)] = last /\ \A i \in 1 .. Len(h) - 1 : before[i] = h[i]
      BY <3>1, <3>2, <3>3, <3>4
    <3>6. ASSUME NEW i \in 1 .. Len(h)
          PROVE  /\ before[i].at = h[i].at
                 /\ before[i].time = IF i = Len(h) THEN dt ELSE h[i].time
      <4>1. CASE i = Len(h)
        BY <3>2, <3>5, <4>1
      <4>2. CASE i # Len(h)
        BY <3>1, <3>5, <4>2
      <4> QED BY <4>1, <4>2
    <3> QED BY <3>5, <3>6
  <2> QED BY <2>1, <2>2
<1> HIDE DEF before, new
<1>4. /\ g \in Seq(Moment)
      /\ Len(g) = Grown(Len(h))
      /\ g[Len(g)] = new
      /\ \A j \in 1 .. Len(g) - 1 : g[Len(g) - j] = before[Len(h) - j + 1]
  <2>1. Len(before) <= 3
    BY <1>3
  <2>2. /\ g \in Seq(Moment)
        /\ Len(g) = Grown(Len(before))
        /\ g[Len(g)] = new
        /\ \A j \in 1 .. Len(g) - 1 : g[Len(g) - j] = before[Len(before) - j + 1]
    <3>1. before \in Seq(Moment) /\ new \in Moment
      BY <1>2, <1>3
    <3>2. g \in Seq(Moment) /\ Len(g) = Grown(Len(before)) /\ g[Len(g)] = new /\ Behind(g, before)
      BY <1>1, <2>1, <3>1, LastKept
    <3> QED BY <3>2 DEF Behind
  <2> QED BY <1>3, <2>2
<1>5. ASSUME NEW j \in 1 .. Len(g) - 1
      PROVE  /\ g[Len(g) - j].at = h[Len(h) - j + 1].at
             /\ g[Len(g) - j].time = IF j = 1 THEN dt ELSE h[Len(h) - j + 1].time
  <2>1. Len(h) - j + 1 \in 1 .. Len(h) /\ (Len(h) - j + 1 = Len(h) <=> j = 1)
    BY <1>4, SMTT(30) DEF Grown
  <2> QED BY <1>3, <1>4, <2>1
<1> QED BY <1>2, <1>4, <1>5

\* What was recalled before a state is recalled after it.
LEMMA RecallsMore ==
  ASSUME NEW f \in Ids, NEW h, NEW states \in Seq(Seen), Len(states) <= 3, Recalls(h, f, states),
         NEW at, NEW dt \in 0 .. MaxStep, [fingers |-> at, dt |-> dt] \in Seen,
         NEW after, after = U!LastOf(Append(states, [fingers |-> at, dt |-> dt]), 3)
  PROVE  /\ f \in DOMAIN at /\ at[f] \in 0 .. BigMoves => Recalls(U!Added(h, at[f], dt), f, after)
         /\ f \notin DOMAIN at => Recalls(<<>>, f, after)
<1> DEFINE entry == [fingers |-> at, dt |-> dt]
<1>0. entry.fingers = at /\ entry.dt = dt /\ entry \in Seen
  OBVIOUS
<1> HIDE DEF entry
<1>1. /\ after \in Seq(Seen)
      /\ Len(after) = Grown(Len(states))
      /\ after[Len(after)] = entry
      /\ \A j \in 1 .. Len(after) - 1 : after[Len(after) - j] = states[Len(states) - j + 1]
  <2>1. after = U!LastOf(Append(states, entry), 3)
    BY DEF entry
  <2> QED BY <1>0, <2>1, LastKept DEF Behind
<1>2. ASSUME f \notin DOMAIN at PROVE Recalls(<<>>, f, after)
  <2>1. Len(<<>>) = 0 /\ <<>> \in Seq(Moment)
    OBVIOUS
  <2>2. f \notin DOMAIN after[Len(after) - 0].fingers
    BY <1>0, <1>1, <1>2
  <2> QED BY <1>1, <2>1, <2>2 DEF Recalls
<1>3. ASSUME f \in DOMAIN at, at[f] \in 0 .. BigMoves PROVE Recalls(U!Added(h, at[f], dt), f, after)
  <2> DEFINE g == U!Added(h, at[f], dt)
  <2>1. h \in Seq(Moment) /\ Len(h) <= 3 /\ Len(h) <= Len(states) /\ Len(h) \in Nat /\ Len(states) \in Nat
    BY DEF Recalls
  <2>2. /\ g \in Seq(Moment)
        /\ Len(g) = Grown(Len(h))
        /\ g[Len(g)].at = at[f]
        /\ \A j \in 1 .. Len(g) - 1 :
             /\ g[Len(g) - j].at = h[Len(h) - j + 1].at
             /\ g[Len(g) - j].time = IF j = 1 THEN dt ELSE h[Len(h) - j + 1].time
    BY <1>3, <2>1, AddedTo
  <2> HIDE DEF g
  <2>3. Len(g) <= 3 /\ Len(g) <= Len(after) /\ Len(g) \in Nat /\ Len(after) \in Nat
    BY <1>1, <2>1, <2>2 DEF Grown
  <2>4. ASSUME NEW j \in 0 .. Len(g) - 1
        PROVE  /\ f \in DOMAIN after[Len(after) - j].fingers
               /\ g[Len(g) - j].at = after[Len(after) - j].fingers[f]
               /\ j > 0 => g[Len(g) - j].time = after[Len(after) - j + 1].dt
    <3>1. CASE j = 0
      <4>1. Len(after) - j = Len(after) /\ Len(g) - j = Len(g)
        BY <2>3, <3>1
      <4> QED BY <1>0, <1>1, <1>3, <2>2, <3>1, <4>1
    <3>2. CASE j > 0
      <4> DEFINE i == j - 1
      <4>1. i \in 0 .. Len(h) - 1 /\ j \in 1 .. Len(g) - 1 /\ j \in 1 .. Len(after) - 1
        BY <2>1, <2>2, <2>3, <3>2 DEF Grown
      <4>2. /\ f \in DOMAIN states[Len(states) - i].fingers
            /\ h[Len(h) - i].at = states[Len(states) - i].fingers[f]
            /\ i > 0 => h[Len(h) - i].time = states[Len(states) - i + 1].dt
        BY <4>1 DEF Recalls
      <4>3. Len(states) - j + 1 = Len(states) - i /\ Len(h) - j + 1 = Len(h) - i
        BY <2>1, <4>1
      <4>4. after[Len(after) - j] = states[Len(states) - i]
        BY <1>1, <4>1, <4>3
      <4>5. g[Len(g) - j].at = h[Len(h) - i].at
            /\ g[Len(g) - j].time = IF j = 1 THEN dt ELSE h[Len(h) - i].time
        BY <2>2, <4>1, <4>3
      <4>6. g[Len(g) - j].time = after[Len(after) - j + 1].dt
        <5>1. CASE j = 1
          <6>1. Len(after) - j + 1 = Len(after)
            BY <2>3, <5>1
          <6> QED BY <1>0, <1>1, <4>5, <5>1, <6>1
        <5>2. CASE j # 1
          <6>1. i \in 1 .. Len(after) - 1 /\ Len(after) - j + 1 = Len(after) - i
                /\ Len(states) - i + 1 = Len(states) - i + 1 /\ i > 0
            BY <2>3, <4>1, <5>2
          <6>2. after[Len(after) - i] = states[Len(states) - i + 1]
            BY <1>1, <6>1
          <6> QED BY <4>2, <4>5, <5>2, <6>1, <6>2
        <5> QED BY <5>1, <5>2
      <4> QED BY <4>2, <4>4, <4>5, <4>6
    <3> QED BY <2>3, <3>1, <3>2
  <2>5. ASSUME Len(g) < 3, Len(g) < Len(after)
        PROVE  f \notin DOMAIN after[Len(after) - Len(g)].fingers
    <3>1. Len(g) = Len(h) + 1 /\ Len(h) < 3 /\ Len(h) < Len(states)
      BY <1>1, <2>1, <2>2, <2>5 DEF Grown
    <3>2. f \notin DOMAIN states[Len(states) - Len(h)].fingers
      BY <3>1 DEF Recalls
    <3>3. Len(g) \in 1 .. Len(after) - 1 /\ Len(states) - Len(g) + 1 = Len(states) - Len(h)
      BY <2>1, <2>3, <2>5, <3>1
    <3>4. after[Len(after) - Len(g)] = states[Len(states) - Len(g) + 1]
      BY <1>1, <3>3
    <3> QED BY <3>2, <3>3, <3>4
  <2> QED BY <2>2, <2>3, <2>4, <2>5 DEF Recalls, g
<1> QED BY <1>2, <1>3

LEMMA MetricsInit == U!Init => MetricsInv
<1> SUFFICES ASSUME U!Init PROVE MetricsInv
  OBVIOUS
<1>1. /\ DOMAIN finger_histories = {} /\ noisy = {} /\ recent = <<>>
      /\ session_index = 0 /\ length = 0 /\ since = 0 /\ pause = 0
  BY DEF U!Init
<1>2. Len(<<>>) = 0 /\ <<>> \in Seq(Moment) /\ <<>> \in Seq(Seen)
  OBVIOUS
<1>3. \A f \in Ids : HistoryOf(f) = <<>>
  BY <1>1 DEF HistoryOf
<1>4. \A f \in Ids : Recalls(<<>>, f, recent)
  BY <1>1, <1>2 DEF Recalls
<1>5. FingersInv
  <2>1. \A f \in Ids : Recalls(HistoryOf(f), f, recent)
    BY <1>3, <1>4
  <2>2. recent \in Seq(Seen) /\ Len(recent) <= 3
    BY <1>1, <1>2
  <2>3. noisy = {f \in DOMAIN finger_histories : U!DetectNoisyGround(finger_histories[f])}
    BY <1>1
  <2> QED BY <1>1, <2>1, <2>2, <2>3 DEF FingersInv
<1> QED BY <1>1, <1>5, MetricsConstants DEF MetricsInv, SessionInv

LEMMA MetricsTypes == MetricsInv => U!TypeOK
<1> SUFFICES ASSUME MetricsInv PROVE U!TypeOK
  OBVIOUS
<1>1. ASSUME NEW f \in DOMAIN finger_histories
      PROVE  /\ Len(finger_histories[f]) \in 1 .. MaxHistorySize
             /\ finger_histories[f] \in Seq(Moment)
  <2>1. f \in Ids /\ HistoryOf(f) = finger_histories[f] /\ Len(finger_histories[f]) > 0
    BY DEF MetricsInv, FingersInv, HistoryOf
  <2>2. Recalls(finger_histories[f], f, recent)
    BY <2>1 DEF MetricsInv, FingersInv
  <2>3. finger_histories[f] \in Seq(Moment) /\ Len(finger_histories[f]) <= 3
    BY <2>2 DEF Recalls
  <2>4. \A n \in Nat : n > 0 /\ n <= 3 => n \in 1 .. MaxHistorySize
    BY MetricsConstants
  <2>5. Len(finger_histories[f]) \in Nat
    BY <2>3
  <2> QED BY <2>1, <2>3, <2>4, <2>5, Zenon
<1> QED BY <1>1 DEF MetricsInv, FingersInv, SessionInv, U!TypeOK, Moment

LEMMA NoisySeen == MetricsInv => U!NoisyGroundIsSeen
<1> SUFFICES ASSUME MetricsInv PROVE U!NoisyGroundIsSeen
  OBVIOUS
<1>0. /\ recent \in Seq(Seen) /\ Len(recent) <= 3 /\ Len(recent) \in Nat
      /\ DOMAIN finger_histories \subseteq Ids
      /\ noisy = {f \in DOMAIN finger_histories : U!DetectNoisyGround(finger_histories[f])}
  BY DEF MetricsInv, FingersInv
<1> SUFFICES ASSUME NEW f \in Ids
             PROVE  f \in noisy <=>
                      /\ Len(recent) = 3 /\ \A i \in 1 .. 3 : f \in DOMAIN recent[i].fingers
                      /\ U!BackAndForth(recent[1].fingers[f], recent[2].fingers[f],
                                        recent[3].fingers[f], recent[2].dt + recent[3].dt)
  BY <1>0 DEF U!NoisyGroundIsSeen
<1> DEFINE h == HistoryOf(f)
<1>1. Recalls(h, f, recent)
  BY DEF MetricsInv, FingersInv
<1>2. h = IF f \in DOMAIN finger_histories THEN finger_histories[f] ELSE <<>>
  BY DEF HistoryOf
<1>3. f \in noisy <=> Len(h) = 3 /\ U!BackAndForth(h[1].at, h[2].at, h[3].at, h[1].time + h[2].time)
  <2>1. CASE f \in DOMAIN finger_histories
    BY <1>0, <1>2, <2>1 DEF U!DetectNoisyGround
  <2>2. CASE f \notin DOMAIN finger_histories
    <3>1. Len(<<>>) = 0 /\ 0 # 3
      OBVIOUS
    <3>2. Len(h) # 3
      BY <1>2, <2>2, <3>1, Zenon
    <3> QED BY <1>0, <2>2, <3>2
  <2> QED BY <2>1, <2>2
<1> HIDE DEF h
<1>4. Len(h) \in Nat /\ Len(h) <= 3 /\ Len(h) <= Len(recent)
  BY <1>1 DEF Recalls
<1>5. ASSUME Len(h) = 3
      PROVE  /\ Len(recent) = 3 /\ \A i \in 1 .. 3 : f \in DOMAIN recent[i].fingers
             /\ h[1].at = recent[1].fingers[f] /\ h[2].at = recent[2].fingers[f]
             /\ h[3].at = recent[3].fingers[f]
             /\ h[1].time = recent[2].dt /\ h[2].time = recent[3].dt
  <2>1. Len(recent) = 3
    <3>1. \A m, n \in Nat : m = 3 /\ m <= n /\ n <= 3 => n = 3
      OBVIOUS
    <3> QED BY <1>0, <1>4, <1>5, <3>1, Zenon
  <2>2. \A j \in 0 .. 2 :
           /\ f \in DOMAIN recent[3 - j].fingers
           /\ h[3 - j].at = recent[3 - j].fingers[f]
           /\ j > 0 => h[3 - j].time = recent[3 - j + 1].dt
    BY <1>1, <1>5, <2>1 DEF Recalls
  <2>3. f \in DOMAIN recent[3].fingers /\ h[3].at = recent[3].fingers[f]
    BY <2>2
  <2>4. f \in DOMAIN recent[2].fingers /\ h[2].at = recent[2].fingers[f] /\ h[2].time = recent[3].dt
    <3>1. 1 \in 0 .. 2 /\ 3 - 1 = 2 /\ 3 - 1 + 1 = 3 /\ 1 > 0
      OBVIOUS
    <3> QED BY <2>2, <3>1
  <2>5. f \in DOMAIN recent[1].fingers /\ h[1].at = recent[1].fingers[f] /\ h[1].time = recent[2].dt
    <3>1. 2 \in 0 .. 2 /\ 3 - 2 = 1 /\ 3 - 2 + 1 = 2 /\ 2 > 0
      OBVIOUS
    <3> QED BY <2>2, <3>1
  <2> QED BY <2>1, <2>3, <2>4, <2>5
<1>6. ASSUME Len(recent) = 3, \A i \in 1 .. 3 : f \in DOMAIN recent[i].fingers
      PROVE  Len(h) = 3
  <2>1. Len(h) < 3 => f \notin DOMAIN recent[3 - Len(h)].fingers
    BY <1>1, <1>6 DEF Recalls
  <2>2. Len(h) < 3 => 3 - Len(h) \in 1 .. 3
    BY <1>4
  <2>3. \A n \in Nat : n <= 3 => n = 3 \/ n < 3
    OBVIOUS
  <2> QED BY <1>4, <1>6, <2>1, <2>2, <2>3, Zenon
<1> QED BY <1>3, <1>5, <1>6

LEMMA SessionStep ==
  ASSUME SessionInv, U!UpdateMouseMovementState
  PROVE  SessionInv'
<1>1. PICK dt \in 0 .. MaxStep, moving \in BOOLEAN :
       LET time == IF since + dt > MovingTime THEN MovingTime + 1 ELSE since + dt
           ends == U!EndsSession(time)
       IN IF moving
          THEN /\ since' = 0
               /\ length' = IF ends \/ length = 0 THEN 1 ELSE 2
               /\ session_index' =
                    IF ends /\ session_index < Warmup THEN session_index + 1
                    ELSE session_index
               /\ pause' = IF ends \/ length = 0 THEN 0 ELSE U!Max({pause, time})
          ELSE since' = time /\ UNCHANGED <<session_index, length, pause>>
  BY DEF U!UpdateMouseMovementState
<1> DEFINE time == IF since + dt > MovingTime THEN MovingTime + 1 ELSE since + dt
<1>2. time \in 0 .. MovingTime + 1
  BY MetricsConstants DEF SessionInv
<1> HIDE DEF time
<1>3. CASE moving
  <2>1. /\ since' = 0
        /\ length' = IF U!EndsSession(time) \/ length = 0 THEN 1 ELSE 2
        /\ session_index' = IF U!EndsSession(time) /\ session_index < Warmup
                            THEN session_index + 1 ELSE session_index
        /\ pause' = IF U!EndsSession(time) \/ length = 0 THEN 0 ELSE U!Max({pause, time})
    BY <1>1, <1>3 DEF time
  <2>2. CASE U!EndsSession(time) \/ length = 0
    BY <2>1, <2>2, MetricsConstants DEF SessionInv
  <2>3. CASE ~(U!EndsSession(time) \/ length = 0)
    <3>1. time <= MovingTime
      BY <1>2, <2>3, MetricsConstants DEF U!EndsSession, SessionInv
    <3> DEFINE both == {pause, time}
    <3>2. both \subseteq Nat /\ \A x \in both : x <= MovingTime
      BY <1>2, <3>1, MetricsConstants DEF SessionInv
    <3>3. \E x \in both : \A y \in both : x >= y
      BY <3>2
    <3>4. U!Max(both) \in both
      BY <3>3 DEF U!Max
    <3>5. pause' \in Nat /\ pause' <= MovingTime
      BY <2>1, <2>3, <3>2, <3>4
    <3> QED BY <2>1, <2>3, <3>5, MetricsConstants DEF SessionInv
  <2> QED BY <2>2, <2>3
<1>4. CASE ~moving
  <2>1. since' = time /\ UNCHANGED <<session_index, length, pause>>
    BY <1>1, <1>4 DEF time
  <2> QED BY <1>2, <2>1 DEF SessionInv
<1> QED BY <1>3, <1>4

LEMMA FingersStep ==
  ASSUME FingersInv, U!UpdateFingerState
  PROVE  FingersInv'
<1>1. PICK new \in SUBSET Ids, dt \in 0 .. MaxStep :
     \E at \in [new -> 0 .. BigMoves] :
       /\ LET kept == U!RemoveMissingIds(new)
              of(f) == IF f \in DOMAIN kept THEN kept[f] ELSE <<>>
          IN finger_histories' = [f \in DOMAIN kept \cup new |->
                             IF f \in new THEN U!Added(of(f), at[f], dt) ELSE kept[f]]
       /\ noisy' = {f \in new : U!DetectNoisyGround(finger_histories'[f])}
       /\ recent' = U!LastOf(Append(recent, [fingers |-> at, dt |-> dt]), 3)
  BY DEF U!UpdateFingerState
<1>2. PICK at \in [new -> 0 .. BigMoves] :
       /\ LET kept == U!RemoveMissingIds(new)
              of(f) == IF f \in DOMAIN kept THEN kept[f] ELSE <<>>
          IN finger_histories' = [f \in DOMAIN kept \cup new |->
                             IF f \in new THEN U!Added(of(f), at[f], dt) ELSE kept[f]]
       /\ noisy' = {f \in new : U!DetectNoisyGround(finger_histories'[f])}
       /\ recent' = U!LastOf(Append(recent, [fingers |-> at, dt |-> dt]), 3)
  BY <1>1
<1> DEFINE kept == U!RemoveMissingIds(new)
<1>3. /\ DOMAIN kept = DOMAIN finger_histories \cap new
      /\ \A f \in DOMAIN kept : kept[f] = finger_histories[f]
  BY DEF U!RemoveMissingIds, U!Restrict
<1>4. finger_histories' = [f \in DOMAIN kept \cup new |->
                             IF f \in new
                             THEN U!Added(IF f \in DOMAIN kept THEN kept[f] ELSE <<>>, at[f], dt)
                             ELSE kept[f]]
  BY <1>2
<1> HIDE DEF kept
<1>5. DOMAIN finger_histories' = new
  BY <1>3, <1>4
<1>6. ASSUME NEW f \in new PROVE finger_histories'[f] = U!Added(HistoryOf(f), at[f], dt)
  <2>1. HistoryOf(f) = IF f \in DOMAIN kept THEN kept[f] ELSE <<>>
    BY <1>3 DEF HistoryOf
  <2>2. finger_histories'[f] = U!Added(IF f \in DOMAIN kept THEN kept[f] ELSE <<>>, at[f], dt)
    BY <1>4
  <2> QED BY <2>1, <2>2, Zenon
<1> DEFINE entry == [fingers |-> at, dt |-> dt]
<1>7. entry \in Seen
  BY DEF Seen
<1>8. recent \in Seq(Seen) /\ Len(recent) <= 3
  BY DEF FingersInv
<1>9. recent' \in Seq(Seen) /\ Len(recent') <= 3
  <2>1. recent' = U!LastOf(Append(recent, entry), 3)
    BY <1>2
  <2> HIDE DEF entry
  <2>2. recent' \in Seq(Seen) /\ Len(recent') = Grown(Len(recent))
    BY <1>7, <1>8, <2>1, LastKept
  <2> QED BY <1>8, <2>2 DEF Grown
<1>10. ASSUME NEW f \in Ids
       PROVE  /\ Recalls(HistoryOf(f)', f, recent')
              /\ f \in new => Len(finger_histories'[f]) > 0
  <2>1. Recalls(HistoryOf(f), f, recent)
    BY DEF FingersInv
  <2>2. CASE f \in new
    <3>1. f \in DOMAIN at /\ at[f] \in 0 .. BigMoves
      BY <2>2
    <3>2. HistoryOf(f)' = U!Added(HistoryOf(f), at[f], dt)
      BY <1>5, <1>6, <2>2 DEF HistoryOf
    <3>3. Recalls(U!Added(HistoryOf(f), at[f], dt), f, recent')
      BY <1>2, <1>7, <1>8, <2>1, <3>1, RecallsMore
    <3>4. Len(U!Added(HistoryOf(f), at[f], dt)) = Grown(Len(HistoryOf(f)))
          /\ HistoryOf(f) \in Seq(Moment)
      BY <2>1, <3>1, AddedTo DEF Recalls
    <3>5. Grown(Len(HistoryOf(f))) > 0
      BY <3>4 DEF Grown
    <3> QED BY <1>6, <2>2, <3>2, <3>3, <3>4, <3>5
  <2>3. CASE f \notin new
    <3>1. f \notin DOMAIN at
      BY <2>3
    <3>2. HistoryOf(f)' = <<>>
      BY <1>5, <2>3 DEF HistoryOf
    <3>3. Recalls(<<>>, f, recent')
      BY <1>2, <1>7, <1>8, <2>1, <3>1, RecallsMore
    <3> QED BY <2>3, <3>2, <3>3
  <2> QED BY <2>2, <2>3
<1> QED BY <1>2, <1>5, <1>9, <1>10 DEF FingersInv

LEMMA MetricsStep == MetricsInv /\ [U!Next]_U!vars => MetricsInv'
<1> SUFFICES ASSUME MetricsInv, [U!Next]_U!vars PROVE MetricsInv'
  OBVIOUS
<1>1. ASSUME UNCHANGED <<finger_histories, noisy, recent>> PROVE FingersInv'
  BY <1>1 DEF MetricsInv, FingersInv, HistoryOf, Recalls
<1>2. ASSUME UNCHANGED <<session_index, length, since, pause>> PROVE SessionInv'
  BY <1>2 DEF MetricsInv, SessionInv
<1>3. CASE U!UpdateMouseMovementState
  BY <1>1, <1>3, SessionStep DEF MetricsInv, U!UpdateMouseMovementState, U!finger_vars
<1>4. CASE U!UpdateFingerState
  BY <1>2, <1>4, FingersStep DEF MetricsInv, U!UpdateFingerState, U!mouse_vars
<1>5. CASE UNCHANGED U!vars
  BY <1>1, <1>2, <1>5 DEF MetricsInv, U!vars
<1> QED BY <1>3, <1>4, <1>5 DEF U!Next

-----------------------------------------------------------------------------
(* The trend classifying filter's pool *)

IsSeq(s) == s \in Seq({s[i] : i \in DOMAIN s})

\* How many nodes the history of f has, and how many it has as f's are in h.
Nodes(h) == [f \in DOMAIN h |-> Len(h[f])]

TrendInv ==
  /\ free \in Nat /\ num_of_samples \in 1 .. MaxSamples
  /\ DOMAIN histories \subseteq TouchIds
  /\ \A f \in DOMAIN histories : IsSeq(histories[f])
  /\ free + Cardinality(NodesOf(Nodes(histories), DOMAIN histories)) = PoolSize

LEMMA TrendConstants == /\ PoolSize \in Nat /\ MaxSamples \in Nat \ {0} /\ IsFiniteSet(TouchIds)
BY FiltersAssumption DEF K!PoolAssumption, IsFiniteSet, K!IsFiniteSet

LEMMA Sequences ==
  /\ \A set : \A s \in Seq(set) : IsSeq(s)
  /\ \A s : IsSeq(s) => Len(s) \in Nat /\ DOMAIN s = 1 .. Len(s)
<1>1. ASSUME NEW set, NEW s \in Seq(set) PROVE IsSeq(s)
  <2>1. Len(s) \in Nat /\ DOMAIN s = 1 .. Len(s) /\ s \in [1 .. Len(s) -> set]
    BY LenProperties
  <2>2. s \in [1 .. Len(s) -> {s[i] : i \in DOMAIN s}]
    BY <2>1
  <2> QED BY <2>1, <2>2, SeqDef DEF IsSeq
<1>2. ASSUME NEW s, IsSeq(s) PROVE Len(s) \in Nat /\ DOMAIN s = 1 .. Len(s)
  BY <1>2, LenProperties DEF IsSeq
<1> QED BY <1>1, <1>2

LEMMA TrendNodes ==
  ASSUME NEW h, DOMAIN h \subseteq TouchIds, \A f \in DOMAIN h : IsSeq(h[f])
  PROVE  /\ IsFiniteSet(DOMAIN h)
         /\ \A A \in SUBSET DOMAIN h :
              /\ IsFiniteSet(NodesOf(Nodes(h), A))
              /\ K!MapThenSumSet(LAMBDA f : Len(h[f]), A) = Cardinality(NodesOf(Nodes(h), A))
<1>1. IsFiniteSet(DOMAIN h)
  BY TrendConstants, FS_Subset
<1>2. ASSUME NEW A \in SUBSET DOMAIN h
      PROVE  /\ IsFiniteSet(NodesOf(Nodes(h), A))
             /\ K!MapThenSumSet(LAMBDA f : Len(h[f]), A) = Cardinality(NodesOf(Nodes(h), A))
  <2>1. IsFiniteSet(A) /\ \A f \in A : Nodes(h)[f] \in Nat /\ Nodes(h)[f] = Len(h[f])
    BY <1>1, FS_Subset, Sequences DEF Nodes
  <2>2. IsFiniteSet(NodesOf(Nodes(h), A))
    BY <2>1, NodesAdded
  <2>3. SumOf(Nodes(h), A) = Cardinality(NodesOf(Nodes(h), A))
    BY <2>1, SumIsNodes
  <2>4. SumOf(Nodes(h), A) = K!MapThenSumSet(LAMBDA f : Len(h[f]), A)
    <3> DEFINE Of(sum, s) == IF s = {} THEN 0
                             ELSE Nodes(h)[CHOOSE x \in s : TRUE] + sum[s \ {CHOOSE x \in s : TRUE}]
               As(sum, s) == IF s = {} THEN 0
                             ELSE Len(h[CHOOSE x \in s : TRUE]) + sum[s \ {CHOOSE x \in s : TRUE}]
    <3>1. \A sum : [s \in SUBSET A |-> Of(sum, s)] = [s \in SUBSET A |-> As(sum, s)]
      <4>1. \A sum : \A s \in SUBSET A : Of(sum, s) = As(sum, s)
        BY <2>1
      <4> HIDE DEF Of, As
      <4> QED BY <4>1
    <3>2. SumOf(Nodes(h), A) = (CHOOSE sum : sum = [s \in SUBSET A |-> Of(sum, s)])[A]
      BY DEF SumOf
    <3>3. K!MapThenSumSet(LAMBDA f : Len(h[f]), A) =
            (CHOOSE sum : sum = [s \in SUBSET A |-> As(sum, s)])[A]
      BY DEF K!MapThenSumSet, K!MapThenFoldSet
    <3> HIDE DEF Of, As
    <3>4. (CHOOSE sum : sum = [s \in SUBSET A |-> Of(sum, s)]) =
            (CHOOSE sum : sum = [s \in SUBSET A |-> As(sum, s)])
      BY <3>1
    <3>5. \A m : m = (CHOOSE sum : sum = [s \in SUBSET A |-> As(sum, s)])[A] =>
                   m = SumOf(Nodes(h), A)
      BY <3>2, <3>4
    <3> QED BY <3>3, <3>5
  <2> QED BY <2>2, <2>3, <2>4
<1> QED BY <1>1, <1>2

\* A finger whose history is full gives as many nodes back as it takes.
LEMMA Pushed ==
  ASSUME NEW h, IsSeq(h), NEW x, NEW served \in BOOLEAN, num_of_samples \in Nat \ {0}
  PROVE  /\ IsSeq(K!AddNewStateToBuffer(h, x, served))
         /\ Len(K!AddNewStateToBuffer(h, x, served)) =
              Len(h) + (IF served /\ ~K!Full(h) THEN 1 ELSE 0)
<1>0. Len(h) \in Nat /\ h \in Seq({h[i] : i \in DOMAIN h})
  BY Sequences DEF IsSeq
<1>1. ASSUME NEW s, IsSeq(s) PROVE IsSeq(K!Push(s, x)) /\ Len(K!Push(s, x)) = Len(s) + 1
  <2>0. Len(s) \in Nat /\ DOMAIN s = 1 .. Len(s)
    BY <1>1, Sequences
  <2>1. CASE s = <<>>
    <3>1. K!Push(s, x) = <<K!Sample(x, 0)>> /\ Len(s) = 0
      BY <2>1 DEF K!Push
    <3>2. \A e : IsSeq(<<e>>) /\ Len(<<e>>) = 1
      <4>1. \A e : <<e>> \in Seq({e}) /\ Len(<<e>>) = 1
        OBVIOUS
      <4> QED BY <4>1, Sequences, Zenon
    <3> QED BY <3>1, <3>2
  <2>2. CASE s # <<>>
    <3>1. PICK dx, e : K!Push(s, x) = Append(K!Updated(s, x, dx), e)
      BY <2>2, Zenon DEF K!Push
    <3> DEFINE past == K!Updated(s, x, dx)
               set == {past[i] : i \in 1 .. Len(s)} \cup {e}
    <3>2. past = [i \in 1 .. Len(s) |-> past[i]]
      BY <2>0 DEF K!Updated
    <3> HIDE DEF past
    <3>3. past \in Seq(set)
      <4>1. past \in [1 .. Len(s) -> set]
        BY <3>2
      <4> QED BY <2>0, <4>1, SeqDef
    <3>4. Len(past) = Len(s)
      <4>1. DOMAIN past = 1 .. Len(s)
        BY <3>2
      <4> QED BY <2>0, <3>3, <4>1, LenProperties
    <3>5. Append(past, e) \in Seq(set) /\ Len(Append(past, e)) = Len(past) + 1
      BY <3>3, AppendProperties
    <3> QED BY <3>1, <3>4, <3>5, Sequences DEF past
  <2> QED BY <2>1, <2>2
<1>2. CASE ~served
  BY <1>0, <1>2 DEF K!AddNewStateToBuffer
<1>3. CASE served /\ ~K!Full(h)
  BY <1>0, <1>1, <1>3 DEF K!AddNewStateToBuffer
<1>4. CASE served /\ K!Full(h)
  <2>1. h # <<>>
    BY <1>4 DEF K!Full
  <2>2. Tail(h) \in Seq({h[i] : i \in DOMAIN h}) /\ Len(Tail(h)) = Len(h) - 1
    BY <1>0, <2>1, HeadTailProperties
  <2>3. IsSeq(Tail(h))
    BY <2>2, Sequences
  <2>4. IsSeq(K!Push(Tail(h), x)) /\ Len(K!Push(Tail(h), x)) = Len(h) - 1 + 1
    BY <1>1, <2>2, <2>3
  <2> QED BY <1>0, <1>4, <2>4 DEF K!AddNewStateToBuffer
<1> QED BY <1>2, <1>3, <1>4

LEMMA Counted == \A A : K!Cardinality(A) = Cardinality(A)
BY DEF K!Cardinality, Cardinality

LEMMA TrendInit == K!Init => TrendInv
<1> SUFFICES ASSUME K!Init PROVE TrendInv
  OBVIOUS
<1>1. /\ free = PoolSize /\ DOMAIN histories = {} /\ num_of_samples = MaxSamples
  BY DEF K!Init
<1>2. NodesOf(Nodes(histories), {}) = {} /\ Cardinality({}) = 0
  BY FS_EmptySet DEF NodesOf
<1> QED BY <1>1, <1>2, TrendConstants DEF TrendInv

LEMMA TrendTypes == TrendInv => K!TypeOK /\ K!NodesConserved
<1> SUFFICES ASSUME TrendInv PROVE K!TypeOK /\ K!NodesConserved
  OBVIOUS
<1> DEFINE count == Cardinality(NodesOf(Nodes(histories), DOMAIN histories))
<1>1. /\ IsFiniteSet(NodesOf(Nodes(histories), DOMAIN histories))
      /\ K!MapThenSumSet(LAMBDA f : Len(histories[f]), DOMAIN histories) = count
  BY TrendNodes DEF TrendInv
<1>2. count \in Nat
  BY <1>1, FS_CardinalityType
<1>3. free \in Nat /\ free + count = PoolSize
  BY DEF TrendInv
<1> HIDE DEF count
<1>4. free \in 0 .. PoolSize
  BY <1>2, <1>3, TrendConstants
<1>5. K!NodesConserved
  BY <1>1, <1>3 DEF K!NodesConserved
<1> QED BY <1>4, <1>5 DEF TrendInv, K!TypeOK

\* As many nodes as fingers of A.
LEMMA OneEach ==
  ASSUME NEW A, IsFiniteSet(A), NEW n
  PROVE  /\ IsFiniteSet({<<f, n[f]>> : f \in A})
         /\ Cardinality({<<f, n[f]>> : f \in A}) = Cardinality(A)
<1> DEFINE last == {<<f, n[f]>> : f \in A}
           at == [f \in A |-> <<f, n[f]>>]
<1>1. at \in Bijection(A, last)
  <2>1. at \in [A -> last] /\ \A f, g \in A : at[f] = at[g] => f = g
    OBVIOUS
  <2>2. \A p \in last : \E f \in A : at[f] = p
    OBVIOUS
  <2> HIDE DEF at, last
  <2>3. at \in Injection(A, last)
    BY <2>1, Zenon DEF Injection, IsInjective
  <2>4. at \in Surjection(A, last)
    BY <2>1, <2>2, Zenon DEF Surjection
  <2> QED BY <2>3, <2>4, Zenon DEF Bijection
<1>2. ExistsBijection(A, last)
  BY <1>1 DEF ExistsBijection
<1> QED BY <1>2, FS_Bijection

\* What is free after the nodes of the fingers that left have come back and those of the
\* others have been taken.
LEMMA TrendStep == TrendInv /\ [K!Next]_K!vars => TrendInv'
<1> SUFFICES ASSUME TrendInv, [K!Next]_K!vars PROVE TrendInv'
  OBVIOUS
<1>1. CASE UNCHANGED K!vars
  BY <1>1 DEF TrendInv, K!vars
<1>2. CASE K!SetNumOfSamples
  BY <1>2 DEF TrendInv, K!SetNumOfSamples
<1>3. CASE K!UpdateFingerState
  <2> DEFINE old == DOMAIN histories
             count(A) == Cardinality(NodesOf(Nodes(histories), A))
             Needy(new) == {f \in new : ~K!Full(K!History(f))}
             Open(new) == free + K!Freed(new)
  <2>0. PICK new \in SUBSET TouchIds : \E x \in [new -> 0 .. MaxPosition],
             short \in K!kSubset(K!Max({0, K!Cardinality(Needy(new)) - Open(new)}), Needy(new)) :
          /\ histories' =
               [f \in new |-> K!AddNewStateToBuffer(K!History(f), x[f], f \notin short)]
          /\ free' = Open(new) - K!Cardinality(Needy(new) \ short)
          /\ UNCHANGED num_of_samples
    BY <1>3, Zenon DEF K!UpdateFingerState
  <2>1. PICK x \in [new -> 0 .. MaxPosition],
             short \in K!kSubset(K!Max({0, K!Cardinality(Needy(new)) - Open(new)}), Needy(new)) :
          /\ histories' =
               [f \in new |-> K!AddNewStateToBuffer(K!History(f), x[f], f \notin short)]
          /\ free' = Open(new) - K!Cardinality(Needy(new) \ short)
          /\ UNCHANGED num_of_samples
    BY <2>0
  <2> DEFINE needy == Needy(new)
             taken == needy \ short
             open == Open(new)
             stay == old \cap new
             n == [f \in new |-> Len(K!History(f)) + 1]
             nodes == {<<f, n[f]>> : f \in taken}
  <2>2. /\ needy \in SUBSET new /\ short \in SUBSET needy
        /\ Cardinality(short) = K!Max({0, Cardinality(needy) - open})
        /\ free' = open - Cardinality(taken)
    <3>1. short \in SUBSET needy /\ Cardinality(short) = K!Max({0, Cardinality(needy) - open})
      BY <2>1, Counted DEF K!kSubset
    <3> QED BY <2>1, <3>1, Counted
  <2>3. /\ IsFiniteSet(needy) /\ IsFiniteSet(taken) /\ IsFiniteSet(short) /\ IsFiniteSet(new)
        /\ Cardinality(taken) = Cardinality(needy) - Cardinality(short)
    <3> HIDE DEF needy
    <3>1. IsFiniteSet(new) /\ IsFiniteSet(needy) /\ IsFiniteSet(short) /\ IsFiniteSet(taken)
      BY <2>2, TrendConstants, FS_Subset
    <3>2. taken \cup short = needy /\ taken \cap short = {}
      BY <2>2
    <3> HIDE DEF taken
    <3>3. Cardinality(needy) = Cardinality(taken) + Cardinality(short) - Cardinality({})
      BY <3>1, <3>2, FS_Union
    <3>4. Cardinality({}) = 0 /\ Cardinality(taken) \in Nat /\ Cardinality(short) \in Nat
      BY <3>1, FS_EmptySet, FS_CardinalityType
    <3> QED BY <3>1, <3>3, <3>4
  <2>4. /\ open = free + count(old \ new) /\ open \in Nat
        /\ count(old) = count(stay) + count(old \ new) /\ count(stay) \in Nat
        /\ IsFiniteSet(NodesOf(Nodes(histories), stay))
    <3>1. /\ old \subseteq TouchIds /\ \A f \in old : IsSeq(histories[f])
          /\ free \in Nat
      BY DEF TrendInv
    <3>2. \A A \in SUBSET old :
            /\ IsFiniteSet(NodesOf(Nodes(histories), A))
            /\ K!MapThenSumSet(LAMBDA f : Len(histories[f]), A) = count(A)
      BY <3>1, TrendNodes
    <3>3. old \ new \in SUBSET old /\ stay \in SUBSET old
      OBVIOUS
    <3>4. open = free + count(old \ new)
      <4>1. K!MapThenSumSet(LAMBDA f : Len(histories[f]), old \ new) = count(old \ new)
        BY <3>2, <3>3
      <4> HIDE DEF count
      <4> QED BY <4>1 DEF K!Freed
    <3> DEFINE kept == NodesOf(Nodes(histories), stay)
               left == NodesOf(Nodes(histories), old \ new)
    <3>5. kept \cup left = NodesOf(Nodes(histories), old) /\ kept \cap left = {}
      BY DEF NodesOf
    <3>6. IsFiniteSet(kept) /\ IsFiniteSet(left)
      BY <3>2, <3>3
    <3> HIDE DEF kept, left
    <3>7. Cardinality(kept \cup left) = Cardinality(kept) + Cardinality(left) - Cardinality({})
      BY <3>5, <3>6, FS_Union
    <3>8. Cardinality(kept) \in Nat /\ Cardinality(left) \in Nat /\ Cardinality({}) = 0
      BY <3>6, FS_CardinalityType, FS_EmptySet
    <3>9. count(stay) = Cardinality(kept) /\ count(old \ new) = Cardinality(left)
          /\ count(old) = Cardinality(kept \cup left)
      BY <3>5 DEF kept, left
    <3> HIDE DEF count, open, old, stay
    <3> QED BY <3>1, <3>4, <3>6, <3>7, <3>8, <3>9 DEF kept
  <2>5. free' \in Nat
    <3> HIDE DEF needy, open, taken
    <3> DEFINE more == Cardinality(needy) - open
               both == {0, more}
    <3>1. Cardinality(needy) \in Nat /\ Cardinality(short) \in Nat
      BY <2>3, FS_CardinalityType
    <3>2. more \in Int
      BY <2>4, <3>1
    <3>3. K!Max(both) \in both /\ \A y \in both : K!Max(both) >= y
      <4>1. \E y \in both : \A z \in both : y >= z
        <5>1. CASE more >= 0
          BY <3>2, <5>1
        <5>2. CASE ~(more >= 0)
          BY <3>2, <5>2
        <5> QED BY <5>1, <5>2
      <4> HIDE DEF both
      <4> QED BY <4>1 DEF K!Max
    <3>4. Cardinality(short) = K!Max(both)
      BY <2>2
    <3>5. Cardinality(short) >= more
      BY <3>3, <3>4
    <3> QED BY <2>2, <2>3, <2>4, <3>1, <3>5
  <2>6. \A f \in new :
          /\ IsSeq(K!History(f)) /\ IsSeq(histories'[f])
          /\ Len(histories'[f]) = Len(K!History(f)) + (IF f \in taken THEN 1 ELSE 0)
          /\ f \in stay => Len(K!History(f)) = Len(histories[f])
          /\ f \notin stay => Len(K!History(f)) = 0
    <3> TAKE f \in new
    <3>1. /\ f \in stay => K!History(f) = histories[f] /\ IsSeq(histories[f])
          /\ f \notin stay => K!History(f) = <<>>
      BY DEF K!History, TrendInv
    <3>2. IsSeq(<<>>) /\ Len(<<>>) = 0
      <4>1. <<>> \in Seq({}) /\ Len(<<>>) = 0
        OBVIOUS
      <4> QED BY <4>1, Sequences
    <3>3. IsSeq(K!History(f))
      BY <3>1, <3>2
    <3>4. histories'[f] = K!AddNewStateToBuffer(K!History(f), x[f], f \notin short)
      BY <2>1
    <3>5. num_of_samples \in Nat \ {0} /\ (f \notin short) \in BOOLEAN
      BY TrendConstants DEF TrendInv
    <3>6. /\ IsSeq(histories'[f])
          /\ Len(histories'[f]) =
               Len(K!History(f)) + (IF f \notin short /\ ~K!Full(K!History(f)) THEN 1 ELSE 0)
      BY <3>3, <3>4, <3>5, Pushed
    <3>7. f \in taken <=> f \notin short /\ ~K!Full(K!History(f))
      OBVIOUS
    <3> QED BY <3>1, <3>2, <3>3, <3>6, <3>7
  <2>7. DOMAIN histories' = new
    BY <2>1
  <2>8. \A f \in new :
          /\ 1 .. Nodes(histories')[f] = (IF f \in stay THEN 1 .. Nodes(histories)[f] ELSE {})
                                            \cup (IF f \in taken THEN {n[f]} ELSE {})
          /\ f \in stay => n[f] \notin 1 .. Nodes(histories)[f]
    <3> TAKE f \in new
    <3> DEFINE k == Len(K!History(f))
               m == Nodes(histories')[f]
    <3>1. k \in Nat
      BY <2>6, Sequences
    <3>2. m = k + (IF f \in taken THEN 1 ELSE 0) /\ n[f] = k + 1
      BY <2>6, <2>7 DEF Nodes
    <3>3. (f \in stay => Nodes(histories)[f] = k) /\ (f \notin stay => k = 0)
      BY <2>6 DEF Nodes
    <3>5. f \in stay => 1 .. Nodes(histories)[f] = 1 .. k
      BY <3>3
    <3> HIDE DEF k, m, n, taken, stay
    <3>6. k + 1 \notin 1 .. k /\ 1 .. k + 1 = (1 .. k) \cup {k + 1} /\ 1 .. k + 0 = 1 .. k
      BY <3>1
    <3>7. k = 0 => 1 .. k = {}
      BY <3>1
    <3>8. 1 .. m = (1 .. k) \cup (IF f \in taken THEN {n[f]} ELSE {})
      BY <3>2, <3>6
    <3> QED BY <3>2, <3>3, <3>5, <3>6, <3>7, <3>8 DEF m
  <2>9. /\ NodesOf(Nodes(histories'), new) = NodesOf(Nodes(histories), stay) \cup nodes
        /\ NodesOf(Nodes(histories), stay) \cap nodes = {}
    <3>1. \A f, i : <<f, i>> \in NodesOf(Nodes(histories'), new) <=>
                      f \in new /\ i \in 1 .. Nodes(histories')[f]
      BY DEF NodesOf
    <3>2. \A f, i : <<f, i>> \in NodesOf(Nodes(histories), stay) <=>
                      f \in stay /\ i \in 1 .. Nodes(histories)[f]
      BY DEF NodesOf
    <3>3. \A f, i : <<f, i>> \in nodes <=> f \in taken /\ i = n[f]
      BY Zenon
    <3>4. stay \subseteq new /\ taken \subseteq new
      BY <2>2
    <3>5. \A p \in NodesOf(Nodes(histories'), new) \cup NodesOf(Nodes(histories), stay) \cup nodes :
            p = <<p[1], p[2]>>
      BY DEF NodesOf
    <3> HIDE DEF nodes, stay, taken, n
    <3>6. ASSUME NEW f, NEW i
          PROVE  /\ <<f, i>> \in NodesOf(Nodes(histories'), new) <=>
                      \/ <<f, i>> \in NodesOf(Nodes(histories), stay)
                      \/ <<f, i>> \in nodes
                 /\ ~(<<f, i>> \in NodesOf(Nodes(histories), stay) /\ <<f, i>> \in nodes)
      BY <2>8, <3>1, <3>2, <3>3, <3>4
    <3> QED BY <3>5, <3>6
  <2>10. Cardinality(NodesOf(Nodes(histories'), new)) = count(stay) + Cardinality(taken)
    <3>1. IsFiniteSet(nodes) /\ Cardinality(nodes) = Cardinality(taken)
      BY <2>3, OneEach
    <3> DEFINE kept == NodesOf(Nodes(histories), stay)
    <3>2. IsFiniteSet(kept) /\ kept \cap nodes = {}
      BY <2>4, <2>9
    <3> HIDE DEF kept, nodes, taken
    <3>3. Cardinality(kept \cup nodes) = Cardinality(kept) + Cardinality(nodes) - Cardinality({})
      BY <3>1, <3>2, FS_Union
    <3>4. Cardinality({}) = 0 /\ Cardinality(kept) \in Nat /\ Cardinality(nodes) \in Nat
      BY <3>1, <3>2, FS_EmptySet, FS_CardinalityType
    <3>5. Cardinality(kept \cup nodes) = Cardinality(kept) + Cardinality(taken)
      BY <3>1, <3>3, <3>4
    <3> QED BY <2>9, <3>5 DEF kept
  <2>11. free' + Cardinality(NodesOf(Nodes(histories'), new)) = PoolSize
    <3>1. free \in Nat /\ free + count(old) = PoolSize
      BY DEF TrendInv
    <3>2. Cardinality(taken) \in Nat /\ count(old \ new) \in Nat
      <4>1. old \subseteq TouchIds /\ \A f \in old : IsSeq(histories[f])
        BY DEF TrendInv
      <4>2. IsFiniteSet(NodesOf(Nodes(histories), old \ new))
        <5>1. old \ new \in SUBSET old
          OBVIOUS
        <5> QED BY <4>1, <5>1, TrendNodes
      <4> HIDE DEF taken, old
      <4> QED BY <2>3, <4>2, FS_CardinalityType
    <3> HIDE DEF taken, open, count, old, stay
    <3> QED BY <2>2, <2>4, <2>10, <3>1, <3>2
  <2> QED BY <2>1, <2>5, <2>6, <2>7, <2>11 DEF TrendInv
<1> QED BY <1>1, <1>2, <1>3 DEF K!Next

-----------------------------------------------------------------------------
(* Kendall's scores, sample by sample *)

Less == {p \in Int \X Int : p[1] < p[2]}
More == {p \in Int \X Int : p[1] > p[2]}
Same == {p \in Int \X Int : p[1] = p[2]}

\* The indices after i whose values the value at i is related to.
Later(R1, s, i) == {j \in DOMAIN s : i < j /\ <<s[i], s[j]>> \in R1}

\* The pairs that start in A and are related.
Related(R1, s, A) == Spread([i \in A |-> Later(R1, s, i)], A)

LEMMA RelatedAdded ==
  ASSUME NEW R1, NEW s, IsFiniteSet(DOMAIN s), NEW A, IsFiniteSet(A)
  PROVE  /\ Cardinality(Related(R1, s, A)) \in Nat
         /\ \A f \in A : /\ Cardinality(Later(R1, s, f)) \in Nat
                         /\ Cardinality(Related(R1, s, A)) =
                              Cardinality(Later(R1, s, f)) + Cardinality(Related(R1, s, A \ {f}))
<1> DEFINE X == [i \in A |-> Later(R1, s, i)]
<1>1. \A i \in A : X[i] = Later(R1, s, i) /\ IsFiniteSet(X[i])
  <2>1. \A i : Later(R1, s, i) \subseteq DOMAIN s
    BY DEF Later
  <2> QED BY <2>1, FS_Subset
<1>2. Related(R1, s, A) = Spread(X, A)
  BY DEF Related
<1>3. \A f \in A : Related(R1, s, A \ {f}) = Spread(X, A \ {f})
  BY DEF Related, Spread
<1> HIDE DEF X
<1>4. /\ IsFiniteSet(Spread(X, A))
      /\ \A f \in A :
           Cardinality(Spread(X, A)) = Cardinality(X[f]) + Cardinality(Spread(X, A \ {f}))
  BY <1>1, SpreadAdded
<1>5. /\ Cardinality(Spread(X, A)) \in Nat
      /\ \A f \in A : Cardinality(X[f]) \in Nat
  BY <1>1, <1>4, FS_CardinalityType
<1> QED BY <1>1, <1>2, <1>3, <1>4, <1>5

\* The sum of the sums is the score of the series, whose last value begins no pair.
LEMMA ScoreIsKendalls ==
  ASSUME NEW a \in Nat, NEW m \in Nat, NEW s \in [a .. m + 1 -> Int],
         NEW axes, DOMAIN axes = a .. m,
         \A i \in a .. m : axes[i].sum =
            Cardinality(Later(Less, s, i)) - Cardinality(Later(More, s, i))
  PROVE  K!Score(axes) = K!KendallScore(s)
<1> DEFINE n == [i \in a .. m |-> axes[i].sum]
           count == [A \in SUBSET (a .. m) |->
                       Cardinality(Related(Less, s, A)) - Cardinality(Related(More, s, A))]
<1>0. IsFiniteSet(a .. m) /\ IsFiniteSet(DOMAIN s)
  BY FS_Interval
<1>1. AddsUp(count, n, a .. m)
  <2>1. ASSUME NEW A \in SUBSET (a .. m), NEW f \in A PROVE count[A] = n[f] + count[A \ {f}]
    <3>1. IsFiniteSet(A) /\ IsFiniteSet(A \ {f}) /\ A \ {f} \in SUBSET (a .. m)
      BY <1>0, FS_Subset
    <3>2. n[f] = Cardinality(Later(Less, s, f)) - Cardinality(Later(More, s, f))
      OBVIOUS
    <3>3. count[A] = Cardinality(Related(Less, s, A)) - Cardinality(Related(More, s, A))
          /\ count[A \ {f}] =
               Cardinality(Related(Less, s, A \ {f})) - Cardinality(Related(More, s, A \ {f}))
      BY <3>1
    <3> HIDE DEF count, n
    <3>4. ASSUME NEW R1
          PROVE  /\ Cardinality(Later(R1, s, f)) \in Nat
                 /\ Cardinality(Related(R1, s, A)) =
                      Cardinality(Later(R1, s, f)) + Cardinality(Related(R1, s, A \ {f}))
      <4>1. \A g \in A : /\ Cardinality(Later(R1, s, g)) \in Nat
                         /\ Cardinality(Related(R1, s, A)) =
                              Cardinality(Later(R1, s, g)) + Cardinality(Related(R1, s, A \ {g}))
        <5>1. IsFiniteSet(DOMAIN s) /\ IsFiniteSet(A)
          BY <1>0, <3>1
        <5> QED BY ONLY <5>1, RelatedAdded
      <4> QED BY <2>1, <4>1, Zenon
    <3>5. /\ Cardinality(Related(Less, s, A \ {f})) \in Nat
          /\ Cardinality(Related(More, s, A \ {f})) \in Nat
      BY <1>0, <3>1, RelatedAdded
    <3>6. /\ Cardinality(Later(Less, s, f)) \in Nat /\ Cardinality(Later(More, s, f)) \in Nat
          /\ Cardinality(Related(Less, s, A)) =
               Cardinality(Later(Less, s, f)) + Cardinality(Related(Less, s, A \ {f}))
          /\ Cardinality(Related(More, s, A)) =
               Cardinality(Later(More, s, f)) + Cardinality(Related(More, s, A \ {f}))
      BY <3>4, Zenon
    <3> QED BY <3>2, <3>3, <3>5, <3>6
  <2>2. count \in [SUBSET (a .. m) -> Int]
    <3>1. ASSUME NEW A \in SUBSET (a .. m)
          PROVE  Cardinality(Related(Less, s, A)) - Cardinality(Related(More, s, A)) \in Int
      <4>1. IsFiniteSet(A)
        BY <1>0, FS_Subset
      <4>2. Cardinality(Related(Less, s, A)) \in Nat /\ Cardinality(Related(More, s, A)) \in Nat
        BY <1>0, <4>1, RelatedAdded
      <4> QED BY <4>2
    <3> QED BY <3>1
  <2>3. count[{}] = 0
    <3>1. \A R1 : Related(R1, s, {}) = {}
      BY DEF Related, Spread
    <3>2. count[{}] = Cardinality({}) - Cardinality({}) /\ Cardinality({}) = 0
      BY <3>1, FS_EmptySet
    <3> QED BY <3>2
  <2> HIDE DEF count, n
  <2> QED BY <2>1, <2>2, <2>3 DEF AddsUp
<1>2. K!Score(axes) = SumOf(n, a .. m)
  <2> DEFINE Of(sum, A) == IF A = {} THEN 0
                           ELSE n[CHOOSE x \in A : TRUE] + sum[A \ {CHOOSE x \in A : TRUE}]
             As(sum, A) == IF A = {} THEN 0
                           ELSE axes[CHOOSE x \in A : TRUE].sum + sum[A \ {CHOOSE x \in A : TRUE}]
  <2>1. \A sum : [A \in SUBSET (a .. m) |-> Of(sum, A)] = [A \in SUBSET (a .. m) |-> As(sum, A)]
    <3>0. \A A \in SUBSET (a .. m) :
            A # {} => n[CHOOSE x \in A : TRUE] = axes[CHOOSE x \in A : TRUE].sum
      OBVIOUS
    <3> HIDE DEF n
    <3>1. \A sum : \A A \in SUBSET (a .. m) : Of(sum, A) = As(sum, A)
      BY <3>0
    <3> HIDE DEF Of, As
    <3> QED BY <3>1
  <2>2. SumOf(n, a .. m) = (CHOOSE sum : sum = [A \in SUBSET (a .. m) |-> Of(sum, A)])[a .. m]
    BY DEF SumOf
  <2>3. K!Score(axes) = (CHOOSE sum : sum = [A \in SUBSET (a .. m) |-> As(sum, A)])[a .. m]
    BY DEF K!Score, K!MapThenSumSet, K!MapThenFoldSet
  <2> HIDE DEF Of, As
  <2>4. (CHOOSE sum : sum = [A \in SUBSET (a .. m) |-> Of(sum, A)]) =
          (CHOOSE sum : sum = [A \in SUBSET (a .. m) |-> As(sum, A)])
    BY <2>1
  <2> QED BY <2>2, <2>3, <2>4
<1>3. /\ Related(Less, s, a .. m) = {p \in K!Pairs(s) : s[p[1]] < s[p[2]]}
      /\ Related(More, s, a .. m) = {p \in K!Pairs(s) : s[p[1]] > s[p[2]]}
  <2>1. ASSUME NEW R1
        PROVE  Related(R1, s, a .. m) = {p \in K!Pairs(s) : <<s[p[1]], s[p[2]]>> \in R1}
    <3>1. \A i \in a .. m + 1, j \in a .. m + 1 : i < j => i \in a .. m
      OBVIOUS
    <3>2. DOMAIN s = a .. m + 1 /\ a .. m \subseteq a .. m + 1
      OBVIOUS
    <3> DEFINE pairs == {p \in K!Pairs(s) : <<s[p[1]], s[p[2]]>> \in R1}
    <3>0. \A i, j : <<i, j>> \in Related(R1, s, a .. m) <=> i \in a .. m /\ j \in Later(R1, s, i)
      BY DEF Related, Spread
    <3>3. \A i, j : <<i, j>> \in Related(R1, s, a .. m) <=>
                      i \in a .. m /\ j \in a .. m + 1 /\ i < j /\ <<s[i], s[j]>> \in R1
      BY <3>0, <3>2 DEF Later
    <3>4. \A i, j : <<i, j>> \in pairs <=>
                      i \in a .. m + 1 /\ j \in a .. m + 1 /\ i < j /\ <<s[i], s[j]>> \in R1
      BY <3>2 DEF K!Pairs
    <3>5. \A p \in Related(R1, s, a .. m) \cup pairs : p = <<p[1], p[2]>>
      BY DEF Related, Spread, K!Pairs
    <3>6. \A i, j : <<i, j>> \in Related(R1, s, a .. m) <=> <<i, j>> \in pairs
      BY <3>1, <3>2, <3>3, <3>4
    <3> HIDE DEF pairs
    <3>7. Related(R1, s, a .. m) = pairs
      BY <3>5, <3>6
    <3> QED BY <3>7 DEF pairs
  <2>2. \A p \in K!Pairs(s) :
          /\ <<s[p[1]], s[p[2]]>> \in Less <=> s[p[1]] < s[p[2]]
          /\ <<s[p[1]], s[p[2]]>> \in More <=> s[p[1]] > s[p[2]]
    BY DEF K!Pairs, Less, More
  <2> QED BY <2>1, <2>2
<1>4. count[a .. m] = Cardinality(Related(Less, s, a .. m)) - Cardinality(Related(More, s, a .. m))
  OBVIOUS
<1> HIDE DEF count, n
<1>5. SumOf(n, a .. m) = count[a .. m]
  BY <1>0, <1>1, SumIsCount
<1> QED BY <1>2, <1>3, <1>4, <1>5, Counted DEF K!KendallScore

\* 18 times what a group of u equal values takes from the variance, and a group that grows.
Tied(u) == 2 * u * (u - 1) * (u - 2) + 9 * u * (u - 1)

LEMMA TiedGrows ==
  ASSUME NEW u \in Nat
  PROVE  /\ (u * (u - 1)) \div 2 \in Nat /\ Tied(u) \in Nat
         /\ Tied(u + 1) = Tied(u) + 12 * ((u * (u - 1)) \div 2) + 18 * u
<1> DEFINE holding == {t \in Nat : /\ \E k \in Nat : t * (t - 1) = 2 * k
                                   /\ Tied(t) \in Nat}
<1>1. ASSUME NEW t \in Nat
      PROVE  (t + 1) * (t + 1 - 1) = t * (t - 1) + 2 * t
  OBVIOUS
<1>2. ASSUME NEW t \in Nat
      PROVE  Tied(t + 1) = Tied(t) + 6 * (t * (t - 1)) + 18 * t
  BY DEF Tied
<1>3. 0 \in holding
  <2>1. 0 * (0 - 1) = 2 * 0 /\ Tied(0) = 0
    BY DEF Tied
  <2> QED BY <2>1
<1>4. ASSUME NEW t \in Nat, t \in holding PROVE t + 1 \in holding
  <2>1. PICK k \in Nat : t * (t - 1) = 2 * k
    BY <1>4
  <2>2. (t + 1) * (t + 1 - 1) = 2 * (k + t) /\ k + t \in Nat /\ t + 1 \in Nat
    BY <1>1, <2>1
  <2>3. Tied(t + 1) = Tied(t) + 6 * (2 * k) + 18 * t /\ Tied(t) \in Nat
    BY <1>2, <1>4, <2>1
  <2>4. Tied(t + 1) \in Nat
    BY <2>3
  <2> QED BY <2>2, <2>4
<1>5. u \in holding
  <2> HIDE DEF holding
  <2>1. Nat \subseteq holding
    BY <1>3, <1>4, NatSets
  <2> QED BY <2>1
<1>6. PICK k \in Nat : u * (u - 1) = 2 * k
  BY <1>5
<1>7. (u * (u - 1)) \div 2 = k
  BY <1>6
<1>8. Tied(u + 1) = Tied(u) + 6 * (2 * k) + 18 * u
  BY <1>2, <1>6
<1> QED BY <1>5, <1>7, <1>8

\* Of the values that come later, those that are equal.
LEMMA LaterIsCounted ==
  ASSUME NEW s, IsFiniteSet(DOMAIN s), NEW R1, NEW i
  PROVE  IsFiniteSet(Later(R1, s, i)) /\ Cardinality(Later(R1, s, i)) \in Nat
<1>1. Later(R1, s, i) \subseteq DOMAIN s
  BY DEF Later
<1> QED BY <1>1, FS_Subset, FS_CardinalityType

\* How often v comes among the values from k on.
Often(s, k, v) == Cardinality({j \in DOMAIN s : k <= j /\ s[j] = v})

LEMMA OftenFrom ==
  ASSUME NEW a \in Nat, NEW m \in Nat, NEW s \in [a .. m + 1 -> Int], NEW k \in a .. m + 1, NEW v
  PROVE  /\ Often(s, k, v) \in Nat /\ Often(s, k + 1, v) \in Nat
         /\ v # s[k] => Often(s, k, v) = Often(s, k + 1, v)
         /\ v = s[k] => /\ Often(s, k, v) = Often(s, k + 1, v) + 1
                        /\ Often(s, k + 1, v) = Cardinality(Later(Same, s, k))
<1> DEFINE from(i) == {j \in DOMAIN s : i <= j /\ s[j] = v}
<1>1. \A i : IsFiniteSet(from(i)) /\ Cardinality(from(i)) \in Nat
  <2>1. IsFiniteSet(DOMAIN s) /\ \A i : from(i) \subseteq DOMAIN s
    BY FS_Interval
  <2> HIDE DEF from
  <2> QED BY <2>1, FS_Subset, FS_CardinalityType
<1>2. v # s[k] => from(k) = from(k + 1)
  OBVIOUS
<1>3. v = s[k] => from(k) = from(k + 1) \cup {k} /\ k \notin from(k + 1)
  OBVIOUS
<1>4. v = s[k] => from(k + 1) = Later(Same, s, k)
  BY DEF Later, Same
<1>5. \A i : Often(s, i, v) = Cardinality(from(i))
  BY DEF Often
<1> HIDE DEF from
<1>6. v = s[k] => Cardinality(from(k)) = Cardinality(from(k + 1)) + 1
  BY <1>1, <1>3, FS_AddElement
<1> QED BY <1>1, <1>2, <1>4, <1>5, <1>6

\* The ties of the samples of A, their pairs, and what groups of equal values take away.
TiesOf(s, A) == [i \in A |-> Cardinality(Later(Same, s, i))]
PairsOf(ties) == [i \in DOMAIN ties |-> (ties[i] * (ties[i] - 1)) \div 2]
ValuesOf(s) == {s[i] : i \in DOMAIN s}
GroupsOf(s, k) == [v \in ValuesOf(s) |-> Tied(Often(s, k, v))]

LEMMA GroupsGrow ==
  ASSUME NEW a \in Nat, NEW m \in Nat, NEW s \in [a .. m + 1 -> Int], NEW k \in a .. m + 1,
         NEW t, t = Cardinality(Later(Same, s, k))
  PROVE  /\ IsFiniteSet(ValuesOf(s)) /\ s[k] \in ValuesOf(s) /\ t \in Nat
         /\ \A v \in ValuesOf(s) : /\ GroupsOf(s, k)[v] \in Nat /\ GroupsOf(s, k + 1)[v] \in Nat
                                   /\ v # s[k] => GroupsOf(s, k)[v] = GroupsOf(s, k + 1)[v]
         /\ GroupsOf(s, k)[s[k]] = Tied(t + 1) /\ GroupsOf(s, k + 1)[s[k]] = Tied(t)
<1>1. IsFiniteSet(ValuesOf(s)) /\ s[k] \in ValuesOf(s)
  <2>1. DOMAIN s = a .. m + 1 /\ IsFiniteSet(a .. m + 1)
    BY FS_Interval
  <2>2. s \in Surjection(a .. m + 1, ValuesOf(s))
    <3>1. s \in [a .. m + 1 -> ValuesOf(s)] /\ \A v \in ValuesOf(s) : \E i \in a .. m + 1 : s[i] = v
      BY DEF ValuesOf
    <3> QED BY <3>1 DEF Surjection
  <2> QED BY <2>1, <2>2, FS_Surjection DEF ValuesOf
<1>2. t \in Nat
  <2>1. IsFiniteSet(DOMAIN s)
    BY FS_Interval
  <2> QED BY <2>1, LaterIsCounted
<1>3. \A n \in Nat : Tied(n) \in Nat
  BY TiedGrows
<1>4. \A v : /\ Often(s, k, v) \in Nat /\ Often(s, k + 1, v) \in Nat
             /\ v # s[k] => Often(s, k, v) = Often(s, k + 1, v)
             /\ v = s[k] => /\ Often(s, k, v) = Often(s, k + 1, v) + 1
                            /\ Often(s, k + 1, v) = Cardinality(Later(Same, s, k))
  BY OftenFrom
<1>5. Often(s, k, s[k]) = t + 1 /\ Often(s, k + 1, s[k]) = t
  BY <1>4
<1> QED BY <1>1, <1>2, <1>3, <1>4, <1>5 DEF GroupsOf

\* Of a single sample none is tied.
LEMMA GroupsOfOne ==
  ASSUME NEW a \in Nat, NEW m \in Nat, a <= m + 1, NEW s \in [a .. m + 1 -> Int],
         NEW v \in ValuesOf(s)
  PROVE  GroupsOf(s, m + 1)[v] = 0
<1> DEFINE last == {j \in DOMAIN s : m + 1 <= j /\ s[j] = v}
<1>1. last = {} \/ last = {m + 1}
  OBVIOUS
<1>2. Cardinality(last) \in {0, 1}
  <2> HIDE DEF last
  <2> QED BY <1>1, FS_EmptySet, FS_Singleton
<1>3. Tied(0) = 0 /\ Tied(1) = 0
  BY DEF Tied
<1>4. GroupsOf(s, m + 1)[v] = Tied(Cardinality(last))
  BY DEF GroupsOf, Often
<1> QED BY <1>2, <1>3, <1>4

\* Sample by sample, the ties add up to what the groups of equal values take away.
LEMMA TiesAddUp ==
  ASSUME NEW a \in Nat, NEW m \in Nat, a <= m + 1, NEW s \in [a .. m + 1 -> Int],
         NEW ties, ties = TiesOf(s, a .. m)
  PROVE  /\ 12 * SumOf(PairsOf(ties), a .. m) + 18 * SumOf(ties, a .. m) = SumOf(GroupsOf(s, a), ValuesOf(s))
         /\ SumOf(PairsOf(ties), a .. m) \in Nat /\ SumOf(ties, a .. m) \in Nat
<1> DEFINE pairs == PairsOf(ties)
           values == ValuesOf(s)
           AddUp(k) == 12 * SumOf(pairs, k .. m) + 18 * SumOf(ties, k .. m)
                         = SumOf(GroupsOf(s, k), values)
           holding == {d \in Nat : d <= m + 1 - a => AddUp(m + 1 - d)}
<1> HIDE DEF AddUp, holding, pairs, values
<1>1. \A t \in Nat : /\ (t * (t - 1)) \div 2 \in Nat /\ Tied(t) \in Nat
                     /\ Tied(t + 1) = Tied(t) + 12 * ((t * (t - 1)) \div 2) + 18 * t
  BY TiedGrows
<1>2. \A i \in a .. m : /\ ties[i] = Cardinality(Later(Same, s, i)) /\ ties[i] \in Nat
                        /\ pairs[i] = (ties[i] * (ties[i] - 1)) \div 2 /\ pairs[i] \in Nat
  <2>1. IsFiniteSet(DOMAIN s)
    BY FS_Interval
  <2>2. \A i \in a .. m : ties[i] = Cardinality(Later(Same, s, i)) /\ ties[i] \in Nat
    BY <2>1, LaterIsCounted DEF TiesOf
  <2>3. \A i \in a .. m : pairs[i] = (ties[i] * (ties[i] - 1)) \div 2
    BY DEF pairs, PairsOf, TiesOf
  <2> QED BY <1>1, <2>2, <2>3
<1>3. IsFiniteSet(values)
  <2>1. m + 1 \in a .. m + 1
    OBVIOUS
  <2> QED BY <2>1, GroupsGrow DEF values
<1>4. ASSUME NEW k \in a .. m + 1
      PROVE  IsFiniteSet(k .. m) /\ k .. m \subseteq a .. m
  <2>1. k .. m \subseteq a .. m /\ k \in Int
    OBVIOUS
  <2>2. k \in Int /\ m \in Int
    BY <2>1
  <2>3. IsFiniteSet(k .. m)
    BY <2>2, FS_Interval
  <2> QED BY <2>1, <2>3
<1>5. AddUp(m + 1)
  <2>1. m + 1 .. m = {}
    OBVIOUS
  <2>2. SumOf(pairs, {}) = 0 /\ SumOf(ties, {}) = 0
    BY SumPeeled, FS_EmptySet
  <2>3. \A v \in values : GroupsOf(s, m + 1)[v] = 0
    BY GroupsOfOne DEF values
  <2>4. SumOf(GroupsOf(s, m + 1), values) = 0
    BY <1>3, <2>3, SumPeeled
  <2> QED BY <2>1, <2>2, <2>4 DEF AddUp
<1>6. ASSUME NEW k \in a .. m, AddUp(k + 1) PROVE AddUp(k)
  <2> DEFINE t == ties[k]
             rest == values \ {s[k]}
  <2>1. k \in a .. m + 1 /\ k + 1 \in a .. m + 1 /\ k \in k .. m /\ (k .. m) \ {k} = k + 1 .. m
    <3>1. k \in Nat /\ a <= k /\ k <= m
      OBVIOUS
    <3>2. \A i \in Int : i \in (k .. m) \ {k} <=> i \in k + 1 .. m
      BY <3>1
    <3> QED BY <3>1, <3>2
  <2>2. t = Cardinality(Later(Same, s, k)) /\ t \in Nat
        /\ pairs[k] = (t * (t - 1)) \div 2 /\ pairs[k] \in Nat
    BY <1>2
  <2>3. \A i \in k .. m : pairs[i] \in Nat /\ ties[i] \in Nat
    BY <1>2, <1>4, <2>1
  <2>4. /\ SumOf(pairs, k .. m) = pairs[k] + SumOf(pairs, k + 1 .. m)
        /\ SumOf(ties, k .. m) = t + SumOf(ties, k + 1 .. m)
    <3> DEFINE from == k .. m
    <3>1. IsFiniteSet(from) /\ k \in from /\ from \ {k} = k + 1 .. m
          /\ \A i \in from : pairs[i] \in Nat /\ ties[i] \in Nat
      BY <1>4, <2>1, <2>3
    <3> HIDE DEF from, pairs
    <3>2. /\ SumOf(pairs, from) = pairs[k] + SumOf(pairs, from \ {k})
          /\ SumOf(ties, from) = ties[k] + SumOf(ties, from \ {k})
      BY <3>1, SumPeeled
    <3> QED BY <3>1, <3>2 DEF from
  <2>5. SumOf(pairs, k + 1 .. m) \in Nat /\ SumOf(ties, k + 1 .. m) \in Nat
    <3>1. \A i \in k + 1 .. m : pairs[i] \in Nat /\ ties[i] \in Nat
      BY <1>2, <1>4, <2>1
    <3> QED BY <1>4, <2>1, <3>1, SumPeeled
  <2> HIDE DEF t
  <2>6. /\ s[k] \in values
        /\ \A u \in values : /\ GroupsOf(s, k)[u] \in Nat /\ GroupsOf(s, k + 1)[u] \in Nat
                             /\ u # s[k] => GroupsOf(s, k)[u] = GroupsOf(s, k + 1)[u]
        /\ GroupsOf(s, k)[s[k]] = Tied(t + 1) /\ GroupsOf(s, k + 1)[s[k]] = Tied(t)
    <3>1. /\ s[k] \in ValuesOf(s)
          /\ \A u \in ValuesOf(s) : /\ GroupsOf(s, k)[u] \in Nat /\ GroupsOf(s, k + 1)[u] \in Nat
                                    /\ u # s[k] => GroupsOf(s, k)[u] = GroupsOf(s, k + 1)[u]
          /\ GroupsOf(s, k)[s[k]] = Tied(t + 1) /\ GroupsOf(s, k + 1)[s[k]] = Tied(t)
      <4>1. k \in a .. m + 1
        BY ONLY <2>1
      <4>2. t = Cardinality(Later(Same, s, k))
        BY <2>2
      <4> QED BY <4>1, <4>2, GroupsGrow
    <3> QED BY <3>1 DEF values
  <2>7. /\ SumOf(GroupsOf(s, k), values) = Tied(t + 1) + SumOf(GroupsOf(s, k), rest)
        /\ SumOf(GroupsOf(s, k + 1), values) = Tied(t) + SumOf(GroupsOf(s, k + 1), rest)
    BY <1>3, <2>6, SumPeeled
  <2>8. /\ SumOf(GroupsOf(s, k), rest) = SumOf(GroupsOf(s, k + 1), rest)
        /\ SumOf(GroupsOf(s, k), rest) \in Nat
    <3>1. IsFiniteSet(rest)
          /\ \A u \in rest : GroupsOf(s, k)[u] \in Nat /\ GroupsOf(s, k + 1)[u] = GroupsOf(s, k)[u]
      BY <1>3, <2>6, FS_Subset
    <3> HIDE DEF rest
    <3> QED BY <3>1, SumPeeled
  <2> HIDE DEF rest
  <2>9. Tied(t) \in Nat /\ Tied(t + 1) = Tied(t) + 12 * pairs[k] + 18 * t
    BY <1>1, <2>2
  <2>10. 12 * SumOf(pairs, k + 1 .. m) + 18 * SumOf(ties, k + 1 .. m)
          = Tied(t) + SumOf(GroupsOf(s, k), rest)
    BY <1>6, <2>7, <2>8 DEF AddUp
  <2>11. 12 * (pairs[k] + SumOf(pairs, k + 1 .. m)) + 18 * (t + SumOf(ties, k + 1 .. m))
          = Tied(t + 1) + SumOf(GroupsOf(s, k), rest)
    <3> DEFINE p == pairs[k]
               ps == SumOf(pairs, k + 1 .. m)
               ts == SumOf(ties, k + 1 .. m)
               old == Tied(t)
               new == Tied(t + 1)
               apart == SumOf(GroupsOf(s, k), rest)
    <3>1. p \in Nat /\ ps \in Nat /\ t \in Nat /\ ts \in Nat /\ old \in Nat /\ apart \in Nat
      BY <2>2, <2>5, <2>8, <2>9
    <3>2. new = old + 12 * p + 18 * t
      BY <2>9
    <3>3. 12 * ps + 18 * ts = old + apart
      BY <2>10
    <3> HIDE DEF p, ps, ts, old, new, apart
    <3>4. 12 * (p + ps) + 18 * (t + ts) = new + apart
      BY <3>1, <3>2, <3>3
    <3> QED BY <3>4 DEF p, ps, ts, new, apart
  <2> QED BY <2>4, <2>7, <2>11 DEF AddUp
<1>7. m + 1 - a \in Nat
  OBVIOUS
<1>8. Nat \subseteq holding
  <2>1. 0 \in holding
    BY <1>5 DEF holding
  <2>2. ASSUME NEW d \in Nat, d \in holding PROVE d + 1 \in holding
    <3>1. CASE d + 1 <= m + 1 - a
      <4>1. AddUp(m + 1 - d)
        BY <2>2, <3>1 DEF holding
      <4>2. m - d \in a .. m /\ m - d + 1 = m + 1 - d /\ m + 1 - (d + 1) = m - d
        BY <3>1
      <4>3. AddUp(m - d)
        BY <1>6, <4>1, <4>2
      <4> QED BY <4>2, <4>3 DEF holding
    <3>2. CASE ~(d + 1 <= m + 1 - a)
      BY <3>2 DEF holding
    <3> QED BY <3>1, <3>2
  <2> QED BY <2>1, <2>2, NatSets
<1>9. AddUp(a)
  <2>1. m + 1 - (m + 1 - a) = a
    OBVIOUS
  <2>2. m + 1 - a \in holding
    BY <1>7, <1>8
  <2>3. AddUp(m + 1 - (m + 1 - a))
    BY <1>7, <2>2 DEF holding
  <2> QED BY <2>1, <2>3
<1>10. SumOf(pairs, a .. m) \in Nat /\ SumOf(ties, a .. m) \in Nat
  <2>1. a \in a .. m + 1
    OBVIOUS
  <2> QED BY <1>2, <1>4, <2>1, SumPeeled
<1> QED BY <1>9, <1>10 DEF AddUp, pairs, values

\* The library's sums over the samples and over the groups of equal values.
LEMMA TiesSummed ==
  ASSUME NEW axes, NEW A, DOMAIN axes = A, NEW ties, ties = [i \in A |-> axes[i].ties]
  PROVE  /\ K!MapThenSumSet(LAMBDA i : axes[i].ties, A) = SumOf(ties, A)
         /\ K!MapThenSumSet(LAMBDA i : (axes[i].ties * (axes[i].ties - 1)) \div 2, A)
              = SumOf(PairsOf(ties), A)
<1> DEFINE pairs == PairsOf(ties)
<1>1. \A i \in A : ties[i] = axes[i].ties
  OBVIOUS
<1>2. \A i \in A : pairs[i] = (axes[i].ties * (axes[i].ties - 1)) \div 2
  BY DEF PairsOf
<1> HIDE DEF pairs

<1>3. K!MapThenSumSet(LAMBDA i : axes[i].ties, A) = SumOf(ties, A)
  <2> DEFINE Of(sum, piece) == IF piece = {} THEN 0
                              ELSE ties[CHOOSE x \in piece : TRUE] + sum[piece \ {CHOOSE x \in piece : TRUE}]
             As(sum, piece) == IF piece = {} THEN 0
                              ELSE axes[CHOOSE x \in piece : TRUE].ties + sum[piece \ {CHOOSE x \in piece : TRUE}]
  <2>1. \A sum : [piece \in SUBSET A |-> Of(sum, piece)]
                   = [piece \in SUBSET A |-> As(sum, piece)]
    <3>1. \A piece \in SUBSET A : piece # {} =>
            ties[CHOOSE x \in piece : TRUE] = axes[CHOOSE x \in piece : TRUE].ties
      BY <1>1
    <3>2. \A sum : \A piece \in SUBSET A : Of(sum, piece) = As(sum, piece)
      BY <3>1
    <3> HIDE DEF Of, As
    <3> QED BY <3>2
  <2>2. SumOf(ties, A) =
          (CHOOSE sum : sum = [piece \in SUBSET A |-> Of(sum, piece)])[A]
    BY DEF SumOf
  <2>3. K!MapThenSumSet(LAMBDA i : axes[i].ties, A) =
          (CHOOSE sum : sum = [piece \in SUBSET A |-> As(sum, piece)])[A]
    BY DEF K!MapThenSumSet, K!MapThenFoldSet
  <2> HIDE DEF Of, As
  <2>4. (CHOOSE sum : sum = [piece \in SUBSET A |-> Of(sum, piece)]) =
          (CHOOSE sum : sum = [piece \in SUBSET A |-> As(sum, piece)])
    BY <2>1
  <2> QED BY <2>2, <2>3, <2>4

<1>4. K!MapThenSumSet(LAMBDA i : (axes[i].ties * (axes[i].ties - 1)) \div 2, A) = SumOf(pairs, A)
  <2> DEFINE Of(sum, piece) == IF piece = {} THEN 0
                              ELSE pairs[CHOOSE x \in piece : TRUE] + sum[piece \ {CHOOSE x \in piece : TRUE}]
             As(sum, piece) == IF piece = {} THEN 0
                              ELSE (axes[CHOOSE x \in piece : TRUE].ties * (axes[CHOOSE x \in piece : TRUE].ties - 1)) \div 2 + sum[piece \ {CHOOSE x \in piece : TRUE}]
  <2>1. \A sum : [piece \in SUBSET A |-> Of(sum, piece)]
                   = [piece \in SUBSET A |-> As(sum, piece)]
    <3>1. \A piece \in SUBSET A : piece # {} =>
            pairs[CHOOSE x \in piece : TRUE] = (axes[CHOOSE x \in piece : TRUE].ties * (axes[CHOOSE x \in piece : TRUE].ties - 1)) \div 2
      BY <1>2
    <3>2. \A sum : \A piece \in SUBSET A : Of(sum, piece) = As(sum, piece)
      BY <3>1
    <3> HIDE DEF Of, As
    <3> QED BY <3>2
  <2>2. SumOf(pairs, A) =
          (CHOOSE sum : sum = [piece \in SUBSET A |-> Of(sum, piece)])[A]
    BY DEF SumOf
  <2>3. K!MapThenSumSet(LAMBDA i : (axes[i].ties * (axes[i].ties - 1)) \div 2, A) =
          (CHOOSE sum : sum = [piece \in SUBSET A |-> As(sum, piece)])[A]
    BY DEF K!MapThenSumSet, K!MapThenFoldSet
  <2> HIDE DEF Of, As
  <2>4. (CHOOSE sum : sum = [piece \in SUBSET A |-> Of(sum, piece)]) =
          (CHOOSE sum : sum = [piece \in SUBSET A |-> As(sum, piece)])
    BY <2>1
  <2> QED BY <2>2, <2>3, <2>4

<1> QED BY <1>3, <1>4 DEF pairs

LEMMA GroupsSummed ==
  ASSUME NEW a \in Nat, NEW m \in Nat, NEW s \in [a .. m + 1 -> Int],
         NEW n, n = K!Cardinality(DOMAIN s)
  PROVE  K!KendallVariance(s) =
           n * (n - 1) * (2 * n + 5) - SumOf(GroupsOf(s, a), ValuesOf(s))
<1> DEFINE often(v) == K!Cardinality({i \in DOMAIN s : s[i] = v})
           groups == GroupsOf(s, a)
           values == ValuesOf(s)
           Of(sum, piece) == IF piece = {} THEN 0
                             ELSE groups[CHOOSE x \in piece : TRUE] + sum[piece \ {CHOOSE x \in piece : TRUE}]
           As(sum, piece) == IF piece = {} THEN 0
                             ELSE 2 * often(CHOOSE x \in piece : TRUE) * (often(CHOOSE x \in piece : TRUE) - 1)
                                    * (often(CHOOSE x \in piece : TRUE) - 2)
                                  + 9 * often(CHOOSE x \in piece : TRUE) * (often(CHOOSE x \in piece : TRUE) - 1)
                                  + sum[piece \ {CHOOSE x \in piece : TRUE}]
<1>1. ASSUME NEW v \in values
      PROVE  groups[v] = 2 * often(v) * (often(v) - 1) * (often(v) - 2) + 9 * often(v) * (often(v) - 1)
  <2>1. {j \in DOMAIN s : a <= j /\ s[j] = v} = {i \in DOMAIN s : s[i] = v}
    OBVIOUS
  <2>2. Often(s, a, v) = often(v)
    BY <2>1, Counted DEF Often
  <2>3. groups[v] = Tied(Often(s, a, v))
    BY DEF GroupsOf
  <2> HIDE DEF often, groups
  <2> QED BY <2>2, <2>3 DEF Tied
<1>2. \A sum : [piece \in SUBSET values |-> Of(sum, piece)]
                 = [piece \in SUBSET values |-> As(sum, piece)]
  <2> HIDE DEF often, groups, values
  <2>1. \A piece \in SUBSET values : piece # {} => (CHOOSE x \in piece : TRUE) \in values
    OBVIOUS
  <2>2. \A sum : \A piece \in SUBSET values : Of(sum, piece) = As(sum, piece)
    BY <1>1, <2>1
  <2> HIDE DEF Of, As
  <2> QED BY <2>2
<1>3. SumOf(groups, values) =
        (CHOOSE sum : sum = [piece \in SUBSET values |-> Of(sum, piece)])[values]
  BY DEF SumOf
<1>4. K!KendallVariance(s) =
        n * (n - 1) * (2 * n + 5)
        - (CHOOSE sum : sum = [piece \in SUBSET values |-> As(sum, piece)])[values]
  BY DEF K!KendallVariance, K!MapThenSumSet, K!MapThenFoldSet, ValuesOf
<1> HIDE DEF Of, As, groups, values
<1>5. (CHOOSE sum : sum = [piece \in SUBSET values |-> Of(sum, piece)]) =
        (CHOOSE sum : sum = [piece \in SUBSET values |-> As(sum, piece)])
  BY <1>2
<1>6. K!KendallVariance(s) = n * (n - 1) * (2 * n + 5) - SumOf(groups, values)
  BY <1>3, <1>4, <1>5
<1> QED BY <1>6 DEF groups, values

\* The variance computed from the ties is that of the series.
LEMMA VarianceIsKendalls ==
  ASSUME NEW a \in Nat, NEW m \in Nat, a <= m + 1, NEW s \in [a .. m + 1 -> Int],
         NEW axes, DOMAIN axes = a .. m,
         \A i \in a .. m : axes[i].ties = Cardinality(Later(Same, s, i)),
         NEW n, n = m + 2 - a
  PROVE  K!ComputeKTVariance(axes, n) = K!KendallVariance(s)
<1> DEFINE ties == TiesOf(s, a .. m)
           all == n * (n - 1) * (2 * n + 5)
           pairsum == SumOf(PairsOf(ties), a .. m)
           tiesum == SumOf(ties, a .. m)
           groupsum == SumOf(GroupsOf(s, a), ValuesOf(s))
<1>1. ties = [i \in a .. m |-> axes[i].ties]
  BY DEF TiesOf
<1>2. K!ComputeKTVariance(axes, n) = all - 12 * pairsum - 18 * tiesum
  <2> HIDE DEF ties
  <2>1. /\ K!MapThenSumSet(LAMBDA i : axes[i].ties, a .. m) = tiesum
        /\ K!MapThenSumSet(LAMBDA i : (axes[i].ties * (axes[i].ties - 1)) \div 2, a .. m) = pairsum
    BY <1>1, TiesSummed
  <2> HIDE DEF pairsum, tiesum
  <2> QED BY <2>1 DEF K!ComputeKTVariance
<1>3. K!KendallVariance(s) = all - groupsum
  <2>1. n = K!Cardinality(DOMAIN s)
    <3>1. Cardinality(a .. m + 1) = m + 1 - a + 1
      BY FS_Interval
    <3> QED BY <3>1, Counted
  <2> QED BY <2>1, GroupsSummed
<1>4. 12 * pairsum + 18 * tiesum = groupsum /\ pairsum \in Nat /\ tiesum \in Nat
  <2> HIDE DEF ties
  <2> QED BY TiesAddUp DEF ties
<1>5. all \in Int
  OBVIOUS
<1> HIDE DEF all, pairsum, tiesum, groupsum
<1> QED BY <1>2, <1>3, <1>4, <1>5

\* The records of a sample, and what they hold of the series s from its index i on.
Tallies == [val : Int, sum : Int, ties : Int]

Counts(axis, s, i) ==
  /\ axis \in Tallies /\ axis.val = s[i]
  /\ axis.sum = Cardinality(Later(Less, s, i)) - Cardinality(Later(More, s, i))
  /\ axis.ties = Cardinality(Later(Same, s, i))

\* One value more.
LEMMA CountsExtended ==
  ASSUME NEW a \in Nat, NEW m \in Nat, NEW s \in [a .. m -> Int], NEW new \in [a .. m + 1 -> Int],
         \A i \in a .. m : new[i] = s[i],
         NEW i \in a .. m, NEW axis, Counts(axis, s, i)
  PROVE  Counts(K!UpdateKTValuePair(axis, new[m + 1]), new, i)
<1> DEFINE v == new[m + 1]
<1>1. i \in a .. m + 1 /\ m + 1 \in a .. m + 1 /\ s[i] \in Int /\ v \in Int /\ new[i] = s[i]
  OBVIOUS
<1>2. ASSUME NEW R1
      PROVE  Later(R1, new, i) = Later(R1, s, i) \cup (IF <<s[i], v>> \in R1 THEN {m + 1} ELSE {})
  <2>1. \A j : j \in a .. m + 1 <=> j \in a .. m \/ j = m + 1
    BY <1>1
  <2>2. \A j \in a .. m : new[j] = s[j]
    OBVIOUS
  <2>3. i < m + 1
    OBVIOUS
  <2> QED BY <1>1, <2>1, <2>2, <2>3 DEF Later
<1>3. ASSUME NEW R1
      PROVE  /\ Cardinality(Later(R1, s, i)) \in Nat
             /\ Cardinality(Later(R1, new, i)) =
                  Cardinality(Later(R1, s, i)) + (IF <<s[i], v>> \in R1 THEN 1 ELSE 0)
  <2>1. IsFiniteSet(DOMAIN s)
    BY FS_Interval
  <2>2. IsFiniteSet(Later(R1, s, i)) /\ Cardinality(Later(R1, s, i)) \in Nat
    BY <2>1, LaterIsCounted
  <2>3. m + 1 \notin Later(R1, s, i)
    BY DEF Later
  <2>4. Cardinality(Later(R1, s, i) \cup {m + 1}) = Cardinality(Later(R1, s, i)) + 1
    BY <2>2, <2>3, FS_AddElement
  <2>5. Later(R1, s, i) \cup {} = Later(R1, s, i)
    OBVIOUS
  <2> HIDE DEF v
  <2>6. CASE <<s[i], v>> \in R1
    BY <1>2, <2>2, <2>4, <2>6
  <2>7. CASE <<s[i], v>> \notin R1
    <3>1. Later(R1, new, i) = Later(R1, s, i)
      BY <1>2, <2>5, <2>7
    <3> QED BY <2>2, <2>7, <3>1
  <2> QED BY <2>6, <2>7
<1>4. /\ <<s[i], v>> \in Less <=> s[i] < v
      /\ <<s[i], v>> \in More <=> s[i] > v
      /\ <<s[i], v>> \in Same <=> s[i] = v
  BY <1>1 DEF Less, More, Same
<1>5. /\ axis \in Tallies /\ axis.val = s[i]
      /\ axis.sum = Cardinality(Later(Less, s, i)) - Cardinality(Later(More, s, i))
      /\ axis.ties = Cardinality(Later(Same, s, i))
  BY DEF Counts
<1> DEFINE up == K!UpdateKTValuePair(axis, v)
<1>6. /\ up \in Tallies /\ up.val = axis.val
      /\ up.sum = axis.sum + (IF axis.val < v THEN 1 ELSE IF axis.val > v THEN -1 ELSE 0)
      /\ up.ties = axis.ties + (IF axis.val = v THEN 1 ELSE 0)
  <2> DEFINE more == IF axis.val < v THEN 1 ELSE IF axis.val > v THEN -1 ELSE 0
             tie == IF axis.val = v THEN 1 ELSE 0
  <2>1. axis = [val |-> axis.val, sum |-> axis.sum, ties |-> axis.ties]
        /\ axis.val \in Int /\ axis.sum \in Int /\ axis.ties \in Int
    BY <1>5 DEF Tallies
  <2>2. up = [axis EXCEPT !.sum = @ + more, !.ties = @ + tie]
    BY DEF K!UpdateKTValuePair
  <2>3. more \in Int /\ tie \in Int
    OBVIOUS
  <2> HIDE DEF more, tie, up
  <2>4. up = [val |-> axis.val, sum |-> axis.sum + more, ties |-> axis.ties + tie]
    BY <2>1, <2>2
  <2>5. up \in Tallies /\ up.val = axis.val
        /\ up.sum = axis.sum + more /\ up.ties = axis.ties + tie
    BY <2>1, <2>3, <2>4 DEF Tallies
  <2> QED BY <2>5 DEF more, tie
<1> HIDE DEF v, up
<1>7. /\ Cardinality(Later(Less, new, i)) =
           Cardinality(Later(Less, s, i)) + (IF s[i] < v THEN 1 ELSE 0)
      /\ Cardinality(Later(More, new, i)) =
           Cardinality(Later(More, s, i)) + (IF s[i] > v THEN 1 ELSE 0)
      /\ Cardinality(Later(Same, new, i)) =
           Cardinality(Later(Same, s, i)) + (IF s[i] = v THEN 1 ELSE 0)
  BY <1>3, <1>4
<1>8. Cardinality(Later(Less, s, i)) \in Nat /\ Cardinality(Later(More, s, i)) \in Nat
  BY <1>3
<1>9. up.sum = Cardinality(Later(Less, new, i)) - Cardinality(Later(More, new, i))
  BY <1>1, <1>5, <1>6, <1>7, <1>8
<1>10. up.ties = Cardinality(Later(Same, new, i))
  BY <1>1, <1>5, <1>6, <1>7
<1>11. Counts(up, new, i)
  BY <1>1, <1>5, <1>6, <1>9, <1>10 DEF Counts
<1> QED BY <1>11 DEF up, v

LEMMA CountsNew ==
  ASSUME NEW a \in Nat, NEW m \in Nat, a <= m + 1, NEW s \in [a .. m + 1 -> Int]
  PROVE  Counts(K!Axis(s[m + 1]), s, m + 1)
<1>1. \A R1 : Later(R1, s, m + 1) = {}
  BY DEF Later
<1>2. Cardinality({}) = 0
  BY FS_EmptySet
<1>3. s[m + 1] \in Int
  OBVIOUS
<1>4. K!Axis(s[m + 1]) = [val |-> s[m + 1], sum |-> 0, ties |-> 0]
  BY DEF K!Axis
<1>5. K!Axis(s[m + 1]) \in Tallies
  BY <1>3, <1>4 DEF Tallies
<1>6. \A R1 : Cardinality(Later(R1, s, m + 1)) = 0
  BY <1>1, <1>2, Zenon
<1> DEFINE axis == K!Axis(s[m + 1])
<1>7. axis.val = s[m + 1] /\ axis.sum = 0 /\ axis.ties = 0
  BY <1>4
<1> HIDE DEF axis
<1>8. /\ Cardinality(Later(Less, s, m + 1)) = 0
      /\ Cardinality(Later(More, s, m + 1)) = 0
      /\ Cardinality(Later(Same, s, m + 1)) = 0
  BY <1>6
<1>9. Counts(axis, s, m + 1)
  BY <1>5, <1>7, <1>8 DEF Counts, axis
<1> QED BY <1>9 DEF axis

\* The oldest value is gone.
LEMMA CountsShifted ==
  ASSUME NEW a \in Nat, NEW m \in Nat, NEW s \in [a .. m + 1 -> Int], NEW t \in [a .. m -> Int],
         \A i \in a .. m : t[i] = s[i + 1],
         NEW i \in a .. m, NEW axis, Counts(axis, s, i + 1)
  PROVE  Counts(axis, t, i)
<1>1. ASSUME NEW R1 PROVE Cardinality(Later(R1, t, i)) = Cardinality(Later(R1, s, i + 1))
  <2> DEFINE from == Later(R1, t, i)
             to == Later(R1, s, i + 1)
             shift == [j \in from |-> j + 1]
  <2>1. \A j \in Int : j \in from <=> j + 1 \in to
    <3>1. \A j \in Int : j \in a .. m /\ i < j <=> j + 1 \in a .. m + 1 /\ i + 1 < j + 1
      OBVIOUS
    <3>2. \A j \in a .. m : t[j] = s[j + 1]
      OBVIOUS
    <3>3. i \in a .. m /\ DOMAIN s = a .. m + 1 /\ DOMAIN t = a .. m
      OBVIOUS
    <3> QED BY <3>1, <3>2, <3>3 DEF Later
  <2>2. from \subseteq Int /\ to \subseteq Int
    BY DEF Later
  <2> HIDE DEF from, to
  <2>3. shift \in [from -> to] /\ \A j, k \in from : shift[j] = shift[k] => j = k
    BY <2>1, <2>2
  <2>4. \A k \in to : \E j \in from : shift[j] = k
    <3>1. \A k \in to : k - 1 \in Int /\ k - 1 + 1 = k
      BY <2>2
    <3> QED BY <2>1, <3>1
  <2> HIDE DEF shift
  <2>5. shift \in Bijection(from, to)
    <3>1. shift \in Injection(from, to)
      BY <2>3, Zenon DEF Injection, IsInjective
    <3>2. shift \in Surjection(from, to)
      BY <2>3, <2>4, Zenon DEF Surjection
    <3> QED BY <3>1, <3>2, Zenon DEF Bijection
  <2>6. ExistsBijection(from, to)
    BY <2>5 DEF ExistsBijection
  <2>7. IsFiniteSet(from)
    <3>1. IsFiniteSet(DOMAIN t)
      BY FS_Interval
    <3> QED BY <3>1, LaterIsCounted DEF from
  <2>8. Cardinality(from) = Cardinality(to)
    BY <2>6, <2>7, FS_Bijection
  <2> QED BY <2>8 DEF from, to
<1> QED BY <1>1 DEF Counts

\* The positions of a history and their differences.
Xs(h) == [i \in DOMAIN h |-> h[i].x.val]
DXs(h) == [i \in 2 .. Len(h) |-> h[i].x.val - h[i - 1].x.val]

\* Every sample holds what has come after it.
Tallied(h) ==
  /\ IsSeq(h)
  /\ \A i \in 1 .. Len(h) :
       /\ h[i] = [x |-> h[i].x, dx |-> h[i].dx, score |-> h[i].score, var |-> h[i].var]
       /\ Counts(h[i].x, Xs(h), i)
       /\ i > 1 => Counts(h[i].dx, DXs(h), i)

\* The newest one has the scores and the variances.
Measured(h) ==
  Len(h) > 1 =>
    /\ h[Len(h)].score = <<K!KendallScore(Xs(h)), K!KendallScore(DXs(h))>>
    /\ h[Len(h)].var = <<K!KendallVariance(Xs(h)), K!KendallVariance(DXs(h))>>

LEMMA TalliedSeries ==
  ASSUME NEW h, Tallied(h)
  PROVE  /\ Len(h) \in Nat /\ DOMAIN h = 1 .. Len(h)
         /\ \A i \in 1 .. Len(h) : h[i].x.val \in Int
         /\ Xs(h) \in [1 .. Len(h) -> Int] /\ DXs(h) \in [2 .. Len(h) -> Int]
<1>1. Len(h) \in Nat /\ DOMAIN h = 1 .. Len(h)
  BY Sequences DEF Tallied
<1>2. ASSUME NEW i \in 1 .. Len(h) PROVE h[i].x.val \in Int
  <2>1. h[i].x \in Tallies
    BY DEF Tallied, Counts
  <2> QED BY <2>1 DEF Tallies
<1>3. Xs(h) \in [1 .. Len(h) -> Int]
  BY <1>1, <1>2 DEF Xs
<1>4. ASSUME NEW i \in 2 .. Len(h) PROVE h[i].x.val - h[i - 1].x.val \in Int
  <2>1. i \in 1 .. Len(h) /\ i - 1 \in 1 .. Len(h)
    BY <1>1
  <2> QED BY <1>2, <2>1
<1>5. DXs(h) \in [2 .. Len(h) -> Int]
  BY <1>4 DEF DXs
<1> QED BY <1>1, <1>2, <1>3, <1>5

LEMMA TailTallied ==
  ASSUME NEW h, Tallied(h), h # <<>>
  PROVE  Tallied(Tail(h))
<1> DEFINE t == Tail(h)
           m == Len(t)
<1>0. h \in Seq({h[i] : i \in DOMAIN h})
  BY DEF Tallied, IsSeq
<1>1. /\ t \in Seq({h[i] : i \in DOMAIN h}) /\ Len(h) = m + 1 /\ m \in Nat
      /\ \A i \in 1 .. m : t[i] = h[i + 1]
  BY <1>0, HeadTailProperties, LenProperties
<1>2. IsSeq(t)
  BY <1>1, Sequences
<1> HIDE DEF t, m
<1>3. /\ Xs(h) \in [1 .. m + 1 -> Int] /\ DXs(h) \in [2 .. m + 1 -> Int]
      /\ \A i \in 1 .. m + 1 : h[i].x.val \in Int
      /\ DOMAIN h = 1 .. m + 1
  BY <1>1, TalliedSeries
<1>4. DOMAIN t = 1 .. m
  BY <1>2, Sequences DEF m
<1>5. ASSUME NEW i \in 1 .. m
      PROVE  i + 1 \in 1 .. m + 1 /\ t[i] = h[i + 1] /\ t[i].x.val \in Int
  <2>1. i + 1 \in 1 .. m + 1
    BY <1>1
  <2> QED BY <1>1, <1>3, <2>1
<1>6. ASSUME NEW i \in 2 .. m
      PROVE  /\ i \in 1 .. m /\ i - 1 \in 1 .. m /\ i - 1 + 1 = i /\ i + 1 - 1 = i /\ i + 1 \in 2 .. m + 1
             /\ t[i].x.val - t[i - 1].x.val = h[i + 1].x.val - h[i].x.val
             /\ t[i].x.val - t[i - 1].x.val \in Int
  <2>1. i \in 1 .. m /\ i - 1 \in 1 .. m /\ i - 1 + 1 = i /\ i + 1 - 1 = i /\ i + 1 \in 2 .. m + 1
    BY <1>1
  <2>2. t[i] = h[i + 1] /\ t[i - 1] = h[i] /\ t[i].x.val \in Int /\ t[i - 1].x.val \in Int
    <3>1. t[i - 1] = h[i - 1 + 1]
      BY <1>5, <2>1
    <3> QED BY <1>5, <2>1, <3>1
  <2> QED BY <2>1, <2>2
<1>7. Xs(t) \in [1 .. m -> Int] /\ \A i \in 1 .. m : Xs(t)[i] = Xs(h)[i + 1]
  BY <1>3, <1>4, <1>5 DEF Xs
<1>8. DXs(t) \in [2 .. m -> Int] /\ \A i \in 2 .. m : DXs(t)[i] = DXs(h)[i + 1]
  <2>1. DXs(t) = [i \in 2 .. m |-> t[i].x.val - t[i - 1].x.val]
    BY DEF DXs, m
  <2>2. DXs(h) = [i \in 2 .. m + 1 |-> h[i].x.val - h[i - 1].x.val]
    BY <1>1 DEF DXs
  <2>3. \A i \in 2 .. m : DXs(h)[i + 1] = h[i + 1].x.val - h[i].x.val
    BY <1>6, <2>2
  <2> QED BY <1>6, <2>1, <2>3
<1>9. ASSUME NEW i \in 1 .. m
      PROVE  /\ t[i] = [x |-> t[i].x, dx |-> t[i].dx, score |-> t[i].score, var |-> t[i].var]
             /\ Counts(t[i].x, Xs(t), i)
             /\ i > 1 => Counts(t[i].dx, DXs(t), i)
  <2>1. i + 1 \in 1 .. Len(h) /\ i + 1 > 1
    BY <1>1, <1>5
  <2>2. /\ t[i] = h[i + 1]
        /\ h[i + 1] = [x |-> h[i + 1].x, dx |-> h[i + 1].dx,
                       score |-> h[i + 1].score, var |-> h[i + 1].var]
        /\ Counts(h[i + 1].x, Xs(h), i + 1)
        /\ Counts(h[i + 1].dx, DXs(h), i + 1)
    BY <1>5, <2>1 DEF Tallied
  <2>3. Counts(t[i].x, Xs(t), i)
    <3> DEFINE a == 1
               long == Xs(h)
               short == Xs(t)
               axis == t[i].x
    <3>1. /\ a \in Nat /\ m \in Nat /\ long \in [a .. m + 1 -> Int] /\ short \in [a .. m -> Int]
          /\ \A j \in a .. m : short[j] = long[j + 1]
          /\ i \in a .. m /\ Counts(axis, long, i + 1)
      BY <1>1, <1>3, <1>7, <2>2
    <3> HIDE DEF a, long, short, axis
    <3>2. Counts(axis, short, i)
      BY <3>1, CountsShifted
    <3> QED BY <3>2 DEF axis, short
  <2>4. ASSUME i > 1 PROVE Counts(t[i].dx, DXs(t), i)
    <3>1. i \in 2 .. m
      BY <2>4
    <3> DEFINE a == 2
               long == DXs(h)
               short == DXs(t)
               axis == t[i].dx
    <3>2. /\ a \in Nat /\ m \in Nat /\ long \in [a .. m + 1 -> Int] /\ short \in [a .. m -> Int]
          /\ \A j \in a .. m : short[j] = long[j + 1]
          /\ i \in a .. m /\ Counts(axis, long, i + 1)
      BY <1>1, <1>3, <1>8, <2>2, <3>1
    <3> HIDE DEF a, long, short, axis
    <3>3. Counts(axis, short, i)
      BY <3>2, CountsShifted
    <3> QED BY <3>3 DEF axis, short
  <2> QED BY <2>2, <2>3, <2>4
<1>10. Tallied(t)
  BY <1>2, <1>9 DEF Tallied, m
<1> QED BY <1>10 DEF t

LEMMA PushTallied ==
  ASSUME NEW h, Tallied(h), NEW x \in Int
  PROVE  Tallied(K!Push(h, x)) /\ Measured(K!Push(h, x))
<1> DEFINE n == Len(h)
<1>0. /\ n \in Nat /\ DOMAIN h = 1 .. n /\ h \in Seq({h[i] : i \in DOMAIN h})
      /\ \A i \in 1 .. n : h[i].x.val \in Int
      /\ Xs(h) \in [1 .. n -> Int] /\ DXs(h) \in [2 .. n -> Int]
  BY TalliedSeries DEF Tallied, IsSeq
<1>1. CASE h = <<>>
  <2> DEFINE e == K!Sample(x, 0)
  <2>1. K!Push(h, x) = <<e>>
    BY <1>1 DEF K!Push
  <2>2. e = [x |-> K!Axis(x), dx |-> K!Axis(0), score |-> <<0, 0>>, var |-> <<0, 0>>]
    BY DEF K!Sample
  <2> HIDE DEF e
  <2>3. IsSeq(<<e>>) /\ Len(<<e>>) = 1 /\ DOMAIN <<e>> = 1 .. 1 /\ <<e>>[1] = e
    <3>1. <<e>> \in Seq({e}) /\ Len(<<e>>) = 1 /\ DOMAIN <<e>> = 1 .. 1 /\ <<e>>[1] = e
      OBVIOUS
    <3> QED BY <3>1, Sequences, Zenon
  <2>4. e.x.val = x
    BY <2>2 DEF K!Axis
  <2>5. Xs(<<e>>) \in [1 .. 1 -> Int] /\ Xs(<<e>>)[1] = x
    BY <2>3, <2>4 DEF Xs
  <2>6. Counts(e.x, Xs(<<e>>), 1)
    <3>1. Counts(K!Axis(Xs(<<e>>)[0 + 1]), Xs(<<e>>), 0 + 1)
      <4> DEFINE a == 1
                 m == 0
                 s == Xs(<<e>>)
      <4>1. a \in Nat /\ m \in Nat /\ a <= m + 1 /\ s \in [a .. m + 1 -> Int]
        BY <2>5
      <4> HIDE DEF a, m, s
      <4>2. Counts(K!Axis(s[m + 1]), s, m + 1)
        BY <4>1, CountsNew
      <4> QED BY <4>2 DEF a, m, s
    <3>2. 0 + 1 = 1
      OBVIOUS
    <3> QED BY <2>2, <2>5, <3>1, <3>2
  <2>7. Tallied(<<e>>)
    BY <2>2, <2>3, <2>6 DEF Tallied
  <2>8. Measured(<<e>>)
    BY <2>3 DEF Measured
  <2> QED BY <2>1, <2>7, <2>8
<1>2. CASE h # <<>>
  <2> DEFINE dx == x - K!Last(h).x.val
             past == K!Updated(h, x, dx)
             xs == [i \in DOMAIN past |-> past[i].x]
             dxs == [i \in DOMAIN K!Deltas(past) |-> past[i].dx]
             e == [K!Sample(x, dx) EXCEPT
                     !.score = <<K!Score(xs), K!Score(dxs)>>,
                     !.var = <<K!ComputeKTVariance(xs, Len(past) + 1),
                               K!ComputeKTVariance(dxs, Len(past) + 1 - 1)>>]
             new == Append(past, e)
  <2>1. K!Push(h, x) = new
    BY <1>2 DEF K!Push
  <2>2. n >= 1 /\ n \in 1 .. n
    BY <1>0, <1>2
  <2>3. dx = x - h[n].x.val /\ dx \in Int
    BY <1>0, <2>2 DEF K!Last
  <2> HIDE DEF dx
  <2>4. /\ past = [i \in 1 .. n |-> past[i]]
        /\ \A i \in 1 .. n :
             past[i] = [h[i] EXCEPT !.score = <<0, 0>>, !.var = <<0, 0>>,
                          !.x = K!UpdateKTValuePair(h[i].x, x),
                          !.dx = IF i = 1 THEN h[i].dx ELSE K!UpdateKTValuePair(h[i].dx, dx)]
    BY <1>0, <2>2 DEF K!Updated
  <2> HIDE DEF past
  <2>5. ASSUME NEW i \in 1 .. n
        PROVE  /\ past[i] = [x |-> past[i].x, dx |-> past[i].dx,
                             score |-> past[i].score, var |-> past[i].var]
               /\ past[i].x = K!UpdateKTValuePair(h[i].x, x)
               /\ i > 1 => past[i].dx = K!UpdateKTValuePair(h[i].dx, dx)
    <3>1. h[i] = [x |-> h[i].x, dx |-> h[i].dx, score |-> h[i].score, var |-> h[i].var]
      BY DEF Tallied
    <3> DEFINE up == K!UpdateKTValuePair(h[i].x, x)
               dup == IF i = 1 THEN h[i].dx ELSE K!UpdateKTValuePair(h[i].dx, dx)
    <3>2. past[i] = [h[i] EXCEPT !.score = <<0, 0>>, !.var = <<0, 0>>, !.x = up, !.dx = dup]
      BY <2>4
    <3> HIDE DEF up, dup
    <3>3. past[i] = [x |-> up, dx |-> dup, score |-> <<0, 0>>, var |-> <<0, 0>>]
      BY <3>1, <3>2
    <3>4. i > 1 => dup = K!UpdateKTValuePair(h[i].dx, dx)
      BY DEF dup
    <3>5. /\ past[i] = [x |-> past[i].x, dx |-> past[i].dx,
                        score |-> past[i].score, var |-> past[i].var]
          /\ past[i].x = up /\ past[i].dx = dup
      BY <3>3
    <3> QED BY <3>4, <3>5 DEF up
  <2>6. Len(past) = n /\ past \in Seq({past[i] : i \in 1 .. n} \cup {e})
    <3> DEFINE set == {past[i] : i \in 1 .. n} \cup {e}
    <3>0. n \in Nat /\ past = [i \in 1 .. n |-> past[i]]
      BY <1>0, <2>4
    <3> HIDE DEF e, n
    <3>1. past \in [1 .. n -> set] /\ DOMAIN past = 1 .. n
      BY <3>0
    <3> HIDE DEF set
    <3>2. past \in Seq(set)
      BY <3>0, <3>1, SeqDef
    <3>3. Len(past) = n
      BY <3>0, <3>1, <3>2, LenProperties
    <3> QED BY <3>2, <3>3 DEF set
  <2>7. /\ xs = [i \in 1 .. n |-> past[i].x]
        /\ dxs = [i \in 2 .. n |-> past[i].dx]
    BY <2>4, <2>6 DEF K!Deltas
  <2> DEFINE score == <<K!Score(xs), K!Score(dxs)>>
             var == <<K!ComputeKTVariance(xs, n + 1), K!ComputeKTVariance(dxs, n)>>
  <2>8. e = [x |-> K!Axis(x), dx |-> K!Axis(dx), score |-> score, var |-> var]
    <3>1. n + 1 - 1 = n
      BY <1>0
    <3>2. K!Sample(x, dx) = [x |-> K!Axis(x), dx |-> K!Axis(dx), score |-> <<0, 0>>, var |-> <<0, 0>>]
      BY DEF K!Sample
    <3>3. e = [K!Sample(x, dx) EXCEPT !.score = score, !.var = var]
      BY <2>6, <3>1
    <3> DEFINE base == K!Sample(x, dx)
               xaxis == K!Axis(x)
               dxaxis == K!Axis(dx)
    <3> HIDE DEF e, score, var, base, xaxis, dxaxis
    <3>4. base = [x |-> xaxis, dx |-> dxaxis, score |-> <<0, 0>>, var |-> <<0, 0>>]
      BY <3>2 DEF base, xaxis, dxaxis
    <3>5. e = [base EXCEPT !.score = score, !.var = var]
      BY <3>3 DEF base
    <3>6. e = [x |-> xaxis, dx |-> dxaxis, score |-> score, var |-> var]
      BY <3>4, <3>5
    <3> QED BY <3>6 DEF xaxis, dxaxis
  <2> HIDE DEF e, xs, dxs
  <2>9. /\ IsSeq(new) /\ Len(new) = n + 1 /\ DOMAIN new = 1 .. n + 1
        /\ \A i \in 1 .. n : new[i] = past[i]
        /\ new[n + 1] = e
    <3> DEFINE set == {past[i] : i \in 1 .. n} \cup {e}
    <3>1. past \in Seq(set) /\ e \in set
      BY <2>6
    <3> HIDE DEF set
    <3>2. /\ new \in Seq(set) /\ Len(new) = n + 1
          /\ \A i \in 1 .. n : new[i] = past[i]
          /\ new[n + 1] = e
      BY <2>6, <3>1, AppendProperties
    <3> QED BY <3>2, Sequences
  <2> HIDE DEF new
  <2>10. /\ \A i \in 1 .. n : new[i].x.val = h[i].x.val
         /\ new[n + 1].x.val = x
    <3>1. \A i \in 1 .. n : past[i].x.val = h[i].x.val
      <4>1. ASSUME NEW i \in 1 .. n PROVE K!UpdateKTValuePair(h[i].x, x).val = h[i].x.val
        <5>1. h[i].x \in Tallies
          BY DEF Tallied, Counts
        <5> DEFINE axis == h[i].x
        <5>2. axis = [val |-> axis.val, sum |-> axis.sum, ties |-> axis.ties]
          BY <5>1 DEF Tallies
        <5> HIDE DEF axis
        <5>3. K!UpdateKTValuePair(axis, x).val = axis.val
          BY <5>2 DEF K!UpdateKTValuePair
        <5> QED BY <5>3 DEF axis
      <4> QED BY <2>5, <4>1
    <3>2. e.x.val = x
      BY <2>8 DEF K!Axis
    <3> QED BY <2>9, <3>1, <3>2
  <2>11. /\ Xs(new) \in [1 .. n + 1 -> Int]
         /\ \A i \in 1 .. n : Xs(new)[i] = Xs(h)[i]
         /\ Xs(new)[n + 1] = x
    <3>1. \A i \in 1 .. n + 1 : i \in 1 .. n \/ i = n + 1
      BY <1>0
    <3>2. \A i \in 1 .. n : i \in 1 .. n + 1
      BY <1>0
    <3>3. n + 1 \in 1 .. n + 1
      BY <1>0
    <3>4. Xs(new) = [i \in 1 .. n + 1 |-> new[i].x.val] /\ Xs(h) = [i \in 1 .. n |-> h[i].x.val]
      BY <1>0, <2>9 DEF Xs
    <3>5. \A i \in 1 .. n + 1 : new[i].x.val \in Int
      BY <1>0, <2>10, <3>1
    <3> QED BY <2>10, <3>2, <3>3, <3>4, <3>5
  <2>12. /\ DXs(new) \in [2 .. n + 1 -> Int]
         /\ \A i \in 2 .. n : DXs(new)[i] = DXs(h)[i]
         /\ DXs(new)[n + 1] = dx
    <3>1. /\ DXs(new) = [i \in 2 .. n + 1 |-> new[i].x.val - new[i - 1].x.val]
          /\ DXs(h) = [i \in 2 .. n |-> h[i].x.val - h[i - 1].x.val]
      BY <2>9 DEF DXs
    <3>2. \A i \in 2 .. n : i \in 1 .. n /\ i - 1 \in 1 .. n
      BY <1>0
    <3>3. \A i \in 2 .. n :
            /\ new[i].x.val - new[i - 1].x.val = h[i].x.val - h[i - 1].x.val
            /\ h[i].x.val - h[i - 1].x.val \in Int
      <4>1. ASSUME NEW i \in 2 .. n
            PROVE  new[i].x.val = h[i].x.val /\ new[i - 1].x.val = h[i - 1].x.val
        BY <2>10, <3>2
      <4>2. ASSUME NEW i \in 2 .. n PROVE h[i].x.val \in Int /\ h[i - 1].x.val \in Int
        BY <1>0, <3>2
      <4> QED BY <4>1, <4>2
    <3>4. new[n + 1].x.val - new[n + 1 - 1].x.val = dx
      <4>1. n + 1 - 1 = n
        BY <1>0
      <4> QED BY <2>2, <2>3, <2>10, <4>1
    <3>5. \A i \in 2 .. n + 1 : i \in 2 .. n \/ i = n + 1
      BY <1>0
    <3>6. n + 1 \in 2 .. n + 1 /\ \A i \in 2 .. n : i \in 2 .. n + 1
      BY <1>0, <2>2
    <3>7. \A i \in 2 .. n + 1 : new[i].x.val - new[i - 1].x.val \in Int
      BY <2>3, <3>3, <3>4, <3>5
    <3> QED BY <3>1, <3>3, <3>4, <3>6, <3>7
  <2>13. ASSUME NEW i \in 1 .. n
         PROVE  Counts(new[i].x, Xs(new), i)
    <3>1. Counts(h[i].x, Xs(h), i)
      BY DEF Tallied
    <3> DEFINE a == 1
               s == Xs(h)
               longer == Xs(new)
               axis == h[i].x
    <3>2. /\ a \in Nat /\ n \in Nat /\ s \in [a .. n -> Int] /\ longer \in [a .. n + 1 -> Int]
          /\ \A j \in a .. n : longer[j] = s[j]
          /\ i \in a .. n /\ Counts(axis, s, i) /\ longer[n + 1] = x
      BY <1>0, <2>11, <3>1
    <3> HIDE DEF a, s, longer, axis
    <3>3. Counts(K!UpdateKTValuePair(axis, longer[n + 1]), longer, i)
      BY <3>2, CountsExtended
    <3>4. Counts(K!UpdateKTValuePair(h[i].x, x), Xs(new), i)
      BY <3>2, <3>3 DEF axis, longer
    <3> QED BY <2>5, <2>9, <3>4
  <2>14. ASSUME NEW i \in 2 .. n
         PROVE  Counts(new[i].dx, DXs(new), i)
    <3>0. i \in 1 .. n /\ i > 1
      BY <1>0
    <3>1. Counts(h[i].dx, DXs(h), i)
      BY <3>0 DEF Tallied
    <3> DEFINE a == 2
               s == DXs(h)
               longer == DXs(new)
               axis == h[i].dx
    <3>2. /\ a \in Nat /\ n \in Nat /\ s \in [a .. n -> Int] /\ longer \in [a .. n + 1 -> Int]
          /\ \A j \in a .. n : longer[j] = s[j]
          /\ i \in a .. n /\ Counts(axis, s, i) /\ longer[n + 1] = dx
      BY <1>0, <2>12, <3>1
    <3> HIDE DEF a, s, longer, axis
    <3>3. Counts(K!UpdateKTValuePair(axis, longer[n + 1]), longer, i)
      BY <3>2, CountsExtended
    <3>4. Counts(K!UpdateKTValuePair(h[i].dx, dx), DXs(new), i)
      BY <3>2, <3>3 DEF axis, longer
    <3> QED BY <2>5, <2>9, <3>0, <3>4
  <2>15. Counts(e.x, Xs(new), n + 1) /\ Counts(e.dx, DXs(new), n + 1)
    <3>1. ASSUME NEW a \in Nat, a <= n + 1, NEW s \in [a .. n + 1 -> Int]
          PROVE  Counts(K!Axis(s[n + 1]), s, n + 1)
      BY <1>0, <3>1, CountsNew
    <3>2. 1 \in Nat /\ 2 \in Nat /\ 1 <= n + 1 /\ 2 <= n + 1
      BY <1>0, <2>2
    <3>3. Counts(K!Axis(Xs(new)[n + 1]), Xs(new), n + 1)
      BY <2>11, <3>1, <3>2
    <3>4. Counts(K!Axis(DXs(new)[n + 1]), DXs(new), n + 1)
      BY <2>12, <3>1, <3>2
    <3>5. e.x = K!Axis(x) /\ e.dx = K!Axis(dx)
      BY <2>8
    <3> QED BY <2>11, <2>12, <3>3, <3>4, <3>5
  <2>16. Tallied(new)
    <3>1. ASSUME NEW i \in 1 .. n + 1
          PROVE  /\ new[i] = [x |-> new[i].x, dx |-> new[i].dx,
                              score |-> new[i].score, var |-> new[i].var]
                 /\ Counts(new[i].x, Xs(new), i)
                 /\ i > 1 => Counts(new[i].dx, DXs(new), i)
      <4>1. CASE i = n + 1
        <5>1. e = [x |-> e.x, dx |-> e.dx, score |-> e.score, var |-> e.var]
          BY <2>8
        <5> QED BY <2>9, <2>15, <4>1, <5>1
      <4>2. CASE i # n + 1
        <5>1. i \in 1 .. n /\ (i > 1 => i \in 2 .. n)
          BY <1>0, <4>2
        <5> QED BY <2>5, <2>9, <2>13, <2>14, <5>1
      <4> QED BY <4>1, <4>2
    <3> QED BY <2>9, <3>1 DEF Tallied
  <2>17. \A i \in 1 .. n :
           /\ xs[i].sum = Cardinality(Later(Less, Xs(new), i)) - Cardinality(Later(More, Xs(new), i))
           /\ xs[i].ties = Cardinality(Later(Same, Xs(new), i))
    <3>1. \A i \in 1 .. n : xs[i] = new[i].x
      BY <2>7, <2>9
    <3> QED BY <2>13, <3>1 DEF Counts
  <2>18. \A i \in 2 .. n :
           /\ dxs[i].sum = Cardinality(Later(Less, DXs(new), i)) - Cardinality(Later(More, DXs(new), i))
           /\ dxs[i].ties = Cardinality(Later(Same, DXs(new), i))
    <3>1. \A i \in 2 .. n : dxs[i] = new[i].dx
      <4>1. \A i \in 2 .. n : i \in 1 .. n
        BY <1>0
      <4> QED BY <2>7, <2>9, <4>1
    <3> QED BY <2>14, <3>1 DEF Counts
  <2>19. ASSUME NEW a \in Nat, a <= n + 1, NEW s \in [a .. n + 1 -> Int],
                NEW axes, DOMAIN axes = a .. n,
                \A i \in a .. n :
                  /\ axes[i].sum = Cardinality(Later(Less, s, i)) - Cardinality(Later(More, s, i))
                  /\ axes[i].ties = Cardinality(Later(Same, s, i))
         PROVE  /\ K!Score(axes) = K!KendallScore(s)
                /\ K!ComputeKTVariance(axes, n + 2 - a) = K!KendallVariance(s)
    <3>0. n \in Nat
      BY <1>0
    <3> HIDE DEF n
    <3>1. /\ \A i \in a .. n : axes[i].sum =
               Cardinality(Later(Less, s, i)) - Cardinality(Later(More, s, i))
          /\ \A i \in a .. n : axes[i].ties = Cardinality(Later(Same, s, i))
      BY <2>19
    <3>2. K!Score(axes) = K!KendallScore(s)
      BY <2>19, <3>0, <3>1, ScoreIsKendalls
    <3> DEFINE size == n + 2 - a
    <3>3. K!ComputeKTVariance(axes, size) = K!KendallVariance(s)
      BY <2>19, <3>0, <3>1, VarianceIsKendalls
    <3> QED BY <3>2, <3>3
  <2>20. /\ K!Score(xs) = K!KendallScore(Xs(new))
         /\ K!ComputeKTVariance(xs, n + 1) = K!KendallVariance(Xs(new))
    <3>1. /\ 1 \in Nat /\ 1 <= n + 1 /\ n + 2 - 1 = n + 1
          /\ DOMAIN xs = 1 .. n
      BY <1>0, <2>7
    <3>2. K!ComputeKTVariance(xs, n + 2 - 1) = K!KendallVariance(Xs(new))
      BY <2>11, <2>17, <2>19, <3>1
    <3> QED BY <2>11, <2>17, <2>19, <3>1, <3>2
  <2>21. /\ K!Score(dxs) = K!KendallScore(DXs(new))
         /\ K!ComputeKTVariance(dxs, n) = K!KendallVariance(DXs(new))
    <3>1. /\ 2 \in Nat /\ 2 <= n + 1 /\ n + 2 - 2 = n
          /\ DOMAIN dxs = 2 .. n
      BY <1>0, <2>2, <2>7
    <3>2. K!ComputeKTVariance(dxs, n + 2 - 2) = K!KendallVariance(DXs(new))
      BY <2>12, <2>18, <2>19, <3>1
    <3> QED BY <2>12, <2>18, <2>19, <3>1, <3>2
  <2>22. Measured(new)
    <3>1. /\ e.score = <<K!KendallScore(Xs(new)), K!KendallScore(DXs(new))>>
          /\ e.var = <<K!KendallVariance(Xs(new)), K!KendallVariance(DXs(new))>>
      <4>1. e.score = score /\ e.var = var
        <5> HIDE DEF score, var
        <5> QED BY <2>8
      <4> QED BY <2>20, <2>21, <4>1
    <3> QED BY <2>9, <3>1 DEF Measured
  <2> QED BY <2>1, <2>16, <2>22
<1> QED BY <1>1, <1>2

LEMMA AddedTallied ==
  ASSUME NEW h, Tallied(h), Measured(h), NEW x \in Int, NEW served \in BOOLEAN,
         num_of_samples \in Nat \ {0}
  PROVE  /\ Tallied(K!AddNewStateToBuffer(h, x, served))
         /\ Measured(K!AddNewStateToBuffer(h, x, served))
<1>1. CASE ~served
  BY <1>1 DEF K!AddNewStateToBuffer
<1>2. CASE served /\ ~K!Full(h)
  <2>1. K!AddNewStateToBuffer(h, x, served) = K!Push(h, x)
    BY <1>2 DEF K!AddNewStateToBuffer
  <2> QED BY <2>1, PushTallied
<1>3. CASE served /\ K!Full(h)
  <2>1. K!AddNewStateToBuffer(h, x, served) = K!Push(Tail(h), x)
    BY <1>3 DEF K!AddNewStateToBuffer
  <2>2. Tallied(Tail(h))
    <3>1. h # <<>>
      BY <1>3 DEF K!Full
    <3> QED BY <3>1, TailTallied
  <2> QED BY <2>1, <2>2, PushTallied
<1> QED BY <1>1, <1>2, <1>3

TalliesInv == \A f \in DOMAIN histories : Tallied(histories[f]) /\ Measured(histories[f])

LEMMA TalliesInit == K!Init => TalliesInv
BY DEF K!Init, TalliesInv

LEMMA TalliesScore == TalliesInv => K!ScoresAreKendalls
<1> SUFFICES ASSUME TalliesInv PROVE K!ScoresAreKendalls
  OBVIOUS
<1>1. \A f \in DOMAIN histories :
        LET h == histories[f]
        IN Len(h) > 1 =>
             /\ K!Last(h).score = <<K!KendallScore(Xs(h)), K!KendallScore(DXs(h))>>
             /\ K!Last(h).var = <<K!KendallVariance(Xs(h)), K!KendallVariance(DXs(h))>>
  BY DEF TalliesInv, Measured, K!Last
<1> QED BY <1>1, Zenon DEF K!ScoresAreKendalls, Xs, DXs

LEMMA TalliesStep == TrendInv /\ TalliesInv /\ [K!Next]_(K!vars) => TalliesInv'
<1> SUFFICES ASSUME TrendInv, TalliesInv, [K!Next]_(K!vars) PROVE TalliesInv'
  OBVIOUS
<1>1. CASE K!UpdateFingerState
  <2> DEFINE Needy(new) == {f \in new : ~K!Full(K!History(f))}
             Left(new) == K!kSubset(K!Max({0, K!Cardinality(Needy(new)) - (free + K!Freed(new))}),
                                    Needy(new))
  <2>1. PICK new \in SUBSET TouchIds :
          \E x \in [new -> 0 .. MaxPosition], short \in Left(new) :
            histories' = [f \in new |-> K!AddNewStateToBuffer(K!History(f), x[f], f \notin short)]
    BY <1>1, Zenon DEF K!UpdateFingerState
  <2>2. PICK x \in [new -> 0 .. MaxPosition], short \in Left(new) :
          histories' = [f \in new |-> K!AddNewStateToBuffer(K!History(f), x[f], f \notin short)]
    BY <2>1
  <2>3. num_of_samples \in Nat \ {0}
    BY TrendConstants DEF TrendInv
  <2>4. ASSUME NEW f \in new
        PROVE  Tallied(K!History(f)) /\ Measured(K!History(f)) /\ x[f] \in Int
    <3>1. Tallied(<<>>) /\ Measured(<<>>)
      <4>1. IsSeq(<<>>) /\ Len(<<>>) = 0
        <5>1. <<>> \in Seq({})
          OBVIOUS
        <5> QED BY <5>1, Sequences
      <4>2. 1 .. 0 = {}
        OBVIOUS
      <4> QED BY <4>1, <4>2 DEF Tallied, Measured
    <3> QED BY <3>1 DEF K!History, TalliesInv
  <2>5. ASSUME NEW f \in new
        PROVE  Tallied(histories'[f]) /\ Measured(histories'[f])
    <3>1. histories'[f] = K!AddNewStateToBuffer(K!History(f), x[f], f \notin short)
      BY <2>2
    <3>2. (f \notin short) \in BOOLEAN
      OBVIOUS
    <3> QED BY <2>3, <2>4, <3>1, <3>2, AddedTallied
  <2>6. DOMAIN histories' = new
    BY <2>2
  <2> QED BY <2>5, <2>6 DEF TalliesInv
<1>2. CASE K!SetNumOfSamples \/ UNCHANGED K!vars
  <2>1. UNCHANGED histories
    BY <1>2 DEF K!SetNumOfSamples, K!vars
  <2> QED BY <2>1 DEF TalliesInv
<1> QED BY <1>1, <1>2 DEF K!Next

-----------------------------------------------------------------------------
(* The activity log's ring *)

\* What is encoded of slot j, and the log from its oldest entry on.
LogAt(j) ==
  IF log_buffer[j].type = "hwstate" /\ log_buffer[j].fingers \in L!Slots
  THEN L!HardwareState(finger_states[log_buffer[j].fingers]) ELSE log_buffer[j]

LogEntries == [i \in 1 .. log_size |-> L!GetEntry(i - 1)]

LogInv ==
  /\ L!TypeOK /\ L!FingersInOwnSlot
  /\ \A j \in L!Slots :
       log_buffer[j].type = "hwstate" /\ log_buffer[j].fingers \in L!Slots =>
         finger_states[j] \in LogFingers

LEMMA LogConstants == /\ BufferSize \in Nat \ {0} /\ -1 \notin LogFingers
BY SharedAssumption DEF L!SizeAssumption, L!NoFingers

LEMMA Wraps == \A k \in 0 .. 2 * BufferSize - 1 :
                 k % BufferSize = IF k < BufferSize THEN k ELSE k - BufferSize
BY LogConstants, Z3

\* Where the entry goes, whether the ring is full or not.
LEMMA PushedSlot ==
  ASSUME head_idx \in L!Slots, log_size \in 0 .. BufferSize
  PROVE  /\ L!Pushed \in L!Slots
         /\ L!HeadAfter \in L!Slots /\ L!SizeAfter \in 1 .. BufferSize
         /\ L!TailIdx(L!HeadAfter, L!SizeAfter) = L!Pushed
         /\ L!SizeAfter = IF log_size = BufferSize THEN BufferSize ELSE log_size + 1
         /\ \A i \in 1 .. L!SizeAfter :
              LET j == (L!HeadAfter + (i - 1)) % BufferSize
              IN /\ j \in L!Slots
                 /\ i = L!SizeAfter => j = L!Pushed
                 /\ i # L!SizeAfter => j # L!Pushed
                 /\ i # L!SizeAfter =>
                      j = (head_idx + (IF log_size = BufferSize THEN i ELSE i - 1)) % BufferSize
<1>1. CASE log_size = BufferSize
  <2>1. /\ L!HeadAfter = (head_idx + 1) % BufferSize /\ L!SizeAfter = BufferSize
        /\ L!Pushed = head_idx
    BY <1>1 DEF L!HeadAfter, L!SizeAfter, L!Pushed, L!HeadPast
  <2>2. L!HeadAfter = IF head_idx + 1 < BufferSize THEN head_idx + 1 ELSE 0
    BY <2>1, Wraps, LogConstants DEF L!Slots
  <2>3. L!TailIdx(L!HeadAfter, L!SizeAfter) = head_idx
    <3>1. L!TailIdx(L!HeadAfter, L!SizeAfter) = (L!HeadAfter + BufferSize - 1) % BufferSize
      BY <2>1 DEF L!TailIdx
    <3> QED BY <2>2, <3>1, Wraps, LogConstants DEF L!Slots
  <2>4. ASSUME NEW i \in 1 .. BufferSize
        PROVE  LET j == (L!HeadAfter + (i - 1)) % BufferSize
               IN /\ j \in L!Slots
                  /\ i = BufferSize => j = head_idx
                  /\ i # BufferSize => j # head_idx
                  /\ i # BufferSize => j = (head_idx + i) % BufferSize
    <3>1. (L!HeadAfter + (i - 1)) % BufferSize =
            IF L!HeadAfter + (i - 1) < BufferSize THEN L!HeadAfter + (i - 1)
            ELSE L!HeadAfter + (i - 1) - BufferSize
      BY <2>2, Wraps, LogConstants DEF L!Slots
    <3>2. (head_idx + i) % BufferSize = IF head_idx + i < BufferSize THEN head_idx + i
                                        ELSE head_idx + i - BufferSize
      BY Wraps, LogConstants DEF L!Slots
    <3> QED BY <2>2, <3>1, <3>2, LogConstants DEF L!Slots
  <2>5. L!HeadAfter \in L!Slots
    BY <2>2, LogConstants DEF L!Slots
  <2> QED BY <1>1, <2>1, <2>3, <2>4, <2>5, LogConstants
<1>2. CASE log_size # BufferSize
  <2>1. /\ L!HeadAfter = head_idx /\ L!SizeAfter = log_size + 1 /\ log_size < BufferSize
        /\ L!Pushed = (head_idx + (log_size + 1) - 1) % BufferSize
        /\ L!TailIdx(L!HeadAfter, L!SizeAfter) = L!Pushed
    BY <1>2, LogConstants DEF L!HeadAfter, L!SizeAfter, L!Pushed, L!TailIdx
  <2>2. L!Pushed = (head_idx + log_size) % BufferSize
    BY <2>1 DEF L!Slots
  <2>3. L!Pushed = IF head_idx + log_size < BufferSize THEN head_idx + log_size
                   ELSE head_idx + log_size - BufferSize
    BY <2>1, <2>2, Wraps, LogConstants DEF L!Slots
  <2>4. ASSUME NEW i \in 1 .. log_size + 1
        PROVE  LET j == (head_idx + (i - 1)) % BufferSize
               IN /\ j \in L!Slots
                  /\ i = log_size + 1 => j = L!Pushed
                  /\ i # log_size + 1 => j # L!Pushed
    <3>1. (head_idx + (i - 1)) % BufferSize =
            IF head_idx + (i - 1) < BufferSize THEN head_idx + (i - 1)
            ELSE head_idx + (i - 1) - BufferSize
      BY <2>1, Wraps, LogConstants DEF L!Slots
    <3> QED BY <2>1, <2>3, <3>1, LogConstants DEF L!Slots
  <2>5. L!Pushed \in L!Slots
    BY <2>1, <2>3, LogConstants DEF L!Slots
  <2> QED BY <1>2, <2>1, <2>4, <2>5, LogConstants
<1> QED BY <1>1, <1>2

LEMMA LogTypes ==
  ASSUME LogInv
  PROVE  /\ head_idx \in L!Slots /\ log_size \in 0 .. BufferSize
         /\ \A j \in L!Slots :
              log_buffer[j].type = "hwstate" /\ log_buffer[j].fingers \in L!Slots =>
                log_buffer[j].fingers = j
<1>1. /\ head_idx \in L!Slots /\ log_size \in 0 .. BufferSize
  BY DEF LogInv, L!TypeOK
<1>2. -1 \notin L!Slots /\ -2 \notin L!Slots
  BY LogConstants DEF L!Slots
<1> QED BY <1>1, <1>2 DEF LogInv, L!FingersInOwnSlot, L!NoFingers, L!Freed

\* An entry is the last of the log, and the first one goes when the ring is full.
LEMMA LogRecords ==
  ASSUME LogInv, NEW e \in {L!Other} \cup {L!HardwareState(f) : f \in LogFingers \cup {L!NoFingers}},
         head_idx' = L!HeadAfter, log_size' = L!SizeAfter,
         \A j \in L!Slots : LogAt(j)' = IF j = L!Pushed THEN e ELSE LogAt(j)
  PROVE  L!BL!Record
<1>0. head_idx \in L!Slots /\ log_size \in 0 .. BufferSize
  BY LogTypes
<1> DEFINE now == LogEntries'
           n == log_size
           more == Append(LogEntries, e)
<1>1. \A i : L!GetEntry(i) = LogAt((head_idx + i) % BufferSize)
  BY DEF L!GetEntry, LogAt
<1>2. ASSUME NEW i, NEW j, j = (L!HeadAfter + i) % BufferSize
      PROVE  L!GetEntry(i)' = LogAt(j)'
  BY <1>2 DEF L!GetEntry, LogAt
<1>3. /\ DOMAIN now = 1 .. L!SizeAfter /\ now = [i \in 1 .. L!SizeAfter |-> now[i]]
      /\ \A i \in 1 .. L!SizeAfter : now[i] = L!GetEntry(i - 1)'
  BY DEF LogEntries
<1>4. ASSUME NEW i \in 1 .. L!SizeAfter
      PROVE  now[i] = IF i = L!SizeAfter THEN e
                      ELSE L!GetEntry((IF n = BufferSize THEN i ELSE i - 1))
  <2> HIDE DEF now
  <2> DEFINE j == (L!HeadAfter + (i - 1)) % BufferSize
  <2>1. /\ j \in L!Slots
        /\ i = L!SizeAfter => j = L!Pushed
        /\ i # L!SizeAfter => j # L!Pushed
        /\ i # L!SizeAfter => j = (head_idx + (IF n = BufferSize THEN i ELSE i - 1)) % BufferSize
    BY <1>0, PushedSlot
  <2>2. \A k : k = j => now[i] = LogAt(k)'
    BY <1>2, <1>3
  <2>3. \A k \in L!Slots : k = j => now[i] = IF k = L!Pushed THEN e ELSE LogAt(k)
    BY <2>2
  <2> QED BY <1>1, <2>1, <2>3
<1>5. L!SizeAfter = IF n = BufferSize THEN BufferSize ELSE n + 1
  BY <1>0, PushedSlot
<1>6. n \in Nat /\ n <= BufferSize /\ n \in Int
  BY <1>0, LogConstants
<1>7. /\ LogEntries \in Seq({LogEntries[i] : i \in 1 .. n} \cup {e})
      /\ Len(LogEntries) = n
      /\ \A i \in 1 .. n : LogEntries[i] = L!GetEntry(i - 1)
  <2> DEFINE set == {LogEntries[i] : i \in 1 .. n} \cup {e}
  <2>1. LogEntries \in [1 .. n -> set] /\ DOMAIN LogEntries = 1 .. n
    BY DEF LogEntries
  <2>2. \A i \in 1 .. n : LogEntries[i] = L!GetEntry(i - 1)
    BY DEF LogEntries
  <2> HIDE DEF set
  <2>3. LogEntries \in Seq(set)
    BY <1>6, <2>1, SeqDef
  <2>4. Len(LogEntries) = n
    BY <1>6, <2>1, <2>3, LenProperties
  <2> QED BY <2>2, <2>3, <2>4 DEF set
<1> DEFINE set == {LogEntries[i] : i \in 1 .. n} \cup {e}
<1>8. /\ more \in Seq(set) /\ Len(more) = n + 1 /\ more # <<>>
      /\ \A i \in 1 .. n : more[i] = LogEntries[i]
      /\ more[n + 1] = e
  <2> HIDE DEF set
  <2>1. e \in set
    BY DEF set
  <2>2. /\ more \in Seq(set) /\ Len(more) = Len(LogEntries) + 1
        /\ \A i \in 1 .. Len(LogEntries) : more[i] = LogEntries[i]
        /\ more[Len(LogEntries) + 1] = e
    BY <1>7, <2>1, AppendProperties DEF set
  <2>3. n + 1 # 0
    BY <1>6
  <2> QED BY <1>7, <2>2, <2>3, EmptySeq
<1> HIDE DEF more, now, set
<1>9. CASE n # BufferSize
  <2>1. L!BL!Newest(more) = more
    <3>1. \A m : m = n + 1 => ~(m > BufferSize)
      BY <1>6, <1>9, LogConstants
    <3>2. ~(Len(more) > BufferSize)
      BY <1>8, <3>1, Zenon
    <3> QED BY <3>2 DEF L!BL!Newest
  <2>2. more = [i \in 1 .. n + 1 |-> more[i]]
    BY <1>8, LenProperties
  <2>3. \A i \in 1 .. n + 1 : now[i] = more[i]
    BY <1>4, <1>5, <1>6, <1>7, <1>8, <1>9
  <2>4. now = more
    BY <1>3, <1>5, <1>9, <2>2, <2>3
  <2> QED BY <2>1, <2>4 DEF L!BL!Record, LogEntries, more, now
<1>10. CASE n = BufferSize
  <2>1. L!BL!Newest(more) = Tail(more)
    BY <1>6, <1>8, <1>10, LogConstants DEF L!BL!Newest
  <2>2. /\ Tail(more) \in Seq(set) /\ Len(Tail(more)) = n
        /\ \A i \in 1 .. n : Tail(more)[i] = more[i + 1]
    <3>1. /\ Tail(more) \in Seq(set) /\ Len(Tail(more)) = Len(more) - 1
          /\ \A i \in 1 .. Len(Tail(more)) : Tail(more)[i] = more[i + 1]
      BY <1>8, HeadTailProperties
    <3>2. \A m : m = n + 1 => m - 1 = n
      BY <1>6
    <3>3. Len(Tail(more)) = n
      BY <1>8, <3>1, <3>2, Zenon
    <3> QED BY <3>1, <3>3
  <2>4. Tail(more) = [i \in 1 .. n |-> Tail(more)[i]]
    BY <2>2, LenProperties
  <2>5. \A i \in 1 .. n : now[i] = Tail(more)[i]
    BY <1>4, <1>5, <1>6, <1>7, <1>8, <1>10, <2>2
  <2>6. now = Tail(more)
    BY <1>3, <1>5, <1>10, <2>4, <2>5
  <2> QED BY <2>1, <2>6 DEF L!BL!Record, LogEntries, more, now
<1> QED BY <1>9, <1>10

\* A step of the ring keeps its invariant and is one of the log.
LEMMA LogStep ==
  LogInv /\ [L!Next]_L!vars => LogInv' /\ [L!BL!Next]_LogEntries
<1> SUFFICES ASSUME LogInv, [L!Next]_L!vars PROVE LogInv' /\ [L!BL!Next]_LogEntries
  OBVIOUS
<1>0. /\ head_idx \in L!Slots /\ log_size \in 0 .. BufferSize
      /\ DOMAIN log_buffer = L!Slots /\ DOMAIN finger_states = L!Slots
  BY DEF LogInv, L!TypeOK
<1>1. CASE UNCHANGED L!vars
  BY <1>1 DEF LogInv, L!TypeOK, L!FingersInOwnSlot, L!vars, LogEntries, L!GetEntry
<1>2. CASE L!LogOther
  <2>1. /\ head_idx' = L!HeadAfter /\ log_size' = L!SizeAfter
        /\ log_buffer' = [log_buffer EXCEPT ![L!Pushed] = L!Other]
        /\ UNCHANGED <<finger_states, allocated>>
    BY <1>2 DEF L!LogOther, L!PushBack
  <2>2. \A j \in L!Slots : LogAt(j)' = IF j = L!Pushed THEN L!Other ELSE LogAt(j)
    BY <1>0, <2>1 DEF LogAt, L!Other
  <2>3. L!BL!Record
    BY <2>1, <2>2, LogRecords
  <2>4. LogInv'
    <3>1. /\ L!Pushed \in L!Slots /\ L!HeadAfter \in L!Slots /\ L!SizeAfter \in 0 .. BufferSize
      BY <1>0, PushedSlot
    <3> QED BY <1>0, <2>1, <3>1 DEF LogInv, L!TypeOK, L!FingersInOwnSlot, L!Other
  <2> QED BY <2>3, <2>4 DEF L!BL!Next
<1>3. CASE L!LogHardwareState
  <2>1. PICK fingers \in LogFingers \cup {L!NoFingers}, fit \in BOOLEAN :
          /\ ~allocated /\ fingers # L!NoFingers => ~fit
          /\ IF fit /\ fingers # L!NoFingers
             THEN /\ L!PushBack(L!HardwareState(L!TailIdx(L!HeadAfter, L!SizeAfter)))
                  /\ finger_states' =
                       [finger_states EXCEPT ![L!TailIdx(L!HeadAfter, L!SizeAfter)] = fingers]
             ELSE /\ L!PushBack(L!HardwareState(L!NoFingers))
                  /\ UNCHANGED finger_states
          /\ UNCHANGED allocated
    BY <1>3, Zenon DEF L!LogHardwareState
  <2>2. /\ L!Pushed \in L!Slots /\ L!HeadAfter \in L!Slots /\ L!SizeAfter \in 0 .. BufferSize
        /\ L!TailIdx(L!HeadAfter, L!SizeAfter) = L!Pushed
    BY <1>0, PushedSlot
  <2>3. -1 \notin L!Slots
    BY LogConstants DEF L!Slots
  <2>4. CASE fit /\ fingers # L!NoFingers
    <3>1. /\ head_idx' = L!HeadAfter /\ log_size' = L!SizeAfter
          /\ log_buffer' = [log_buffer EXCEPT ![L!Pushed] = L!HardwareState(L!Pushed)]
          /\ finger_states' = [finger_states EXCEPT ![L!Pushed] = fingers]
          /\ UNCHANGED allocated /\ fingers \in LogFingers
      BY <2>1, <2>2, <2>4 DEF L!PushBack
    <3>2. \A j \in L!Slots : LogAt(j)' = IF j = L!Pushed THEN L!HardwareState(fingers) ELSE LogAt(j)
      <4> TAKE j \in L!Slots
      <4>1. CASE j = L!Pushed
        BY <1>0, <2>2, <3>1, <4>1 DEF LogAt, L!HardwareState
      <4>2. CASE j # L!Pushed
        BY <1>0, <2>2, <3>1, <4>2, LogTypes DEF LogAt, L!HardwareState
      <4> QED BY <4>1, <4>2
    <3>3. L!BL!Record
      BY <3>1, <3>2, LogRecords
    <3>4. LogInv'
      BY <1>0, <2>2, <3>1 DEF LogInv, L!TypeOK, L!FingersInOwnSlot, L!HardwareState
    <3> QED BY <3>3, <3>4 DEF L!BL!Next
  <2>5. CASE ~(fit /\ fingers # L!NoFingers)
    <3>1. /\ head_idx' = L!HeadAfter /\ log_size' = L!SizeAfter
          /\ log_buffer' = [log_buffer EXCEPT ![L!Pushed] = L!HardwareState(L!NoFingers)]
          /\ UNCHANGED <<finger_states, allocated>>
      BY <2>1, <2>5 DEF L!PushBack
    <3>2. \A j \in L!Slots :
            LogAt(j)' = IF j = L!Pushed THEN L!HardwareState(L!NoFingers) ELSE LogAt(j)
      BY <1>0, <2>2, <2>3, <3>1 DEF LogAt, L!HardwareState, L!NoFingers
    <3>3. L!BL!Record
      BY <3>1, <3>2, LogRecords
    <3>4. LogInv'
      BY <1>0, <2>2, <2>3, <3>1 DEF LogInv, L!TypeOK, L!FingersInOwnSlot, L!HardwareState, L!NoFingers
    <3> QED BY <3>3, <3>4 DEF L!BL!Next
  <2> QED BY <2>4, <2>5
<1>4. CASE L!Clear
  <2>1. LogEntries' = <<>>
    <3>1. log_size' = 0
      BY <1>4 DEF L!Clear
    <3> QED BY <3>1 DEF LogEntries
  <2>2. L!BL!Clear
    BY <2>1 DEF L!BL!Clear, LogEntries
  <2>3. LogInv'
    BY <1>4, LogConstants DEF LogInv, L!TypeOK, L!FingersInOwnSlot, L!Clear, L!Slots
  <2> QED BY <2>2, <2>3 DEF L!BL!Next
<1>5. CASE L!SetHardwareProperties
  <2>1. PICK junk \in LogFingers : finger_states' = [i \in L!Slots |-> junk]
    BY <1>5 DEF L!SetHardwareProperties
  <2>2. /\ allocated' = TRUE
        /\ log_buffer' = [i \in L!Slots |->
             IF log_buffer[i].type = "hwstate" /\ log_buffer[i].fingers \in L!Slots
             THEN L!HardwareState(L!Freed) ELSE log_buffer[i]]
        /\ UNCHANGED <<head_idx, log_size>>
    BY <1>5 DEF L!SetHardwareProperties
  <2>3. -1 \notin L!Slots /\ -2 \notin L!Slots
    BY LogConstants DEF L!Slots
  <2>4. LogInv'
    BY <1>0, <2>1, <2>2, <2>3
       DEF LogInv, L!TypeOK, L!FingersInOwnSlot, L!HardwareState, L!Freed, L!NoFingers, L!Other
  <2>5. \A j \in L!Slots : LogAt(j)' = L!Forgotten(LogAt(j))
    <3> TAKE j \in L!Slots
    <3>1. CASE log_buffer[j].type = "hwstate" /\ log_buffer[j].fingers \in L!Slots
      BY <2>2, <2>3, <3>1, LogTypes, LogConstants
         DEF LogInv, LogAt, L!Forgotten, L!HardwareState, L!Freed, L!NoFingers
    <3>2. CASE ~(log_buffer[j].type = "hwstate" /\ log_buffer[j].fingers \in L!Slots)
      <4>1. log_buffer[j] \in {L!Other} \cup
                              {L!HardwareState(f) : f \in L!Slots \cup {L!NoFingers, L!Freed}}
        BY DEF LogInv, L!TypeOK
      <4>2. /\ log_buffer[j].type = "hwstate" /\ log_buffer[j].fingers # L!NoFingers =>
                 log_buffer[j] = L!HardwareState(L!Freed)
        BY <3>2, <4>1 DEF L!Other, L!HardwareState
      <4> QED BY <2>2, <2>3, <3>2, <4>2 DEF LogAt, L!Forgotten
    <3> QED BY <3>1, <3>2
  <2>6. \A i \in 1 .. log_size : L!GetEntry(i - 1)' = L!Forgotten(L!GetEntry(i - 1))
    <3> TAKE i \in 1 .. log_size
    <3> DEFINE j == (head_idx + (i - 1)) % BufferSize
    <3>1. j \in L!Slots
      BY <1>0, Wraps, LogConstants DEF L!Slots
    <3>2. L!GetEntry(i - 1) = LogAt(j)
      BY DEF L!GetEntry, LogAt
    <3>3. \A k : k = j => L!GetEntry(i - 1)' = LogAt(k)'
      BY <2>2 DEF L!GetEntry, LogAt
    <3> QED BY <2>5, <3>1, <3>2, <3>3
  <2>7. LogEntries' = [i \in DOMAIN LogEntries |-> L!Forgotten(LogEntries[i])]
    <3>1. DOMAIN LogEntries = 1 .. log_size /\ \A i \in 1 .. log_size : LogEntries[i] = L!GetEntry(i - 1)
      BY DEF LogEntries
    <3>2. LogEntries' = [i \in 1 .. log_size |-> L!GetEntry(i - 1)']
      BY <2>2 DEF LogEntries
    <3> HIDE DEF LogEntries
    <3> QED BY <2>6, <3>1, <3>2
  <2>8. L!BL!Reinitialize
    BY <2>7 DEF L!BL!Reinitialize, LogEntries
  <2> QED BY <2>4, <2>8 DEF L!BL!Next
<1> QED BY <1>1, <1>2, <1>3, <1>4, <1>5 DEF L!Next

LEMMA LogInit == L!Init => LogInv /\ L!BL!Init
<1> SUFFICES ASSUME L!Init PROVE LogInv /\ L!BL!Init
  OBVIOUS
<1>1. LogInv
  <2>1. /\ log_buffer = [i \in L!Slots |-> L!Other] /\ head_idx = 0 /\ log_size = 0
        /\ allocated = FALSE /\ finger_states \in [L!Slots -> {L!NoFingers}]
    BY DEF L!Init
  <2>2. 0 \in L!Slots /\ 0 \in 0 .. BufferSize
    BY LogConstants DEF L!Slots
  <2>3. \A i \in L!Slots : log_buffer[i].type # "hwstate"
    BY <2>1 DEF L!Other
  <2>4. L!TypeOK
    BY <2>1, <2>2 DEF L!TypeOK
  <2> QED BY <2>3, <2>4 DEF LogInv, L!FingersInOwnSlot
<1>2. LogEntries = <<>>
  <2>1. log_size = 0
    BY DEF L!Init
  <2> QED BY <2>1 DEF LogEntries
<1>3. L!BL!Init
  BY <1>2 DEF L!BL!Init, LogEntries
<1> QED BY <1>1, <1>3

-----------------------------------------------------------------------------
(* The map and the array it is kept in *)

MapPairs == [first : Keys, second : Data]
MapSlots == 0 .. MapSize - 1

KeysIn(b, n) == {b[i].first : i \in 0 .. n - 1}

\* The first n places of b hold a map, and m is what it is.
Distinct(b, n) == \A i, j \in 0 .. n - 1 : b[i].first = b[j].first => i = j
IsMapOf(m, b, n) ==
  /\ m = [k \in KeysIn(b, n) |-> m[k]]
  /\ \A i \in 0 .. n - 1 : m[b[i].first] = b[i].second

\* The array with new data in place it, and with a pair behind the others.
Rewritten(b, it, data) == [b EXCEPT ![it].second = data]
Extended(b, n, pair) == [b EXCEPT ![n] = pair]

MapInv ==
  /\ map_size \in 0 .. MapSize /\ map_buffer \in [MapSlots -> MapPairs]
  /\ Distinct(map_buffer, map_size)

LEMMA MapConstants == /\ MapSize \in Nat \ {0} /\ Keys # {} /\ Data # {}
BY SharedAssumption DEF F!SizeAssumption

\* A key that is there is found where it is, and one that is not at the end.
LEMMA Found ==
  ASSUME NEW b, NEW n \in Nat, Distinct(b, n), NEW key
  PROVE  /\ F!Find(b, n, key) \in Nat
         /\ \A i \in 0 .. n - 1 : b[i].first = key => F!Find(b, n, key) = i
         /\ key \notin KeysIn(b, n) => F!Find(b, n, key) = n
         /\ F!Find(b, n, key) < n <=> key \in KeysIn(b, n)
<1> DEFINE places == {i \in 0 .. n - 1 : b[i].first = key} \cup {n}
<1>0. F!Find(b, n, key) = CHOOSE i \in places : \A j \in places : i <= j
  BY DEF F!Find, F!Min
<1>1. ASSUME NEW i \in 0 .. n - 1, b[i].first = key PROVE F!Find(b, n, key) = i
  <2>1. places = {i, n}
    BY <1>1 DEF Distinct
  <2>2. i \in places /\ \A j \in places : i <= j
    BY <2>1
  <2>3. \A k \in places : (\A j \in places : k <= j) => k = i
    BY <2>1
  <2> HIDE DEF places
  <2> QED BY <1>0, <2>2, <2>3
<1>2. ASSUME key \notin KeysIn(b, n) PROVE F!Find(b, n, key) = n
  <2>1. places = {n}
    BY <1>2 DEF KeysIn
  <2> HIDE DEF places
  <2> QED BY <1>0, <2>1
<1>3. key \in KeysIn(b, n) => \E i \in 0 .. n - 1 : b[i].first = key
  BY DEF KeysIn
<1> HIDE DEF places
<1> QED BY <1>1, <1>2, <1>3

LEMMA ContentsAre ==
  ASSUME NEW m, map_size \in Nat, Distinct(map_buffer, map_size)
  PROVE  m = F!Contents <=> IsMapOf(m, map_buffer, map_size)
<1>1. F!Contents = [k \in KeysIn(map_buffer, map_size) |->
                      map_buffer[F!Find(map_buffer, map_size, k)].second]
  BY DEF F!Contents, KeysIn
<1>2. \A i \in 0 .. map_size - 1 :
        /\ map_buffer[i].first \in KeysIn(map_buffer, map_size)
        /\ F!Contents[map_buffer[i].first] = map_buffer[i].second
  BY <1>1, Found DEF KeysIn
<1>3. IsMapOf(m, map_buffer, map_size) =>
        \A k \in KeysIn(map_buffer, map_size) : m[k] = F!Contents[k]
  BY <1>2 DEF IsMapOf, KeysIn
<1> QED BY <1>1, <1>2, <1>3 DEF IsMapOf

LEMMA OneKeyEach ==
  ASSUME NEW b, NEW n \in Nat, Distinct(b, n)
  PROVE  Cardinality(KeysIn(b, n)) = n
<1> DEFINE places == 0 .. n - 1
           key == [i \in places |-> b[i].first]
<1>1. /\ key \in [places -> KeysIn(b, n)]
      /\ \A i, j \in places : key[i] = key[j] => i = j
      /\ \A k \in KeysIn(b, n) : \E i \in places : key[i] = k
  BY DEF KeysIn, Distinct
<1>2. IsFiniteSet(places) /\ Cardinality(places) = n
  BY FS_Interval
<1> HIDE DEF places, key
<1>3. key \in Bijection(places, KeysIn(b, n))
  <2>1. key \in Injection(places, KeysIn(b, n))
    BY <1>1, Zenon DEF Injection, IsInjective
  <2>2. key \in Surjection(places, KeysIn(b, n))
    BY <1>1, Zenon DEF Surjection
  <2> QED BY <2>1, <2>2, Zenon DEF Bijection
<1>4. ExistsBijection(places, KeysIn(b, n))
  BY <1>3 DEF ExistsBijection
<1> QED BY <1>2, <1>4, FS_Bijection

\* New data for the key in place it.
LEMMA Overwritten ==
  ASSUME NEW b \in [MapSlots -> MapPairs], NEW n \in 0 .. MapSize, Distinct(b, n),
         NEW it \in 0 .. n - 1, NEW data \in Data, NEW m, IsMapOf(m, b, n),
         NEW c, c = Rewritten(b, it, data)
  PROVE  /\ c \in [MapSlots -> MapPairs] /\ Distinct(c, n)
         /\ IsMapOf([k \in DOMAIN m |-> IF k = b[it].first THEN data ELSE m[k]], c, n)
<1>1. it \in MapSlots /\ 0 .. n - 1 \subseteq MapSlots
  BY MapConstants DEF MapSlots
<1>2. /\ c \in [MapSlots -> MapPairs]
      /\ \A i \in MapSlots : c[i].first = b[i].first
      /\ \A i \in MapSlots : c[i].second = IF i = it THEN data ELSE b[i].second
  BY <1>1 DEF MapPairs, Rewritten
<1>3. Distinct(c, n) /\ KeysIn(c, n) = KeysIn(b, n)
  BY <1>1, <1>2 DEF Distinct, KeysIn
<1>4. DOMAIN m = KeysIn(b, n)
  BY DEF IsMapOf
<1>5. \A i \in 0 .. n - 1 :
        /\ c[i].first \in DOMAIN m
        /\ c[i].second = IF c[i].first = b[it].first THEN data ELSE m[c[i].first]
  <2> TAKE i \in 0 .. n - 1
  <2>1. c[i].first \in DOMAIN m
    BY <1>3, <1>4 DEF KeysIn
  <2>2. c[i].first = b[it].first <=> i = it
    BY <1>1, <1>2 DEF Distinct
  <2> QED BY <1>1, <1>2, <2>1, <2>2 DEF IsMapOf
<1> QED BY <1>2, <1>3, <1>4, <1>5 DEF IsMapOf

\* A new key behind the others.
LEMMA PlacedLast ==
  ASSUME NEW b \in [MapSlots -> MapPairs], NEW n \in 0 .. MapSize - 1, Distinct(b, n),
         NEW key \in Keys, key \notin KeysIn(b, n), NEW data \in Data, NEW m, IsMapOf(m, b, n),
         NEW c, c = Extended(b, n, F!Pair(key, data))
  PROVE  /\ c \in [MapSlots -> MapPairs] /\ Distinct(c, n + 1)
         /\ IsMapOf([k \in DOMAIN m \cup {key} |-> IF k = key THEN data ELSE m[k]], c, n + 1)
<1>1. n \in MapSlots /\ 0 .. n - 1 \subseteq MapSlots /\ 0 .. (n + 1) - 1 = (0 .. n - 1) \cup {n}
      /\ n \notin 0 .. n - 1
  BY MapConstants DEF MapSlots
<1>2. /\ c \in [MapSlots -> MapPairs]
      /\ c[n].first = key /\ c[n].second = data
      /\ \A i \in 0 .. n - 1 : c[i] = b[i]
  BY <1>1 DEF MapPairs, F!Pair, Extended
<1>3. \A i \in 0 .. n - 1 : b[i].first # key /\ b[i].first \in KeysIn(b, n)
  BY DEF KeysIn
<1>4. Distinct(c, n + 1)
  BY <1>1, <1>2, <1>3 DEF Distinct
<1>5. KeysIn(c, n + 1) = KeysIn(b, n) \cup {key}
  <2>1. KeysIn(c, n + 1) = {c[i].first : i \in (0 .. n - 1) \cup {n}}
    BY <1>1 DEF KeysIn
  <2> QED BY <1>2, <2>1 DEF KeysIn
<1>6. DOMAIN m = KeysIn(b, n)
  BY DEF IsMapOf
<1>7. \A i \in 0 .. (n + 1) - 1 :
        /\ c[i].first \in DOMAIN m \cup {key}
        /\ c[i].second = IF c[i].first = key THEN data ELSE m[c[i].first]
  BY <1>1, <1>2, <1>3, <1>6 DEF IsMapOf
<1> QED BY <1>2, <1>4, <1>5, <1>6, <1>7 DEF IsMapOf

\* A key erased.
LEMMA ErasedOne ==
  ASSUME NEW b \in [MapSlots -> MapPairs], NEW n \in 0 .. MapSize, Distinct(b, n),
         NEW key \in KeysIn(b, n), NEW m, IsMapOf(m, b, n),
         NEW c, c = F!Erased(b, F!Find(b, n, key), n)
  PROVE  /\ n - 1 \in 0 .. MapSize /\ c \in [MapSlots -> MapPairs] /\ Distinct(c, n - 1)
         /\ IsMapOf([k \in DOMAIN m \ {key} |-> m[k]], c, n - 1)
<1>1. PICK it \in 0 .. n - 1 : b[it].first = key
  BY DEF KeysIn
<1>2. F!Find(b, n, key) = it /\ n \in Nat
  BY <1>1, Found, MapConstants
<1>3. /\ n - 1 \in 0 .. MapSize /\ 0 .. n - 1 \subseteq MapSlots
      /\ 0 .. (n - 1) - 1 \subseteq 0 .. n - 1
  BY <1>1, MapConstants DEF MapSlots
<1>4. c = [i \in MapSlots |-> IF it <= i /\ i < n - 1 THEN b[i + 1] ELSE b[i]]
  BY <1>2 DEF F!Erased
<1>5. \A i \in MapSlots : it <= i /\ i < n - 1 => i + 1 \in MapSlots
  BY <1>1, MapConstants DEF MapSlots
<1>6. c \in [MapSlots -> MapPairs]
  BY <1>4, <1>5
<1> DEFINE from(i) == IF it <= i THEN i + 1 ELSE i
<1>7. \A i \in 0 .. (n - 1) - 1 :
        /\ c[i] = b[from(i)] /\ from(i) \in 0 .. n - 1 /\ from(i) # it
        /\ b[from(i)].first # key
  BY <1>1, <1>3, <1>4 DEF Distinct
<1>8. \A i, j \in 0 .. (n - 1) - 1 : from(i) = from(j) => i = j
  BY <1>1
<1>9. \A j \in 0 .. n - 1 : j # it => \E i \in 0 .. (n - 1) - 1 : from(i) = j
  <2> TAKE j \in 0 .. n - 1
  <2>1. CASE j < it
    <3>1. j \in 0 .. (n - 1) - 1 /\ from(j) = j
      BY <1>1, <2>1
    <3> QED BY <3>1
  <2>2. CASE j > it
    <3>1. j - 1 \in 0 .. (n - 1) - 1 /\ from(j - 1) = j
      BY <1>1, <2>2
    <3> QED BY <3>1
  <2> QED BY <1>1, <2>1, <2>2
<1> HIDE DEF from
<1>10. Distinct(c, n - 1)
  BY <1>7, <1>8 DEF Distinct
<1>11. KeysIn(c, n - 1) = KeysIn(b, n) \ {key}
  <2>1. \A k \in KeysIn(c, n - 1) : k \in KeysIn(b, n) \ {key}
    BY <1>7 DEF KeysIn
  <2>2. \A j \in 0 .. n - 1 : b[j].first # key => b[j].first \in KeysIn(c, n - 1)
    BY <1>1, <1>7, <1>9 DEF KeysIn
  <2> QED BY <2>1, <2>2 DEF KeysIn
<1>12. DOMAIN m = KeysIn(b, n)
  BY DEF IsMapOf
<1>13. \A i \in 0 .. (n - 1) - 1 : /\ c[i].first \in DOMAIN m \ {key}
                                   /\ m[c[i].first] = c[i].second
  BY <1>7, <1>12 DEF IsMapOf, KeysIn
<1> QED BY <1>3, <1>6, <1>10, <1>11, <1>12, <1>13 DEF IsMapOf

\* The elements of a finite set of numbers come one after the other.
LEMMA Ranks ==
  ASSUME NEW A \in SUBSET Nat, IsFiniteSet(A), NEW n \in 1 .. Cardinality(A)
  PROVE  \E i \in A : /\ Cardinality({j \in A : j < i}) = n - 1
                      /\ \A k \in A : Cardinality({j \in A : j < k}) = n - 1 => k = i
<1> DEFINE below(i) == {j \in A : j < i}
           rank(i) == Cardinality(below(i))
           C == Cardinality(A)
           f == [i \in A |-> rank(i)]
<1>1. C \in Nat
  BY FS_CardinalityType
<1>2. ASSUME NEW i \in A PROVE rank(i) \in 0 .. C - 1 /\ rank(i) \in Nat /\ IsFiniteSet(below(i))
  <2>1. below(i) \subseteq A \ {i} /\ below(i) \subseteq A
    OBVIOUS
  <2>2. IsFiniteSet(A \ {i}) /\ Cardinality(A \ {i}) = C - 1
    BY FS_RemoveElement
  <2> HIDE DEF below
  <2>3. IsFiniteSet(below(i)) /\ Cardinality(below(i)) <= Cardinality(A \ {i})
    BY <2>1, <2>2, FS_Subset
  <2>4. Cardinality(below(i)) \in Nat
    BY <2>3, FS_CardinalityType
  <2> HIDE DEF C
  <2> QED BY <1>1, <2>2, <2>3, <2>4
<1>3. ASSUME NEW i \in A, NEW k \in A, i < k PROVE rank(i) < rank(k)
  <2>1. below(i) \cup {i} \subseteq below(k) /\ i \notin below(i)
    <3>1. \A j \in A : j < i => j < k
      <4>1. i \in Nat /\ k \in Nat /\ \A j \in A : j \in Nat
        OBVIOUS
      <4> QED BY <1>3, <4>1
    <3>2. ~(i < i)
      OBVIOUS
    <3> QED BY <1>3, <3>1, <3>2
  <2>2. IsFiniteSet(below(i)) /\ IsFiniteSet(below(k)) /\ rank(i) \in Nat /\ rank(k) \in Nat
    BY <1>2
  <2> HIDE DEF below
  <2>3. Cardinality(below(i) \cup {i}) = rank(i) + 1
    BY <2>1, <2>2, FS_AddElement
  <2>4. Cardinality(below(i) \cup {i}) <= Cardinality(below(k))
    BY <2>1, <2>2, FS_Subset
  <2> QED BY <2>2, <2>3, <2>4
<1> HIDE DEF rank
<1>4. \A i, k \in A : rank(i) = rank(k) => i = k
  <2> TAKE i, k \in A
  <2>1. i < k \/ k < i \/ i = k
    OBVIOUS
  <2>2. rank(i) \in Nat /\ rank(k) \in Nat
    BY <1>2
  <2> QED BY <1>3, <2>1, <2>2
<1> HIDE DEF C
<1>5. f \in Injection(A, 0 .. C - 1)
  <2>1. f \in [A -> 0 .. C - 1] /\ \A i, k \in A : f[i] = f[k] => i = k
    BY <1>2, <1>4
  <2> HIDE DEF f
  <2> QED BY <2>1, Zenon DEF Injection, IsInjective
<1>6. IsFiniteSet(0 .. C - 1) /\ Cardinality(0 .. C - 1) = C
  BY <1>1, FS_Interval
<1>7. f \in Surjection(A, 0 .. C - 1)
  <2> HIDE DEF f
  <2> QED BY <1>5, <1>6, FS_Injection DEF C
<1>8. n - 1 \in 0 .. C - 1
  BY <1>1 DEF C
<1>9. PICK i \in A : f[i] = n - 1
  <2> HIDE DEF f
  <2> QED BY <1>7, <1>8 DEF Surjection
<1> QED BY <1>4, <1>9 DEF rank

\* Erasing the keys one after the other erases them all and nothing else.
LEMMA ErasedAll ==
  ASSUME MapInv, NEW keys, NEW m, IsMapOf(m, map_buffer, map_size)
  PROVE  LET p == F!EraseKeys(keys)
         IN /\ p.size \in 0 .. MapSize /\ p.b \in [MapSlots -> MapPairs] /\ Distinct(p.b, p.size)
            /\ IsMapOf([k \in DOMAIN m \ keys |-> m[k]], p.b, p.size)
<1> DEFINE missing == {i \in 0 .. map_size - 1 : map_buffer[i].first \in keys}
           C == Cardinality(missing)
           at(n) == CHOOSE i \in missing : Cardinality({j \in missing : j < i}) = n - 1
           key(n) == map_buffer[at(n)].first
           next(p, n) == [b |-> F!Erased(p.b, F!Find(p.b, p.size, key(n)), p.size),
                          size |-> p.size - 1]
           start == [b |-> map_buffer, size |-> map_size]
           body(g, n) == IF n = 0 THEN start ELSE next(g[n - 1], n)
           Runs(g) == g = [n \in 0 .. C |-> body(g, n)]
           gone(n) == {key(i) : i \in 1 .. n}
           Good(p, n) == /\ p.size \in 0 .. MapSize /\ p.b \in [MapSlots -> MapPairs]
                         /\ Distinct(p.b, p.size)
                         /\ IsMapOf([k \in DOMAIN m \ gone(n) |-> m[k]], p.b, p.size)
<1>0. F!Cardinality(missing) = C /\ \A A : F!Cardinality(A) = Cardinality(A)
  BY DEF F!Cardinality, Cardinality
<1>1. /\ missing \subseteq 0 .. map_size - 1 /\ missing \in SUBSET Nat /\ IsFiniteSet(missing)
      /\ C \in Nat
  <2>1. map_size \in Nat
    BY MapConstants DEF MapInv
  <2>2. IsFiniteSet(0 .. map_size - 1)
    BY <2>1, FS_Interval
  <2>3. missing \subseteq 0 .. map_size - 1 /\ missing \in SUBSET Nat
    BY <2>1
  <2> HIDE DEF missing
  <2> QED BY <2>2, <2>3, FS_Subset, FS_CardinalityType
<1>2. \A n \in 1 .. C : /\ at(n) \in missing
                        /\ Cardinality({j \in missing : j < at(n)}) = n - 1
  <2> TAKE n \in 1 .. C
  <2>1. n \in 1 .. Cardinality(missing) /\ missing \in SUBSET Nat /\ IsFiniteSet(missing)
    BY <1>1
  <2> HIDE DEF missing
  <2>2. \E i \in missing : Cardinality({j \in missing : j < i}) = n - 1
    <3> HIDE DEF at, C
    <3> QED BY <2>1, Ranks
  <2> QED BY <2>2
<1>3. F!EraseKeys(keys) = (CHOOSE g : Runs(g))[C]
  BY <1>0, ZenonT(60) DEF F!EraseKeys
<1>4. \A n \in 1 .. C : key(n) \in keys /\ key(n) \in KeysIn(map_buffer, map_size)
  BY <1>1, <1>2 DEF KeysIn
<1>5. \A n, k \in 1 .. C : key(n) = key(k) => n = k
  <2> TAKE n, k \in 1 .. C
  <2> HAVE key(n) = key(k)
  <2>1. at(n) \in 0 .. map_size - 1 /\ at(k) \in 0 .. map_size - 1
    BY <1>1, <1>2
  <2>2. at(n) = at(k)
    BY <2>1 DEF MapInv, Distinct
  <2>3. n - 1 = k - 1
    BY <1>2, <2>2
  <2> QED BY <2>3
<1>6. \A i \in missing : \E n \in 1 .. C : at(n) = i
  <2> TAKE i \in missing
  <2> DEFINE f == [n \in 1 .. C |-> at(n)]
  <2>1. f \in Injection(1 .. C, missing)
    <3>1. f \in [1 .. C -> missing]
      BY <1>2
    <3>2. \A n, k \in 1 .. C : f[n] = f[k] => n = k
      BY <1>5
    <3> HIDE DEF f
    <3> QED BY <3>1, <3>2, Zenon DEF Injection, IsInjective
  <2>2. Cardinality(1 .. C) = C
    BY <1>1, FS_Interval
  <2>3. f \in Surjection(1 .. C, missing)
    <3> HIDE DEF f, missing
    <3> QED BY <1>1, <2>1, <2>2, FS_Injection DEF C
  <2>4. PICK n \in 1 .. C : f[n] = i
    <3> HIDE DEF f, missing
    <3> QED BY <2>3 DEF Surjection
  <2>5. f[n] = at(n)
    <3> HIDE DEF at, C
    <3> QED OBVIOUS
  <2> QED BY <2>4, <2>5
<1> HIDE DEF at, missing
<1>7. keys \cap KeysIn(map_buffer, map_size) = gone(C)
  <2>1. \A k \in gone(C) : k \in keys \cap KeysIn(map_buffer, map_size)
    BY <1>4
  <2>2. ASSUME NEW k \in keys \cap KeysIn(map_buffer, map_size) PROVE k \in gone(C)
    <3>1. PICK i \in 0 .. map_size - 1 : map_buffer[i].first = k
      BY DEF KeysIn
    <3>2. i \in missing
      BY <3>1 DEF missing
    <3>3. PICK n \in 1 .. C : at(n) = i
      BY <1>6, <3>2
    <3> QED BY <3>1, <3>3
  <2> QED BY <2>1, <2>2
<1> HIDE DEF C, key
<1>8. \A n \in 0 .. C - 1 :
        n + 1 \in 1 .. C /\ gone(n + 1) = gone(n) \cup {key(n + 1)} /\ key(n + 1) \notin gone(n)
  <2> TAKE n \in 0 .. C - 1
  <2>1. n \in Nat /\ n + 1 \in 1 .. C /\ 1 .. n + 1 = (1 .. n) \cup {n + 1} /\ n + 1 \notin 1 .. n
    BY <1>1
  <2>2. 1 .. n \subseteq 1 .. C
    BY <1>1
  <2> QED BY <1>5, <2>1, <2>2
<1>9. Good(start, 0)
  <2>1. gone(0) = {}
    OBVIOUS
  <2>2. m = [k \in DOMAIN m \ gone(0) |-> m[k]]
    <3>1. m = [k \in DOMAIN m |-> m[k]]
      BY DEF IsMapOf
    <3> QED BY <2>1, <3>1
  <2> QED BY <2>2 DEF MapInv
<1>10. ASSUME NEW n \in 0 .. C - 1, NEW p, Good(p, n) PROVE Good(next(p, n + 1), n + 1)
  <2> DEFINE left == [k \in DOMAIN m \ gone(n) |-> m[k]]
             c == F!Erased(p.b, F!Find(p.b, p.size, key(n + 1)), p.size)
             fewer == [k \in DOMAIN left \ {key(n + 1)} |-> left[k]]
  <2>1. key(n + 1) \in DOMAIN m \ gone(n)
    BY <1>4, <1>8 DEF IsMapOf
  <2>2. key(n + 1) \in KeysIn(p.b, p.size)
    <3>1. DOMAIN left = KeysIn(p.b, p.size)
      BY <1>10 DEF IsMapOf
    <3> QED BY <2>1, <3>1
  <2>3. /\ p.size - 1 \in 0 .. MapSize /\ c \in [MapSlots -> MapPairs] /\ Distinct(c, p.size - 1)
        /\ IsMapOf(fewer, c, p.size - 1)
    <3>1. /\ p.b \in [MapSlots -> MapPairs] /\ p.size \in 0 .. MapSize /\ Distinct(p.b, p.size)
          /\ IsMapOf(left, p.b, p.size)
      BY <1>10
    <3> HIDE DEF left
    <3> QED BY <2>2, <3>1, ErasedOne
  <2>4. fewer = [k \in DOMAIN m \ gone(n + 1) |-> m[k]]
    BY <1>8
  <2>5. next(p, n + 1).b = c /\ next(p, n + 1).size = p.size - 1
    OBVIOUS
  <2> HIDE DEF next, fewer, c, gone
  <2> QED BY <2>3, <2>4, <2>5
<1> HIDE DEF next, start, Good
<1>11. \E g : Runs(g)
  <2> DEFINE some == {k \in Nat : \E g : g = [n \in 0 .. k |-> body(g, n)]}
  <2>1. 0 \in some
    <3> DEFINE g == [n \in 0 .. 0 |-> start]
    <3>1. g = [n \in 0 .. 0 |-> body(g, n)]
      OBVIOUS
    <3> HIDE DEF g, body
    <3> QED BY <3>1
  <2>2. ASSUME NEW k \in Nat, k \in some PROVE k + 1 \in some
    <3>1. PICK g : g = [n \in 0 .. k |-> body(g, n)]
      BY <2>2
    <3> DEFINE h == [n \in 0 .. k + 1 |-> IF n <= k THEN g[n] ELSE next(g[k], k + 1)]
    <3>2. \A n \in 0 .. k : n \in 0 .. k + 1 /\ n <= k
      OBVIOUS
    <3>3. \A n \in 0 .. k : h[n] = g[n]
      BY <3>2
    <3>4. h[k + 1] = next(g[k], k + 1) /\ k \in 0 .. k
      OBVIOUS
    <3>5. \A n \in 0 .. k : g[n] = body(g, n)
      <4> HIDE DEF body
      <4> QED BY <3>1
    <3> HIDE DEF h
    <3>6. ASSUME NEW n \in 0 .. k + 1 PROVE h[n] = body(h, n)
      <4>1. CASE n = 0
        BY <3>3, <3>5, <4>1
      <4>2. CASE n \in 1 .. k
        <5>1. n \in 0 .. k /\ n - 1 \in 0 .. k /\ n # 0
          BY <4>2
        <5> QED BY <3>3, <3>5, <5>1
      <4>3. CASE n = k + 1
        <5>1. n - 1 = k /\ n # 0
          BY <4>3
        <5>2. h[k] = g[k]
          BY <3>3, <3>4
        <5> QED BY <3>4, <4>3, <5>1, <5>2
      <4> QED BY <4>1, <4>2, <4>3
    <3> HIDE DEF body
    <3>7. h = [n \in 0 .. k + 1 |-> body(h, n)]
      <4>1. h = [n \in 0 .. k + 1 |-> h[n]]
        BY DEF h
      <4> QED BY <3>6, <4>1
    <3> QED BY <3>7
  <2> HIDE DEF body
  <2>3. Nat \subseteq some
    <3> HIDE DEF some
    <3> QED BY <2>1, <2>2, NatSets
  <2> QED BY <1>1, <2>3
<1>12. ASSUME NEW g, Runs(g) PROVE \A n \in 0 .. C : Good(g[n], n)
  <2> DEFINE good == {n \in Nat : n <= C => Good(g[n], n)}
  <2>1. \A n \in 0 .. C : g[n] = body(g, n)
    <3> HIDE DEF body
    <3> QED BY <1>12
  <2>2. 0 \in good
    <3>1. 0 \in 0 .. C
      BY <1>1
    <3>2. g[0] = start
      BY <2>1, <3>1
    <3> QED BY <1>9, <3>2
  <2>3. ASSUME NEW n \in Nat, n \in good PROVE n + 1 \in good
    <3> SUFFICES ASSUME n + 1 <= C PROVE Good(g[n + 1], n + 1)
      OBVIOUS
    <3>1. n \in 0 .. C - 1 /\ n + 1 \in 0 .. C /\ n <= C /\ (n + 1) - 1 = n /\ n + 1 # 0
      BY <1>1
    <3>2. Good(g[n], n)
      BY <2>3, <3>1
    <3>3. g[n + 1] = next(g[n], n + 1)
      BY <2>1, <3>1
    <3> QED BY <1>10, <3>1, <3>2, <3>3
  <2>4. Nat \subseteq good
    <3> HIDE DEF good
    <3> QED BY <2>2, <2>3, NatSets
  <2> QED BY <1>1, <2>4
<1>13. Good(F!EraseKeys(keys), C)
  <2>1. Runs(CHOOSE g : Runs(g))
    <3> HIDE DEF Runs
    <3> QED BY <1>11
  <2>2. C \in 0 .. C
    BY <1>1
  <2> HIDE DEF Runs, Good
  <2> QED BY <1>3, <1>12, <2>1, <2>2
<1>14. DOMAIN m \ keys = DOMAIN m \ gone(C)
  <2>1. DOMAIN m = KeysIn(map_buffer, map_size)
    BY DEF IsMapOf
  <2> QED BY <1>7, <2>1
<1> HIDE DEF gone
<1> QED BY <1>13, <1>14 DEF Good

LEMMA MapInit == F!Init => MapInv /\ F!BM!Init
<1> SUFFICES ASSUME F!Init PROVE MapInv /\ F!BM!Init
  OBVIOUS
<1>1. /\ map_buffer = [i \in 0 .. MapSize - 1 |-> F!Pair(CHOOSE k \in Keys : TRUE, F!Default)]
      /\ map_size = 0 /\ call = <<>>
  BY DEF F!Init
<1>2. (CHOOSE k \in Keys : TRUE) \in Keys /\ F!Default \in Data
  BY MapConstants DEF F!Default
<1>3. F!Pair(CHOOSE k \in Keys : TRUE, F!Default) \in MapPairs
  <2> DEFINE k == CHOOSE k \in Keys : TRUE
  <2>1. k \in Keys
    BY <1>2
  <2> HIDE DEF k
  <2> QED BY <1>2, <2>1 DEF MapPairs, F!Pair
<1>4. Distinct(map_buffer, map_size) /\ 0 .. map_size - 1 = {} /\ map_size \in 0 .. MapSize
  BY <1>1, MapConstants DEF Distinct
<1>5. MapInv
  BY <1>1, <1>3, <1>4 DEF MapInv, MapSlots
<1>6. F!Contents = <<>>
  <2>1. {map_buffer[i].first : i \in 0 .. map_size - 1} = {}
    BY <1>4
  <2>2. F!Contents = [k \in {} |-> map_buffer[F!Find(map_buffer, map_size, k)].second]
    BY <2>1, Zenon DEF F!Contents
  <2>3. DOMAIN F!Contents = {}
    BY <2>2
  <2> QED BY <2>2, <2>3
<1> QED BY <1>1, <1>5, <1>6 DEF F!BM!Init

\* What follows for the map if the array holds m after a call.
LEMMA MapAfter ==
  ASSUME MapInv', NEW m, IsMapOf(m, map_buffer', map_size')
  PROVE  m = F!Contents'
<1>1. map_size' \in Nat /\ Distinct(map_buffer', map_size')
  BY MapConstants DEF MapInv
<1>2. F!Contents' = [k \in KeysIn(map_buffer', map_size') |->
                       map_buffer'[F!Find(map_buffer', map_size', k)].second]
  BY DEF F!Contents, KeysIn
<1>3. \A i \in 0 .. map_size' - 1 :
        /\ map_buffer'[i].first \in KeysIn(map_buffer', map_size')
        /\ F!Find(map_buffer', map_size', map_buffer'[i].first) = i
  BY <1>1, Found DEF KeysIn
<1>4. \A k \in KeysIn(map_buffer', map_size') : m[k] = F!Contents'[k]
  BY <1>2, <1>3 DEF IsMapOf, KeysIn
<1> QED BY <1>2, <1>4 DEF IsMapOf

\* One call of insert or of [] for a key: new data for an old key, or a new key if there is room.
LEMMA MapWrites ==
  ASSUME MapInv, NEW key \in Keys, NEW data \in Data,
         NEW it, it = F!Find(map_buffer, map_size, key)
  PROVE  /\ it < map_size <=> key \in DOMAIN F!Contents
         /\ F!BM!Room(key) <=> it < map_size \/ map_size < MapSize
         /\ it < map_size \/ it = map_size
         /\ it < map_size /\ map_buffer' = [map_buffer EXCEPT ![it].second = data]
              /\ map_size' = map_size => MapInv' /\ F!Contents' = F!BM!With(key, data)
         /\ it = map_size /\ map_size < MapSize
              /\ map_buffer' = [map_buffer EXCEPT ![map_size] = F!Pair(key, data)]
              /\ map_size' = map_size + 1 => MapInv' /\ F!Contents' = F!BM!With(key, data)
<1> DEFINE m == F!Contents
<1>1. /\ map_size \in Nat /\ map_size \in 0 .. MapSize /\ map_buffer \in [MapSlots -> MapPairs]
      /\ Distinct(map_buffer, map_size)
  BY MapConstants DEF MapInv
<1>2. IsMapOf(m, map_buffer, map_size)
  BY <1>1, ContentsAre
<1>3. DOMAIN m = KeysIn(map_buffer, map_size)
  BY <1>2 DEF IsMapOf
<1>4. /\ it \in Nat /\ (it < map_size <=> key \in DOMAIN m)
      /\ key \notin DOMAIN m => it = map_size
      /\ \A i \in 0 .. map_size - 1 : map_buffer[i].first = key => it = i
  BY <1>1, <1>3, Found
<1>5. F!BM!Room(key) <=> it < map_size \/ map_size < MapSize
  <2>1. Cardinality(DOMAIN m) = map_size
    BY <1>1, <1>3, OneKeyEach
  <2>2. F!BM!Cardinality(DOMAIN m) = Cardinality(DOMAIN m)
    BY DEF F!BM!Cardinality, Cardinality
  <2> QED BY <1>4, <2>1, <2>2 DEF F!BM!Room
<1>6. ASSUME it < map_size, map_buffer' = [map_buffer EXCEPT ![it].second = data],
             map_size' = map_size
      PROVE  MapInv' /\ F!Contents' = F!BM!With(key, data)
  <2> DEFINE new == [k \in DOMAIN m |-> IF k = map_buffer[it].first THEN data ELSE m[k]]
  <2>1. it \in 0 .. map_size - 1 /\ map_buffer[it].first = key
    BY <1>1, <1>3, <1>4, <1>6 DEF KeysIn
  <2>2. /\ map_buffer' \in [MapSlots -> MapPairs] /\ Distinct(map_buffer', map_size)
        /\ IsMapOf(new, map_buffer', map_size)
    <3> HIDE DEF m
    <3>1. \A c : c = Rewritten(map_buffer, it, data) =>
            /\ c \in [MapSlots -> MapPairs] /\ Distinct(c, map_size)
            /\ IsMapOf([k \in DOMAIN m |-> IF k = map_buffer[it].first THEN data ELSE m[k]],
                       c, map_size)
      BY <1>1, <1>2, <2>1, Overwritten
    <3> QED BY <1>6, <3>1 DEF Rewritten
  <2>3. MapInv'
    BY <1>1, <1>6, <2>2 DEF MapInv
  <2>4. new = F!Contents'
    <3> HIDE DEF new
    <3> QED BY <1>6, <2>2, <2>3, MapAfter
  <2>5. DOMAIN m \cup {key} = DOMAIN m
    BY <1>4, <1>6
  <2>6. new = F!BM!With(key, data)
    BY <2>1, <2>5 DEF F!BM!With
  <2> QED BY <2>3, <2>4, <2>6
<1>7. ASSUME it = map_size, map_size < MapSize, map_size' = map_size + 1,
             map_buffer' = [map_buffer EXCEPT ![map_size] = F!Pair(key, data)]
      PROVE  MapInv' /\ F!Contents' = F!BM!With(key, data)
  <2> DEFINE new == [k \in DOMAIN m \cup {key} |-> IF k = key THEN data ELSE m[k]]
  <2>1. map_size \in 0 .. MapSize - 1 /\ key \notin KeysIn(map_buffer, map_size)
    BY <1>1, <1>3, <1>4, <1>7, MapConstants
  <2>2. /\ map_buffer' \in [MapSlots -> MapPairs] /\ Distinct(map_buffer', map_size + 1)
        /\ IsMapOf(new, map_buffer', map_size + 1)
    <3> HIDE DEF m
    <3>1. \A c : c = Extended(map_buffer, map_size, F!Pair(key, data)) =>
            /\ c \in [MapSlots -> MapPairs] /\ Distinct(c, map_size + 1)
            /\ IsMapOf([k \in DOMAIN m \cup {key} |-> IF k = key THEN data ELSE m[k]],
                       c, map_size + 1)
      BY <1>1, <1>2, <2>1, PlacedLast
    <3> QED BY <1>7, <3>1 DEF Extended
  <2>3. MapInv'
    BY <1>1, <1>7, <2>1, <2>2, MapConstants DEF MapInv
  <2>4. new = F!Contents'
    <3> HIDE DEF new
    <3> QED BY <1>7, <2>2, <2>3, MapAfter
  <2>5. new = F!BM!With(key, data)
    BY DEF F!BM!With
  <2> QED BY <2>3, <2>4, <2>5
<1> QED BY <1>1, <1>4, <1>5, <1>6, <1>7

LEMMA MapStep == MapInv /\ [F!Next]_F!vars => MapInv' /\ [F!BM!Next]_F!BM!vars
<1> SUFFICES ASSUME MapInv, [F!Next]_F!vars PROVE MapInv' /\ [F!BM!Next]_F!BM!vars
  OBVIOUS
<1>1. CASE UNCHANGED F!vars
  BY <1>1 DEF F!vars, MapInv, F!BM!vars, F!Contents
<1>2. CASE F!Insert
  <2>1. PICK key \in Keys, data \in Data :
          LET it == F!Find(map_buffer, map_size, key)
          IN /\ call' = <<"insert", key, data>>
             /\ IF it < map_size
                THEN map_buffer' = [map_buffer EXCEPT ![it].second = data] /\ UNCHANGED map_size
                ELSE IF map_size < MapSize
                THEN /\ map_buffer' = [map_buffer EXCEPT ![map_size] = F!Pair(key, data)]
                     /\ map_size' = map_size + 1
                ELSE UNCHANGED <<map_buffer, map_size>>
    BY <1>2 DEF F!Insert
  <2> DEFINE it == F!Find(map_buffer, map_size, key)
  <2>2. CASE it < map_size
    <3>1. MapInv' /\ F!Contents' = F!BM!With(key, data) /\ F!BM!Room(key)
      BY <2>1, <2>2, MapWrites
    <3> QED BY <2>1, <3>1 DEF F!BM!Next, F!BM!Insert
  <2>3. CASE ~(it < map_size) /\ map_size < MapSize
    <3>1. MapInv' /\ F!Contents' = F!BM!With(key, data) /\ F!BM!Room(key)
      BY <2>1, <2>3, MapWrites
    <3> QED BY <2>1, <3>1 DEF F!BM!Next, F!BM!Insert
  <2>4. CASE ~(it < map_size) /\ ~(map_size < MapSize)
    <3>1. UNCHANGED <<map_buffer, map_size>>
      BY <2>1, <2>4
    <3>2. MapInv' /\ F!Contents' = F!Contents
      BY <3>1 DEF MapInv, F!Contents
    <3>3. ~F!BM!Room(key)
      BY <2>4, MapWrites
    <3> QED BY <2>1, <3>2, <3>3 DEF F!BM!Next, F!BM!Insert
  <2> QED BY <2>2, <2>3, <2>4
<1>3. CASE F!Assign
  <2>1. PICK key \in Keys, data \in Data :
          LET it == F!Find(map_buffer, map_size, key)
          IN /\ call' = <<"assign", key, data>>
             /\ IF it < map_size
                THEN map_buffer' = [map_buffer EXCEPT ![it].second = data] /\ UNCHANGED map_size
                ELSE IF map_size = MapSize
                THEN /\ map_buffer' = [map_buffer EXCEPT ![F!LastPlace(it)].second = data]
                     /\ UNCHANGED map_size
                ELSE map_buffer' = [map_buffer EXCEPT ![it] = F!Pair(key, data)]
                     /\ map_size' = map_size + 1
    BY <1>3 DEF F!Assign
  <2> DEFINE it == F!Find(map_buffer, map_size, key)
  <2>0. it < map_size \/ it = map_size
    BY MapWrites
  <2>2. CASE it < map_size
    <3>1. MapInv' /\ F!Contents' = F!BM!With(key, data) /\ F!BM!Room(key)
      BY <2>1, <2>2, MapWrites
    <3> QED BY <2>1, <3>1 DEF F!BM!Next, F!BM!Assign
  <2>3. CASE ~(it < map_size) /\ map_size # MapSize
    <3>1. map_size < MapSize
      BY <2>3, MapConstants DEF MapInv
    <3>2. MapInv' /\ F!Contents' = F!BM!With(key, data) /\ F!BM!Room(key)
      BY <2>0, <2>1, <2>3, <3>1, MapWrites
    <3> QED BY <2>1, <3>2 DEF F!BM!Next, F!BM!Assign
  <2>4. CASE ~(it < map_size) /\ map_size = MapSize
    <3> DEFINE last == map_size - 1
               other == map_buffer[last].first
    <3>1. /\ map_buffer' = [map_buffer EXCEPT ![last].second = data] /\ map_size' = map_size
          /\ last \in 0 .. map_size - 1 /\ last < map_size
      BY <2>0, <2>1, <2>4, MapConstants DEF F!LastPlace
    <3>2. /\ other \in Keys /\ other \in KeysIn(map_buffer, map_size)
          /\ F!Find(map_buffer, map_size, other) = last
      <4>1. last \in MapSlots /\ map_size \in Nat
        BY <2>4, <3>1, MapConstants DEF MapSlots
      <4> QED BY <3>1, <4>1, Found DEF MapInv, MapPairs, KeysIn
    <3>3. MapInv' /\ F!Contents' = F!BM!With(other, data) /\ other \in DOMAIN F!Contents
      <4> HIDE DEF last, other
      <4> QED BY <3>1, <3>2, MapWrites
    <3>4. ~F!BM!Room(key)
      BY <2>4, MapWrites, MapConstants
    <3> QED BY <2>1, <3>3, <3>4 DEF F!BM!Next, F!BM!Assign
  <2> QED BY <2>2, <2>3, <2>4
<1>4. CASE F!RemoveMissingIds
  <2>1. PICK keys \in SUBSET Keys :
          /\ call' = <<"erase", keys>>
          /\ map_buffer' = F!EraseKeys(keys).b
          /\ map_size' = F!EraseKeys(keys).size
    BY <1>4, Zenon DEF F!RemoveMissingIds
  <2> DEFINE m == F!Contents
             left == [k \in DOMAIN m \ keys |-> m[k]]
  <2>2. IsMapOf(m, map_buffer, map_size)
    BY ContentsAre, MapConstants DEF MapInv
  <2>3. /\ map_size' \in 0 .. MapSize /\ map_buffer' \in [MapSlots -> MapPairs]
        /\ Distinct(map_buffer', map_size') /\ IsMapOf(left, map_buffer', map_size')
    <3> HIDE DEF m
    <3> QED BY <2>1, <2>2, ErasedAll
  <2>4. MapInv'
    BY <2>3 DEF MapInv
  <2>5. left = F!Contents'
    <3> HIDE DEF left
    <3> QED BY <2>3, <2>4, MapAfter
  <2> QED BY <2>1, <2>4, <2>5 DEF F!BM!Next, F!BM!Erase, F!BM!Restrict
<1> QED BY <1>1, <1>2, <1>3, <1>4 DEF F!Next

LEMMA MapTypes == MapInv => F!TypeOK /\ F!KeysDiffer
BY DEF MapInv, F!TypeOK, F!KeysDiffer, MapSlots, MapPairs, Distinct

-----------------------------------------------------------------------------
(* Merged contacts *)

LEMMA SplitInit == S!Init => S!Inv /\ S!EveryFingerKnown
BY S!InitInv

LEMMA SplitStep == S!Inv /\ [S!Next]_S!vars => S!Inv'
BY S!NextKeepsInv

LEMMA SplitTypes == S!Inv => S!TypeOK /\ S!OutputsDiffer
BY DEF S!Inv, S!Apart, S!OutputsDiffer

-----------------------------------------------------------------------------
(* The parts together *)

\* A step is a step of one part, which the others do not see.
LEMMA OnePartSteps ==
  ASSUME [NextFilters]_all_vars
  PROVE  /\ [Next]_vars /\ [W!Next]_W!vars /\ [J!Next]_J!vars /\ [M!Next]_M!vars
         /\ [T!Next]_T!vars /\ [I!Next]_I!vars /\ [K!Next]_K!vars /\ [S!Next]_S!vars
         /\ [G!Next]_G!vars /\ [B!Next]_B!vars /\ [Z!Next]_Z!vars /\ [U!Next]_U!vars
         /\ [R!Next]_R!vars /\ [L!Next]_L!vars /\ [F!Next]_F!vars /\ [P!Next]_P!vars
         /\ [H!Next]_H!vars /\ [D!Next]_D!vars
<1>1. /\ (Next \/ UNCHANGED vars)
      /\ (W!Next \/ UNCHANGED wiggle_vars)
      /\ (J!Next \/ UNCHANGED jump_vars)
      /\ (M!Next \/ UNCHANGED merge_vars)
      /\ (T!Next \/ UNCHANGED t5r2_vars)
      /\ (I!Next \/ UNCHANGED integral_vars)
      /\ (K!Next \/ UNCHANGED trend_vars)
      /\ (S!Next \/ UNCHANGED split_vars)
      /\ (G!Next \/ UNCHANGED energy_vars)
      /\ (B!Next \/ UNCHANGED box_vars)
      /\ (Z!Next \/ UNCHANGED profile_vars)
      /\ (U!Next \/ UNCHANGED metrics_vars)
      /\ (R!Next \/ UNCHANGED registry_vars)
      /\ (L!Next \/ UNCHANGED log_vars)
      /\ (F!Next \/ UNCHANGED map_vars)
      /\ (P!Next \/ UNCHANGED pool_vars)
      /\ (H!Next \/ UNCHANGED host_vars)
      /\ (D!Next \/ UNCHANGED lid_vars)
  <2>1. CASE Turn("palm") /\ Next
    BY <2>1 DEF Turn
  <2>2. CASE Turn("wiggle") /\ W!Next
    BY <2>2 DEF Turn
  <2>3. CASE Turn("jump") /\ J!Next
    BY <2>3 DEF Turn
  <2>4. CASE Turn("merge") /\ M!Next
    BY <2>4 DEF Turn
  <2>5. CASE Turn("t5r2") /\ T!Next
    BY <2>5 DEF Turn
  <2>6. CASE Turn("integral") /\ I!Next
    BY <2>6 DEF Turn
  <2>7. CASE Turn("trend") /\ K!Next
    BY <2>7 DEF Turn
  <2>8. CASE Turn("split") /\ S!Next
    BY <2>8 DEF Turn
  <2>9. CASE Turn("energy") /\ G!Next
    BY <2>9 DEF Turn
  <2>10. CASE Turn("box") /\ B!Next
    BY <2>10 DEF Turn
  <2>11. CASE Turn("profile") /\ Z!Next
    BY <2>11 DEF Turn
  <2>12. CASE Turn("metrics") /\ U!Next
    BY <2>12 DEF Turn
  <2>13. CASE Turn("registry") /\ R!Next
    BY <2>13 DEF Turn
  <2>14. CASE Turn("log") /\ L!Next
    BY <2>14 DEF Turn
  <2>15. CASE Turn("map") /\ F!Next
    BY <2>15 DEF Turn
  <2>16. CASE Turn("pool") /\ P!Next
    BY <2>16 DEF Turn
  <2>17. CASE Turn("host") /\ H!Next
    BY <2>17 DEF Turn
  <2>18. CASE Turn("lid") /\ D!Next
    BY <2>18 DEF Turn
  <2>19. CASE UNCHANGED all_vars
    BY <2>19 DEF all_vars
  <2> QED BY <2>1, <2>2, <2>3, <2>4, <2>5, <2>6, <2>7, <2>8, <2>9, <2>10, <2>11, <2>12, <2>13,
             <2>14, <2>15, <2>16, <2>17, <2>18, <2>19 DEF NextFilters
<1>2. /\ UNCHANGED wiggle_vars => UNCHANGED W!vars
      /\ UNCHANGED jump_vars => UNCHANGED J!vars
      /\ UNCHANGED merge_vars => UNCHANGED M!vars
      /\ UNCHANGED t5r2_vars => UNCHANGED T!vars
      /\ UNCHANGED integral_vars => UNCHANGED I!vars
      /\ UNCHANGED trend_vars => UNCHANGED K!vars
      /\ UNCHANGED split_vars => UNCHANGED S!vars
      /\ UNCHANGED energy_vars => UNCHANGED G!vars
      /\ UNCHANGED box_vars => UNCHANGED B!vars
      /\ UNCHANGED profile_vars => UNCHANGED Z!vars
      /\ UNCHANGED metrics_vars => UNCHANGED U!vars
      /\ UNCHANGED registry_vars => UNCHANGED R!vars
      /\ UNCHANGED log_vars => UNCHANGED L!vars
      /\ UNCHANGED map_vars => UNCHANGED F!vars
      /\ UNCHANGED pool_vars => UNCHANGED P!vars
      /\ UNCHANGED host_vars => UNCHANGED H!vars
      /\ UNCHANGED lid_vars => UNCHANGED D!vars
  BY DEF wiggle_vars, W!vars, jump_vars, J!vars, merge_vars, M!vars, t5r2_vars, T!vars,
     integral_vars, I!vars, trend_vars, K!vars, split_vars, S!vars, energy_vars, G!vars, box_vars,
     B!vars, profile_vars, Z!vars, metrics_vars, U!vars, registry_vars, R!vars, log_vars, L!vars,
     map_vars, F!vars, pool_vars, P!vars, host_vars, H!vars, lid_vars, D!vars, D!env, D!x_vars,
     D!loop_vars
<1> QED BY <1>1, <1>2, SMTT(30)

\* The invariants of all parts.
FiltersInv ==
  /\ PalmInv /\ WiggleInv /\ JumpInv /\ MergeInv /\ TouchesInv /\ IntegralInv /\ TrendInv
  /\ TalliesInv /\ S!Inv /\ EnergyInv /\ BoxInv /\ ProfileInv /\ MetricsInv
  /\ RegistryInv /\ LogInv /\ MapInv /\ PoolInv /\ HostInv /\ LidInv

LEMMA FiltersInit == InitFilters => FiltersInv
<1> SUFFICES ASSUME InitFilters PROVE FiltersInv
  OBVIOUS
<1>1. /\ Init /\ W!Init /\ J!Init /\ M!Init /\ T!Init /\ I!Init /\ K!Init /\ S!Init
      /\ G!Init /\ B!Init /\ Z!Init /\ U!Init
      /\ R!Init /\ L!Init /\ F!Init /\ P!Init /\ H!Init /\ D!Init
  BY DEF InitFilters
<1>2. /\ PalmInv /\ WiggleInv /\ JumpInv /\ MergeInv /\ TouchesInv /\ IntegralInv
  BY <1>1, PalmInit, WiggleInit, JumpInit, MergeInit, TouchesInit, IntegralInit
<1>3. /\ TrendInv /\ TalliesInv /\ S!Inv /\ EnergyInv /\ BoxInv /\ ProfileInv /\ MetricsInv
  BY <1>1, TrendInit, TalliesInit, SplitInit, EnergyInit, BoxInit, ProfileInit, MetricsInit
<1>4. /\ RegistryInv /\ LogInv /\ MapInv /\ PoolInv /\ HostInv /\ LidInv
  BY <1>1, RegistryInit, LogInit, MapInit, PoolInit, HostInit, LidInit, SharedAssumption
<1> QED BY <1>2, <1>3, <1>4 DEF FiltersInv

LEMMA FiltersStep == FiltersInv /\ [NextFilters]_all_vars => FiltersInv'
<1> SUFFICES ASSUME FiltersInv, [NextFilters]_all_vars PROVE FiltersInv'
  OBVIOUS
<1>1. /\ PalmInv' /\ WiggleInv' /\ JumpInv' /\ MergeInv' /\ TouchesInv' /\ IntegralInv'
  BY OnePartSteps, PalmStep, WiggleStep, JumpStep, MergeStep, TouchesStep, IntegralStep
     DEF FiltersInv
<1>2. /\ TrendInv' /\ TalliesInv' /\ S!Inv' /\ EnergyInv' /\ BoxInv' /\ ProfileInv' /\ MetricsInv'
  BY OnePartSteps, TrendStep, TalliesStep, SplitStep, EnergyStep, BoxStep, ProfileStep, MetricsStep
     DEF FiltersInv
<1>3. /\ RegistryInv' /\ LogInv' /\ MapInv' /\ PoolInv' /\ HostInv' /\ LidInv'
  BY OnePartSteps, RegistryStep, LogStep, MapStep, PoolStep, HostStep, LidStep,
     SharedAssumption DEF FiltersInv
<1> QED BY <1>1, <1>2, <1>3 DEF FiltersInv

\* Every part keeps its types, for all constants.
THEOREM PartsTyping == SpecFilters => []PartsTypeOK
<1>1. FiltersInv => PartsTypeOK
  BY TrendTypes, LogTypes, MapTypes, ProfileTypes, MetricsTypes, SplitTypes
     DEF FiltersInv, PartsTypeOK, PalmInv, WiggleInv, JumpInv, MergeInv, TouchesInv,
         IntegralInv, EnergyInv, BoxInv, RegistryInv, LogInv, PoolInv, HostInv, LidInv
<1> QED BY <1>1, FiltersInit, FiltersStep, PTL DEF SpecFilters

\* A finger that pointed away from the edge is not taken for a palm later on.
THEOREM PointingFingersStay == SpecFilters => PointingIsKept
<1>1. FiltersInv /\ [NextFilters]_all_vars =>
        [\A f \in (pointing \cap fingers_not_in_edge \cap present') \ unjudged :
           max_pressure'[f] = 0 /\ age'[f] >= EvalTimeout => f \notin MayBeFlagged']_vars
  BY OnePartSteps, PalmStep DEF FiltersInv
<1> QED BY <1>1, FiltersInit, FiltersStep, PTL DEF SpecFilters, PointingIsKept

\* What a filter reports of a finger comes from what the finger does.
THEOREM ReportsHaveTheirCause == SpecFilters => OutputHasCause
<1>1. FiltersInv => /\ G!FlagsAreOfOneMovement /\ U!SessionWithoutPause
                    /\ U!NoisyGroundIsSeen /\ I!DistanceKept /\ B!WithinHalfBox
  BY NoisySeen, IntegralKept DEF FiltersInv, EnergyInv, MetricsInv, SessionInv, BoxInv,
     U!SessionWithoutPause
<1>2. FiltersInv /\ [NextFilters]_all_vars =>
        /\ [\A f \in jump_warp' : \/ moves'[f] = "jump"
                                  \/ f \in DOMAIN moves /\ moves[f] = "jump"]_J!vars
        /\ [/\ last_finger_cnt = 0 /\ last_finger_cnt' = 0 /\ last_touch_cnt' # 0
                 => last_touch_cnt' # last_touch_cnt
            /\ last_touch_cnt' # touch_cnt'
                 => last_finger_cnt = 0 /\ last_finger_cnt' = 0 /\ touch_cnt' = touch_cnt]_T!vars
        /\ [\A f \in (DOMAIN box_input \cap DOMAIN box_input') \ box_warp' :
              B!Abs(previous_output'[f] - previous_output[f])
                <= B!Abs(box_input'[f] - box_input[f])]_B!vars
        /\ [\A i \in 1 .. Len(prev) :
              /\ ~profile_warp' /\ prev # <<>> /\ prev2 # <<>> /\ prev' # <<>>
              /\ prev[i] \in Z!Range(prev')
              => Len(prev') = Len(prev) /\ Len(prev) = Len(prev2)]_Z!vars
  BY OnePartSteps, JumpStep, TouchesStep, BoxStep, ProfileStep, Zenon DEF FiltersInv
<1> QED BY <1>1, <1>2, FiltersInit, FiltersStep, PTL
        DEF SpecFilters, OutputHasCause, J!WarpsFollowJumps, T!TouchesAreDoubted,
            B!NoLongerMoves, Z!FlaggedWhileCountChanges

\* The scores and the variances kept up sample by sample are Kendall's, for histories of any
\* length and with any ties, also after the oldest samples have gone.
THEOREM TrendsMeasured == SpecFilters => []TrendsAreMeasured
<1>1. FiltersInv => TrendsAreMeasured
  BY TalliesScore DEF FiltersInv, TrendsAreMeasured
<1> QED BY <1>1, FiltersInit, FiltersStep, PTL DEF SpecFilters

\* No filter holds a finger back for ever, whatever the timeouts are.
THEOREM SuspicionsEnd == SpecFilters => SuspicionEnds
<1>1. FiltersInv => W!WarpEnds /\ M!FlagsAreRecorded
  BY WiggleEnds DEF FiltersInv, MergeInv
<1>2. FiltersInv /\ [NextFilters]_all_vars =>
        /\ [\A f \in DOMAIN wiggle_recs \cap DOMAIN wiggle_recs' :
              f \notin warped /\ left_button = left_button' => f \notin warped']_W!vars
        /\ [(\A f \in DOMAIN start_info' :
               f \in DOMAIN start_info /\ start_info[f] > MaxAge) => merge_flags' = {}]_M!vars
  BY OnePartSteps, WiggleStep, MergeStep DEF FiltersInv
<1> QED BY <1>1, <1>2, FiltersInit, FiltersStep, PTL
        DEF SpecFilters, SuspicionEnds, W!FreeStaysFree, M!MergingEnds

\* The log, the map and the pools of any size implement what they promise.
THEOREM SharedPartsRefine == SpecFilters => SharedPartsImplement
<1>1. FiltersInv => K!NodesConserved /\ L!FingersInOwnSlot /\ F!KeysDiffer /\ P!StackIsFree
  BY TrendTypes, MapTypes DEF FiltersInv, LogInv, PoolInv
<1>2. InitFilters => L!BL!Init /\ F!BM!Init /\ P!P!Init
  <2>1. P!Init => {s \in P!Slots : used_mark[s]} = {}
    BY DEF P!Init
  <2> QED BY <2>1, LogInit, MapInit DEF InitFilters, P!Init, P!P!Init
<1>3. FiltersInv /\ [NextFilters]_all_vars =>
        [L!BL!Next]_LogEntries /\ [F!BM!Next]_F!BM!vars /\ [P!P!Next]_P!P!vars
  BY OnePartSteps, LogStep, MapStep, PoolStep, SharedAssumption DEF FiltersInv
<1> QED BY <1>1, <1>2, <1>3, FiltersInit, FiltersStep, PTL
        DEF SpecFilters, SharedPartsImplement, L!ImplementsBoundedLog, L!BL!Spec, LogEntries,
            F!ImplementsBoundedMap, F!BM!Spec, P!ImplementsPool, P!P!Spec

\* For any properties, providers, clients and touchpads, and in any order of calls: handles
\* and timers are the present provider's; a gesture goes to the client's last callback, or to
\* that of a consumer which Initialize() with an unknown class has freed under the stack;
\* the delegate of a number knows its value, unless a log gave it; and after the lid's last
\* event the touchpad is paused as the lid is, while the helper has the present touchpad or
\* the event that will tell it is on the socket or in Xlib's queue.
THEOREM EverybodyIsTold == SpecFilters => OthersAreTold
<1>1. FiltersInv => /\ R!HandlesAreProviders /\ R!DelegatesKnow /\ H!TimersAreProviders
                    /\ D!NotifierIsThere /\ D!PausedAsLidIs /\ D!TouchpadIsKnown
  BY DEF FiltersInv, RegistryInv, HostInv, LidInv
<1>2. FiltersInv /\ [NextFilters]_all_vars =>
        [reached' # reached => reached' \in freed \cup {callback}]_H!vars
  BY OnePartSteps, HostStep DEF FiltersInv
<1> QED BY <1>1, <1>2, FiltersInit, FiltersStep, PTL
        DEF SpecFilters, OthersAreTold, H!GesturesReachCallback

\* As long as every contact that is joined finds a place in merged_, no two things on the
\* pad go by one id, none is without, and an id stays with its finger.
THEOREM FingersAreThemselves == SpecFilters /\ [][S!Fitted]_(S!vars) => EachFingerOneId
<1>1. FiltersInv => S!OutputsDiffer /\ Z!IdsDiffer
  BY SplitTypes DEF FiltersInv, ProfileInv
<1>2. InitFilters => S!EveryFingerKnown
  BY SplitInit DEF InitFilters
<1>3. FiltersInv /\ S!EveryFingerKnown /\ [NextFilters]_all_vars /\ [S!Fitted]_(S!vars) =>
        S!EveryFingerKnown'
  BY OnePartSteps, S!NextKeepsInv DEF FiltersInv
<1>4. FiltersInv /\ S!EveryFingerKnown /\ [NextFilters]_all_vars /\ [S!Fitted]_(S!vars) =>
        [\A id \in S!Outputs :
           S!Fingers(id) \cap last_tracking_ids' # {} => id \in S!Outputs']_(S!vars)
  BY OnePartSteps, S!NextKeepsInv DEF FiltersInv
<1> QED BY <1>1, <1>2, <1>3, <1>4, FiltersInit, FiltersStep, PTL
        DEF SpecFilters, EachFingerOneId, S!IdsStay

\* While the fingers on the pad are few for merged_, which they are for the code's six
\* places if they are not more than nine, that holds however they merge and split.
THEOREM FewFingersAreThemselves == SpecFilters /\ []S!FewFingers => EachFingerOneId
<1>1. S!FewFingers /\ S!FewFingers' => [S!Fitted]_(S!vars)
  BY SharedAssumption DEF S!Fitted
<1> QED BY <1>1, FingersAreThemselves, PTL

\* On a pad that reports no more than so many fingers it always holds.
THEOREM FingersOfSmallPads ==
  ASSUME 3 * MaxFingers < 4 * (MaxMerged + 1)
  PROVE  SpecFilters => EachFingerOneId
<1>1. InitFilters => S!FewFingers
  BY SharedAssumption, S!PadOfFew DEF InitFilters
<1>2. S!FewFingers /\ [NextFilters]_all_vars => S!FewFingers'
  BY OnePartSteps, SharedAssumption, S!PadOfFew
<1> QED BY <1>1, <1>2, FewFingersAreThemselves, PTL DEF SpecFilters
=============================================================================
