---------------------------- MODULE SumTheorems ----------------------------
(***************************************************************************)
(* The sum of the deltas of a finite set, as MapThenSumSet computes it:    *)
(* nothing for the empty set, and any element first.  The fold is a        *)
(* recursive function over the subsets, so that it has to be shown first   *)
(* that such a function exists.  Instead of induction, which takes an      *)
(* operator as a parameter, a smallest counterexample is considered.       *)
(***************************************************************************)
EXTENDS Integers, FiniteSetsExt, FiniteSetTheorems, WellFoundedInduction, TLAPS

SumDelta(S) == MapThenSumSet(LAMBDA e : e.delta, S)

\* The element the fold takes next.
Pick(s) == CHOOSE y \in s : TRUE

\* g is the function of the fold on the subsets of S.
AddsUp(S, g) ==
    g = [s \in SUBSET S |-> IF s = {} THEN 0 ELSE Pick(s).delta + g[s \ {Pick(s)}]]

LEMMA SumIsAFold == ASSUME NEW S PROVE SumDelta(S) = (CHOOSE g : AddsUp(S, g))[S]
BY DEF SumDelta, MapThenSumSet, MapThenFoldSet, AddsUp, Pick

\* A property of the subsets of a finite set that does not hold of all of them
\* fails for one and holds for all that are smaller.
LEMMA SmallestCounterexample ==
    ASSUME NEW S, IsFiniteSet(S), NEW C \in SUBSET SUBSET S, C # {}
    PROVE  \E s \in C : /\ IsFiniteSet(s)
                        /\ \A t \in SUBSET s : t # s => t \notin C
<1>1. C \subseteq FiniteSubsetsOf(S)
  BY FS_Subset DEF FiniteSubsetsOf
<1>2. PICK s \in C : \A t \in C : <<t, s>> \notin StrictSubsetOrdering(S)
  BY <1>1, FS_StrictSubsetOrderingWellFounded, WFMin
<1>3. ASSUME NEW t \in SUBSET s, t # s PROVE t \notin C
  BY <1>2, <1>3 DEF StrictSubsetOrdering
<1> QED BY <1>2, <1>3, FS_Subset

\* What such a function gives a set does not depend on its domain.
LEMMA SumsAgree ==
    ASSUME NEW S, NEW T, IsFiniteSet(S), NEW g, NEW h, AddsUp(S, g), AddsUp(T, h)
    PROVE  \A s \in SUBSET (S \cap T) : g[s] = h[s]
<1> DEFINE C == {s \in SUBSET (S \cap T) : g[s] # h[s]}
<1> SUFFICES ASSUME C # {} PROVE FALSE
  OBVIOUS
<1>1. IsFiniteSet(S \cap T) /\ C \in SUBSET SUBSET (S \cap T)
  BY FS_Intersection
<1> HIDE DEF C
<1>2. PICK s \in C : \A t \in SUBSET s : t # s => t \notin C
  BY <1>1, SmallestCounterexample
<1> USE DEF C
<1>3. /\ g[s] = IF s = {} THEN 0 ELSE Pick(s).delta + g[s \ {Pick(s)}]
      /\ h[s] = IF s = {} THEN 0 ELSE Pick(s).delta + h[s \ {Pick(s)}]
  <2>1. s \in SUBSET S /\ s \in SUBSET T
    OBVIOUS
  <2> QED BY <2>1 DEF AddsUp
<1>4. s # {} => Pick(s) \in s
  BY DEF Pick
<1>5. s # {} => g[s \ {Pick(s)}] = h[s \ {Pick(s)}]
  BY <1>2, <1>4
<1> QED BY <1>3, <1>5

\* The function exists.
LEMMA SumExists ==
    ASSUME NEW S, IsFiniteSet(S)
    PROVE  AddsUp(S, CHOOSE g : AddsUp(S, g))
<1> DEFINE C == {s \in SUBSET S : ~\E g : AddsUp(s, g)}
<1>1. SUFFICES ASSUME C # {} PROVE FALSE
  <2>1. S \notin C => \E g : AddsUp(S, g)
    OBVIOUS
  <2> QED BY <2>1
<1>0. C \in SUBSET SUBSET S
  OBVIOUS
<1> HIDE DEF C
<1>2. PICK s \in C : IsFiniteSet(s) /\ \A t \in SUBSET s : t # s => t \notin C
  BY <1>0, <1>1, SmallestCounterexample
<1> USE DEF C
<1> DEFINE G(t) == CHOOSE g : AddsUp(t, g)
           h == [t \in SUBSET s |->
                   IF t = {} THEN 0 ELSE Pick(t).delta + G(t \ {Pick(t)})[t \ {Pick(t)}]]
<1>3. ASSUME NEW t \in SUBSET s, t # s PROVE AddsUp(t, G(t)) /\ IsFiniteSet(t)
  BY <1>2, <1>3, FS_Subset
<1>4. \A t \in SUBSET s : t # {} => Pick(t) \in t
  BY DEF Pick
<1> HIDE DEF G
<1>5. ASSUME NEW t \in SUBSET s, t # s, t # {}
      PROVE  G(t)[t] = Pick(t).delta + G(t \ {Pick(t)})[t \ {Pick(t)}]
  <2> DEFINE u == t \ {Pick(t)}
  <2>1. G(t)[t] = Pick(t).delta + G(t)[u]
    BY <1>3, <1>5 DEF AddsUp
  <2>2. u \in SUBSET s /\ u # s
    BY <1>4, <1>5
  <2>3. AddsUp(t, G(t)) /\ AddsUp(u, G(u)) /\ IsFiniteSet(t)
    BY <1>3, <1>5, <2>2
  <2>4. G(t)[u] = G(u)[u]
    <3>1. u \in SUBSET (t \cap u)
      OBVIOUS
    <3> HIDE DEF C, h, u
    <3> QED BY <2>3, <3>1, SumsAgree
  <2> QED BY <2>1, <2>4
<1>6. ASSUME NEW t \in SUBSET s, t # s PROVE h[t] = G(t)[t]
  <2>1. CASE t = {}
    BY <1>3, <2>1, <1>6 DEF AddsUp
  <2>2. CASE t # {}
    BY <1>5, <1>6, <2>2
  <2> QED BY <2>1, <2>2
<1>7. ASSUME NEW t \in SUBSET s, t # {}
      PROVE  h[t] = Pick(t).delta + h[t \ {Pick(t)}]
  <2>1. t \ {Pick(t)} \in SUBSET s /\ t \ {Pick(t)} # s
    BY <1>4, <1>7
  <2> HIDE DEF h
  <2>2. h[t \ {Pick(t)}] = G(t \ {Pick(t)})[t \ {Pick(t)}]
    BY <1>6, <2>1
  <2>3. h[t] = Pick(t).delta + G(t \ {Pick(t)})[t \ {Pick(t)}]
    BY <1>7 DEF h
  <2> QED BY <2>2, <2>3
<1>8. AddsUp(s, h)
  <2>1. h = [t \in SUBSET s |-> h[t]] /\ h[{}] = 0
    OBVIOUS
  <2> HIDE DEF h
  <2>2. \A t \in SUBSET s : h[t] = IF t = {} THEN 0 ELSE Pick(t).delta + h[t \ {Pick(t)}]
    BY <1>7, <2>1
  <2>3. [t \in SUBSET s |-> h[t]] = [t \in SUBSET s |->
            IF t = {} THEN 0 ELSE Pick(t).delta + h[t \ {Pick(t)}]]
    BY <2>2
  <2> QED BY <2>1, <2>3 DEF AddsUp
<1> QED BY <1>2, <1>8

LEMMA SumOfNone == SumDelta({}) = 0
<1>1. AddsUp({}, CHOOSE g : AddsUp({}, g))
  BY SumExists, FS_EmptySet
<1> QED BY <1>1, SumIsAFold DEF AddsUp

\* The element the fold takes first.
LEMMA SumTakesFirst ==
    ASSUME NEW S, IsFiniteSet(S), S # {}
    PROVE  Pick(S) \in S /\ SumDelta(S) = Pick(S).delta + SumDelta(S \ {Pick(S)})
<1> DEFINE T == S \ {Pick(S)}
           G(s) == CHOOSE g : AddsUp(s, g)
<1>1. Pick(S) \in S
  BY DEF Pick
<1>2. IsFiniteSet(T)
  BY FS_RemoveElement
<1>3. AddsUp(S, G(S)) /\ AddsUp(T, G(T))
  BY <1>2, SumExists
<1>4. SumDelta(S) = G(S)[S] /\ SumDelta(T) = G(T)[T]
  BY SumIsAFold
<1> HIDE DEF G
<1>5. G(S)[S] = Pick(S).delta + G(S)[T]
  BY <1>3 DEF AddsUp
<1>6. G(S)[T] = G(T)[T]
  BY <1>3, SumsAgree
<1> QED BY <1>1, <1>4, <1>5, <1>6

LEMMA SumIsNatural ==
    ASSUME NEW S, IsFiniteSet(S), \A e \in S : e.delta \in Nat
    PROVE  SumDelta(S) \in Nat
<1> DEFINE C == {s \in SUBSET S : SumDelta(s) \notin Nat}
<1> SUFFICES ASSUME C # {} PROVE FALSE
  OBVIOUS
<1>0. C \in SUBSET SUBSET S
  OBVIOUS
<1> HIDE DEF C
<1>1. PICK s \in C : IsFiniteSet(s) /\ \A t \in SUBSET s : t # s => t \notin C
  BY <1>0, SmallestCounterexample
<1> USE DEF C
<1>2. s # {}
  <2>1. s = {} => SumDelta(s) = 0
    BY SumOfNone, Zenon
  <2> QED BY <1>1, <2>1
<1>3. Pick(s) \in s /\ SumDelta(s) = Pick(s).delta + SumDelta(s \ {Pick(s)})
  BY <1>1, <1>2, SumTakesFirst
<1>4. SumDelta(s \ {Pick(s)}) \in Nat
  BY <1>1, <1>3
<1> QED BY <1>3, <1>4

\* Any element may be taken first.
LEMMA SumTakesAny ==
    ASSUME NEW S, IsFiniteSet(S), \A e \in S : e.delta \in Nat, NEW x \in S
    PROVE  SumDelta(S) = x.delta + SumDelta(S \ {x})
<1> DEFINE Same(s, y) == SumDelta(s) = y.delta + SumDelta(s \ {y})
           C == {s \in SUBSET S : \E y \in s : ~Same(s, y)}
<1> SUFFICES ASSUME C # {} PROVE FALSE
  OBVIOUS
<1>0. C \in SUBSET SUBSET S
  OBVIOUS
<1> HIDE DEF C
<1>1. PICK s \in C : IsFiniteSet(s) /\ \A t \in SUBSET s : t # s => t \notin C
  BY <1>0, SmallestCounterexample
<1> USE DEF C
<1>2. PICK y \in s : ~Same(s, y)
  BY <1>1
<1> DEFINE z == Pick(s)
<1>3. z \in s /\ Same(s, z)
  BY <1>1, SumTakesFirst
<1>4. z # y
  BY <1>2, <1>3
<1>5. Same(s \ {z}, y) /\ Same(s \ {y}, z)
  BY <1>1, <1>2, <1>3, <1>4
<1>6. (s \ {z}) \ {y} = (s \ {y}) \ {z}
  OBVIOUS
<1> DEFINE rest == SumDelta((s \ {y}) \ {z})
<1>7. rest \in Nat /\ y.delta \in Nat /\ z.delta \in Nat
  <2>1. IsFiniteSet((s \ {y}) \ {z})
    BY <1>1, FS_RemoveElement
  <2> QED BY <1>3, <2>1, SumIsNatural
<1>8. /\ SumDelta(s) = z.delta + SumDelta(s \ {z})
      /\ SumDelta(s \ {z}) = y.delta + rest
      /\ SumDelta(s \ {y}) = z.delta + rest
  BY <1>3, <1>5, <1>6, Zenon
<1> HIDE DEF z, rest
<1>9. z.delta + (y.delta + rest) = y.delta + (z.delta + rest)
  BY <1>7
<1>10. SumDelta(s) = y.delta + SumDelta(s \ {y})
  BY <1>8, <1>9, Zenon
<1> QED BY <1>2, <1>10

\* An element more.
LEMMA SumOfOneMore ==
    ASSUME NEW S, IsFiniteSet(S), \A e \in S : e.delta \in Nat,
           NEW x, x \notin S, x.delta \in Nat
    PROVE  SumDelta(S \cup {x}) = SumDelta(S) + x.delta
<1>1. IsFiniteSet(S \cup {x}) /\ (S \cup {x}) \ {x} = S
  BY FS_AddElement
<1>2. SumDelta(S \cup {x}) = x.delta + SumDelta((S \cup {x}) \ {x})
  BY <1>1, SumTakesAny
<1>3. SumDelta(S \cup {x}) = x.delta + SumDelta(S)
  BY <1>1, <1>2, Zenon
<1>4. SumDelta(S) \in Nat
  BY SumIsNatural
<1>5. x.delta + SumDelta(S) = SumDelta(S) + x.delta
  BY <1>4
<1> QED BY <1>3, <1>5, Zenon
=============================================================================
