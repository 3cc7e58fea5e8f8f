------------------------------ MODULE SumProofs ------------------------------
(***************************************************************************)
(* Facts about MapThenSumSet of FiniteSetsExt, which adds up numbers over  *)
(* a finite set in the order CHOOSE picks the elements: the sum is a       *)
(* number, and any element may be taken out of it.                         *)
(*                                                                         *)
(* The library states its induction rules over an operator parameter.      *)
(* Here each induction is a search for a smallest counterexample, a set of *)
(* sets without parameters (SmallestSet).                                  *)
(***************************************************************************)
EXTENDS Integers, FiniteSets, FiniteSetsExt, FiniteSetTheorems, TLAPS

\* The sum of f over S.
SumOf(f, S) == MapThenSumSet(LAMBDA x : f[x], S)

\* The element MapThenSumSet takes first.
First(s) == CHOOSE x \in s : TRUE

\* g is the table of partial sums that MapThenSumSet defines for S.
Table(g, f, S) ==
    g = [s \in SUBSET S |-> IF s = {} THEN 0 ELSE f[First(s)] + g[s \ {First(s)}]]

-----------------------------------------------------------------------------

\* Among some finite subsets of S, one has no other of them as a subset.
LEMMA SmallestSet ==
    ASSUME NEW S, IsFiniteSet(S), NEW C, C \subseteq SUBSET S, C # {}
    PROVE  \E s \in C : \A t \in C : t \subseteq s => t = s
<1>1. C \subseteq FiniteSubsetsOf(S)
  BY FS_FiniteSubsetsOfFinite
<1>2. IsWellFoundedOn(StrictSubsetOrdering(S), FiniteSubsetsOf(S))
  BY FS_StrictSubsetOrderingWellFounded
<1>3. PICK s \in C : \A t \in C : <<t, s>> \notin StrictSubsetOrdering(S)
  BY <1>1, <1>2, WFMin
<1> QED
  BY <1>3 DEF StrictSubsetOrdering

LEMMA FirstIn == ASSUME NEW s, s # {} PROVE First(s) \in s
BY DEF First

\* Two tables agree wherever both are defined.
LEMMA TableUnique ==
    ASSUME NEW f, NEW S, NEW T, IsFiniteSet(T), T \subseteq S,
           NEW g, Table(g, f, S), NEW h, Table(h, f, T)
    PROVE  \A s \in SUBSET T : g[s] = h[s]
<1> DEFINE C == {s \in SUBSET T : g[s] # h[s]}
<1> SUFFICES ASSUME C # {} PROVE FALSE
  OBVIOUS
<1>0. \E s \in C : \A t \in C : t \subseteq s => t = s
  <2> C \subseteq SUBSET T
    OBVIOUS
  <2> HIDE DEF C
  <2> QED
    BY SmallestSet
<1>1. PICK s \in C : \A t \in C : t \subseteq s => t = s
  BY <1>0
<1>2. s \in SUBSET T /\ s \in SUBSET S /\ g[s] # h[s]
  OBVIOUS
<1>3. /\ g[s] = IF s = {} THEN 0 ELSE f[First(s)] + g[s \ {First(s)}]
      /\ h[s] = IF s = {} THEN 0 ELSE f[First(s)] + h[s \ {First(s)}]
  BY <1>2 DEF Table
<1>4. s # {}
  BY <1>2, <1>3
<1>5. s \ {First(s)} \subseteq s /\ s \ {First(s)} # s
  BY <1>4, FirstIn
<1>6. s \ {First(s)} \notin C
  BY <1>1, <1>5
<1>7. g[s \ {First(s)}] = h[s \ {First(s)}]
  BY <1>2, <1>5, <1>6
<1> QED
  BY <1>2, <1>3, <1>4, <1>7

\* Every finite set has a table.
LEMMA TableExists == ASSUME NEW f, NEW S, IsFiniteSet(S) PROVE \E g : Table(g, f, S)
<1> DEFINE C == {s \in SUBSET S : ~ \E g : Table(g, f, s)}
<1> SUFFICES ASSUME C # {} PROVE FALSE
  OBVIOUS
<1>0. \E s \in C : \A t \in C : t \subseteq s => t = s
  <2> C \subseteq SUBSET S
    OBVIOUS
  <2> HIDE DEF C
  <2> QED
    BY SmallestSet
<1>1. PICK s \in C : \A t \in C : t \subseteq s => t = s
  BY <1>0
<1>2. IsFiniteSet(s) /\ s \in SUBSET S
  BY FS_Subset
<1> DEFINE TableOf(t) == CHOOSE g : Table(g, f, t)
           Rest(t) == t \ {First(t)}
           h == [t \in SUBSET s |-> IF t = {} THEN 0
                                    ELSE f[First(t)] + TableOf(Rest(t))[Rest(t)]]
<1>3. ASSUME NEW t \in SUBSET s, t # s PROVE Table(TableOf(t), f, t)
  <2>1. t \notin C /\ t \in SUBSET S
    BY <1>1, <1>2, <1>3
  <2>2. \E g : Table(g, f, t)
    BY <2>1
  <2> QED
    BY <2>2
<1>4. ASSUME NEW t \in SUBSET s, t # {}
      PROVE  Rest(t) \in SUBSET t /\ Rest(t) \in SUBSET s /\ Rest(t) # s /\ Rest(t) # t
  BY <1>4, FirstIn
<1>5. ASSUME NEW t \in SUBSET s, t # s PROVE h[t] = TableOf(t)[t]
  <2>1. Table(TableOf(t), f, t)
    BY <1>3, <1>5
  <2>2. TableOf(t)[t] = IF t = {} THEN 0 ELSE f[First(t)] + TableOf(t)[Rest(t)]
    BY <2>1 DEF Table
  <2>3. ASSUME t # {} PROVE TableOf(t)[Rest(t)] = TableOf(Rest(t))[Rest(t)]
    <3>1. Rest(t) \in SUBSET t /\ Rest(t) \in SUBSET s /\ Rest(t) # s
      BY <1>4, <2>3
    <3>2. Table(TableOf(Rest(t)), f, Rest(t))
      BY <1>3, <3>1
    <3>3. IsFiniteSet(Rest(t))
      BY <1>2, <3>1, FS_Subset
    <3> HIDE DEF TableOf, Rest
    <3> QED
      BY <2>1, <3>1, <3>2, <3>3, TableUnique
  <2> HIDE DEF TableOf, Rest
  <2> QED
    BY <2>2, <2>3
<1>6. Table(h, f, s)
  <2>1. ASSUME NEW t \in SUBSET s, t # {} PROVE h[Rest(t)] = TableOf(Rest(t))[Rest(t)]
    <3>1. Rest(t) \in SUBSET s /\ Rest(t) # s
      BY <1>4, <2>1
    <3> HIDE DEF TableOf, Rest, h
    <3> QED
      BY <1>5, <3>1
  <2> HIDE DEF TableOf
  <2>2. h = [t \in SUBSET s |-> IF t = {} THEN 0 ELSE f[First(t)] + h[Rest(t)]]
    BY <2>1
  <2> QED
    BY <2>2 DEF Table
<1>7. ~ \E g : Table(g, f, s)
  OBVIOUS
<1> HIDE DEF h
<1> QED
  BY <1>6, <1>7

\* What MapThenSumSet computes: the first element and the sum of the others.
LEMMA SumUnfolds ==
    ASSUME NEW f, NEW S, IsFiniteSet(S)
    PROVE  SumOf(f, S) = IF S = {} THEN 0
                         ELSE f[First(S)] + SumOf(f, S \ {First(S)})
<1> DEFINE TableOf(t) == CHOOSE g : Table(g, f, t)
           R == S \ {First(S)}
<1>1. ASSUME NEW T, IsFiniteSet(T)
      PROVE  SumOf(f, T) = TableOf(T)[T] /\ Table(TableOf(T), f, T)
  <2>1. SumOf(f, T) = TableOf(T)[T]
    BY DEF SumOf, MapThenSumSet, MapThenFoldSet, Table, First
  <2>2. Table(TableOf(T), f, T)
    BY <1>1, TableExists
  <2> QED
    BY <2>1, <2>2
<1>2. IsFiniteSet(R) /\ R \subseteq S
  BY FS_Subset
<1> HIDE DEF TableOf, R
<1>3. TableOf(S)[R] = TableOf(R)[R]
  BY <1>1, <1>2, TableUnique
<1>4. TableOf(S)[S] = IF S = {} THEN 0 ELSE f[First(S)] + TableOf(S)[R]
  BY <1>1 DEF Table, R
<1> QED
  BY <1>1, <1>2, <1>3, <1>4 DEF R

-----------------------------------------------------------------------------

\* The sum over nothing.
LEMMA SumEmpty == ASSUME NEW f PROVE SumOf(f, {}) = 0
BY SumUnfolds, FS_EmptySet

\* Adding up natural numbers yields one.
LEMMA SumType ==
    ASSUME NEW S, IsFiniteSet(S), NEW f, \A x \in S : f[x] \in Nat
    PROVE  SumOf(f, S) \in Nat
<1> DEFINE C == {s \in SUBSET S : SumOf(f, s) \notin Nat}
<1> SUFFICES ASSUME C # {} PROVE FALSE
  OBVIOUS
<1>0. \E s \in C : \A t \in C : t \subseteq s => t = s
  <2> C \subseteq SUBSET S
    OBVIOUS
  <2> HIDE DEF C
  <2> QED
    BY SmallestSet
<1>1. PICK s \in C : \A t \in C : t \subseteq s => t = s
  BY <1>0
<1>2. s \in SUBSET S /\ IsFiniteSet(s) /\ SumOf(f, s) \notin Nat
  BY FS_Subset
<1>3. SumOf(f, s) = IF s = {} THEN 0 ELSE f[First(s)] + SumOf(f, s \ {First(s)})
  BY <1>2, SumUnfolds
<1>4. s # {}
  BY <1>2, <1>3
<1>5. First(s) \in s
  BY <1>4, FirstIn
<1>6. s \ {First(s)} \notin C
  BY <1>1, <1>5
<1>7. SumOf(f, s \ {First(s)}) \in Nat /\ f[First(s)] \in Nat
  BY <1>2, <1>5, <1>6
<1> QED
  BY <1>2, <1>3, <1>4, <1>7

\* Any element may be taken out of a sum, whichever the sum takes first.
LEMMA SumTakeOut ==
    ASSUME NEW S, IsFiniteSet(S), NEW f, \A x \in S : f[x] \in Nat, NEW x \in S
    PROVE  SumOf(f, S) = f[x] + SumOf(f, S \ {x})
<1> DEFINE Wrong(s, y) == SumOf(f, s) # f[y] + SumOf(f, s \ {y})
           C == {s \in SUBSET S : \E y \in s : Wrong(s, y)}
<1> SUFFICES ASSUME C # {} PROVE FALSE
  OBVIOUS
<1>0. \E s \in C : \A t \in C : t \subseteq s => t = s
  <2> C \subseteq SUBSET S
    OBVIOUS
  <2> HIDE DEF C
  <2> QED
    BY SmallestSet
<1>1. PICK s \in C : \A t \in C : t \subseteq s => t = s
  BY <1>0
<1>2. PICK y \in s : Wrong(s, y)
  OBVIOUS
<1> DEFINE c == First(s)
<1>3. s \in SUBSET S /\ IsFiniteSet(s) /\ s # {} /\ c \in s
  BY FS_Subset, FirstIn
<1>4. SumOf(f, s) = f[c] + SumOf(f, s \ {c})
  BY <1>3, SumUnfolds
<1> HIDE DEF c
<1>5. y # c
  BY <1>2, <1>4
<1>6. s \ {c} \notin C /\ s \ {y} \notin C
  BY <1>1, <1>2, <1>3
<1>7. SumOf(f, s \ {c}) = f[y] + SumOf(f, (s \ {c}) \ {y})
  BY <1>2, <1>3, <1>5, <1>6
<1>8. SumOf(f, s \ {y}) = f[c] + SumOf(f, (s \ {y}) \ {c})
  BY <1>2, <1>3, <1>5, <1>6
<1> DEFINE R == s \ {c, y}
<1>9. (s \ {c}) \ {y} = R /\ (s \ {y}) \ {c} = R
  OBVIOUS
<1>10. IsFiniteSet(R) /\ \A z \in R : f[z] \in Nat
  BY <1>3, FS_Subset
<1>11. SumOf(f, R) \in Nat /\ f[c] \in Nat /\ f[y] \in Nat
  BY <1>2, <1>3, <1>10, SumType
<1> HIDE DEF R
<1>12. SumOf(f, s) = f[c] + (f[y] + SumOf(f, R))
  BY <1>4, <1>7, <1>9
<1>13. SumOf(f, s \ {y}) = f[c] + SumOf(f, R)
  BY <1>8, <1>9
<1> QED
  BY <1>2, <1>11, <1>12, <1>13

\* One more number.
LEMMA SumAdd ==
    ASSUME NEW S, IsFiniteSet(S), NEW x, x \notin S,
           NEW f, \A y \in S \cup {x} : f[y] \in Nat
    PROVE  SumOf(f, S \cup {x}) = SumOf(f, S) + f[x]
<1>1. IsFiniteSet(S \cup {x}) /\ (S \cup {x}) \ {x} = S
  BY FS_AddElement
<1>2. SumOf(f, S \cup {x}) = f[x] + SumOf(f, S)
  BY <1>1, SumTakeOut
<1> QED
  BY <1>2, SumType

=============================================================================
