---------------------------- MODULE SumTheorems ----------------------------
(***************************************************************************)
(* What SumFunctionOnSet of the module Functions is, for every finite set: *)
(* the amounts of a table are added up with it by the components.  A fact  *)
(* about every finite set is proved by its smallest counterexample: the    *)
(* strict subsets of a finite set are well-founded.  In the same way such  *)
(* a set of numbers has a greatest and a least one.                        *)
(***************************************************************************)
EXTENDS Integers, FiniteSetsExt, Functions, FiniteSetTheorems, WellFoundedInduction, TLAPS

\* Of a non-empty collection of subsets of a finite set, one has no other below it.
LEMMA SmallestSubset ==
    ASSUME NEW S, IsFiniteSet(S), NEW C, C \subseteq SUBSET S, C # {}
    PROVE  \E T \in C : IsFiniteSet(T) /\ \A U \in C : U \subseteq T => U = T
<1>1. C \subseteq FiniteSubsetsOf(S)
  BY FS_FiniteSubsetsOfFinite DEF FiniteSubsetsOf
<1>2. PICK T \in C : \A U \in C : ~(<<U, T>> \in StrictSubsetOrdering(S))
  BY <1>1, FS_StrictSubsetOrderingWellFounded, WFMin
<1>3. \A U \in C : U \subseteq T => U = T
  BY <1>2 DEF StrictSubsetOrdering
<1>4. IsFiniteSet(T)
  BY FS_Subset
<1> QED
  BY <1>3, <1>4

\* One step of the fold: an element of s and the total g of the rest.
AddOne(f, g, s) == LET x == CHOOSE y \in s : TRUE IN f[x] + g[s \ {x}]

\* g holds the totals of the subsets of S.
Totals(f, g, S) == \A s \in SUBSET S : g[s] = IF s = {} THEN 0 ELSE AddOne(f, g, s)

\* There is only one such g ...
LEMMA OneTotal ==
    ASSUME NEW f, NEW S, IsFiniteSet(S), NEW g, NEW h, Totals(f, g, S), Totals(f, h, S)
    PROVE  \A s \in SUBSET S : g[s] = h[s]
<1> SUFFICES ASSUME NEW z \in SUBSET S, g[z] # h[z] PROVE FALSE
  OBVIOUS
<1> DEFINE C == {s \in SUBSET S : g[s] # h[s]}
<1>0. z \in C
  OBVIOUS
<1>1. PICK T \in C : \A U \in C : U \subseteq T => U = T
  <2> HIDE DEF C
  <2>1. C \subseteq SUBSET S
    BY DEF C
  <2> QED
    BY <1>0, <2>1, SmallestSubset
<1>2. T # {}
  BY DEF Totals
<1> DEFINE x == CHOOSE y \in T : TRUE
<1>3. x \in T
  BY <1>2
<1>4. T \ {x} \in SUBSET S /\ T \ {x} \notin C
  <2>1. T \ {x} # T /\ T \ {x} \subseteq T
    BY <1>3
  <2> QED
    BY <1>1, <2>1
<1>5. g[T \ {x}] = h[T \ {x}]
  BY <1>4
<1> HIDE DEF x
<1>6. g[T] = f[x] + g[T \ {x}] /\ h[T] = f[x] + h[T \ {x}]
  BY <1>2 DEF Totals, AddOne, x
<1> QED
  BY <1>5, <1>6

\* ... and there is one, by the size of the subsets.
LEMMA TotalExists ==
    ASSUME NEW f, NEW S, IsFiniteSet(S)
    PROVE  \E g : g = [s \in SUBSET S |-> IF s = {} THEN 0 ELSE AddOne(f, g, s)]
<1> DEFINE UpTo(g, n) == \A s \in SUBSET S : Cardinality(s) <= n
                           => g[s] = IF s = {} THEN 0 ELSE AddOne(f, g, s)
           B == {n \in Nat : ~\E g : UpTo(g, n)}
<1>1. B = {}
  <2> SUFFICES ASSUME B # {} PROVE FALSE
    OBVIOUS
  <2>1. PICK m \in B : \A k \in B : ~(<<k, m>> \in OpToRel(<, Nat))
    <3>1. B \subseteq Nat
      OBVIOUS
    <3> HIDE DEF B
    <3> QED
      BY <3>1, NatLessThanWellFounded, WFMin
  <2>2. \A k \in B : ~(k < m)
    BY <2>1 DEF OpToRel
  <2>3. CASE m = 0
    <3>1. ASSUME NEW s \in SUBSET S, Cardinality(s) <= 0 PROVE s = {}
      <4>1. IsFiniteSet(s) /\ Cardinality(s) \in Nat
        BY FS_Subset, FS_CardinalityType
      <4>2. Cardinality(s) = 0
        BY <3>1, <4>1
      <4> QED
        BY <4>1, <4>2, FS_EmptySet
    <3>2. UpTo([s \in SUBSET S |-> 0], 0)
      BY <3>1
    <3> QED
      BY <2>1, <2>3, <3>2
  <2>4. CASE m # 0
    <3>1. m - 1 \in Nat /\ m - 1 \notin B
      <4>1. m \in Nat /\ \A k \in B : ~(k < m)
        BY <2>1, <2>2
      <4> HIDE DEF B
      <4> QED
        BY <4>1, <2>4
    <3>2. PICK g : UpTo(g, m - 1)
      BY <3>1
    <3> DEFINE h == [s \in SUBSET S |-> IF s = {} THEN 0 ELSE AddOne(f, g, s)]
    <3>3. ASSUME NEW s \in SUBSET S, Cardinality(s) <= m, s # {}
          PROVE  h[s] = AddOne(f, h, s)
      <4> DEFINE x == CHOOSE y \in s : TRUE
      <4>1. x \in s
        BY <3>3
      <4>2. s \ {x} \in SUBSET S /\ Cardinality(s \ {x}) <= m - 1
        <5>1. IsFiniteSet(s) /\ Cardinality(s) \in Nat /\ m \in Nat
          BY <2>1, FS_Subset, FS_CardinalityType
        <5>2. Cardinality(s \ {x}) = Cardinality(s) - 1
          BY <4>1, <5>1, FS_RemoveElement
        <5> HIDE DEF B, x
        <5> QED
          BY <3>3, <5>1, <5>2
      <4>3. g[s \ {x}] = h[s \ {x}]
        BY <3>2, <4>2
      <4>4. h[s] = AddOne(f, g, s)
        BY <3>3
      <4> HIDE DEF h
      <4> QED
        BY <4>3, <4>4 DEF AddOne
    <3>4. UpTo(h, m)
      BY <3>3
    <3> QED
      BY <2>1, <3>4
  <2> QED
    BY <2>3, <2>4
<1>2. PICK g : UpTo(g, Cardinality(S))
  BY <1>1, FS_CardinalityType
<1> DEFINE h == [s \in SUBSET S |-> g[s]]
<1>3. ASSUME NEW s \in SUBSET S
      PROVE  g[s] = IF s = {} THEN 0 ELSE AddOne(f, h, s)
  <2>1. Cardinality(s) <= Cardinality(S)
    BY FS_Subset
  <2>2. g[s] = IF s = {} THEN 0 ELSE AddOne(f, g, s)
    BY <1>2, <2>1
  <2>3. s # {} => AddOne(f, h, s) = AddOne(f, g, s)
    <3>1. \A x : h[s \ {x}] = g[s \ {x}]
      OBVIOUS
    <3> HIDE DEF h
    <3> QED
      BY <3>1 DEF AddOne
  <2> QED
    BY <2>2, <2>3
<1>4. h = [s \in SUBSET S |-> IF s = {} THEN 0 ELSE AddOne(f, h, s)]
  <2>1. h = [s \in SUBSET S |-> g[s]]
    OBVIOUS
  <2> HIDE DEF h
  <2> QED
    BY <1>3, <2>1
<1> QED
  BY <1>4

\* SumFunctionOnSet is it.
LEMMA SumIsTotal ==
    ASSUME NEW f, NEW S, IsFiniteSet(S)
    PROVE  \E g : Totals(f, g, S) /\ \A s \in SUBSET S : g[s] = SumFunctionOnSet(f, s)
<1> DEFINE Fold(it, s) == it = [u \in SUBSET s |-> IF u = {} THEN 0 ELSE AddOne(f, it, u)]
<1>1. ASSUME NEW s, IsFiniteSet(s)
      PROVE  \E it : Totals(f, it, s) /\ SumFunctionOnSet(f, s) = it[s]
  <2> DEFINE it == CHOOSE it : Fold(it, s)
  <2>1. Fold(it, s)
    BY <1>1, TotalExists
  <2>2. SumFunctionOnSet(f, s) = it[s]
    BY DEF SumFunctionOnSet, FoldFunctionOnSet, MapThenFoldSet, AddOne
  <2> HIDE DEF it
  <2>3. Totals(f, it, s)
    BY <2>1 DEF Totals
  <2> QED
    BY <2>2, <2>3
<1>2. PICK g : Totals(f, g, S)
  BY <1>1
<1>3. ASSUME NEW s \in SUBSET S PROVE g[s] = SumFunctionOnSet(f, s)
  <2>1. IsFiniteSet(s)
    BY FS_Subset
  <2>2. PICK it : Totals(f, it, s) /\ SumFunctionOnSet(f, s) = it[s]
    BY <1>1, <2>1
  <2>3. Totals(f, g, s)
    BY <1>2 DEF Totals
  <2> QED
    BY <2>1, <2>2, <2>3, OneTotal
<1> QED
  BY <1>2, <1>3

\* The total of no rows.
LEMMA SumEmpty == ASSUME NEW f PROVE SumFunctionOnSet(f, {}) = 0
  BY SumIsTotal, FS_EmptySet DEF Totals

\* The total of integers is one.
LEMMA SumType ==
    ASSUME NEW f, NEW S, IsFiniteSet(S), \A x \in S : f[x] \in Int
    PROVE  SumFunctionOnSet(f, S) \in Int
<1>1. PICK g : Totals(f, g, S) /\ \A s \in SUBSET S : g[s] = SumFunctionOnSet(f, s)
  BY SumIsTotal
<1> SUFFICES ASSUME g[S] \notin Int PROVE FALSE
  BY <1>1
<1> DEFINE C == {s \in SUBSET S : g[s] \notin Int}
<1>2. PICK T \in C : \A U \in C : U \subseteq T => U = T
  <2>1. S \in C /\ C \subseteq SUBSET S
    OBVIOUS
  <2> HIDE DEF C
  <2> QED
    BY <2>1, SmallestSubset
<1>3. T # {}
  BY <1>1 DEF Totals
<1> DEFINE x == CHOOSE y \in T : TRUE
<1>4. x \in T
  BY <1>3
<1>5. g[T] = f[x] + g[T \ {x}]
  BY <1>1, <1>3 DEF Totals, AddOne
<1>6. T \ {x} \in SUBSET S /\ T \ {x} \notin C
  BY <1>2, <1>4
<1> QED
  BY <1>2, <1>4, <1>5, <1>6

\* Any row can be taken out of the total.
LEMMA SumTakeOut ==
    ASSUME NEW f, NEW S, IsFiniteSet(S), \A x \in S : f[x] \in Int, NEW r \in S
    PROVE  SumFunctionOnSet(f, S) = f[r] + SumFunctionOnSet(f, S \ {r})
<1>1. PICK g : Totals(f, g, S) /\ \A s \in SUBSET S : g[s] = SumFunctionOnSet(f, s)
  BY SumIsTotal
<1>2. ASSUME NEW s \in SUBSET S PROVE g[s] \in Int
  BY <1>1, SumType, FS_Subset
<1> DEFINE C == {s \in SUBSET S : \E y \in s : g[s] # f[y] + g[s \ {y}]}
<1> SUFFICES ASSUME S \in C PROVE FALSE
  BY <1>1
<1>3. PICK T \in C : \A U \in C : U \subseteq T => U = T
  <2>1. C \subseteq SUBSET S
    OBVIOUS
  <2> HIDE DEF C
  <2> QED
    BY <2>1, SmallestSubset
<1>4. PICK y \in T : g[T] # f[y] + g[T \ {y}]
  OBVIOUS
<1> DEFINE x == CHOOSE z \in T : TRUE
<1>5. x \in T
  BY <1>4
<1>6. g[T] = f[x] + g[T \ {x}]
  BY <1>1, <1>4 DEF Totals, AddOne
<1> HIDE DEF x
<1>7. x # y
  BY <1>4, <1>6
<1>8. g[T \ {x}] = f[y] + g[(T \ {x}) \ {y}]
  <2>1. T \ {x} \in SUBSET S /\ T \ {x} \notin C /\ y \in T \ {x}
    BY <1>3, <1>5, <1>7
  <2> QED
    BY <2>1
<1>9. g[T \ {y}] = f[x] + g[(T \ {y}) \ {x}]
  <2>1. T \ {y} \in SUBSET S /\ T \ {y} \notin C /\ x \in T \ {y}
    BY <1>3, <1>4, <1>5, <1>7
  <2> QED
    BY <2>1
<1>10. (T \ {x}) \ {y} = (T \ {y}) \ {x}
  OBVIOUS
<1> DEFINE rest == g[(T \ {x}) \ {y}]
<1>11. rest \in Int /\ f[x] \in Int /\ f[y] \in Int
  BY <1>2, <1>5
<1>12. g[T] = f[x] + (f[y] + rest) /\ g[T \ {y}] = f[x] + rest
  BY <1>6, <1>8, <1>9, <1>10
<1> HIDE DEF rest, C
<1> QED
  BY <1>4, <1>11, <1>12

\* Rows with the same amounts have the same total.
LEMMA SumSame ==
    ASSUME NEW f, NEW h, NEW S, IsFiniteSet(S), \A x \in S : f[x] = h[x]
    PROVE  SumFunctionOnSet(f, S) = SumFunctionOnSet(h, S)
<1>1. PICK g : Totals(f, g, S) /\ \A s \in SUBSET S : g[s] = SumFunctionOnSet(f, s)
  BY SumIsTotal
<1>2. PICK k : Totals(h, k, S) /\ \A s \in SUBSET S : k[s] = SumFunctionOnSet(h, s)
  BY SumIsTotal
<1>3. Totals(f, k, S)
  <2> SUFFICES ASSUME NEW s \in SUBSET S, s # {} PROVE AddOne(h, k, s) = AddOne(f, k, s)
    BY <1>2 DEF Totals
  <2>1. (CHOOSE y \in s : TRUE) \in s
    OBVIOUS
  <2> QED
    BY <2>1 DEF AddOne
<1> QED
  BY <1>1, <1>2, <1>3, OneTotal

\* A row that is added to a table adds its amount.
LEMMA SumAdd ==
    ASSUME NEW f, NEW S, IsFiniteSet(S), NEW r, r \notin S, \A x \in S \cup {r} : f[x] \in Int
    PROVE  SumFunctionOnSet(f, S \cup {r}) = f[r] + SumFunctionOnSet(f, S)
<1>1. IsFiniteSet(S \cup {r}) /\ r \in S \cup {r} /\ (S \cup {r}) \ {r} = S
  BY FS_AddElement
<1> DEFINE T == S \cup {r}
<1>2. IsFiniteSet(T) /\ r \in T /\ T \ {r} = S /\ \A x \in T : f[x] \in Int
  BY <1>1
<1> HIDE DEF T
<1>3. SumFunctionOnSet(f, T) = f[r] + SumFunctionOnSet(f, T \ {r})
  BY <1>2, SumTakeOut
<1> QED
  BY <1>2, <1>3 DEF T

\* Without negative amounts, more rows have no smaller total.
LEMMA SumGrows ==
    ASSUME NEW f, NEW S, IsFiniteSet(S), \A x \in S : f[x] \in Nat, NEW T \in SUBSET S
    PROVE  SumFunctionOnSet(f, T) <= SumFunctionOnSet(f, S)
<1> DEFINE total(U) == SumFunctionOnSet(f, T \cup U)
           C == {U \in SUBSET (S \ T) : ~(total({}) <= total(U))}
<1>1. ASSUME NEW U \in SUBSET S
      PROVE  IsFiniteSet(U) /\ SumFunctionOnSet(f, U) \in Int
  BY FS_Subset, SumType
<1>2. ASSUME C # {} PROVE FALSE
  <2>1. PICK W \in C : \A U \in C : U \subseteq W => U = W
    <3>1. IsFiniteSet(S \ T) /\ C \subseteq SUBSET (S \ T)
      BY FS_Subset
    <3> HIDE DEF C
    <3> QED
      BY <1>2, <3>1, SmallestSubset
  <2>2. total({}) \in Int /\ ~(total({}) <= total(W)) /\ W \subseteq S \ T
    BY <1>1
  <2>3. PICK y \in W : TRUE
    BY <2>2
  <2>4. W \ {y} \in SUBSET (S \ T) /\ W \ {y} \notin C
    BY <2>1, <2>2, <2>3
  <2>5. total({}) <= total(W \ {y})
    BY <2>4
  <2>6. total(W) = f[y] + total(W \ {y})
    <3>1. T \cup W \in SUBSET S /\ y \in T \cup W /\ (T \cup W) \ {y} = T \cup (W \ {y})
      BY <2>2, <2>3
    <3>2. IsFiniteSet(T \cup W) /\ \A x \in T \cup W : f[x] \in Int
      BY <1>1, <3>1
    <3>3. SumFunctionOnSet(f, T \cup W) = f[y] + SumFunctionOnSet(f, (T \cup W) \ {y})
      BY <3>1, <3>2, SumTakeOut
    <3> QED
      BY <3>1, <3>3
  <2>7. f[y] \in Nat /\ total(W) \in Int /\ total(W \ {y}) \in Int
    BY <1>1, <2>2, <2>3
  <2> HIDE DEF total
  <2> QED
    BY <2>2, <2>5, <2>6, <2>7
<1>3. S \ T \notin C
  BY <1>2
<1>4. total({}) <= total(S \ T)
  BY <1>3
<1>5. T \cup {} = T /\ T \cup (S \ T) = S
  OBVIOUS
<1> QED
  BY <1>4, <1>5

\* Without negative amounts, neither is the total negative.
LEMMA SumNat ==
    ASSUME NEW f, NEW S, IsFiniteSet(S), \A x \in S : f[x] \in Nat
    PROVE  SumFunctionOnSet(f, S) \in Nat
<1>1. {} \in SUBSET S
  OBVIOUS
<1>2. 0 <= SumFunctionOnSet(f, S)
  BY <1>1, SumGrows, SumEmpty
<1>3. SumFunctionOnSet(f, S) \in Int
  BY SumType
<1> QED
  BY <1>2, <1>3

\* The total of two amounts for each row is the two totals.
LEMMA SumPlus ==
    ASSUME NEW f, NEW g, NEW h, NEW S, IsFiniteSet(S), \A x \in S : f[x] \in Int /\ g[x] \in Int /\ h[x] = f[x] + g[x]
    PROVE  SumFunctionOnSet(h, S) = SumFunctionOnSet(f, S) + SumFunctionOnSet(g, S)
<1> DEFINE C == {U \in SUBSET S : SumFunctionOnSet(h, U) # SumFunctionOnSet(f, U) + SumFunctionOnSet(g, U)}
<1> SUFFICES ASSUME S \in C PROVE FALSE
  OBVIOUS
<1>1. PICK W \in C : \A U \in C : U \subseteq W => U = W
  <2>1. C \subseteq SUBSET S
    OBVIOUS
  <2> HIDE DEF C
  <2> QED
    BY <2>1, SmallestSubset
<1>2. IsFiniteSet(W) /\ \A x \in W : f[x] \in Int /\ g[x] \in Int /\ h[x] \in Int /\ h[x] = f[x] + g[x]
  BY <1>1, FS_Subset
<1>3. SumFunctionOnSet(h, W) # SumFunctionOnSet(f, W) + SumFunctionOnSet(g, W)
  BY <1>1
<1>4. W # {}
  <2>1. SumFunctionOnSet(h, {}) = 0 /\ SumFunctionOnSet(f, {}) = 0 /\ SumFunctionOnSet(g, {}) = 0
    BY SumEmpty
  <2> HIDE DEF C
  <2>2. ASSUME W = {} PROVE FALSE
    <3>1. SumFunctionOnSet(h, W) = 0 /\ SumFunctionOnSet(f, W) = 0 /\ SumFunctionOnSet(g, W) = 0
      BY <2>1, <2>2, Zenon
    <3> QED
      BY <1>3, <3>1
  <2> QED
    BY <2>2
<1>5. PICK y \in W : TRUE
  BY <1>4
<1>6. W \ {y} \in SUBSET S /\ W \ {y} \notin C
  BY <1>1, <1>5
<1> DEFINE F == SumFunctionOnSet(f, W \ {y})
           G == SumFunctionOnSet(g, W \ {y})
<1>7. SumFunctionOnSet(h, W \ {y}) = F + G
  BY <1>6
<1>8. /\ SumFunctionOnSet(f, W) = f[y] + F
      /\ SumFunctionOnSet(g, W) = g[y] + G
      /\ SumFunctionOnSet(h, W) = h[y] + (F + G)
  BY <1>2, <1>5, <1>7, SumTakeOut
<1>9. F \in Int /\ G \in Int
  <2>1. IsFiniteSet(W \ {y}) /\ \A x \in W \ {y} : f[x] \in Int /\ g[x] \in Int
    BY <1>2, FS_Subset
  <2> QED
    BY <2>1, SumType
<1> HIDE DEF C, F, G
<1> QED
  BY <1>2, <1>5, <1>8, <1>9, <1>3

\* The total of a table is that of a part of it and that of the rest.
LEMMA SumSplit ==
    ASSUME NEW f, NEW S, IsFiniteSet(S), \A x \in S : f[x] \in Int, NEW T \in SUBSET S
    PROVE  SumFunctionOnSet(f, S) = SumFunctionOnSet(f, T) + SumFunctionOnSet(f, S \ T)
<1> DEFINE C == {U \in SUBSET T : SumFunctionOnSet(f, S) # SumFunctionOnSet(f, U) + SumFunctionOnSet(f, S \ U)}
<1> SUFFICES ASSUME T \in C PROVE FALSE
  OBVIOUS
<1>0. ASSUME NEW U \in SUBSET S
      PROVE  IsFiniteSet(U) /\ (\A x \in U : f[x] \in Int) /\ SumFunctionOnSet(f, U) \in Int
  BY FS_Subset, SumType
<1>1. PICK W \in C : \A U \in C : U \subseteq W => U = W
  <2>1. C \subseteq SUBSET T /\ IsFiniteSet(T)
    BY <1>0
  <2> HIDE DEF C
  <2> QED
    BY <2>1, SmallestSubset
<1>2. W # {}
  <2>1. ASSUME W = {} PROVE FALSE
    <3>1. SumFunctionOnSet(f, W) = 0 /\ SumFunctionOnSet(f, S \ W) = SumFunctionOnSet(f, S)
      <4>1. SumFunctionOnSet(f, {}) = 0 /\ S \ {} = S
        BY SumEmpty
      <4> QED
        BY <2>1, <4>1, Zenon
    <3>2. SumFunctionOnSet(f, S) \in Int
      BY <1>0
    <3>3. SumFunctionOnSet(f, S) # SumFunctionOnSet(f, W) + SumFunctionOnSet(f, S \ W)
      BY <1>1
    <3> HIDE DEF C
    <3> QED
      BY <3>1, <3>2, <3>3
  <2> QED
    BY <2>1
<1>3. PICK y \in W : TRUE
  BY <1>2
<1> DEFINE V == W \ {y}
           R == S \ W
<1>4. V \in SUBSET T /\ V \notin C
  BY <1>1, <1>3
<1>5. SumFunctionOnSet(f, S) = SumFunctionOnSet(f, V) + SumFunctionOnSet(f, S \ V)
  BY <1>4
<1>6. /\ W \in SUBSET S /\ S \ V \in SUBSET S /\ y \in W /\ y \in S \ V
      /\ (S \ V) \ {y} = R /\ V \in SUBSET S /\ R \in SUBSET S /\ f[y] \in Int
  BY <1>1, <1>3
<1>7. SumFunctionOnSet(f, S) # SumFunctionOnSet(f, W) + SumFunctionOnSet(f, R)
  BY <1>1
<1>8. SumFunctionOnSet(f, W) = f[y] + SumFunctionOnSet(f, V)
  BY <1>0, <1>6, SumTakeOut
<1> HIDE DEF C, R
<1>9. SumFunctionOnSet(f, S \ V) = f[y] + SumFunctionOnSet(f, R)
  <2>1. IsFiniteSet(S \ V) /\ \A x \in S \ V : f[x] \in Int
    BY <1>0, <1>6
  <2> HIDE DEF V
  <2>2. SumFunctionOnSet(f, S \ V) = f[y] + SumFunctionOnSet(f, (S \ V) \ {y})
    BY <1>6, <2>1, SumTakeOut
  <2> QED
    BY <1>6, <2>2
<1>10. SumFunctionOnSet(f, V) \in Int /\ SumFunctionOnSet(f, R) \in Int
  BY <1>0, <1>6
<1> QED
  BY <1>5, <1>6, <1>7, <1>8, <1>9, <1>10

\* The total of equal amounts is a product.
LEMMA SumConstant ==
    ASSUME NEW f, NEW c \in Int, NEW S, IsFiniteSet(S), \A x \in S : f[x] = c
    PROVE  SumFunctionOnSet(f, S) = c * Cardinality(S)
<1> DEFINE C == {U \in SUBSET S : SumFunctionOnSet(f, U) # c * Cardinality(U)}
<1> SUFFICES ASSUME S \in C PROVE FALSE
  OBVIOUS
<1>1. PICK W \in C : \A U \in C : U \subseteq W => U = W
  <2>1. C \subseteq SUBSET S
    OBVIOUS
  <2> HIDE DEF C
  <2> QED
    BY <2>1, SmallestSubset
<1>2. IsFiniteSet(W) /\ \A x \in W : f[x] = c /\ f[x] \in Int
  BY <1>1, FS_Subset
<1>3. SumFunctionOnSet(f, W) # c * Cardinality(W)
  BY <1>1
<1>4. W # {}
  <2>1. Cardinality({}) = 0 /\ SumFunctionOnSet(f, {}) = 0 /\ c * 0 = 0
    BY SumEmpty, FS_EmptySet
  <2> HIDE DEF C
  <2> QED
    BY <1>3, <2>1
<1>5. PICK y \in W : TRUE
  BY <1>4
<1>6. W \ {y} \in SUBSET S /\ W \ {y} \notin C
  BY <1>1, <1>5
<1>7. SumFunctionOnSet(f, W \ {y}) = c * Cardinality(W \ {y})
  BY <1>6
<1>8. SumFunctionOnSet(f, W) = c + SumFunctionOnSet(f, W \ {y})
  BY <1>2, <1>5, SumTakeOut
<1>9. Cardinality(W) \in Nat /\ Cardinality(W \ {y}) = Cardinality(W) - 1
  BY <1>2, <1>5, FS_RemoveElement, FS_CardinalityType
<1> HIDE DEF C
<1>10. \A n \in Nat : c + c * (n - 1) = c * n
  BY SMT
<1> QED
  BY <1>7, <1>8, <1>9, <1>3, <1>10

\* A function on a finite set has a greatest and a least value.
LEMMA Greatest ==
  ASSUME NEW S, IsFiniteSet(S), S # {}, NEW f, \A x \in S : f[x] \in Int
  PROVE  \E x \in S : \A y \in S : f[y] <= f[x]
<1> DEFINE C == {T \in SUBSET S : T # {} /\ ~\E x \in T : \A y \in T : f[y] <= f[x]}
<1> SUFFICES ASSUME C # {} PROVE FALSE
  OBVIOUS
<1>1. PICK T \in C : \A U \in C : U \subseteq T => U = T
  <2>1. C \subseteq SUBSET S
    OBVIOUS
  <2> HIDE DEF C
  <2> QED
    BY <2>1, SmallestSubset
<1>2. PICK z \in T : TRUE
  OBVIOUS
<1>3. T \ {z} \notin C
  <2>1. T \ {z} \subseteq T /\ T \ {z} # T
    BY <1>2
  <2> HIDE DEF C
  <2> QED
    BY <1>1, <2>1
<1>4. CASE T = {z}
  <2>1. f[z] \in Int
    BY <1>1, <1>2
  <2> QED
    BY <1>1, <1>4, <2>1
<1>5. CASE T # {z}
  <2>1. T \ {z} # {} /\ T \ {z} \in SUBSET S
    BY <1>1, <1>2, <1>5
  <2>2. PICK x \in T \ {z} : \A y \in T \ {z} : f[y] <= f[x]
    BY <1>3, <2>1
  <2>3. f[x] \in Int /\ f[z] \in Int /\ \A y \in T : f[y] \in Int
    BY <1>1, <1>2, <2>2
  <2>4. CASE f[z] <= f[x]
    <3>1. \A y \in T : f[y] <= f[x]
      BY <2>2, <2>4
    <3> QED
      BY <1>1, <2>2, <3>1
  <2>5. CASE f[x] < f[z]
    <3>1. \A y \in T : f[y] <= f[z]
      BY <2>2, <2>3, <2>5
    <3> QED
      BY <1>1, <1>2, <3>1
  <2> QED
    BY <2>3, <2>4, <2>5
<1> QED
  BY <1>4, <1>5

LEMMA Least ==
  ASSUME NEW S, IsFiniteSet(S), S # {}, NEW f, \A x \in S : f[x] \in Int
  PROVE  \E x \in S : \A y \in S : f[x] <= f[y]
<1> DEFINE g == [x \in S |-> 0 - f[x]]
<1>1. \A x \in S : g[x] = 0 - f[x] /\ g[x] \in Int
  OBVIOUS
<1> HIDE DEF g
<1>2. PICK x \in S : \A y \in S : g[y] <= g[x]
  BY <1>1, Greatest
<1>3. \A y \in S : f[x] <= f[y]
  BY <1>1, <1>2
<1> QED
  BY <1>3

\* So has a set of numbers.
LEMMA Extremes ==
  ASSUME NEW S, IsFiniteSet(S), S # {}, S \subseteq Int
  PROVE  /\ Max(S) \in S /\ \A y \in S : y <= Max(S)
         /\ Min(S) \in S /\ \A y \in S : Min(S) <= y
<1> DEFINE f == [x \in S |-> x]
<1>1. \A x \in S : f[x] = x /\ f[x] \in Int
  OBVIOUS
<1> HIDE DEF f
<1>2. \E x \in S : \A y \in S : f[y] <= f[x]
  BY <1>1, Greatest
<1>3. \E x \in S : \A y \in S : f[x] <= f[y]
  BY <1>1, Least
<1>4. \E x \in S : \A y \in S : x >= y
  BY <1>1, <1>2
<1>5. \E x \in S : \A y \in S : x <= y
  BY <1>1, <1>3
<1>6. Max(S) \in S /\ \A y \in S : Max(S) >= y
  BY <1>4, Zenon DEF Max
<1>7. Min(S) \in S /\ \A y \in S : Min(S) <= y
  BY <1>5, Zenon DEF Min
<1> QED
  BY <1>6, <1>7

\* The lowest and the highest of some prices are among them.
LEMMA ExtremePrices ==
  ASSUME NEW S, IsFiniteSet(S), S # {}, NEW p, \A x \in S : p[x] \in Int
  PROVE  /\ \E x \in S : Max({p[y] : y \in S}) = p[x] /\ \A y \in S : p[y] <= p[x]
         /\ \E x \in S : Min({p[y] : y \in S}) = p[x] /\ \A y \in S : p[x] <= p[y]
<1>1. PICK x \in S : \A y \in S : p[y] <= p[x]
  BY Greatest
<1>2. PICK z \in S : \A y \in S : p[z] <= p[y]
  BY Least
<1> DEFINE P == {p[y] : y \in S}
<1>3. P \subseteq Int /\ p[x] \in P /\ p[z] \in P /\ \A q \in P : q <= p[x] /\ p[z] <= q
  BY <1>1, <1>2
<1> HIDE DEF P
<1>4. Max(P) \in P /\ \A q \in P : Max(P) >= q
  <2>1. \E m \in P : \A q \in P : m >= q
    BY <1>3
  <2> QED
    BY <2>1, Zenon DEF Max
<1>5. Min(P) \in P /\ \A q \in P : Min(P) <= q
  <2>1. \E m \in P : \A q \in P : m <= q
    BY <1>3
  <2> QED
    BY <2>1 DEF Min
<1>6. Max(P) = p[x] /\ Min(P) = p[z]
  <2>1. Max(P) \in Int /\ Min(P) \in Int /\ p[x] \in Int /\ p[z] \in Int
    BY <1>3, <1>4, <1>5
  <2>2. Max(P) <= p[x] /\ Max(P) >= p[x] /\ p[z] <= Min(P) /\ Min(P) <= p[z]
    BY <1>3, <1>4, <1>5
  <2> QED
    BY <2>1, <2>2
<1> QED
  BY <1>1, <1>2, <1>6 DEF P
=============================================================================
