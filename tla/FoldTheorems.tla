---------------------------- MODULE FoldTheorems ----------------------------
(***************************************************************************)
(* What the sums of the models are: SumFunctionOnSet of the community's    *)
(* Functions, of a function that takes natural numbers over a finite set.   *)
(* A sum counts units, so that the theorems about cardinalities apply to it; *)
(* that it does is shown by a smallest set on which it would not, which      *)
(* takes the place of an induction.                                        *)
(***************************************************************************)
EXTENDS Functions, FiniteSetTheorems, WellFoundedInduction, TLAPS

\* The units of each element: as many as f takes there.
Units(f, S) == UNION {{x} \X (1..f[x]) : x \in S}

\* An element has as many units as f takes there.
LEMMA UnitsOfOne ==
    ASSUME NEW x, NEW n \in Nat
    PROVE  IsFiniteSet({x} \X (1..n)) /\ Cardinality({x} \X (1..n)) = n
<1>1. IsFiniteSet({x}) /\ Cardinality({x}) = 1
  BY FS_Singleton
<1>2. IsFiniteSet(1..n) /\ Cardinality(1..n) = n
  BY FS_Interval
<1>3. /\ IsFiniteSet({x} \X (1..n))
      /\ Cardinality({x} \X (1..n)) = Cardinality({x}) * Cardinality(1..n)
  BY <1>1, <1>2, FS_Product, Zenon
<1>. QED
  BY <1>1, <1>2, <1>3

\* One element more adds its own units.
LEMMA UnitsOfOneMore ==
    ASSUME NEW f, NEW S, IsFiniteSet(Units(f, S)), NEW x, x \notin S, f[x] \in Nat
    PROVE  /\ IsFiniteSet(Units(f, S \cup {x}))
           /\ Cardinality(Units(f, S \cup {x})) = f[x] + Cardinality(Units(f, S))
<1>. DEFINE own == {x} \X (1..f[x])
<1>1. Units(f, S \cup {x}) = Units(f, S) \cup own
  BY DEF Units
<1>2. Units(f, S) \cap own = {}
  BY DEF Units
<1>3. IsFiniteSet(own) /\ Cardinality(own) = f[x]
  BY UnitsOfOne
<1>4. Cardinality(Units(f, S)) \in Nat
  BY FS_CardinalityType
<1>. HIDE DEF own
<1>5. /\ IsFiniteSet(Units(f, S) \cup own)
      /\ Cardinality(Units(f, S) \cup own) =
           Cardinality(Units(f, S)) + Cardinality(own) - Cardinality(Units(f, S) \cap own)
  BY <1>3, FS_Union
<1>6. Cardinality(Units(f, S) \cap own) = 0
  BY <1>2, FS_EmptySet
<1>7. IsFiniteSet(Units(f, S \cup {x}))
  BY <1>1, <1>5
<1>8. Cardinality(Units(f, S \cup {x})) = Cardinality(Units(f, S)) + f[x] - 0
  BY <1>1, <1>3, <1>5, <1>6
<1>. QED
  BY <1>4, <1>7, <1>8

\* g is a recursive sum of f over the subsets of S.
Sums(g, f, S) ==
    g = [s \in SUBSET S |->
           IF s = {} THEN 0 ELSE f[CHOOSE x \in s : TRUE] + g[s \ {CHOOSE x \in s : TRUE}]]

\* The community's sum is the value of a function that satisfies that recursion.
LEMMA SumUnfolds ==
    ASSUME NEW f, NEW S
    PROVE  SumFunctionOnSet(f, S) = (CHOOSE g : Sums(g, f, S))[S]
BY Zenon DEF SumFunctionOnSet, FoldFunctionOnSet, MapThenFoldSet, Sums

\* The units of finitely many elements are finitely many.
LEMMA UnitsFinite ==
    ASSUME NEW S, IsFiniteSet(S), NEW f, \A x \in S : f[x] \in Nat
    PROVE  IsFiniteSet(Units(f, S))
<1>. DEFINE own == [x \in S |-> {x} \X (1..f[x])]
            owns == {own[x] : x \in S}
<1>1. own \in Surjection(S, owns)
  BY DEF Surjection
<1>2. IsFiniteSet(owns)
  BY <1>1, FS_Surjection
<1>3. \A x \in S : IsFiniteSet({x} \X (1..f[x]))
  BY UnitsOfOne
<1>5. \A T \in owns : IsFiniteSet(T)
  BY <1>3, Zenon
<1>4. Units(f, S) = UNION owns
  BY DEF Units
<1>. QED
  BY <1>2, <1>5, <1>4, FS_UNION

\* Counting the units of each subset satisfies the recursion.
LEMMA UnitsSum ==
    ASSUME NEW S, IsFiniteSet(S), NEW f, \A x \in S : f[x] \in Nat
    PROVE  Sums([s \in SUBSET S |-> Cardinality(Units(f, s))], f, S)
<1>. DEFINE h == [s \in SUBSET S |-> Cardinality(Units(f, s))]
<1>1. ASSUME NEW s \in SUBSET S, s = {}
      PROVE  h[s] = 0
  <2>1. Units(f, s) = {}
    BY <1>1 DEF Units
  <2>. QED
    BY <2>1, FS_EmptySet
<1>2. ASSUME NEW s \in SUBSET S, NEW x \in s
      PROVE  h[s] = f[x] + h[s \ {x}]
  <2>1. /\ (s \ {x}) \in SUBSET S
        /\ IsFiniteSet(s \ {x})
        /\ x \notin s \ {x} /\ s = (s \ {x}) \cup {x}
        /\ f[x] \in Nat
    BY FS_Subset
  <2>2. IsFiniteSet(Units(f, s \ {x}))
    BY <2>1, UnitsFinite
  <2>3. Cardinality(Units(f, (s \ {x}) \cup {x})) = f[x] + Cardinality(Units(f, s \ {x}))
    BY <2>1, <2>2, UnitsOfOneMore
  <2>. QED
    BY <2>1, <2>3
<1>3. \A s \in SUBSET S : s # {} => (CHOOSE x \in s : TRUE) \in s
  OBVIOUS
<1>. HIDE DEF h
<1>4. \A s \in SUBSET S :
         h[s] = IF s = {} THEN 0 ELSE f[CHOOSE x \in s : TRUE] + h[s \ {CHOOSE x \in s : TRUE}]
  BY <1>1, <1>2, <1>3
<1>5. h = [s \in SUBSET S |-> h[s]]
  BY DEF h
<1>. QED
  BY <1>4, <1>5 DEF Sums, h

\* Two functions that satisfy the recursion agree: on a smallest subset where they
\* did not, each would be the value at the chosen element more than on a smaller one.
LEMMA SumsAgree ==
    ASSUME NEW S, IsFiniteSet(S), NEW f, NEW g, NEW h, Sums(g, f, S), Sums(h, f, S)
    PROVE  g[S] = h[S]
<1>. DEFINE Less == StrictSubsetOrdering(S)
            Apart == {s \in FiniteSubsetsOf(S) : g[s] # h[s]}
<1>1. SUFFICES ASSUME Apart # {} PROVE FALSE
  BY DEF FiniteSubsetsOf
<1>2. PICK s \in Apart : \A t \in Apart : <<t, s>> \notin Less
  BY <1>1, FS_StrictSubsetOrderingWellFounded, WFMin, Zenon
<1>. DEFINE x == CHOOSE x \in s : TRUE
<1>3. s # {} /\ x \in s
  BY DEF Sums, FiniteSubsetsOf
<1>4. s \ {x} \in FiniteSubsetsOf(S) /\ <<s \ {x}, s>> \in Less
  BY <1>3, FS_Subset DEF FiniteSubsetsOf, StrictSubsetOrdering
<1>5. g[s \ {x}] = h[s \ {x}]
  BY <1>2, <1>4
<1>. QED
  BY <1>2, <1>3, <1>5 DEF Sums, FiniteSubsetsOf

\* A sum of natural numbers counts their units.
LEMMA SumCounts ==
    ASSUME NEW S, IsFiniteSet(S), NEW f, \A x \in S : f[x] \in Nat
    PROVE  SumFunctionOnSet(f, S) = Cardinality(Units(f, S))
<1>. DEFINE h == [s \in SUBSET S |-> Cardinality(Units(f, s))]
            g == CHOOSE i : Sums(i, f, S)
<1>1. Sums(h, f, S)
  BY UnitsSum
<1>2. h[S] = Cardinality(Units(f, S))
  OBVIOUS
<1>. HIDE DEF h
<1>3. Sums(g, f, S)
  BY <1>1
<1>. HIDE DEF g
<1>4. g[S] = h[S]
  BY <1>1, <1>3, SumsAgree
<1>. QED
  BY <1>2, <1>4, SumUnfolds DEF g

-----------------------------------------------------------------------------
\* A sum of natural numbers is one.
LEMMA SumType ==
    ASSUME NEW S, IsFiniteSet(S), NEW f, \A x \in S : f[x] \in Nat
    PROVE  SumFunctionOnSet(f, S) \in Nat
BY SumCounts, UnitsFinite, FS_CardinalityType

\* Nothing sums to zero.
LEMMA SumOfNone == ASSUME NEW f PROVE SumFunctionOnSet(f, {}) = 0
<1>1. Units(f, {}) = {}
  BY DEF Units
<1>2. SumFunctionOnSet(f, {}) = Cardinality(Units(f, {}))
  BY SumCounts, FS_EmptySet
<1>. QED
  BY <1>1, <1>2, FS_EmptySet

\* One element more adds its value.
LEMMA SumOfOneMore ==
    ASSUME NEW S, IsFiniteSet(S), NEW x, x \notin S, NEW f, \A y \in S \cup {x} : f[y] \in Nat
    PROVE  SumFunctionOnSet(f, S \cup {x}) = f[x] + SumFunctionOnSet(f, S)
<1>1. /\ SumFunctionOnSet(f, S) = Cardinality(Units(f, S))
      /\ IsFiniteSet(Units(f, S))
  BY SumCounts, UnitsFinite
<1>2. IsFiniteSet(S \cup {x})
  BY FS_AddElement
<1>3. SumFunctionOnSet(f, S \cup {x}) = Cardinality(Units(f, S \cup {x}))
  BY <1>2, SumCounts
<1>. QED
  BY <1>1, <1>3, UnitsOfOneMore

\* Only the values on the set matter.
LEMMA SumAgrees ==
    ASSUME NEW S, IsFiniteSet(S), NEW f, NEW g, \A x \in S : f[x] \in Nat /\ g[x] = f[x]
    PROVE  SumFunctionOnSet(g, S) = SumFunctionOnSet(f, S)
<1>1. Units(g, S) = Units(f, S)
  BY Zenon DEF Units
<1>2. /\ SumFunctionOnSet(f, S) = Cardinality(Units(f, S))
      /\ SumFunctionOnSet(g, S) = Cardinality(Units(g, S))
  BY SumCounts
<1>. QED
  BY <1>1, <1>2

\* A sum is that of a part and that of the rest.
LEMMA SumSplits ==
    ASSUME NEW S, IsFiniteSet(S), NEW T \in SUBSET S, NEW f, \A x \in S : f[x] \in Nat
    PROVE  SumFunctionOnSet(f, S) = SumFunctionOnSet(f, T) + SumFunctionOnSet(f, S \ T)
<1>1. IsFiniteSet(T) /\ IsFiniteSet(S \ T)
  BY FS_Subset
<1>2. /\ SumFunctionOnSet(f, S) = Cardinality(Units(f, S))
      /\ SumFunctionOnSet(f, T) = Cardinality(Units(f, T))
      /\ SumFunctionOnSet(f, S \ T) = Cardinality(Units(f, S \ T))
      /\ IsFiniteSet(Units(f, T)) /\ IsFiniteSet(Units(f, S \ T))
  BY <1>1, SumCounts, UnitsFinite
<1>3. Units(f, S) = Units(f, T) \cup Units(f, S \ T)
  BY DEF Units
<1>4. Units(f, T) \cap Units(f, S \ T) = {}
  BY DEF Units
<1>5. /\ Cardinality(Units(f, T)) \in Nat
      /\ Cardinality(Units(f, S \ T)) \in Nat
  BY <1>2, FS_CardinalityType
<1>6. Cardinality(Units(f, T) \cup Units(f, S \ T)) =
        Cardinality(Units(f, T)) + Cardinality(Units(f, S \ T))
                                 - Cardinality(Units(f, T) \cap Units(f, S \ T))
  BY <1>2, FS_Union
<1>7. Cardinality(Units(f, T) \cap Units(f, S \ T)) = 0
  BY <1>4, FS_EmptySet
<1>. QED
  BY <1>2, <1>3, <1>5, <1>6, <1>7

\* A change of one value changes the sum by the difference.
LEMMA SumChanges ==
    ASSUME NEW S, IsFiniteSet(S), NEW f, NEW g, NEW x \in S,
           \A y \in S : f[y] \in Nat /\ g[y] \in Nat,
           \A y \in S \ {x} : g[y] = f[y]
    PROVE  SumFunctionOnSet(g, S) + f[x] = SumFunctionOnSet(f, S) + g[x]
<1>. DEFINE R == S \ {x}
<1>1. IsFiniteSet(R) /\ x \notin R /\ S = R \cup {x}
  BY FS_Subset
<1>2. \A y \in R : f[y] \in Nat /\ g[y] = f[y]
  OBVIOUS
<1>3. \A y \in R \cup {x} : f[y] \in Nat /\ g[y] \in Nat
  OBVIOUS
<1>. HIDE DEF R
<1>4. SumFunctionOnSet(f, R) \in Nat /\ SumFunctionOnSet(g, R) = SumFunctionOnSet(f, R)
  BY <1>1, <1>2, SumType, SumAgrees
<1>5. /\ SumFunctionOnSet(f, S) = f[x] + SumFunctionOnSet(f, R)
      /\ SumFunctionOnSet(g, S) = g[x] + SumFunctionOnSet(g, R)
  BY <1>1, <1>3, SumOfOneMore
<1>. QED
  BY <1>3, <1>4, <1>5

\* Zeros sum to zero.
LEMMA SumOfZeros ==
    ASSUME NEW S, IsFiniteSet(S), NEW f, \A x \in S : f[x] = 0
    PROVE  SumFunctionOnSet(f, S) = 0
<1>1. Units(f, S) = {}
  BY DEF Units
<1>. QED
  BY <1>1, SumCounts, FS_EmptySet
=============================================================================
