------------------------------ MODULE SetLemmas ------------------------------
(***************************************************************************)
(* Finite sets that a step changes by one element, and sums over finite    *)
(* sets (SumFunctionOnSet of the community modules): what the proofs about *)
(* requests, stock and tokens need of them.                                *)
(***************************************************************************)
EXTENDS Functions, FiniteSetTheorems, TLAPS

-----------------------------------------------------------------------------
(* Cardinalities. *)

\* T has no member that is not in S, except perhaps w.
Grows(S, T, w) == \A v \in T : v \in S \/ v = w

\* A set that loses members gets no larger.
LEMMA NoMore ==
    ASSUME NEW S, IsFiniteSet(S), NEW T, \A v \in T : v \in S
    PROVE  /\ IsFiniteSet(T) /\ Cardinality(T) \in Nat /\ Cardinality(S) \in Nat
           /\ Cardinality(T) <= Cardinality(S)
<1>1. T \in SUBSET S
  OBVIOUS
<1> QED
  BY <1>1, FS_Subset, FS_CardinalityType

\* A set that loses w gets smaller.
LEMMA OneLess ==
    ASSUME NEW S, IsFiniteSet(S), NEW w, w \in S, NEW T, \A v \in T : v \in S /\ v # w
    PROVE  /\ IsFiniteSet(T) /\ Cardinality(T) \in Nat /\ Cardinality(S) \in Nat
           /\ Cardinality(T) <= Cardinality(S) - 1
<1>1. IsFiniteSet(S \ {w}) /\ Cardinality(S \ {w}) = Cardinality(S) - 1
  BY FS_RemoveElement
<1>2. T \in SUBSET (S \ {w})
  OBVIOUS
<1> QED
  BY <1>1, <1>2, FS_Subset, FS_CardinalityType

\* A set that only w joins gets larger by one at most.
LEMMA OneMore ==
    ASSUME NEW S, IsFiniteSet(S), NEW w, NEW T, Grows(S, T, w)
    PROVE  /\ IsFiniteSet(T) /\ Cardinality(T) \in Nat /\ Cardinality(S) \in Nat
           /\ Cardinality(T) <= Cardinality(S) + 1
<1>1. IsFiniteSet(S \cup {w})
      /\ Cardinality(S \cup {w}) = IF w \in S THEN Cardinality(S) ELSE Cardinality(S) + 1
  BY FS_AddElement
<1>2. T \in SUBSET (S \cup {w})
  BY DEF Grows
<1>3. Cardinality(S) \in Nat
  BY FS_CardinalityType
<1> QED
  BY <1>1, <1>2, <1>3, FS_Subset, FS_CardinalityType

-----------------------------------------------------------------------------
(* Sums. *)

\* An element of s, always the same one.
Chosen(s) == CHOOSE x \in s : TRUE

\* g is the function that the sum of f over S is defined with.
Sums(g, f, S) ==
    g = [s \in SUBSET S |-> IF s = {} THEN 0 ELSE f[Chosen(s)] + g[s \ {Chosen(s)}]]

\* The definition of the sum, without its folds.
LEMMA SumUnfolds ==
    ASSUME NEW f, NEW S
    PROVE  SumFunctionOnSet(f, S) = (CHOOSE g : Sums(g, f, S))[S]
  BY DEF SumFunctionOnSet, FoldFunctionOnSet, MapThenFoldSet, Sums, Chosen

\* Induction, with a set in place of a predicate.
LEMMA EveryNat ==
    ASSUME NEW T, 0 \in T, \A n \in Nat : n \in T => n + 1 \in T
    PROVE  Nat \subseteq T
<1> DEFINE R == {ss \in Nat \X Nat : ss[1] < ss[2]}
<1>1. IsWellFoundedOn(R, Nat)
  BY NatLessThanWellFounded DEF OpToRel
<1>2. \A n, m \in Nat : n < m => <<n, m>> \in R
  OBVIOUS
<1> HIDE DEF R
<1>3. SUFFICES ASSUME Nat \ T # {} PROVE FALSE
  OBVIOUS
<1>4. PICK m \in Nat \ T : \A n \in Nat \ T : <<n, m>> \notin R
  BY <1>1, <1>3, WFMin
<1>5. m # 0
  OBVIOUS
<1>6. PICK k \in Nat : m = k + 1
  <2>1. m - 1 \in Nat /\ m = (m - 1) + 1
    BY <1>5
  <2> QED
    BY <2>1
<1>7. <<k, m>> \in R
  BY <1>2, <1>6
<1>8. k \in T
  BY <1>4, <1>7
<1> QED
  BY <1>6, <1>8

\* The empty sum.
LEMMA SumOfNothing ==
    ASSUME NEW f
    PROVE  SumFunctionOnSet(f, {}) = 0
  BY DEF SumFunctionOnSet, FoldFunctionOnSet, MapThenFoldSet

\* The defining function exists.
LEMMA SumsExists ==
    ASSUME NEW f, NEW S, IsFiniteSet(S)
    PROVE  \E g : Sums(g, f, S)
<1> DEFINE Body(g, s) == IF s = {} THEN 0 ELSE f[Chosen(s)] + g[s \ {Chosen(s)}]
           UpTo(g, n) == \A s \in SUBSET S : Cardinality(s) <= n => g[s] = Body(g, s)
           T == {n \in Nat : \E g : UpTo(g, n)}
<1>1. \A s \in SUBSET S : IsFiniteSet(s) /\ Cardinality(s) \in Nat /\ (Cardinality(s) = 0 <=> s = {})
  BY FS_Subset, FS_CardinalityType, FS_EmptySet
<1>2. \A s \in SUBSET S : s # {} =>
        /\ Chosen(s) \in s /\ s \ {Chosen(s)} \in SUBSET S
        /\ Cardinality(s \ {Chosen(s)}) = Cardinality(s) - 1
  BY <1>1, FS_RemoveElement DEF Chosen
<1>3. 0 \in T
  <2> DEFINE g == [s \in SUBSET S |-> 0]
  <2>1. UpTo(g, 0)
    BY <1>1
  <2> QED
    BY <2>1
<1>4. ASSUME NEW n \in Nat, n \in T PROVE n + 1 \in T
  <2>1. PICK g : UpTo(g, n)
    BY <1>4
  <2> DEFINE h == [s \in SUBSET S |-> IF Cardinality(s) <= n THEN g[s] ELSE Body(g, s)]
  <2>2. ASSUME NEW s \in SUBSET S, Cardinality(s) <= n + 1 PROVE h[s] = Body(g, s)
    BY <2>1
  <2>3. ASSUME NEW s \in SUBSET S, Cardinality(s) <= n + 1, s # {}
        PROVE  h[s \ {Chosen(s)}] = g[s \ {Chosen(s)}]
    BY <1>1, <1>2, <2>3
  <2>4. UpTo(h, n + 1)
    BY <2>2, <2>3
  <2>5. \E k : UpTo(k, n + 1)
    <3> HIDE DEF h, UpTo
    <3> QED
      BY <2>4
  <2> HIDE DEF UpTo
  <2> QED
    BY <2>5
<1>5. Cardinality(S) \in T
  <2> HIDE DEF T
  <2>1. Nat \subseteq T
    BY <1>3, <1>4, EveryNat
  <2> QED
    BY <2>1, <1>1
<1>6. PICK g : UpTo(g, Cardinality(S))
  BY <1>5
<1> DEFINE h == [s \in SUBSET S |-> g[s]]
<1>7. ASSUME NEW s \in SUBSET S PROVE h[s] = Body(h, s)
  <2>1. Cardinality(s) <= Cardinality(S)
    BY FS_Subset
  <2>2. g[s] = Body(g, s)
    BY <1>6, <2>1
  <2>3. s # {} => h[s \ {Chosen(s)}] = g[s \ {Chosen(s)}]
    BY <1>2
  <2> QED
    BY <2>2, <2>3
<1>8. Sums(h, f, S)
  BY <1>7 DEF Sums
<1> QED
  BY <1>8

\* A set without one of its elements.
LEMMA Removed ==
    ASSUME NEW s, IsFiniteSet(s), NEW n \in Nat, Cardinality(s) = n + 1
    PROVE  s # {} /\ \A x \in s : IsFiniteSet(s \ {x}) /\ Cardinality(s \ {x}) = n
<1>1. s # {}
  BY FS_EmptySet
<1>2. ASSUME NEW x \in s PROVE IsFiniteSet(s \ {x}) /\ Cardinality(s \ {x}) = n
  BY FS_RemoveElement
<1> QED
  BY <1>1, <1>2

\* It is unique, and the one for a part of S is a part of it.
LEMMA SumsUnique ==
    ASSUME NEW f, NEW S, IsFiniteSet(S), NEW U \in SUBSET S, NEW g, NEW h,
           Sums(g, f, S), Sums(h, f, U)
    PROVE  \A s \in SUBSET U : g[s] = h[s]
<1> DEFINE T == {n \in Nat : \A s \in SUBSET U : Cardinality(s) = n => g[s] = h[s]}
<1>1. \A s \in SUBSET U : /\ s \in SUBSET S /\ IsFiniteSet(s) /\ Cardinality(s) \in Nat
                          /\ Cardinality(s) = 0 <=> s = {}
  BY FS_Subset, FS_CardinalityType, FS_EmptySet
<1>2. \A s \in SUBSET U : s # {} =>
        /\ Chosen(s) \in s /\ s \ {Chosen(s)} \in SUBSET U
        /\ Cardinality(s \ {Chosen(s)}) = Cardinality(s) - 1
  BY <1>1, FS_RemoveElement DEF Chosen
<1>3. \A s \in SUBSET U : /\ g[s] = IF s = {} THEN 0 ELSE f[Chosen(s)] + g[s \ {Chosen(s)}]
                          /\ h[s] = IF s = {} THEN 0 ELSE f[Chosen(s)] + h[s \ {Chosen(s)}]
  BY <1>1 DEF Sums
<1>4. 0 \in T
  BY <1>1, <1>3
<1>5. ASSUME NEW n \in Nat, n \in T PROVE n + 1 \in T
  <2> SUFFICES ASSUME NEW s \in SUBSET U, Cardinality(s) = n + 1 PROVE g[s] = h[s]
    OBVIOUS
  <2>1. s # {} /\ Cardinality(s \ {Chosen(s)}) = n
    <3>1. IsFiniteSet(s)
      BY <1>1
    <3>2. s # {} /\ \A x \in s : Cardinality(s \ {x}) = n
      BY <3>1, Removed
    <3> QED
      BY <3>2 DEF Chosen
  <2>2. g[s \ {Chosen(s)}] = h[s \ {Chosen(s)}]
    BY <1>2, <1>5, <2>1
  <2> QED
    BY <1>3, <2>1, <2>2
<1>6. Nat \subseteq T
  <2> HIDE DEF T
  <2> QED
    BY <1>4, <1>5, EveryNat
<1> QED
  BY <1>1, <1>6

\* The sum of f over S, by the element that its definition takes first.
LEMMA SumByChoice ==
    ASSUME NEW f, NEW S, IsFiniteSet(S), S # {}
    PROVE  SumFunctionOnSet(f, S) = f[Chosen(S)] + SumFunctionOnSet(f, S \ {Chosen(S)})
<1> DEFINE U == S \ {Chosen(S)}
           g == CHOOSE g : Sums(g, f, S)
           h == CHOOSE h : Sums(h, f, U)
<1>1. IsFiniteSet(U) /\ U \in SUBSET S
  BY FS_RemoveElement
<1>2. Sums(g, f, S)
  BY SumsExists
<1>3. Sums(h, f, U)
  BY <1>1, SumsExists
<1>4. g[U] = h[U]
  <2> HIDE DEF g, h, U
  <2> QED
    BY <1>1, <1>2, <1>3, SumsUnique
<1>5. g[S] = f[Chosen(S)] + g[U]
  <2> HIDE DEF g
  <2> QED
    BY <1>2 DEF Sums
<1>6. SumFunctionOnSet(f, S) = g[S] /\ SumFunctionOnSet(f, U) = h[U]
  BY SumUnfolds
<1> QED
  BY <1>4, <1>5, <1>6

\* Sums of integers are integers, of naturals naturals.
LEMMA SumType ==
    ASSUME NEW f, NEW S, IsFiniteSet(S), \A x \in S : f[x] \in Int
    PROVE  /\ SumFunctionOnSet(f, S) \in Int
           /\ (\A x \in S : f[x] >= 0) => SumFunctionOnSet(f, S) >= 0
<1> DEFINE Fine(s) == /\ SumFunctionOnSet(f, s) \in Int
                      /\ (\A x \in S : f[x] >= 0) => SumFunctionOnSet(f, s) >= 0
           T == {n \in Nat : \A s \in SUBSET S : Cardinality(s) = n => Fine(s)}
<1>1. \A s \in SUBSET S : IsFiniteSet(s) /\ Cardinality(s) \in Nat /\ (Cardinality(s) = 0 <=> s = {})
  BY FS_Subset, FS_CardinalityType, FS_EmptySet
<1>2. 0 \in T
  BY <1>1, SumOfNothing
<1>3. ASSUME NEW n \in Nat, n \in T PROVE n + 1 \in T
  <2> SUFFICES ASSUME NEW s \in SUBSET S, Cardinality(s) = n + 1 PROVE Fine(s)
    OBVIOUS
  <2> DEFINE c == Chosen(s)
  <2>0. IsFiniteSet(s)
    BY <1>1
  <2>1. s # {} /\ IsFiniteSet(s) /\ \A x \in s : Cardinality(s \ {x}) = n
    BY <2>0, Removed
  <2>2. c \in s
    BY <2>1 DEF Chosen
  <2>3. s \ {c} \in SUBSET S /\ Cardinality(s \ {c}) = n
    BY <2>1, <2>2
  <2>4. Fine(s \ {c})
    BY <1>3, <2>3
  <2>5. SumFunctionOnSet(f, s) = f[c] + SumFunctionOnSet(f, s \ {c})
    BY <2>1, SumByChoice
  <2>6. f[c] \in Int
    BY <2>2
  <2> HIDE DEF c
  <2> QED
    BY <2>2, <2>4, <2>5, <2>6
<1>4. Nat \subseteq T
  <2> HIDE DEF T
  <2> QED
    BY <1>2, <1>3, EveryNat
<1> QED
  BY <1>1, <1>4

\* Any element may be taken first.
LEMMA SumWithout ==
    ASSUME NEW f, NEW S, IsFiniteSet(S), \A x \in S : f[x] \in Int, NEW y \in S
    PROVE  SumFunctionOnSet(f, S) = f[y] + SumFunctionOnSet(f, S \ {y})
<1> DEFINE Any(s) == \A x \in s : SumFunctionOnSet(f, s) = f[x] + SumFunctionOnSet(f, s \ {x})
           T == {n \in Nat : \A s \in SUBSET S : Cardinality(s) = n => Any(s)}
<1>1. \A s \in SUBSET S : IsFiniteSet(s) /\ Cardinality(s) \in Nat /\ (Cardinality(s) = 0 <=> s = {})
  BY FS_Subset, FS_CardinalityType, FS_EmptySet
<1>2. 0 \in T
  BY <1>1
<1>3. ASSUME NEW n \in Nat, n \in T PROVE n + 1 \in T
  <2> SUFFICES ASSUME NEW s \in SUBSET S, Cardinality(s) = n + 1, NEW x \in s
               PROVE  SumFunctionOnSet(f, s) = f[x] + SumFunctionOnSet(f, s \ {x})
    OBVIOUS
  <2> DEFINE c == Chosen(s)
  <2>0. IsFiniteSet(s)
    BY <1>1
  <2>1. s # {} /\ IsFiniteSet(s) /\ \A z \in s : Cardinality(s \ {z}) = n
    BY <2>0, Removed
  <2>2. c \in s
    BY DEF Chosen
  <2>3. SumFunctionOnSet(f, s) = f[c] + SumFunctionOnSet(f, s \ {c})
    BY <2>1, SumByChoice
  <2> HIDE DEF c
  <2>4. CASE x = c
    BY <2>3, <2>4
  <2>5. CASE x # c
    <3>1. /\ s \ {c} \in SUBSET S /\ Cardinality(s \ {c}) = n /\ x \in s \ {c}
          /\ s \ {x} \in SUBSET S /\ Cardinality(s \ {x}) = n /\ c \in s \ {x}
      BY <2>1, <2>2, <2>5
    <3>2. /\ SumFunctionOnSet(f, s \ {c}) = f[x] + SumFunctionOnSet(f, (s \ {c}) \ {x})
          /\ SumFunctionOnSet(f, s \ {x}) = f[c] + SumFunctionOnSet(f, (s \ {x}) \ {c})
      BY <1>3, <3>1
    <3>3. (s \ {c}) \ {x} = (s \ {x}) \ {c}
      OBVIOUS
    <3>4. f[x] \in Int /\ f[c] \in Int
      BY <2>2
    <3>5. SumFunctionOnSet(f, (s \ {x}) \ {c}) \in Int
      <4>1. IsFiniteSet((s \ {x}) \ {c})
        BY <2>1, FS_RemoveElement
      <4> QED
        BY <4>1, SumType
    <3>6. SumFunctionOnSet(f, s) = f[c] + (f[x] + SumFunctionOnSet(f, (s \ {x}) \ {c}))
      BY <2>3, <3>2, <3>3
    <3>7. SumFunctionOnSet(f, s) = f[x] + (f[c] + SumFunctionOnSet(f, (s \ {x}) \ {c}))
      BY <3>4, <3>5, <3>6
    <3> QED
      BY <3>2, <3>7
  <2> QED
    BY <2>4, <2>5
<1>4. Nat \subseteq T
  <2> HIDE DEF T
  <2> QED
    BY <1>2, <1>3, EveryNat
<1> QED
  BY <1>1, <1>4

\* A sum looks at nothing but the values that it adds.
LEMMA SumSame ==
    ASSUME NEW f, NEW g, NEW S, IsFiniteSet(S), \A x \in S : f[x] = g[x]
    PROVE  SumFunctionOnSet(f, S) = SumFunctionOnSet(g, S)
<1> DEFINE T == {n \in Nat : \A s \in SUBSET S : Cardinality(s) = n =>
                     SumFunctionOnSet(f, s) = SumFunctionOnSet(g, s)}
<1>1. \A s \in SUBSET S : IsFiniteSet(s) /\ Cardinality(s) \in Nat /\ (Cardinality(s) = 0 <=> s = {})
  BY FS_Subset, FS_CardinalityType, FS_EmptySet
<1>2. 0 \in T
  BY <1>1, SumOfNothing
<1>3. ASSUME NEW n \in Nat, n \in T PROVE n + 1 \in T
  <2> SUFFICES ASSUME NEW s \in SUBSET S, Cardinality(s) = n + 1
               PROVE  SumFunctionOnSet(f, s) = SumFunctionOnSet(g, s)
    OBVIOUS
  <2> DEFINE c == Chosen(s)
  <2>1. IsFiniteSet(s)
    BY <1>1
  <2>2. s # {} /\ \A z \in s : Cardinality(s \ {z}) = n
    BY <2>1, Removed
  <2>3. c \in s
    BY <2>2 DEF Chosen
  <2>4. /\ SumFunctionOnSet(f, s) = f[c] + SumFunctionOnSet(f, s \ {c})
        /\ SumFunctionOnSet(g, s) = g[c] + SumFunctionOnSet(g, s \ {c})
    BY <2>1, <2>2, SumByChoice
  <2> HIDE DEF c
  <2>5. SumFunctionOnSet(f, s \ {c}) = SumFunctionOnSet(g, s \ {c})
    BY <1>3, <2>2, <2>3
  <2> QED
    BY <2>3, <2>4, <2>5
<1>4. Nat \subseteq T
  <2> HIDE DEF T
  <2> QED
    BY <1>2, <1>3, EveryNat
<1> QED
  BY <1>1, <1>4

\* One more element.
LEMMA SumWith ==
    ASSUME NEW f, NEW S, IsFiniteSet(S), NEW y, y \notin S, \A x \in S \cup {y} : f[x] \in Int
    PROVE  SumFunctionOnSet(f, S \cup {y}) = SumFunctionOnSet(f, S) + f[y]
<1>1. IsFiniteSet(S \cup {y})
  BY FS_AddElement
<1>2. SumFunctionOnSet(f, S \cup {y}) = f[y] + SumFunctionOnSet(f, (S \cup {y}) \ {y})
  BY <1>1, SumWithout
<1>3. (S \cup {y}) \ {y} = S
  OBVIOUS
<1>4. SumFunctionOnSet(f, S) \in Int /\ f[y] \in Int
  BY SumType
<1>5. SumFunctionOnSet(f, S \cup {y}) = f[y] + SumFunctionOnSet(f, S)
  BY <1>2, <1>3
<1> QED
  BY <1>4, <1>5

\* A value that changes.
LEMMA SumChanged ==
    ASSUME NEW f, NEW g, NEW S, IsFiniteSet(S), NEW y \in S,
           \A x \in S : f[x] \in Int /\ g[x] \in Int,
           \A x \in S \ {y} : g[x] = f[x]
    PROVE  SumFunctionOnSet(g, S) = SumFunctionOnSet(f, S) - f[y] + g[y]
<1>1. IsFiniteSet(S \ {y})
  BY FS_RemoveElement
<1>2. /\ SumFunctionOnSet(f, S) = f[y] + SumFunctionOnSet(f, S \ {y})
      /\ SumFunctionOnSet(g, S) = g[y] + SumFunctionOnSet(g, S \ {y})
  BY SumWithout
<1>3. SumFunctionOnSet(f, S \ {y}) = SumFunctionOnSet(g, S \ {y})
  BY <1>1, SumSame
<1>4. SumFunctionOnSet(f, S \ {y}) \in Int
  BY <1>1, SumType
<1> QED
  BY <1>2, <1>3, <1>4

\* Sums of zeros.
LEMMA SumOfZeros ==
    ASSUME NEW f, NEW S, IsFiniteSet(S), \A x \in S : f[x] = 0
    PROVE  SumFunctionOnSet(f, S) = 0
<1> DEFINE T == {n \in Nat : \A s \in SUBSET S : Cardinality(s) = n => SumFunctionOnSet(f, s) = 0}
<1>1. \A s \in SUBSET S : IsFiniteSet(s) /\ Cardinality(s) \in Nat /\ (Cardinality(s) = 0 <=> s = {})
  BY FS_Subset, FS_CardinalityType, FS_EmptySet
<1>2. 0 \in T
  BY <1>1, SumOfNothing
<1>3. ASSUME NEW n \in Nat, n \in T PROVE n + 1 \in T
  <2> SUFFICES ASSUME NEW s \in SUBSET S, Cardinality(s) = n + 1 PROVE SumFunctionOnSet(f, s) = 0
    OBVIOUS
  <2> DEFINE c == Chosen(s)
  <2>1. IsFiniteSet(s)
    BY <1>1
  <2>2. s # {} /\ \A z \in s : Cardinality(s \ {z}) = n
    BY <2>1, Removed
  <2>3. c \in s
    BY <2>2 DEF Chosen
  <2>4. SumFunctionOnSet(f, s) = f[c] + SumFunctionOnSet(f, s \ {c})
    BY <2>1, <2>2, SumByChoice
  <2> HIDE DEF c
  <2>5. SumFunctionOnSet(f, s \ {c}) = 0
    BY <1>3, <2>2, <2>3
  <2> QED
    BY <2>3, <2>4, <2>5
<1>4. Nat \subseteq T
  <2> HIDE DEF T
  <2> QED
    BY <1>2, <1>3, EveryNat
<1> QED
  BY <1>1, <1>4

\* A sum of naturals is at least each of them.
LEMMA SumAtLeast ==
    ASSUME NEW f, NEW S, IsFiniteSet(S), \A x \in S : f[x] \in Nat, NEW y \in S
    PROVE  SumFunctionOnSet(f, S) >= f[y]
<1>1. SumFunctionOnSet(f, S) = f[y] + SumFunctionOnSet(f, S \ {y})
  BY SumWithout
<1>2. SumFunctionOnSet(f, S \ {y}) \in Int /\ SumFunctionOnSet(f, S \ {y}) >= 0
  BY FS_RemoveElement, SumType
<1> QED
  BY <1>1, <1>2

\* R lists the members of I, each once, and g of the i-th one is f of i.
Lists(R, n, I, f, g) ==
    /\ R \in [1 .. n -> I]
    /\ \A x \in I : \E i \in 1 .. n : x = R[i]
    /\ \A i, j \in 1 .. n : i # j => R[i] # R[j]
    /\ \A i \in 1 .. n : f[i] \in Int /\ g[R[i]] = f[i]

\* A sum may be taken along a list of the members.
LEMMA SumOfList ==
    ASSUME NEW n \in Nat, NEW R, NEW I, NEW f, NEW g, Lists(R, n, I, f, g)
    PROVE  IsFiniteSet(I) /\ SumFunctionOnSet(g, I) = SumFunctionOnSet(f, 1 .. n)
<1> USE DEF Lists
<1> DEFINE Im(k) == {R[i] : i \in 1 .. k}
           Same(k) == /\ IsFiniteSet(Im(k))
                      /\ SumFunctionOnSet(g, Im(k)) = SumFunctionOnSet(f, 1 .. k)
           T == {k \in Nat : k <= n => Same(k)}
<1>1. 0 \in T
  <2>1. Im(0) = {} /\ 1 .. 0 = {}
    OBVIOUS
  <2>2. Same(0)
    BY <2>1, SumOfNothing, FS_EmptySet
  <2> QED
    BY <2>2
<1>2. ASSUME NEW k \in Nat, k \in T PROVE k + 1 \in T
  <2> SUFFICES ASSUME k + 1 <= n PROVE Same(k + 1)
    OBVIOUS
  <2>1. Same(k)
    BY <1>2
  <2>2. Im(k + 1) = Im(k) \cup {R[k + 1]} /\ 1 .. k + 1 = (1 .. k) \cup {k + 1}
    OBVIOUS
  <2>3. R[k + 1] \notin Im(k) /\ k + 1 \notin 1 .. k
    OBVIOUS
  <2>4. \A x \in Im(k) \cup {R[k + 1]} : g[x] \in Int
    OBVIOUS
  <2>5. \A x \in (1 .. k) \cup {k + 1} : f[x] \in Int
    OBVIOUS
  <2>6. IsFiniteSet(1 .. k)
    BY FS_Interval
  <2>7. g[R[k + 1]] = f[k + 1]
    OBVIOUS
  <2> HIDE DEF Im
  <2>8. /\ IsFiniteSet(Im(k) \cup {R[k + 1]})
        /\ SumFunctionOnSet(g, Im(k) \cup {R[k + 1]}) = SumFunctionOnSet(g, Im(k)) + g[R[k + 1]]
    BY <2>1, <2>3, <2>4, FS_AddElement, SumWith
  <2> DEFINE J == 1 .. k
  <2> HIDE DEF J
  <2>9. SumFunctionOnSet(f, J \cup {k + 1}) = SumFunctionOnSet(f, J) + f[k + 1]
    <3>1. IsFiniteSet(J) /\ k + 1 \notin J /\ \A x \in J \cup {k + 1} : f[x] \in Int
      BY <2>3, <2>5, <2>6 DEF J
    <3> QED
      BY <3>1, SumWith
  <2> QED
    BY <2>1, <2>2, <2>7, <2>8, <2>9 DEF J
<1>3. Nat \subseteq T
  <2> HIDE DEF T
  <2> QED
    BY <1>1, <1>2, EveryNat
<1>4. Same(n) /\ I = Im(n)
  BY <1>3
<1> QED
  BY <1>4
=============================================================================
