----------------------------- MODULE SumTheorems -----------------------------
(***************************************************************************)
(* Facts about SumFunction, in which the models of the two benchmarks      *)
(* state what their threads' counters add up to.  An induction is made     *)
(* over a set (the numbers, or the subsets, that a claim holds of).        *)
(***************************************************************************)
EXTENDS Functions, FiniteSetTheorems, TLAPS

\* Induction: a set of numbers that has 0, and of each number the next, has all.
LEMMA AllNaturals ==
    ASSUME NEW A \in SUBSET Nat, 0 \in A, \A m \in A : m + 1 \in A
    PROVE  A = Nat
<1> DEFINE R == OpToRel(<, Nat)
<1>1. IsWellFoundedOn(R, Nat)
    BY NatLessThanWellFounded
<1>2. \A x, y \in Nat : x < y => <<x, y>> \in R
    BY DEF OpToRel
<1> HIDE DEF R
<1> SUFFICES ASSUME Nat \ A # {} PROVE FALSE
    OBVIOUS
<1>3. PICK m \in Nat \ A : \A y \in Nat \ A : ~ (<<y, m>> \in R)
    BY <1>1, WFMin, Zenon
<1>4. m - 1 \in Nat /\ m - 1 < m
    BY <1>3
<1>5. m - 1 \in A
    BY <1>2, <1>3, <1>4, Zenon
<1> QED BY <1>3, <1>5

\* Induction over a finite set, from its subsets.
LEMMA AllOfFinite ==
    ASSUME NEW S, IsFiniteSet(S), NEW A \in SUBSET (SUBSET S),
           {} \in A, \A T \in A : \A x \in S \ T : T \cup {x} \in A
    PROVE  \A T \in SUBSET S : T \in A
<1> DEFINE B == {m \in Nat : \A T \in SUBSET S : Cardinality(T) = m => T \in A}
<1>1. \A T \in SUBSET S : IsFiniteSet(T) /\ Cardinality(T) \in Nat
    BY FS_Subset, FS_CardinalityType
<1>2. 0 \in B
    BY <1>1, FS_EmptySet
<1>3. ASSUME NEW m \in B PROVE m + 1 \in B
  <2> SUFFICES ASSUME NEW T \in SUBSET S, Cardinality(T) = m + 1 PROVE T \in A
      OBVIOUS
  <2>1. m \in Nat /\ (\A U \in SUBSET S : Cardinality(U) = m => U \in A)
      OBVIOUS
  <2> HIDE DEF B
  <2>2. PICK x : x \in T
    <3>1. Cardinality(T) # 0
        BY <2>1
    <3> QED BY <3>1, FS_EmptySet
  <2>3. Cardinality(T \ {x}) = m /\ T \ {x} \in SUBSET S
    <3>1. Cardinality(T \ {x}) = Cardinality(T) - 1
        BY <1>1, <2>2, FS_RemoveElement
    <3> QED BY <2>1, <3>1
  <2>4. T \ {x} \in A
      BY <2>1, <2>3
  <2>5. T = (T \ {x}) \cup {x} /\ x \in S \ (T \ {x})
      BY <2>2
  <2> QED BY <2>4, <2>5
<1> HIDE DEF B
<1>4. B = Nat
    BY <1>2, <1>3, AllNaturals DEF B
<1>5. \A T \in SUBSET S : Cardinality(T) \in B
    BY <1>1, <1>4
<1> QED BY <1>5 DEF B

-------------------------------------------------------------------------------
(* The fold *)

\* h is the function that the fold of f over S defines.
Folds(h, f, S) ==
    h = [s \in SUBSET S |->
            IF s = {} THEN 0
            ELSE LET x == CHOOSE y \in s : TRUE IN f[x] + h[s \ {x}]]

LEMMA SumIsFold ==
    ASSUME NEW f, NEW S
    PROVE  SumFunctionOnSet(f, S) = (CHOOSE h : Folds(h, f, S))[S]
BY DEF SumFunctionOnSet, FoldFunctionOnSet, MapThenFoldSet, Folds

\* What the fold says of a set, in two parts.
LEMMA FoldsEmpty ==
    ASSUME NEW h, NEW f, NEW S, Folds(h, f, S)
    PROVE  h[{}] = 0
BY DEF Folds

LEMMA FoldsNonempty ==
    ASSUME NEW h, NEW f, NEW S, Folds(h, f, S), NEW s \in SUBSET S, s # {}
    PROVE  LET x == CHOOSE y \in s : TRUE
           IN  x \in s /\ h[s] = f[x] + h[s \ {x}]
BY DEF Folds

\* There is such a function: it is built up from the smaller sets to the larger.
LEMMA FoldExists ==
    ASSUME NEW S, IsFiniteSet(S), NEW f, \A x \in S : f[x] \in Int
    PROVE  \E h \in [SUBSET S -> Int] : Folds(h, f, S)
<1> DEFINE first(s) == CHOOSE y \in s : TRUE
           value(h, s) == IF s = {} THEN 0 ELSE f[first(s)] + h[s \ {first(s)}]
           upTo(k, h) == \A s \in SUBSET S : Cardinality(s) <= k => h[s] = value(h, s)
           some(k) == \E h \in [SUBSET S -> Int] : upTo(k, h)
           B == {k \in Nat : some(k)}
<1>1. \A s \in SUBSET S : IsFiniteSet(s) /\ Cardinality(s) \in Nat
    BY FS_Subset, FS_CardinalityType
<1>2. \A s \in SUBSET S : s # {} =>
        /\ first(s) \in s /\ s \ {first(s)} \in SUBSET S
        /\ Cardinality(s \ {first(s)}) = Cardinality(s) - 1
    BY <1>1, FS_RemoveElement
<1>3. \A h \in [SUBSET S -> Int] : \A s \in SUBSET S : value(h, s) \in Int
    BY <1>2
<1> HIDE DEF first
<1>4. 0 \in B
  <2> DEFINE h == [s \in SUBSET S |-> 0]
  <2>1. h \in [SUBSET S -> Int]
      OBVIOUS
  <2>2. \A s \in SUBSET S : Cardinality(s) <= 0 => s = {}
      BY <1>1, FS_EmptySet
  <2>3. upTo(0, h)
      BY <2>2
  <2> QED BY <2>1, <2>3
<1>5. ASSUME NEW k \in B PROVE k + 1 \in B
  <2>1. k \in Nat
      OBVIOUS
  <2>2. PICK h \in [SUBSET S -> Int] : upTo(k, h)
      OBVIOUS
  <2> DEFINE g == [s \in SUBSET S |-> IF Cardinality(s) <= k THEN h[s] ELSE value(h, s)]
  <2>3. g \in [SUBSET S -> Int]
      BY <1>3, <2>2
  <2>4. \A s \in SUBSET S : g[s] = value(h, s)
      BY <2>2
  <2>5. ASSUME NEW s \in SUBSET S, Cardinality(s) <= k + 1 PROVE g[s] = value(g, s)
    <3>1. CASE s = {}
        BY <2>4, <3>1
    <3>2. CASE s # {}
      <4>1. Cardinality(s \ {first(s)}) <= k /\ s \ {first(s)} \in SUBSET S
          BY <1>1, <1>2, <2>1, <2>5, <3>2
      <4>2. g[s \ {first(s)}] = h[s \ {first(s)}]
          BY <4>1
      <4>3. value(g, s) = value(h, s)
          BY <3>2, <4>2
      <4> QED BY <2>4, <4>3
    <3> QED BY <3>1, <3>2
  <2>6. upTo(k + 1, g)
      BY <2>5
  <2> HIDE DEF g
  <2>7. some(k + 1)
      BY <2>3, <2>6
  <2> HIDE DEF some
  <2> QED BY <2>1, <2>7
<1> HIDE DEF B
<1>6. B = Nat
    BY <1>4, <1>5, AllNaturals DEF B
<1>7. Cardinality(S) \in B
    BY <1>1, <1>6
<1>8. PICK h \in [SUBSET S -> Int] : upTo(Cardinality(S), h)
    BY <1>7 DEF B
<1>9. \A s \in SUBSET S : Cardinality(s) <= Cardinality(S)
    BY FS_Subset
<1>10. \A s \in SUBSET S : h[s] = value(h, s)
    BY <1>8, <1>9
<1>11. h = [s \in SUBSET S |-> value(h, s)]
    BY <1>8, <1>10
<1>12. Folds(h, f, S)
    BY <1>11 DEF Folds, first
<1> QED BY <1>8, <1>12

\* It is the only one, and only looks at the values of f in the set.
LEMMA FoldsAgree ==
    ASSUME NEW S, IsFiniteSet(S), NEW T \in SUBSET S, NEW f, NEW g,
           \A x \in T : f[x] = g[x],
           NEW h, Folds(h, f, S), NEW j, Folds(j, g, T)
    PROVE  \A s \in SUBSET T : h[s] = j[s]
<1> DEFINE B == {k \in Nat : \A s \in SUBSET T : Cardinality(s) = k => h[s] = j[s]}
<1>1. \A s \in SUBSET T : IsFiniteSet(s) /\ Cardinality(s) \in Nat
    BY FS_Subset, FS_CardinalityType
<1>2. 0 \in B
  <2>1. \A s \in SUBSET T : Cardinality(s) = 0 => s = {}
      BY <1>1, FS_EmptySet
  <2>2. h[{}] = 0 /\ j[{}] = 0
      BY FoldsEmpty
  <2> QED BY <2>1, <2>2
<1>3. ASSUME NEW k \in B PROVE k + 1 \in B
  <2>1. k \in Nat /\ \A s \in SUBSET T : Cardinality(s) = k => h[s] = j[s]
      OBVIOUS
  <2>2. ASSUME NEW s \in SUBSET T, Cardinality(s) = k + 1 PROVE h[s] = j[s]
    <3> DEFINE x == CHOOSE y \in s : TRUE
    <3>1. s # {}
      <4>1. Cardinality(s) # 0
          BY <2>1, <2>2
      <4> QED BY <4>1, FS_EmptySet
    <3>2. x \in s /\ h[s] = f[x] + h[s \ {x}]
        BY <3>1, FoldsNonempty
    <3>3. j[s] = g[x] + j[s \ {x}]
        BY <3>1, FoldsNonempty
    <3> HIDE DEF x
    <3>4. Cardinality(s \ {x}) = k
      <4>1. Cardinality(s \ {x}) = Cardinality(s) - 1
          BY <1>1, <3>2, FS_RemoveElement
      <4> QED BY <2>1, <2>2, <4>1
    <3>5. h[s \ {x}] = j[s \ {x}]
        BY <2>1, <3>4
    <3> QED BY <3>2, <3>3, <3>5
  <2> QED BY <2>1, <2>2
<1> HIDE DEF B
<1>4. B = Nat
    BY <1>2, <1>3, AllNaturals DEF B
<1>5. \A s \in SUBSET T : Cardinality(s) \in B
    BY <1>1, <1>4
<1> QED BY <1>5 DEF B

-------------------------------------------------------------------------------
(* Sums *)

LEMMA SumOnFold ==
    ASSUME NEW S, IsFiniteSet(S), NEW f, \A x \in S : f[x] \in Int,
           NEW h, Folds(h, f, S)
    PROVE  \A T \in SUBSET S : SumFunctionOnSet(f, T) = h[T]
<1> SUFFICES ASSUME NEW T \in SUBSET S PROVE SumFunctionOnSet(f, T) = h[T]
    OBVIOUS
<1> DEFINE j == CHOOSE j : Folds(j, f, T)
<1>1. IsFiniteSet(T)
    BY FS_Subset
<1>2. \E i : Folds(i, f, T)
    BY <1>1, FoldExists
<1>3. Folds(j, f, T)
    BY <1>2
<1>4. SumFunctionOnSet(f, T) = j[T]
    BY SumIsFold
<1> HIDE DEF j
<1>5. h[T] = j[T]
    BY <1>3, FoldsAgree
<1> QED BY <1>4, <1>5

LEMMA SumType ==
    ASSUME NEW S, IsFiniteSet(S), NEW f, \A x \in S : f[x] \in Int
    PROVE  SumFunctionOnSet(f, S) \in Int
<1>1. PICK h \in [SUBSET S -> Int] : Folds(h, f, S)
    BY FoldExists
<1>2. SumFunctionOnSet(f, S) = h[S]
    BY <1>1, SumOnFold
<1> QED BY <1>1, <1>2

LEMMA SumEmpty ==
    ASSUME NEW f
    PROVE  SumFunctionOnSet(f, {}) = 0
<1>1. IsFiniteSet({}) /\ \A x \in {} : f[x] \in Int
    BY FS_EmptySet
<1>2. PICK h : Folds(h, f, {})
    BY <1>1, FoldExists
<1>3. SumFunctionOnSet(f, {}) = h[{}]
    BY <1>1, <1>2, SumOnFold
<1> QED BY <1>2, <1>3, FoldsEmpty

\* A sum only depends on the values of the function in the set.
LEMMA SumSame ==
    ASSUME NEW S, IsFiniteSet(S), NEW f, NEW g, \A x \in S : f[x] \in Int /\ f[x] = g[x]
    PROVE  SumFunctionOnSet(f, S) = SumFunctionOnSet(g, S)
<1>1. PICK h : Folds(h, f, S)
    BY FoldExists
<1>2. PICK j : Folds(j, g, S)
    BY FoldExists
<1>3. SumFunctionOnSet(f, S) = h[S]
    BY <1>1, SumOnFold
<1>4. SumFunctionOnSet(g, S) = j[S]
    BY <1>2, SumOnFold
<1>5. h[S] = j[S]
    BY <1>1, <1>2, FoldsAgree
<1> QED BY <1>3, <1>4, <1>5

\* Any element can be taken out first, whichever the fold takes.
LEMMA SumTakeOut ==
    ASSUME NEW S, IsFiniteSet(S), NEW f, \A x \in S : f[x] \in Int
    PROVE  \A T \in SUBSET S : \A x \in T :
              SumFunctionOnSet(f, T) = f[x] + SumFunctionOnSet(f, T \ {x})
<1>1. PICK h \in [SUBSET S -> Int] : Folds(h, f, S)
    BY FoldExists
<1>2. \A T \in SUBSET S : SumFunctionOnSet(f, T) = h[T]
    BY <1>1, SumOnFold
<1> DEFINE out(T) == \A x \in T : h[T] = f[x] + h[T \ {x}]
           B == {k \in Nat : \A T \in SUBSET S : Cardinality(T) = k => out(T)}
<1>3. \A T \in SUBSET S : IsFiniteSet(T) /\ Cardinality(T) \in Nat
    BY FS_Subset, FS_CardinalityType
<1>4. 0 \in B
  <2>1. \A T \in SUBSET S : Cardinality(T) = 0 => T = {}
      BY <1>3, FS_EmptySet
  <2> QED BY <2>1
<1>5. ASSUME NEW k \in B PROVE k + 1 \in B
  <2>1. k \in Nat /\ \A T \in SUBSET S : Cardinality(T) = k => out(T)
      OBVIOUS
  <2>2. ASSUME NEW T \in SUBSET S, Cardinality(T) = k + 1, NEW x \in T
        PROVE  h[T] = f[x] + h[T \ {x}]
    <3> DEFINE y == CHOOSE z \in T : TRUE
    <3>1. y \in T /\ h[T] = f[y] + h[T \ {y}]
        BY <1>1, FoldsNonempty
    <3> HIDE DEF y
    <3>2. \A z \in T : Cardinality(T \ {z}) = k /\ T \ {z} \in SUBSET S
      <4> SUFFICES ASSUME NEW z \in T PROVE Cardinality(T \ {z}) = k
          OBVIOUS
      <4>1. Cardinality(T \ {z}) = Cardinality(T) - 1
          BY <1>3, FS_RemoveElement
      <4> QED BY <2>1, <2>2, <4>1
    <3>3. CASE x # y
      <4>1. h[T \ {y}] = f[x] + h[(T \ {y}) \ {x}]
          BY <2>1, <3>1, <3>2, <3>3
      <4>2. h[T \ {x}] = f[y] + h[(T \ {x}) \ {y}]
          BY <2>1, <3>1, <3>2, <3>3
      <4>3. (T \ {x}) \ {y} = (T \ {y}) \ {x}
          OBVIOUS
      <4> DEFINE a == f[x]
                 b == f[y]
                 rest == h[(T \ {y}) \ {x}]
      <4>4. rest \in Int /\ a \in Int /\ b \in Int
          BY <1>1, <3>1
      <4>5. h[T] = b + (a + rest)
          BY <3>1, <4>1
      <4>6. h[T \ {x}] = b + rest
          BY <4>2, <4>3
      <4> HIDE DEF a, b, rest
      <4>7. h[T] = a + h[T \ {x}]
          BY <4>4, <4>5, <4>6
      <4> QED BY <4>7 DEF a
    <3> QED BY <3>1, <3>3
  <2>3. k + 1 \in Nat /\ \A T \in SUBSET S : Cardinality(T) = k + 1 => out(T)
      BY <2>1, <2>2
  <2> QED BY <2>3
<1> HIDE DEF B
<1>6. B = Nat
    BY <1>4, <1>5, AllNaturals DEF B
<1>7. \A T \in SUBSET S : Cardinality(T) \in B
    BY <1>3, <1>6
<1>8. \A T \in SUBSET S : out(T)
    BY <1>7 DEF B
<1> QED BY <1>2, <1>8

-------------------------------------------------------------------------------
(* Sums of the values of a function *)

\* One value changes, and the sum by as much.
LEMMA SumOneChanges ==
    ASSUME NEW S, IsFiniteSet(S), NEW f, NEW g, NEW x \in S,
           \A y \in S : f[y] \in Int /\ g[y] \in Int,
           \A y \in S \ {x} : f[y] = g[y]
    PROVE  SumFunctionOnSet(g, S) = SumFunctionOnSet(f, S) + g[x] - f[x]
<1> DEFINE R == S \ {x}
           restf == SumFunctionOnSet(f, R)
           restg == SumFunctionOnSet(g, R)
           fx == f[x]
           gx == g[x]
<1>1. IsFiniteSet(R)
    BY FS_RemoveElement
<1>2. restf = restg
    BY <1>1, SumSame
<1>3. restf \in Int /\ fx \in Int /\ gx \in Int
    BY <1>1, SumType
<1>4. SumFunctionOnSet(f, S) = fx + restf
    BY SumTakeOut
<1>5. SumFunctionOnSet(g, S) = gx + restg
    BY SumTakeOut
<1> HIDE DEF restf, restg, fx, gx
<1>6. SumFunctionOnSet(g, S) = SumFunctionOnSet(f, S) + gx - fx
    BY <1>2, <1>3, <1>4, <1>5
<1> QED BY <1>6 DEF gx, fx

\* An element is added.
LEMMA SumAddElement ==
    ASSUME NEW S, IsFiniteSet(S), NEW f, NEW x, x \notin S, f[x] \in Int,
           \A y \in S : f[y] \in Int
    PROVE  SumFunctionOnSet(f, S \cup {x}) = SumFunctionOnSet(f, S) + f[x]
<1> DEFINE T == S \cup {x}
           rest == SumFunctionOnSet(f, S)
           fx == f[x]
<1>1. IsFiniteSet(T)
    BY FS_AddElement
<1>2. \A y \in T : f[y] \in Int
    OBVIOUS
<1>3. T \ {x} = S /\ x \in T
    OBVIOUS
<1>4. SumFunctionOnSet(f, T) = f[x] + SumFunctionOnSet(f, T \ {x})
    BY <1>1, <1>2, <1>3, SumTakeOut
<1>5. SumFunctionOnSet(f, T) = fx + rest
    BY <1>3, <1>4
<1>6. rest \in Int /\ fx \in Int
    BY SumType
<1> HIDE DEF rest, fx
<1>7. SumFunctionOnSet(f, T) = rest + fx
    BY <1>5, <1>6
<1> QED BY <1>7 DEF rest, fx

\* The sum of the sums of two functions.
LEMMA SumOfTwo ==
    ASSUME NEW S, IsFiniteSet(S), NEW f, NEW g, NEW h,
           \A y \in S : f[y] \in Int /\ g[y] \in Int /\ h[y] = f[y] + g[y]
    PROVE  SumFunctionOnSet(h, S) = SumFunctionOnSet(f, S) + SumFunctionOnSet(g, S)
<1> DEFINE sum(e, T) == SumFunctionOnSet(e, T)
           A == {T \in SUBSET S : sum(h, T) = sum(f, T) + sum(g, T)}
<1>1. \A T \in SUBSET S : IsFiniteSet(T)
    BY FS_Subset
<1>2. {} \in A
    BY SumEmpty
<1>3. ASSUME NEW T \in A, NEW x \in S \ T PROVE T \cup {x} \in A
  <2> DEFINE fx == f[x]
             gx == g[x]
             hx == h[x]
  <2>1. IsFiniteSet(T) /\ T \cup {x} \in SUBSET S
      BY <1>1
  <2>2. fx \in Int /\ gx \in Int /\ hx = fx + gx
      OBVIOUS
  <2>3. sum(f, T) \in Int /\ sum(g, T) \in Int
      BY <2>1, SumType
  <2>4. \A y \in T : f[y] \in Int /\ g[y] \in Int /\ h[y] \in Int
      OBVIOUS
  <2>5. sum(f, T \cup {x}) = sum(f, T) + fx
    <3>1. f[x] \in Int /\ \A y \in T : f[y] \in Int
        BY <2>2, <2>4
    <3> QED BY <2>1, <3>1, SumAddElement
  <2>6. sum(g, T \cup {x}) = sum(g, T) + gx
    <3>1. g[x] \in Int /\ \A y \in T : g[y] \in Int
        BY <2>2, <2>4
    <3> QED BY <2>1, <3>1, SumAddElement
  <2>7. sum(h, T \cup {x}) = sum(h, T) + hx
    <3>1. h[x] \in Int /\ \A y \in T : h[y] \in Int
        BY <2>2, <2>4
    <3> QED BY <2>1, <3>1, SumAddElement
  <2>8. sum(h, T) = sum(f, T) + sum(g, T)
      OBVIOUS
  <2> HIDE DEF sum, fx, gx, hx
  <2>9. sum(h, T \cup {x}) = sum(f, T \cup {x}) + sum(g, T \cup {x})
      BY <2>2, <2>3, <2>5, <2>6, <2>7, <2>8
  <2> QED BY <2>1, <2>9
<1> HIDE DEF A
<1>4. S \in A
    BY <1>2, <1>3, AllOfFinite DEF A
<1> QED BY <1>4 DEF A

\* Smaller values have a smaller sum.
LEMMA SumMonotonic ==
    ASSUME NEW S, IsFiniteSet(S), NEW f, NEW g,
           \A y \in S : f[y] \in Int /\ g[y] \in Int /\ f[y] <= g[y]
    PROVE  SumFunctionOnSet(f, S) <= SumFunctionOnSet(g, S)
<1> DEFINE sum(e, T) == SumFunctionOnSet(e, T)
           A == {T \in SUBSET S : sum(f, T) <= sum(g, T)}
<1>1. \A T \in SUBSET S : IsFiniteSet(T)
    BY FS_Subset
<1>2. {} \in A
    BY SumEmpty
<1>3. ASSUME NEW T \in A, NEW x \in S \ T PROVE T \cup {x} \in A
  <2> DEFINE fx == f[x]
             gx == g[x]
  <2>1. IsFiniteSet(T) /\ T \cup {x} \in SUBSET S
      BY <1>1
  <2>2. fx \in Int /\ gx \in Int /\ fx <= gx
      OBVIOUS
  <2>3. sum(f, T) \in Int /\ sum(g, T) \in Int
      BY <2>1, SumType
  <2>4. sum(f, T \cup {x}) = sum(f, T) + fx
      BY <2>1, SumAddElement
  <2>5. sum(g, T \cup {x}) = sum(g, T) + gx
      BY <2>1, SumAddElement
  <2>6. sum(f, T) <= sum(g, T)
      OBVIOUS
  <2> HIDE DEF sum, fx, gx
  <2>7. sum(f, T \cup {x}) <= sum(g, T \cup {x})
      BY <2>2, <2>3, <2>4, <2>5, <2>6
  <2> QED BY <2>1, <2>7
<1> HIDE DEF A
<1>4. S \in A
    BY <1>2, <1>3, AllOfFinite DEF A
<1> QED BY <1>4 DEF A

\* All values are the same.
LEMMA SumConstant ==
    ASSUME NEW S, IsFiniteSet(S), NEW f, NEW m \in Int, \A y \in S : f[y] = m
    PROVE  SumFunctionOnSet(f, S) = Cardinality(S) * m
<1> DEFINE sum(T) == SumFunctionOnSet(f, T)
           A == {T \in SUBSET S : sum(T) = Cardinality(T) * m}
<1>1. \A T \in SUBSET S : IsFiniteSet(T) /\ Cardinality(T) \in Nat
    BY FS_Subset, FS_CardinalityType
<1>2. {} \in A
    BY SumEmpty, FS_EmptySet
<1>3. ASSUME NEW T \in A, NEW x \in S \ T PROVE T \cup {x} \in A
  <2> DEFINE size == Cardinality(T)
  <2>1. IsFiniteSet(T) /\ T \cup {x} \in SUBSET S /\ size \in Nat
      BY <1>1
  <2>2. sum(T \cup {x}) = sum(T) + f[x]
    <3>1. f[x] \in Int /\ \A y \in T : f[y] \in Int
        OBVIOUS
    <3> QED BY <2>1, <3>1, SumAddElement
  <2>3. Cardinality(T \cup {x}) = size + 1
      BY <2>1, FS_AddElement
  <2>4. sum(T) = size * m /\ f[x] = m
      OBVIOUS
  <2> HIDE DEF sum, size
  <2>5. (size + 1) * m = size * m + m
      BY <2>1
  <2>6. sum(T \cup {x}) = Cardinality(T \cup {x}) * m
      BY <2>2, <2>3, <2>4, <2>5
  <2> QED BY <2>1, <2>6
<1> HIDE DEF A
<1>4. S \in A
    BY <1>2, <1>3, AllOfFinite DEF A
<1> QED BY <1>4 DEF A

LEMMA SumNat ==
    ASSUME NEW S, IsFiniteSet(S), NEW f, \A y \in S : f[y] \in Nat
    PROVE  SumFunctionOnSet(f, S) \in Nat
<1> DEFINE none == [y \in S |-> 0]
           zero == SumFunctionOnSet(none, S)
           sum == SumFunctionOnSet(f, S)
<1>1. sum \in Int
    BY SumType
<1>2. \A y \in S : none[y] = 0
    OBVIOUS
<1>3. zero = Cardinality(S) * 0
  <2> HIDE DEF none
  <2>1. 0 \in Int
    OBVIOUS
  <2> QED BY ONLY <1>2, <2>1, IsFiniteSet(S), SumConstant
<1>4. zero = 0
    BY <1>3, FS_CardinalityType
<1>5. \A y \in S : none[y] \in Int /\ f[y] \in Int /\ none[y] <= f[y]
    BY <1>2
<1>6. zero <= sum
  <2> HIDE DEF none
  <2> QED BY ONLY <1>5, IsFiniteSet(S), SumMonotonic
<1>7. sum \in Nat
  <2> HIDE DEF zero, sum
  <2> QED BY <1>1, <1>4, <1>6
<1> QED BY <1>7
==============================================================================
