------------------------------ MODULE SumTheorems -----------------------------
(***************************************************************************)
(* Sums over finite sets: what SumFunctionOnSet of the module Functions, a  *)
(* fold by a recursive function, computes.  A finite set is taken apart one *)
(* element after the other, in the order of CHOOSE; the lemmas say that the *)
(* order makes no difference.  At the end: folds over the indices of a      *)
(* sequence, from the least to the greatest, sums along a sequence and what *)
(* is left of one that is filtered.                                         *)
(***************************************************************************)
EXTENDS Integers, Sequences, Functions, FiniteSetsExt,
        FiniteSetTheorems, WellFoundedInduction, TLAPS

-----------------------------------------------------------------------------
(* Induction over a set of numbers, and over the subsets of a finite set.   *)

LEMMA SetOfNaturals ==
  ASSUME NEW B, 0 \in B, \A n \in Nat : n \in B => n + 1 \in B
  PROVE  Nat \subseteq B
<1> DEFINE C == Nat \ B
<1> SUFFICES ASSUME C # {} PROVE FALSE
  OBVIOUS
<1>1. \E n \in C : \A m \in C : ~ (<<m, n>> \in OpToRel(<, Nat))
  BY NatLessThanWellFounded, WFMin
<1>2. PICK n \in C : \A m \in C : ~ (m < n)
  BY <1>1 DEF OpToRel
<1>3. n \in Nat /\ n # 0
  OBVIOUS
<1>4. n - 1 \in Nat /\ n - 1 < n /\ (n - 1) + 1 = n
  BY <1>3
<1>5. n - 1 \in B
  BY <1>2, <1>4
<1> QED BY <1>4, <1>5

LEMMA FiniteSubsets ==
  ASSUME NEW S, IsFiniteSet(S), NEW B, {} \in B,
         \A T \in SUBSET S, x \in S : T \in B /\ x \notin T => T \union {x} \in B
  PROVE  S \in B
<1> DEFINE N == {n \in Nat : \A T \in SUBSET S : Cardinality(T) = n => T \in B}
<1>1. 0 \in N
  BY FS_EmptySet, FS_Subset
<1>2. ASSUME NEW n \in Nat, n \in N PROVE n + 1 \in N
  <2> SUFFICES ASSUME NEW T \in SUBSET S, Cardinality(T) = n + 1 PROVE T \in B
    OBVIOUS
  <2>1. IsFiniteSet(T) /\ T # {}
    BY FS_Subset, FS_EmptySet
  <2>2. PICK x \in T : TRUE
    BY <2>1
  <2>3. Cardinality(T \ {x}) = n
    <3>1. Cardinality(T \ {x}) = Cardinality(T) - 1
      BY <2>1, FS_RemoveElement
    <3> QED BY <3>1
  <2>4. T \ {x} \in B
    BY <1>2, <2>3
  <2>5. T = (T \ {x}) \union {x} /\ x \in S /\ x \notin T \ {x} /\ T \ {x} \in SUBSET S
    OBVIOUS
  <2> QED BY <2>4, <2>5
<1>3. Nat \subseteq N
  <2> HIDE DEF N
  <2> QED BY <1>1, <1>2, SetOfNaturals
<1> QED BY <1>3, FS_CardinalityType

-----------------------------------------------------------------------------
(* The recursive function *)

TakeOne(f, s, g) == f[CHOOSE x \in s : TRUE] + g[s \ {CHOOSE x \in s : TRUE}]

\* g sums f over the sets of D.
Sums(f, D, g) == g = [s \in D |-> IF s = {} THEN 0 ELSE TakeOne(f, s, g)]

LEMMA Unfolded ==
  ASSUME NEW f, NEW S
  PROVE  SumFunctionOnSet(f, S) = (CHOOSE g : Sums(f, SUBSET S, g))[S]
BY DEF SumFunctionOnSet, FoldFunctionOnSet, MapThenFoldSet, Sums, TakeOne

LEMMA SumsExist ==
  ASSUME NEW f, NEW S, IsFiniteSet(S)
  PROVE  \E g : Sums(f, SUBSET S, g)
<1> DEFINE D(n) == {s \in SUBSET S : Cardinality(s) <= n}
           N == {n \in Nat : \E g : Sums(f, D(n), g)}
<1>1. 0 \in N
  <2>1. \A s \in D(0) : s = {}
    BY FS_Subset, FS_EmptySet, FS_CardinalityType
  <2>2. Sums(f, D(0), [s \in D(0) |-> 0])
    BY <2>1 DEF Sums
  <2> QED BY <2>2
<1>2. ASSUME NEW n \in Nat, n \in N PROVE n + 1 \in N
  <2>1. PICK g : Sums(f, D(n), g)
    BY <1>2
  <2> DEFINE h == [s \in D(n + 1) |-> IF s = {} THEN 0 ELSE TakeOne(f, s, g)]
  <2>2. ASSUME NEW s \in D(n + 1), s # {}
        PROVE  h[s \ {CHOOSE x \in s : TRUE}] = g[s \ {CHOOSE x \in s : TRUE}]
    <3> DEFINE x == CHOOSE x \in s : TRUE
               t == s \ {x}
    <3>1. x \in s
      BY <2>2
    <3>2. IsFiniteSet(s) /\ IsFiniteSet(t) /\ Cardinality(t) = Cardinality(s) - 1
      BY <3>1, FS_Subset, FS_RemoveElement
    <3>3. Cardinality(s) \in Nat /\ Cardinality(s) <= n + 1
      BY <3>2, FS_CardinalityType
    <3>4. t \in D(n) /\ t \in D(n + 1)
      BY <3>2, <3>3
    <3> HIDE DEF t, D
    <3>5. g[t] = IF t = {} THEN 0 ELSE TakeOne(f, t, g)
      BY <2>1, <3>4 DEF Sums
    <3> QED BY <3>4, <3>5 DEF t
  <2>3. \A s \in D(n + 1) : s # {} => TakeOne(f, s, h) = TakeOne(f, s, g)
    BY <2>2 DEF TakeOne
  <2>4. Sums(f, D(n + 1), h)
    <3> HIDE DEF D
    <3> QED BY <2>3 DEF Sums
  <2>5. \E g1 : Sums(f, D(n + 1), g1)
    <3> HIDE DEF h, D
    <3> QED BY <2>4
  <2> QED BY <2>5
<1>3. Nat \subseteq N
  <2> HIDE DEF N
  <2> QED BY <1>1, <1>2, SetOfNaturals
<1>4. Cardinality(S) \in Nat
  BY FS_CardinalityType
<1>5. D(Cardinality(S)) = SUBSET S
  BY FS_Subset
<1>6. \E g : Sums(f, D(Cardinality(S)), g)
  BY <1>3, <1>4
<1> QED BY <1>5, <1>6

\* Two such functions agree where both are defined.
LEMMA SumsAgree ==
  ASSUME NEW f, NEW S, IsFiniteSet(S), NEW T \in SUBSET S
  PROVE  \A g, h : Sums(f, SUBSET S, g) /\ Sums(f, SUBSET T, h) => g[T] = h[T]
<1> SUFFICES ASSUME NEW g, Sums(f, SUBSET S, g), NEW h, Sums(f, SUBSET T, h)
             PROVE  g[T] = h[T]
  OBVIOUS
<1> DEFINE B == {n \in Nat : \A s \in SUBSET T : Cardinality(s) = n => g[s] = h[s]}
<1>1. \A s \in SUBSET T : /\ s \in SUBSET S /\ IsFiniteSet(s)
                          /\ g[s] = IF s = {} THEN 0 ELSE TakeOne(f, s, g)
                          /\ h[s] = IF s = {} THEN 0 ELSE TakeOne(f, s, h)
  <2>1. \A s \in SUBSET T : s \in SUBSET S /\ IsFiniteSet(s)
    BY FS_Subset
  <2> QED BY <2>1 DEF Sums
<1>2. 0 \in B
  BY <1>1, FS_EmptySet
<1>3. ASSUME NEW n \in Nat, n \in B PROVE n + 1 \in B
  <2> SUFFICES ASSUME NEW s \in SUBSET T, Cardinality(s) = n + 1 PROVE g[s] = h[s]
    OBVIOUS
  <2> DEFINE x == CHOOSE x \in s : TRUE
  <2>1. s # {}
    BY FS_EmptySet
  <2>2. x \in s
    BY <2>1
  <2>3. Cardinality(s \ {x}) = n
    <3>1. Cardinality(s \ {x}) = Cardinality(s) - 1
      BY <1>1, <2>2, FS_RemoveElement
    <3> QED BY <3>1
  <2>4. g[s \ {x}] = h[s \ {x}]
    BY <1>3, <2>3
  <2> QED BY <1>1, <2>1, <2>4 DEF TakeOne
<1>4. Nat \subseteq B
  <2> HIDE DEF B
  <2> QED BY <1>2, <1>3, SetOfNaturals
<1>5. Cardinality(T) \in Nat
  BY <1>1, FS_CardinalityType
<1> QED BY <1>4, <1>5

LEMMA SumOfNone ==
  ASSUME NEW f
  PROVE  SumFunctionOnSet(f, {}) = 0
<1> DEFINE g == CHOOSE g : Sums(f, SUBSET {}, g)
<1>1. Sums(f, SUBSET {}, g)
  BY SumsExist, FS_EmptySet
<1>2. g[{}] = 0
  BY <1>1 DEF Sums
<1> QED BY <1>2, Unfolded

\* The recursion, for every finite set.
LEMMA SumOfSome ==
  ASSUME NEW f, NEW S, IsFiniteSet(S), S # {}
  PROVE  \E x \in S : SumFunctionOnSet(f, S) = f[x] + SumFunctionOnSet(f, S \ {x})
<1> DEFINE x == CHOOSE x \in S : TRUE
           T == S \ {x}
           g == CHOOSE g : Sums(f, SUBSET S, g)
           h == CHOOSE h : Sums(f, SUBSET T, h)
<1>1. x \in S /\ T \in SUBSET S /\ IsFiniteSet(T)
  BY FS_Subset
<1>2. Sums(f, SUBSET S, g)
  BY SumsExist
<1>3. Sums(f, SUBSET T, h)
  BY <1>1, SumsExist
<1>4. SumFunctionOnSet(f, S) = g[S] /\ SumFunctionOnSet(f, T) = h[T]
  BY Unfolded
<1> HIDE DEF g, h
<1>5. g[T] = h[T]
  <2>1. \A g1, h1 : Sums(f, SUBSET S, g1) /\ Sums(f, SUBSET T, h1) => g1[T] = h1[T]
    <3> HIDE DEF T
    <3> QED BY <1>1, SumsAgree
  <2> QED BY <1>2, <1>3, <2>1
<1>6. g[S] = f[x] + g[T]
  BY <1>2 DEF Sums, TakeOne
<1> QED BY <1>1, <1>4, <1>5, <1>6

-----------------------------------------------------------------------------
(* Sums of numbers *)

\* Any element may be taken out first.
LEMMA SumTakesAny ==
  ASSUME NEW f, NEW S, IsFiniteSet(S), \A x \in S : f[x] \in Int
  PROVE  /\ SumFunctionOnSet(f, S) \in Int
         /\ \A x \in S : SumFunctionOnSet(f, S) = f[x] + SumFunctionOnSet(f, S \ {x})
<1> DEFINE Good(T) == /\ SumFunctionOnSet(f, T) \in Int
                      /\ \A x \in T :
                           SumFunctionOnSet(f, T) = f[x] + SumFunctionOnSet(f, T \ {x})
           B == {n \in Nat : \A T \in SUBSET S : Cardinality(T) <= n => Good(T)}
<1>1. Good({})
  BY SumOfNone
<1>2. 0 \in B
  <2>1. \A T \in SUBSET S : Cardinality(T) <= 0 => T = {}
    BY FS_Subset, FS_EmptySet, FS_CardinalityType
  <2> HIDE DEF Good
  <2> QED BY <1>1, <2>1
<1>3. ASSUME NEW n \in Nat, n \in B PROVE n + 1 \in B
  <2> SUFFICES ASSUME NEW T \in SUBSET S, Cardinality(T) = n + 1 PROVE Good(T)
    <3>1. \A T \in SUBSET S : Cardinality(T) \in Nat
      BY FS_Subset, FS_CardinalityType
    <3> HIDE DEF Good
    <3> QED BY <1>3, <3>1
  <2>1. IsFiniteSet(T) /\ T # {}
    BY FS_Subset, FS_EmptySet
  <2>2. \A x \in T : IsFiniteSet(T \ {x}) /\ Cardinality(T \ {x}) = n
    <3> TAKE x \in T
    <3>1. Cardinality(T \ {x}) = Cardinality(T) - 1
      BY <2>1, FS_RemoveElement
    <3> QED BY <2>1, <3>1, FS_RemoveElement
  <2>3. \A x \in T : Good(T \ {x})
    <3> TAKE x \in T
    <3> DEFINE rest == T \ {x}
    <3>1. rest \in SUBSET S /\ Cardinality(rest) <= n
      BY <2>2
    <3> HIDE DEF Good, rest
    <3>2. Good(rest)
      BY <1>3, <3>1
    <3> QED BY <3>2 DEF rest
  <2>4. PICK y \in T : SumFunctionOnSet(f, T) = f[y] + SumFunctionOnSet(f, T \ {y})
    BY <2>1, SumOfSome
  <2>5. \A x \in T : f[x] \in Int /\ SumFunctionOnSet(f, T \ {x}) \in Int
    BY <2>3
  <2>6. ASSUME NEW x \in T, x # y
        PROVE  SumFunctionOnSet(f, T) = f[x] + SumFunctionOnSet(f, T \ {x})
    <3> DEFINE rest == SumFunctionOnSet(f, (T \ {x}) \ {y})
    <3>1. (T \ {y}) \ {x} = (T \ {x}) \ {y}
      OBVIOUS
    <3>2. SumFunctionOnSet(f, T \ {y}) = f[x] + rest
      BY <2>3, <2>6, <3>1
    <3>3. SumFunctionOnSet(f, T \ {x}) = f[y] + rest
      BY <2>3, <2>6
    <3>4. Good((T \ {x}) \ {y})
      <4>1. Cardinality((T \ {x}) \ {y}) = Cardinality(T \ {x}) - 1
        BY <2>2, <2>6, FS_RemoveElement
      <4> HIDE DEF Good
      <4> QED BY <1>3, <2>2, <4>1
    <3>5. rest \in Int
      BY <3>4
    <3> HIDE DEF rest
    <3> QED BY <2>4, <2>5, <3>2, <3>3, <3>5
  <2>7. SumFunctionOnSet(f, T) \in Int
    BY <2>4, <2>5
  <2> QED BY <2>4, <2>6, <2>7
<1>4. Nat \subseteq B
  <2> HIDE DEF B
  <2> QED BY <1>2, <1>3, SetOfNaturals
<1>5. Cardinality(S) \in Nat
  BY FS_CardinalityType
<1> QED BY <1>4, <1>5

LEMMA SumAdds ==
  ASSUME NEW f, NEW S, IsFiniteSet(S), NEW x \in S, \A y \in S : f[y] \in Int
  PROVE  /\ SumFunctionOnSet(f, S \ {x}) \in Int
         /\ SumFunctionOnSet(f, S) = SumFunctionOnSet(f, S \ {x}) + f[x]
<1>1. IsFiniteSet(S \ {x})
  BY FS_RemoveElement
<1>2. SumFunctionOnSet(f, S \ {x}) \in Int
  BY <1>1, SumTakesAny
<1>3. SumFunctionOnSet(f, S) = f[x] + SumFunctionOnSet(f, S \ {x})
  BY SumTakesAny
<1> QED BY <1>2, <1>3

\* Only the values at the elements count.
LEMMA SumSame ==
  ASSUME NEW f, NEW g, NEW S, IsFiniteSet(S), \A x \in S : f[x] \in Int /\ g[x] = f[x]
  PROVE  SumFunctionOnSet(g, S) = SumFunctionOnSet(f, S)
<1> DEFINE B == {T \in SUBSET S : SumFunctionOnSet(g, T) = SumFunctionOnSet(f, T)}
<1>1. {} \in B
  BY SumOfNone
<1>2. ASSUME NEW T \in SUBSET S, NEW x \in S, T \in B, x \notin T PROVE T \union {x} \in B
  <2> DEFINE R == T \union {x}
  <2>1. /\ R \in SUBSET S /\ IsFiniteSet(R) /\ x \in R /\ R \ {x} = T
        /\ \A y \in R : f[y] \in Int /\ g[y] \in Int
    BY <1>2, FS_Subset
  <2> HIDE DEF R
  <2>2. SumFunctionOnSet(f, R) = SumFunctionOnSet(f, R \ {x}) + f[x]
    BY <2>1, SumAdds
  <2>3. SumFunctionOnSet(g, R) = SumFunctionOnSet(g, R \ {x}) + g[x]
    BY <2>1, SumAdds
  <2>4. R \in B
    BY <1>2, <2>1, <2>2, <2>3
  <2> QED BY <2>4 DEF R
<1>3. S \in B
  <2> HIDE DEF B
  <2> QED BY <1>1, <1>2, FiniteSubsets
<1> QED BY <1>3

\* Sums are monotone in what is added.
LEMMA SumMonotone ==
  ASSUME NEW f, NEW g, NEW S, IsFiniteSet(S),
         \A x \in S : f[x] \in Int /\ g[x] \in Int /\ f[x] <= g[x]
  PROVE  SumFunctionOnSet(f, S) <= SumFunctionOnSet(g, S)
<1> DEFINE B == {T \in SUBSET S : SumFunctionOnSet(f, T) <= SumFunctionOnSet(g, T)}
<1>1. {} \in B
  BY SumOfNone
<1>2. ASSUME NEW T \in SUBSET S, NEW x \in S, T \in B, x \notin T PROVE T \union {x} \in B
  <2> DEFINE R == T \union {x}
  <2>1. /\ R \in SUBSET S /\ IsFiniteSet(R) /\ x \in R /\ R \ {x} = T
        /\ \A y \in R : f[y] \in Int /\ g[y] \in Int
    BY <1>2, FS_Subset
  <2> HIDE DEF R
  <2>2. /\ SumFunctionOnSet(f, R) = SumFunctionOnSet(f, R \ {x}) + f[x]
        /\ SumFunctionOnSet(f, R \ {x}) \in Int
    BY <2>1, SumAdds
  <2>3. /\ SumFunctionOnSet(g, R) = SumFunctionOnSet(g, R \ {x}) + g[x]
        /\ SumFunctionOnSet(g, R \ {x}) \in Int
    BY <2>1, SumAdds
  <2>4. R \in B
    BY <1>2, <2>1, <2>2, <2>3
  <2> QED BY <2>4 DEF R
<1>3. S \in B
  <2> HIDE DEF B
  <2> QED BY <1>1, <1>2, FiniteSubsets
<1> QED BY <1>3

LEMMA SumOfZeros ==
  ASSUME NEW f, NEW S, IsFiniteSet(S), \A x \in S : f[x] = 0
  PROVE  SumFunctionOnSet(f, S) = 0
<1> DEFINE B == {T \in SUBSET S : SumFunctionOnSet(f, T) = 0}
<1>1. {} \in B
  BY SumOfNone
<1>2. ASSUME NEW T \in SUBSET S, NEW x \in S, T \in B, x \notin T PROVE T \union {x} \in B
  <2> DEFINE R == T \union {x}
  <2>1. /\ R \in SUBSET S /\ IsFiniteSet(R) /\ x \in R /\ R \ {x} = T
        /\ f[x] = 0 /\ \A y \in R : f[y] \in Int
    BY <1>2, FS_Subset
  <2> HIDE DEF R
  <2>2. SumFunctionOnSet(f, R) = SumFunctionOnSet(f, R \ {x}) + f[x]
    BY <2>1, SumAdds
  <2>3. SumFunctionOnSet(f, R) = 0
    <3>1. SumFunctionOnSet(f, R \ {x}) = 0
      BY <1>2, <2>1
    <3> QED BY <2>1, <2>2, <3>1
  <2>4. R \in B
    BY <2>1, <2>3
  <2> QED BY <2>4 DEF R
<1>3. S \in B
  <2> HIDE DEF B
  <2> QED BY <1>1, <1>2, FiniteSubsets
<1> QED BY <1>3

LEMMA SumOfNaturals ==
  ASSUME NEW f, NEW S, IsFiniteSet(S), \A x \in S : f[x] \in Nat
  PROVE  SumFunctionOnSet(f, S) \in Nat
<1> DEFINE zero == [x \in S |-> 0]
<1>1. SumFunctionOnSet(zero, S) = 0
  BY SumOfZeros
<1>2. SumFunctionOnSet(zero, S) <= SumFunctionOnSet(f, S)
  BY SumMonotone
<1>3. SumFunctionOnSet(f, S) \in Int
  BY SumTakesAny
<1> QED BY <1>1, <1>2, <1>3

\* One value changes.
LEMMA SumChanges ==
  ASSUME NEW f, NEW g, NEW S, IsFiniteSet(S), NEW x \in S,
         \A y \in S : f[y] \in Int /\ g[y] \in Int,
         \A y \in S \ {x} : g[y] = f[y]
  PROVE  SumFunctionOnSet(g, S) = SumFunctionOnSet(f, S) - f[x] + g[x]
<1>1. IsFiniteSet(S \ {x})
  BY FS_RemoveElement
<1>2. SumFunctionOnSet(g, S \ {x}) = SumFunctionOnSet(f, S \ {x})
  BY <1>1, SumSame
<1>3. /\ SumFunctionOnSet(f, S) = SumFunctionOnSet(f, S \ {x}) + f[x]
      /\ SumFunctionOnSet(f, S \ {x}) \in Int
  BY SumAdds
<1>4. SumFunctionOnSet(g, S) = SumFunctionOnSet(g, S \ {x}) + g[x]
  BY SumAdds
<1> QED BY <1>2, <1>3, <1>4

\* Two functions are summed one by one.
LEMMA SumPlus ==
  ASSUME NEW f, NEW g, NEW h, NEW S, IsFiniteSet(S),
         \A x \in S : f[x] \in Int /\ g[x] \in Int /\ h[x] = f[x] + g[x]
  PROVE  SumFunctionOnSet(h, S) = SumFunctionOnSet(f, S) + SumFunctionOnSet(g, S)
<1> DEFINE B == {T \in SUBSET S :
                   SumFunctionOnSet(h, T) = SumFunctionOnSet(f, T) + SumFunctionOnSet(g, T)}
<1>1. {} \in B
  BY SumOfNone
<1>2. ASSUME NEW T \in SUBSET S, NEW x \in S, T \in B, x \notin T PROVE T \union {x} \in B
  <2> DEFINE R == T \union {x}
  <2>1. /\ R \in SUBSET S /\ IsFiniteSet(R) /\ x \in R /\ R \ {x} = T
        /\ \A y \in R : f[y] \in Int /\ g[y] \in Int /\ h[y] \in Int /\ h[y] = f[y] + g[y]
    BY <1>2, FS_Subset
  <2> HIDE DEF R
  <2>2. /\ SumFunctionOnSet(f, R) = SumFunctionOnSet(f, R \ {x}) + f[x]
        /\ SumFunctionOnSet(f, R \ {x}) \in Int
    BY <2>1, SumAdds
  <2>3. /\ SumFunctionOnSet(g, R) = SumFunctionOnSet(g, R \ {x}) + g[x]
        /\ SumFunctionOnSet(g, R \ {x}) \in Int
    BY <2>1, SumAdds
  <2>4. SumFunctionOnSet(h, R) = SumFunctionOnSet(h, R \ {x}) + h[x]
    BY <2>1, SumAdds
  <2>5. R \in B
    <3>1. SumFunctionOnSet(h, R \ {x})
            = SumFunctionOnSet(f, R \ {x}) + SumFunctionOnSet(g, R \ {x})
      BY <1>2, <2>1
    <3>2. f[x] \in Int /\ g[x] \in Int /\ h[x] = f[x] + g[x]
      OBVIOUS
    <3> QED BY <2>1, <2>2, <2>3, <2>4, <3>1, <3>2
  <2> QED BY <2>5 DEF R
<1>3. S \in B
  <2> HIDE DEF B
  <2> QED BY <1>1, <1>2, FiniteSubsets
<1> QED BY <1>3

\* The elements of R in the class x, and in the classes of S.
InClass(R, class, x) == {r \in R : class[r] = x}
InClasses(R, class, S) == {r \in R : class[r] \in S}

\* A finite set is counted class by class.
LEMMA SumOfClasses ==
  ASSUME NEW R, IsFiniteSet(R), NEW class, NEW n, NEW S, IsFiniteSet(S),
         \A x \in S : n[x] = Cardinality(InClass(R, class, x))
  PROVE  SumFunctionOnSet(n, S) = Cardinality(InClasses(R, class, S))
<1> DEFINE Of(T) == InClasses(R, class, T)
           B == {T \in SUBSET S : SumFunctionOnSet(n, T) = Cardinality(Of(T))}
<1>1. {} \in B
  <2>1. Of({}) = {}
    BY DEF InClasses
  <2> QED BY <2>1, SumOfNone, FS_EmptySet
<1>2. ASSUME NEW T \in SUBSET S, NEW x \in S, T \in B, x \notin T PROVE T \union {x} \in B
  <2> DEFINE U == T \union {x}
             E == InClass(R, class, x)
  <2>1. /\ U \in SUBSET S /\ IsFiniteSet(U) /\ x \in U /\ U \ {x} = T
    BY <1>2, FS_Subset
  <2>2. \A y \in U : n[y] \in Int
    <3> TAKE y \in U
    <3> DEFINE F == InClass(R, class, y)
    <3>1. Cardinality(F) \in Nat
      <4>1. F \subseteq R
        BY DEF InClass
      <4>2. IsFiniteSet(F)
        BY <4>1, FS_Subset
      <4> QED BY <4>2, FS_CardinalityType
    <3> QED BY <3>1
  <2>3. /\ Of(U) = Of(T) \union E /\ Of(T) \cap E = {}
        /\ IsFiniteSet(Of(T)) /\ IsFiniteSet(E)
    <3>1. Of(T) \subseteq R /\ E \subseteq R
      BY DEF InClass, InClasses
    <3>2. IsFiniteSet(Of(T)) /\ IsFiniteSet(E)
      BY <3>1, FS_Subset
    <3> QED BY <3>2, <1>2 DEF InClass, InClasses
  <2> HIDE DEF U, Of, E
  <2>4. Cardinality(Of(U)) = Cardinality(Of(T)) + Cardinality(E)
    <3>1. Cardinality(Of(T)) \in Nat /\ Cardinality(E) \in Nat
      BY <2>3, FS_CardinalityType
    <3>2. Cardinality(Of(T) \union E)
            = Cardinality(Of(T)) + Cardinality(E) - Cardinality(Of(T) \cap E)
      BY <2>3, FS_Union
    <3>3. Cardinality(Of(T) \cap E) = 0
      BY <2>3, FS_EmptySet
    <3> QED BY <2>3, <3>1, <3>2, <3>3
  <2>5. SumFunctionOnSet(n, U) = SumFunctionOnSet(n, U \ {x}) + n[x]
    BY <2>1, <2>2, SumAdds
  <2>6. n[x] = Cardinality(E)
    BY DEF E
  <2>7. U \in B
    BY <1>2, <2>1, <2>4, <2>5, <2>6
  <2> QED BY <2>7 DEF U
<1>3. S \in B
  <2> HIDE DEF B
  <2> QED BY <1>1, <1>2, FiniteSubsets
<1> QED BY <1>3

-----------------------------------------------------------------------------
\* A finite set of numbers has a greatest one.
LEMMA Greatest ==
  ASSUME NEW S, IsFiniteSet(S), S # {}, S \subseteq Int
  PROVE  \E x \in S : \A y \in S : x >= y
<1> DEFINE B == {T \in SUBSET S : T # {} => \E x \in T : \A y \in T : x >= y}
<1>1. {} \in B
  OBVIOUS
<1>2. ASSUME NEW T \in SUBSET S, NEW x \in S, T \in B, x \notin T PROVE T \union {x} \in B
  <2>1. CASE T = {}
    BY <2>1
  <2>2. CASE T # {}
    <3>1. PICK m \in T : \A y \in T : m >= y
      BY <1>2, <2>2
    <3>2. m \in Int /\ x \in Int /\ \A y \in T : y \in Int
      OBVIOUS
    <3>3. CASE m >= x
      BY <3>1, <3>3
    <3>4. CASE ~ (m >= x)
      <4>1. \A y \in T \union {x} : x >= y
        BY <3>1, <3>2, <3>4
      <4> QED BY <4>1
    <3> QED BY <3>3, <3>4
  <2> QED BY <2>1, <2>2
<1>3. S \in B
  <2> HIDE DEF B
  <2> QED BY <1>1, <1>2, FiniteSubsets
<1> QED BY <1>3

\* What is 0 outside a part of the set adds nothing.
LEMMA SumOfPart ==
  ASSUME NEW f, NEW S, IsFiniteSet(S), \A x \in S : f[x] \in Int,
         NEW T \in SUBSET S, \A x \in S \ T : f[x] = 0
  PROVE  SumFunctionOnSet(f, S) = SumFunctionOnSet(f, T)
<1> DEFINE B == {R \in SUBSET S : SumFunctionOnSet(f, R) = SumFunctionOnSet(f, R \cap T)}
<1>1. {} \in B
  <2>1. {} \cap T = {}
    OBVIOUS
  <2> QED BY <2>1
<1>2. ASSUME NEW R \in SUBSET S, NEW x \in S, R \in B, x \notin R PROVE R \union {x} \in B
  <2> DEFINE Q == R \union {x}
  <2>1. IsFiniteSet(Q) /\ IsFiniteSet(Q \cap T) /\ Q \in SUBSET S /\ x \in Q /\ Q \ {x} = R
    BY <1>2, FS_Subset
  <2>2. SumFunctionOnSet(f, Q) = SumFunctionOnSet(f, R) + f[x]
    <3> HIDE DEF Q
    <3> QED BY <2>1, SumAdds
  <2>3. IsFiniteSet(R) /\ SumFunctionOnSet(f, R) \in Int
    <3>1. IsFiniteSet(R)
      BY FS_Subset
    <3> QED BY <3>1, SumTakesAny
  <2>4. CASE x \in T
    <3>1. x \in Q \cap T /\ (Q \cap T) \ {x} = R \cap T
      BY <1>2, <2>4
    <3>2. SumFunctionOnSet(f, Q \cap T) = SumFunctionOnSet(f, R \cap T) + f[x]
      <4> HIDE DEF Q
      <4> QED BY <2>1, <3>1, SumAdds
    <3> QED BY <1>2, <2>1, <2>2, <3>2
  <2>5. CASE x \notin T
    <3>1. Q \cap T = R \cap T /\ f[x] = 0
      BY <2>5
    <3>2. SumFunctionOnSet(f, Q) = SumFunctionOnSet(f, R)
      BY <2>2, <2>3, <3>1
    <3>3. SumFunctionOnSet(f, Q) = SumFunctionOnSet(f, Q \cap T)
      BY <1>2, <3>1, <3>2
    <3> QED BY <2>1, <3>3
  <2> QED BY <2>4, <2>5
<1>3. S \in B
  <2> HIDE DEF B
  <2> QED BY <1>1, <1>2, FiniteSubsets
<1>4. S \cap T = T
  OBVIOUS
<1> QED BY <1>3, <1>4

-----------------------------------------------------------------------------
(* Folds over indices, which FoldLeft is made of.                           *)

LEMMA MaxOfSome ==
  ASSUME NEW S, IsFiniteSet(S), S # {}, S \subseteq Int
  PROVE  Max(S) \in S /\ \A x \in S : Max(S) >= x
<1>1. \E x \in S : \A y \in S : x >= y
  BY Greatest
<1> QED BY <1>1 DEF Max

LEMMA LeastOfSome ==
  ASSUME NEW S, S # {}, S \subseteq Nat
  PROVE  Min(S) \in S /\ \A x \in S : Min(S) <= x
<1>1. \E n \in S : \A m \in S : ~ (<<m, n>> \in OpToRel(<, Nat))
  BY NatLessThanWellFounded, WFMin
<1>2. PICK n \in S : \A m \in S : ~ (m < n)
  BY <1>1 DEF OpToRel
<1>3. \A m \in S : n <= m
  BY <1>2
<1> QED BY <1>3 DEF Min

\* What holds of the start of a fold, and is kept by a step, holds of its end.
LEMMA FoldHolds ==
  ASSUME NEW S, IsFiniteSet(S), S \subseteq Int, NEW h, NEW I, h[{}] \in I,
         \A s \in SUBSET S : s # {} /\ h[s \ {Max(s)}] \in I => h[s] \in I
  PROVE  h[S] \in I
<1> DEFINE B == {n \in Nat : \A T \in SUBSET S : Cardinality(T) = n => h[T] \in I}
<1>1. 0 \in B
  <2>1. ASSUME NEW T \in SUBSET S, Cardinality(T) = 0 PROVE T = {}
    <3>1. IsFiniteSet(T)
      BY FS_Subset
    <3> QED BY <2>1, <3>1, FS_EmptySet
  <2> QED BY <2>1
<1>2. ASSUME NEW n \in Nat, n \in B PROVE n + 1 \in B
  <2> SUFFICES ASSUME NEW T \in SUBSET S, Cardinality(T) = n + 1 PROVE h[T] \in I
    OBVIOUS
  <2>1. IsFiniteSet(T) /\ T # {} /\ T \subseteq Int
    <3>1. IsFiniteSet(T) /\ T \subseteq Int
      BY FS_Subset
    <3>2. Cardinality({}) = 0
      BY FS_EmptySet
    <3>3. ASSUME T = {} PROVE FALSE
      <4>1. Cardinality(T) = 0
        BY <3>2, <3>3
      <4> QED BY <4>1
    <3> QED BY <3>1, <3>3
  <2>2. Max(T) \in T
    BY <2>1, MaxOfSome
  <2>3. Cardinality(T \ {Max(T)}) = n
    <3>1. Cardinality(T \ {Max(T)}) = Cardinality(T) - 1
      BY <2>1, <2>2, FS_RemoveElement
    <3> QED BY <3>1
  <2>4. h[T \ {Max(T)}] \in I
    BY <1>2, <2>3
  <2> QED BY <2>1, <2>4
<1>3. Nat \subseteq B
  <2> HIDE DEF B
  <2> QED BY <1>1, <1>2, SetOfNaturals
<1> QED BY <1>3, FS_CardinalityType

\* A fold over indices exists.
\* g[s] is the fold of the step over the indices s, from the least to the greatest.
Folding(g, S, base, step) ==
  /\ g[{}] = base
  /\ \A s \in SUBSET S : s # {} => g[s] = step[<<g[s \ {Max(s)}], Max(s)>>]

LEMMA FoldExists ==
  ASSUME NEW S, IsFiniteSet(S), S \subseteq Int, NEW I, NEW base \in I,
         NEW step \in [I \X S -> I]
  PROVE  \E g \in [SUBSET S -> I] : Folding(g, S, base, step)
<1> DEFINE D(n) == {s \in SUBSET S : Cardinality(s) <= n}
           Folds(g, n) == /\ g \in [D(n) -> I]
                          /\ \A s \in D(n) : g[s] = IF s = {} THEN base
                                   ELSE step[<<g[s \ {Max(s)}], Max(s)>>]
           N == {n \in Nat : \E g : Folds(g, n)}
<1>1. 0 \in N
  <2>1. ASSUME NEW s \in D(0) PROVE s = {}
    <3>1. IsFiniteSet(s)
      BY FS_Subset
    <3>2. Cardinality(s) \in Nat
      BY <3>1, FS_CardinalityType
    <3>3. Cardinality(s) = 0
      BY <3>2
    <3> QED BY <3>1, <3>3, FS_EmptySet
  <2>2. Folds([s \in D(0) |-> base], 0)
    <3> HIDE DEF D
    <3> QED BY <2>1
  <2> QED BY <2>2
<1>2. ASSUME NEW n \in Nat, n \in N PROVE n + 1 \in N
  <2>1. PICK g : Folds(g, n)
    BY <1>2
  <2> DEFINE h == [s \in D(n + 1) |-> IF s = {} THEN base
                                      ELSE step[<<g[s \ {Max(s)}], Max(s)>>]]
  <2>2. ASSUME NEW s \in D(n + 1), s # {}
        PROVE  /\ Max(s) \in S
               /\ s \ {Max(s)} \in D(n) /\ s \ {Max(s)} \in D(n + 1)
    <3>1. IsFiniteSet(s) /\ s \subseteq Int
      BY FS_Subset
    <3>2. Max(s) \in s
      BY <2>2, <3>1, MaxOfSome
    <3>3. IsFiniteSet(s \ {Max(s)}) /\ Cardinality(s \ {Max(s)}) = Cardinality(s) - 1
      BY <3>1, <3>2, FS_RemoveElement
    <3>4. Cardinality(s) \in Nat /\ Cardinality(s) <= n + 1
      BY <3>1, FS_CardinalityType
    <3>5. /\ Max(s) \in S /\ s \ {Max(s)} \in SUBSET S
          /\ Cardinality(s \ {Max(s)}) <= n /\ Cardinality(s \ {Max(s)}) <= n + 1
      <4>1. Cardinality(s \ {Max(s)}) <= n /\ Cardinality(s \ {Max(s)}) <= n + 1
        BY <3>3, <3>4
      <4> QED BY <3>2, <4>1
    <3> QED BY <3>5
  <2>3. ASSUME NEW s \in D(n)
        PROVE  s \in D(n + 1)
    <3>1. IsFiniteSet(s)
      BY FS_Subset
    <3>2. Cardinality(s) \in Nat
      BY <3>1, FS_CardinalityType
    <3> QED BY <3>2
  <2>4. \A s \in D(n) : h[s] = g[s]
    <3> HIDE DEF D
    <3> QED BY <2>1, <2>3
  <2>5. h \in [D(n + 1) -> I]
    <3> HIDE DEF D
    <3>1. ASSUME NEW s \in D(n + 1), s # {} PROVE step[<<g[s \ {Max(s)}], Max(s)>>] \in I
      BY <2>1, <2>2, <3>1
    <3> QED BY <3>1
  <2>6. \A s \in D(n + 1) : h[s] = IF s = {} THEN base
                                   ELSE step[<<h[s \ {Max(s)}], Max(s)>>]
    <3> SUFFICES ASSUME NEW s \in D(n + 1)
                 PROVE  h[s] = IF s = {} THEN base ELSE step[<<h[s \ {Max(s)}], Max(s)>>]
      OBVIOUS
    <3>1. s # {} => h[s \ {Max(s)}] = g[s \ {Max(s)}]
      <4> HIDE DEF D, h
      <4> QED BY <2>2, <2>4
    <3>2. h[s] = IF s = {} THEN base ELSE step[<<g[s \ {Max(s)}], Max(s)>>]
      <4> HIDE DEF D
      <4> QED OBVIOUS
    <3> HIDE DEF D, h
    <3> QED BY <3>1, <3>2
  <2>7. Folds(h, n + 1)
    <3> HIDE DEF D, h
    <3> QED BY <2>5, <2>6
  <2> HIDE DEF h, Folds
  <2> QED BY <2>7
<1>3. Nat \subseteq N
  <2> HIDE DEF N
  <2> QED BY <1>1, <1>2, SetOfNaturals
<1>4. Cardinality(S) \in Nat
  BY FS_CardinalityType
<1>5. D(Cardinality(S)) = SUBSET S
  BY FS_Subset
<1>6. PICK g : Folds(g, Cardinality(S))
  BY <1>3, <1>4
<1>7. g \in [SUBSET S -> I] /\ \A s \in SUBSET S : g[s] = IF s = {} THEN base
                                   ELSE step[<<g[s \ {Max(s)}], Max(s)>>]
  <2> HIDE DEF D
  <2> QED BY <1>5, <1>6
<1>8. Folding(g, S, base, step)
  BY <1>7 DEF Folding
<1> QED BY <1>7, <1>8

-----------------------------------------------------------------------------
(* Sums along a sequence *)

SumTo(f, n) == SumFunctionOnSet(f, 1..n)

LEMMA SumToTyped ==
  ASSUME NEW f, NEW n \in Nat, \A i \in 1..n : f[i] \in Int
  PROVE  SumTo(f, n) \in Int
<1>1. IsFiniteSet(1..n)
  BY FS_Interval
<1> QED BY <1>1, SumTakesAny DEF SumTo

LEMMA SumToNatural ==
  ASSUME NEW f, NEW n \in Nat, \A i \in 1..n : f[i] \in Nat
  PROVE  SumTo(f, n) \in Nat
<1>1. IsFiniteSet(1..n)
  BY FS_Interval
<1> QED BY <1>1, SumOfNaturals DEF SumTo

LEMMA SumToNone == ASSUME NEW f PROVE SumTo(f, 0) = 0
BY SumOfNone DEF SumTo

LEMMA SumToNext ==
  ASSUME NEW f, NEW n \in Nat, \A i \in 1..(n + 1) : f[i] \in Int
  PROVE  SumTo(f, n + 1) = SumTo(f, n) + f[n + 1]
<1>1. IsFiniteSet(1..(n + 1)) /\ n + 1 \in 1..(n + 1) /\ (1..(n + 1)) \ {n + 1} = 1..n
  BY FS_Interval
<1> QED BY <1>1, SumAdds DEF SumTo

LEMMA SumToSame ==
  ASSUME NEW f, NEW g, NEW n \in Nat, \A i \in 1..n : f[i] \in Int /\ g[i] = f[i]
  PROVE  SumTo(g, n) = SumTo(f, n)
<1>1. IsFiniteSet(1..n)
  BY FS_Interval
<1> QED BY <1>1, SumSame DEF SumTo

\* One sequence after the other.
LEMMA SumToSplits ==
  ASSUME NEW f, NEW g, NEW m \in Nat, NEW n \in Nat,
         \A i \in 1..(m + n) : f[i] \in Int,
         \A i \in 1..n : g[i] = f[m + i]
  PROVE  SumTo(f, m + n) = SumTo(f, m) + SumTo(g, n)
<1> DEFINE B == {k \in Nat : k <= n => SumTo(f, m + k) = SumTo(f, m) + SumTo(g, k)}
<1>1. 0 \in B
  BY SumToNone, SumToTyped
<1>2. ASSUME NEW k \in Nat, k \in B PROVE k + 1 \in B
  <2> SUFFICES ASSUME k + 1 <= n
               PROVE  SumTo(f, m + (k + 1)) = SumTo(f, m) + SumTo(g, k + 1)
    OBVIOUS
  <2>1. \A i \in 1..(k + 1) : g[i] \in Int
    OBVIOUS
  <2>2. SumTo(f, (m + k) + 1) = SumTo(f, m + k) + f[(m + k) + 1]
    BY SumToNext
  <2>3. SumTo(g, k + 1) = SumTo(g, k) + g[k + 1]
    BY <2>1, SumToNext
  <2>4. f[(m + k) + 1] = g[k + 1] /\ g[k + 1] \in Int /\ (m + k) + 1 = m + (k + 1)
    OBVIOUS
  <2>5. SumTo(f, m) \in Int /\ SumTo(g, k) \in Int
    BY <2>1, SumToTyped
  <2> QED BY <1>2, <2>2, <2>3, <2>4, <2>5
<1>3. Nat \subseteq B
  <2> HIDE DEF B
  <2> QED BY <1>1, <1>2, SetOfNaturals
<1> QED BY <1>3

\* h is f up to m, and then g up to n.
Joined(f, g, h, m, n) ==
  /\ \A i \in 1..m : f[i] \in Int /\ h[i] = f[i]
  /\ \A i \in 1..n : g[i] \in Int /\ h[m + i] = g[i]

LEMMA SumToJoins ==
  ASSUME NEW f, NEW g, NEW h, NEW m \in Nat, NEW n \in Nat, Joined(f, g, h, m, n)
  PROVE  SumTo(h, m + n) = SumTo(f, m) + SumTo(g, n)
<1> USE DEF Joined
<1>1. ASSUME NEW i \in 1..(m + n) PROVE h[i] \in Int
  <2>1. CASE i \notin 1..m
    <3>1. i - m \in 1..n /\ m + (i - m) = i
      BY <2>1
    <3> QED BY <3>1
  <2> QED BY <2>1
<1>2. SumTo(h, m + n) = SumTo(h, m) + SumTo(g, n)
  <2>1. \A i \in 1..n : g[i] = h[m + i]
    OBVIOUS
  <2> QED BY <1>1, <2>1, SumToSplits
<1>3. SumTo(h, m) = SumTo(f, m)
  BY SumToSame
<1> QED BY <1>2, <1>3

\* One number left out.
LEMMA SumToWithout ==
  ASSUME NEW f, NEW h, NEW n \in Nat, NEW k \in 1..n,
         \A i \in 1..n : f[i] \in Int,
         \A i \in 1..(k - 1) : h[i] = f[i],
         \A i \in k..(n - 1) : h[i] = f[i + 1]
  PROVE  SumTo(h, n - 1) = SumTo(f, n) - f[k]
<1> DEFINE p == k - 1
           q == n - k
           g == [i \in 1..q |-> f[k + i]]
<1>1. p \in Nat /\ q \in Nat /\ k \in Nat
  OBVIOUS
<1>2. \A i \in 1..p : f[i] \in Int /\ h[i] = f[i]
  OBVIOUS
<1>3. \A i \in 1..q : g[i] \in Int /\ h[p + i] = g[i]
  <2> SUFFICES ASSUME NEW i \in 1..q PROVE g[i] \in Int /\ h[p + i] = g[i]
    OBVIOUS
  <2>1. p + i \in k..(n - 1) /\ (p + i) + 1 = k + i /\ k + i \in 1..n
    OBVIOUS
  <2> QED BY <2>1
<1>4. \A i \in 1..q : g[i] = f[k + i]
  OBVIOUS
<1>5. \A i \in 1..(k + q) : f[i] \in Int
  OBVIOUS
<1>6. \A i \in 1..(p + 1) : f[i] \in Int
  OBVIOUS
<1>7. p + q = n - 1 /\ k + q = n /\ p + 1 = k
  OBVIOUS
<1> HIDE DEF p, q, g
<1>8. SumTo(h, p + q) = SumTo(f, p) + SumTo(g, q)
  <2>1. Joined(f, g, h, p, q)
    BY <1>2, <1>3 DEF Joined
  <2> QED BY <1>1, <2>1, SumToJoins
<1>9. SumTo(f, k + q) = SumTo(f, k) + SumTo(g, q)
  BY <1>1, <1>4, <1>5, SumToSplits
<1>10. SumTo(f, p + 1) = SumTo(f, p) + f[p + 1]
  BY <1>1, <1>6, SumToNext
<1>11. SumTo(f, p) \in Int /\ SumTo(g, q) \in Int /\ f[k] \in Int
  BY <1>1, <1>2, <1>3, SumToTyped
<1> QED BY <1>7, <1>8, <1>9, <1>10, <1>11

LEMMA SumToChanges ==
  ASSUME NEW f, NEW h, NEW n \in Nat, NEW k \in 1..n,
         \A i \in 1..n : f[i] \in Int /\ h[i] \in Int,
         \A i \in (1..n) \ {k} : h[i] = f[i]
  PROVE  SumTo(h, n) = SumTo(f, n) - f[k] + h[k]
<1> DEFINE S == 1..n
<1>1. IsFiniteSet(S) /\ IsFiniteSet(S \ {k}) /\ k \in S
  <2>1. IsFiniteSet(S)
    BY FS_Interval
  <2> QED BY <2>1, FS_RemoveElement
<1>2. /\ \A i \in S : f[i] \in Int
      /\ \A i \in S : h[i] \in Int
      /\ \A i \in S \ {k} : f[i] \in Int /\ h[i] = f[i]
  OBVIOUS
<1> HIDE DEF S
<1>3. SumFunctionOnSet(h, S \ {k}) = SumFunctionOnSet(f, S \ {k})
  BY <1>1, <1>2, SumSame
<1>4. SumFunctionOnSet(h, S) = SumFunctionOnSet(h, S \ {k}) + h[k]
  BY <1>1, <1>2, SumAdds
<1>5. /\ SumFunctionOnSet(f, S) = SumFunctionOnSet(f, S \ {k}) + f[k]
      /\ SumFunctionOnSet(f, S \ {k}) \in Int
  BY <1>1, <1>2, SumAdds
<1>6. SumTo(h, n) = SumFunctionOnSet(h, S) /\ SumTo(f, n) = SumFunctionOnSet(f, S)
  BY DEF SumTo, S
<1>7. f[k] \in Int /\ h[k] \in Int
  BY <1>1, <1>2
<1> QED BY <1>3, <1>4, <1>5, <1>6, <1>7

LEMMA SumToPlus ==
  ASSUME NEW f, NEW g, NEW h, NEW n \in Nat,
         \A i \in 1..n : f[i] \in Int /\ g[i] \in Int /\ h[i] = f[i] + g[i]
  PROVE  SumTo(h, n) = SumTo(f, n) + SumTo(g, n)
<1> DEFINE S == 1..n
<1>1. IsFiniteSet(S) /\ \A i \in S : f[i] \in Int /\ g[i] \in Int /\ h[i] = f[i] + g[i]
  BY FS_Interval
<1> HIDE DEF S
<1>2. SumFunctionOnSet(h, S) = SumFunctionOnSet(f, S) + SumFunctionOnSet(g, S)
  BY <1>1, SumPlus
<1> QED BY <1>2 DEF SumTo, S

LEMMA SumToZeros ==
  ASSUME NEW f, NEW n \in Nat, \A i \in 1..n : f[i] = 0
  PROVE  SumTo(f, n) = 0
<1>1. IsFiniteSet(1..n)
  BY FS_Interval
<1> QED BY <1>1, SumOfZeros DEF SumTo

-----------------------------------------------------------------------------
(* A sequence filtered by a fold *)

\* g[T] is what is left of the indices T of s when those of H are kept.
Filtering(g, s, H) ==
  /\ g[{}] = <<>>
  /\ \A T \in SUBSET DOMAIN s : T # {} =>
       g[T] = IF Max(T) \in H THEN Append(g[T \ {Max(T)}], s[Max(T)]) ELSE g[T \ {Max(T)}]

LEMMA FilterExists ==
  ASSUME NEW A, NEW s \in Seq(A), NEW H
  PROVE  \E g : DOMAIN g = SUBSET DOMAIN s /\ g = [T \in DOMAIN g |-> g[T]] /\ Filtering(g, s, H)
<1> DEFINE S == DOMAIN s
           I == Seq(A)
           step == [p \in I \X S |-> IF p[2] \in H THEN Append(p[1], s[p[2]]) ELSE p[1]]
<1>1. S = 1..Len(s) /\ Len(s) \in Nat /\ \A i \in S : s[i] \in A
  OBVIOUS
<1>2. IsFiniteSet(S) /\ S \subseteq Int
  BY <1>1, FS_Interval
<1>3. <<>> \in I
  OBVIOUS
<1>4. step \in [I \X S -> I]
  BY <1>1
<1>5. \A T \in SUBSET S : T # {} => Max(T) \in S
  <2> SUFFICES ASSUME NEW T \in SUBSET S, T # {} PROVE Max(T) \in S
    OBVIOUS
  <2>1. IsFiniteSet(T) /\ T \subseteq Int
    BY <1>2, FS_Subset
  <2> QED BY <2>1, MaxOfSome
<1>6. PICK g \in [SUBSET S -> I] : Folding(g, S, <<>>, step)
  <2> HIDE DEF S, I, step
  <2> QED BY <1>2, <1>3, <1>4, FoldExists
<1>7. /\ g[{}] = <<>>
      /\ \A T \in SUBSET S : T # {} => g[T] = step[<<g[T \ {Max(T)}], Max(T)>>]
  BY <1>6 DEF Folding
<1>8. ASSUME NEW T \in SUBSET S, T # {}
      PROVE  g[T] = IF Max(T) \in H THEN Append(g[T \ {Max(T)}], s[Max(T)])
                    ELSE g[T \ {Max(T)}]
  <2>1. g[T \ {Max(T)}] \in I /\ Max(T) \in S
    BY <1>5, <1>6, <1>8
  <2>2. g[T] = step[<<g[T \ {Max(T)}], Max(T)>>]
    BY <1>7, <1>8
  <2>3. <<g[T \ {Max(T)}], Max(T)>> \in I \X S
    BY <2>1
  <2> HIDE DEF I, S
  <2> QED BY <2>2, <2>3 DEF step
<1>9. Filtering(g, s, H)
  BY <1>7, <1>8 DEF Filtering
<1> QED BY <1>6, <1>9

\* One index after the other.
LEMMA FilterNext ==
  ASSUME NEW A, NEW s \in Seq(A), NEW H, NEW g, Filtering(g, s, H)
  PROVE  /\ g[1..0] = <<>>
         /\ \A n \in Nat : n + 1 \in DOMAIN s =>
              g[1..(n + 1)] = IF n + 1 \in H THEN Append(g[1..n], s[n + 1]) ELSE g[1..n]
<1>1. 1..0 = {}
  OBVIOUS
<1>2. ASSUME NEW n \in Nat, n + 1 \in DOMAIN s
      PROVE  g[1..(n + 1)] = IF n + 1 \in H THEN Append(g[1..n], s[n + 1]) ELSE g[1..n]
  <2>1. 1..(n + 1) \in SUBSET DOMAIN s /\ 1..(n + 1) # {} /\ 1..(n + 1) \subseteq Int
    <3>1. DOMAIN s = 1..Len(s) /\ Len(s) \in Nat
      OBVIOUS
    <3>2. n + 1 \in 1..(n + 1)
      OBVIOUS
    <3>3. n + 1 <= Len(s)
      BY <1>2, <3>1
    <3>4. \A i \in 1..(n + 1) : i \in DOMAIN s
      BY <3>1, <3>3
    <3> QED BY <3>2, <3>4
  <2>2. Max(1..(n + 1)) = n + 1
    <3>1. IsFiniteSet(1..(n + 1))
      BY FS_Interval
    <3>2. Max(1..(n + 1)) \in 1..(n + 1) /\ \A x \in 1..(n + 1) : Max(1..(n + 1)) >= x
      BY <2>1, <3>1, MaxOfSome
    <3> QED BY <3>2
  <2>3. 1..(n + 1) \ {n + 1} = 1..n
    OBVIOUS
  <2> HIDE <1>2
  <2> QED BY <2>1, <2>2, <2>3 DEF Filtering
<1> QED BY <1>1, <1>2 DEF Filtering

\* What is kept is what should be.
SameElements(r, s, I) ==
  /\ \A j \in DOMAIN r : \E i \in I : r[j] = s[i]
  /\ \A i \in I : \E j \in DOMAIN r : r[j] = s[i]

LEMMA FilterKeeps ==
  ASSUME NEW A, NEW s \in Seq(A), NEW H, NEW g, Filtering(g, s, H)
  PROVE  g[DOMAIN s] \in Seq(A) /\ SameElements(g[DOMAIN s], s, H \intersect DOMAIN s)
<1> USE DEF SameElements
<1> DEFINE Kept(r, n) == r \in Seq(A) /\ SameElements(r, s, H \intersect 1..n)
           N == {n \in Nat : n <= Len(s) => Kept(g[1..n], n)}
<1>1. 0 \in N
  <2>1. g[1..0] = <<>>
    BY FilterNext
  <2> HIDE DEF Kept
  <2>2. Kept(<<>>, 0)
    <3>1. <<>> \in Seq(A) /\ DOMAIN <<>> = {}
      OBVIOUS
    <3>2. 1..0 = {}
      OBVIOUS
    <3> QED BY <3>1, <3>2 DEF Kept
  <2> QED BY <2>1, <2>2
<1>2. ASSUME NEW n \in Nat, n \in N PROVE n + 1 \in N
  <2> SUFFICES ASSUME n + 1 <= Len(s) PROVE Kept(g[1..(n + 1)], n + 1)
    OBVIOUS
  <2>1. Kept(g[1..n], n) /\ n + 1 \in DOMAIN s /\ s[n + 1] \in A
    BY <1>2
  <2>2. CASE n + 1 \notin H
    <3>1. g[1..(n + 1)] = g[1..n]
      BY <2>1, <2>2, FilterNext
    <3>2. H \intersect 1..(n + 1) = H \intersect 1..n
      BY <2>2
    <3> QED BY <2>1, <3>1, <3>2
  <2>3. CASE n + 1 \in H
    <3> DEFINE r == g[1..n]
               q == g[1..(n + 1)]
    <3>1. q = Append(r, s[n + 1])
      <4>1. q = IF n + 1 \in H THEN Append(r, s[n + 1]) ELSE r
        BY <2>1, FilterNext
      <4> HIDE DEF q, r
      <4> QED BY <2>3, <4>1
    <3>2. r \in Seq(A)
      BY <2>1
    <3> HIDE DEF r, q
    <3>3. /\ q \in Seq(A) /\ DOMAIN q = 1..(Len(r) + 1) /\ DOMAIN r = 1..Len(r) /\ Len(r) \in Nat
          /\ q[Len(r) + 1] = s[n + 1] /\ \A j \in DOMAIN r : q[j] = r[j]
      BY <2>1, <3>1, <3>2
    <3>4. ASSUME NEW j \in DOMAIN q PROVE \E i \in H \intersect 1..(n + 1) : q[j] = s[i]
      <4>1. CASE j = Len(r) + 1
        BY <2>3, <3>3, <4>1
      <4>2. CASE j # Len(r) + 1
        <5>1. j \in DOMAIN r
          BY <3>3, <4>2
        <5> QED BY <2>1, <3>3, <5>1 DEF r
      <4> QED BY <4>1, <4>2
    <3>5. ASSUME NEW i \in H \intersect 1..(n + 1) PROVE \E j \in DOMAIN q : q[j] = s[i]
      <4>1. CASE i = n + 1
        <5>1. Len(r) + 1 \in DOMAIN q
          BY <3>3
        <5> QED BY <3>3, <4>1, <5>1
      <4>2. CASE i # n + 1
        <5>1. i \in H \intersect 1..n
          BY <4>2
        <5>2. PICK j \in DOMAIN r : r[j] = s[i]
          BY <2>1, <5>1 DEF r
        <5>3. j \in DOMAIN q
          BY <3>3
        <5> QED BY <3>3, <5>2, <5>3
      <4> QED BY <4>1, <4>2
    <3> QED BY <3>3, <3>4, <3>5 DEF q
  <2> QED BY <2>2, <2>3
<1>3. Len(s) \in N
  <2> HIDE DEF N
  <2> QED BY <1>1, <1>2, SetOfNaturals
<1>4. DOMAIN s = 1..Len(s)
  OBVIOUS
<1> QED BY <1>3, <1>4

\* When only the first q are dropped, the others follow in their order.
LEMMA FilterDropsFirst ==
  ASSUME NEW A, NEW s \in Seq(A), NEW q \in 0..Len(s), NEW g,
         Filtering(g, s, {i \in DOMAIN s : i > q})
  PROVE  /\ g[DOMAIN s] \in Seq(A) /\ Len(g[DOMAIN s]) = Len(s) - q
         /\ \A i \in 1..(Len(s) - q) : g[DOMAIN s][i] = s[q + i]
<1> DEFINE H == {i \in DOMAIN s : i > q}
           Rest(r, n) == /\ r \in Seq(A) /\ Len(r) = (IF n <= q THEN 0 ELSE n - q)
                         /\ \A i \in 1..(n - q) : r[i] = s[q + i]
           N == {n \in Nat : n <= Len(s) => Rest(g[1..n], n)}
<1>1. 0 \in N
  <2>1. g[1..0] = <<>>
    BY FilterNext
  <2> HIDE DEF Rest
  <2>2. Rest(<<>>, 0)
    <3>1. <<>> \in Seq(A) /\ Len(<<>>) = 0 /\ 0 <= q /\ 1..(0 - q) = {}
      OBVIOUS
    <3> QED BY <3>1 DEF Rest
  <2> QED BY <2>1, <2>2
<1>2. ASSUME NEW n \in Nat, n \in N PROVE n + 1 \in N
  <2> SUFFICES ASSUME n + 1 <= Len(s) PROVE Rest(g[1..(n + 1)], n + 1)
    OBVIOUS
  <2> DEFINE r == g[1..n]
             t == g[1..(n + 1)]
  <2>1. Rest(r, n) /\ n + 1 \in DOMAIN s /\ s[n + 1] \in A
    BY <1>2
  <2>2. t = IF n + 1 > q THEN Append(r, s[n + 1]) ELSE r
    <3>1. n + 1 \in H <=> n + 1 > q
      BY <2>1
    <3> HIDE DEF H
    <3>2. t = IF n + 1 \in H THEN Append(r, s[n + 1]) ELSE r
      BY <2>1, FilterNext DEF H
    <3> QED BY <3>1, <3>2
  <2> HIDE DEF r, t
  <2>3. Rest(t, n + 1)
    <3>1. CASE n + 1 > q
      <4>1. Len(r) = n - q
        BY <2>1, <3>1
      <4>2. t \in Seq(A) /\ Len(t) = n - q + 1 /\ t[n - q + 1] = s[n + 1]
            /\ \A i \in 1..(n - q) : t[i] = r[i]
        BY <2>1, <2>2, <3>1, <4>1
      <4> QED BY <2>1, <3>1, <4>2
    <3>2. CASE ~ (n + 1 > q)
      BY <2>1, <2>2, <3>2
    <3> QED BY <3>1, <3>2
  <2> QED BY <2>3 DEF t
<1>3. Len(s) \in N
  <2> HIDE DEF N
  <2> QED BY <1>1, <1>2, SetOfNaturals
<1>4. DOMAIN s = 1..Len(s) /\ Len(s) \in Nat
  OBVIOUS
<1>5. Rest(g[DOMAIN s], Len(s))
  <2> HIDE DEF Rest
  <2> QED BY <1>3, <1>4
<1> HIDE DEF N, H
<1>6. q \in Nat /\ q <= Len(s)
  BY <1>4
<1>7. Len(g[DOMAIN s]) = Len(s) - q
  <2> DEFINE n == Len(s)
  <2>1. Len(g[DOMAIN s]) = IF n <= q THEN 0 ELSE n - q
    BY <1>5
  <2>2. (IF n <= q THEN 0 ELSE n - q) = n - q
    <3>1. n \in Nat /\ q \in Nat /\ q <= n
      BY <1>4, <1>6
    <3> HIDE DEF n
    <3> QED BY <3>1
  <2> QED BY <2>1, <2>2
<1> QED BY <1>5, <1>7

\* r is what is left of s at the indices I, in the same order: f tells from where.
Embeds(f, r, s, I) ==
  /\ f \in [DOMAIN r -> I]
  /\ \A a, b \in DOMAIN r : a < b => f[a] < f[b]
  /\ \A i \in I : \E a \in DOMAIN r : f[a] = i
  /\ \A a \in DOMAIN r : r[a] = s[f[a]]

\* What is kept is kept once and in its order.
LEMMA FilterEmbeds ==
  ASSUME NEW A, NEW s \in Seq(A), NEW H, NEW g, Filtering(g, s, H)
  PROVE  /\ g[DOMAIN s] \in Seq(A) /\ Len(g[DOMAIN s]) <= Len(s)
         /\ \E f : Embeds(f, g[DOMAIN s], s, H \intersect DOMAIN s)
<1> DEFINE Left(r, n) == /\ r \in Seq(A) /\ Len(r) <= n
                         /\ \E f : Embeds(f, r, s, H \intersect 1..n)
           N == {n \in Nat : n <= Len(s) => Left(g[1..n], n)}
<1>1. 0 \in N
  <2>1. g[1..0] = <<>>
    BY FilterNext
  <2> HIDE DEF Left
  <2>2. Left(<<>>, 0)
    <3>1. <<>> \in Seq(A) /\ DOMAIN <<>> = {} /\ Len(<<>>) = 0 /\ 1..0 = {}
      OBVIOUS
    <3>2. Embeds([a \in {} |-> a], <<>>, s, H \intersect 1..0)
      BY <3>1 DEF Embeds
    <3> QED BY <3>1, <3>2 DEF Left
  <2> QED BY <2>1, <2>2
<1>2. ASSUME NEW n \in Nat, n \in N PROVE n + 1 \in N
  <2> HIDE DEF Left
  <2> SUFFICES ASSUME n + 1 <= Len(s) PROVE Left(g[1..(n + 1)], n + 1)
    BY DEF N
  <2> DEFINE r == g[1..n]
             t == g[1..(n + 1)]
  <2>1. Left(r, n) /\ n + 1 \in DOMAIN s /\ s[n + 1] \in A
    <3>1. n + 1 \in DOMAIN s /\ n <= Len(s)
      OBVIOUS
    <3> QED BY <1>2, <3>1
  <2>2. t = IF n + 1 \in H THEN Append(r, s[n + 1]) ELSE r
    BY <2>1, FilterNext
  <2> HIDE DEF r, t
  <2>3. PICK f : Embeds(f, r, s, H \intersect 1..n)
    BY <2>1 DEF Left
  <2>4. r \in Seq(A) /\ Len(r) \in Nat /\ Len(r) <= n /\ DOMAIN r = 1..Len(r)
    BY <2>1 DEF Left
  <2>5. CASE n + 1 \notin H
    <3>1. H \intersect 1..(n + 1) = H \intersect 1..n
      BY <2>5
    <3>2. t = r /\ Len(r) <= n + 1
      BY <2>2, <2>4, <2>5
    <3>3. Left(r, n + 1)
      BY <2>3, <2>4, <3>1, <3>2 DEF Left
    <3> QED BY <3>2, <3>3 DEF t
  <2>6. CASE n + 1 \in H
    <3> DEFINE l == Len(r) + 1
               e == [a \in 1..l |-> IF a = l THEN n + 1 ELSE f[a]]
               I == H \intersect 1..n
               J == H \intersect 1..(n + 1)
    <3>1. /\ t \in Seq(A) /\ Len(t) = l /\ DOMAIN t = 1..l
          /\ t[l] = s[n + 1] /\ \A a \in DOMAIN r : t[a] = r[a]
      BY <2>1, <2>2, <2>4, <2>6
    <3>2. J = I \union {n + 1} /\ I \subseteq 1..n
      BY <2>6
    <3>3. l \in Nat /\ l <= n + 1 /\ 1..l = DOMAIN r \union {l} /\ l \notin DOMAIN r
      BY <2>4
    <3>4. DOMAIN e = 1..l /\ e[l] = n + 1 /\ \A a \in DOMAIN r : e[a] = f[a] /\ f[a] \in I
      BY <2>3, <3>3 DEF Embeds
    <3> HIDE DEF e, I, J
    <3>5. e \in [1..l -> J]
      <4>1. \A a \in 1..l : e[a] \in J
        BY <3>2, <3>3, <3>4
      <4> QED BY <4>1 DEF e
    <3>6. \A a, b \in 1..l : a < b => e[a] < e[b]
      <4> SUFFICES ASSUME NEW a \in 1..l, NEW b \in 1..l, a < b PROVE e[a] < e[b]
        OBVIOUS
      <4>1. a \in DOMAIN r /\ a # l
        BY <2>4, <3>3
      <4>2. CASE b = l
        <5>1. f[a] \in 1..n /\ e[a] = f[a] /\ e[b] = n + 1
          BY <3>2, <3>4, <4>1, <4>2
        <5> QED BY <5>1
      <4>3. CASE b # l
        <5>1. b \in DOMAIN r
          BY <3>3, <4>3
        <5> QED BY <2>3, <3>4, <4>1, <5>1 DEF Embeds
      <4> QED BY <4>2, <4>3
    <3>7. \A i \in J : \E a \in 1..l : e[a] = i
      <4> SUFFICES ASSUME NEW i \in J PROVE \E a \in 1..l : e[a] = i
        OBVIOUS
      <4>1. CASE i = n + 1
        BY <3>3, <3>4, <4>1
      <4>2. CASE i \in I
        BY <2>3, <3>3, <3>4, <4>2 DEF Embeds, I
      <4> QED BY <3>2, <4>1, <4>2
    <3>8. \A a \in 1..l : t[a] = s[e[a]]
      BY <2>3, <3>1, <3>3, <3>4 DEF Embeds
    <3>9. Embeds(e, t, s, J)
      BY <3>1, <3>5, <3>6, <3>7, <3>8 DEF Embeds
    <3> QED BY <3>1, <3>3, <3>9 DEF J, t, Left
  <2> QED BY <2>5, <2>6
<1>3. Len(s) \in N
  <2> HIDE DEF N
  <2> QED BY <1>1, <1>2, SetOfNaturals
<1>4. DOMAIN s = 1..Len(s) /\ Len(s) \in Nat
  OBVIOUS
<1>5. Left(g[DOMAIN s], Len(s))
  <2> HIDE DEF Left
  <2> QED BY <1>3, <1>4
<1> HIDE DEF N
<1> QED BY <1>4, <1>5
================================================================================
