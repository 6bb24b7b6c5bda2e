---------------------------- MODULE SumTheorems ----------------------------
(***************************************************************************)
(* What SumFunction and SumFunctionOnSet of module Functions compute, for  *)
(* any finite set: the ledger's invariants are equations between sums.     *)
(* At the end, what several proofs need of sets of numbers and of numbers  *)
(* that are packed into one.                                               *)
(*                                                                         *)
(* The sums are defined by recursion over the subsets of a set, in an      *)
(* order that CHOOSE decides.  The lemmas first justify that recursion,    *)
(* then that the order does not matter, then the algebra of sums.  The     *)
(* induction principles of the library take an operator as a parameter;    *)
(* the ones used here take a set of good values instead.                   *)
(***************************************************************************)
EXTENDS Integers, FiniteSetsExt, Functions, FiniteSetTheorems, WellFoundedInduction, TLAPS

-----------------------------------------------------------------------------
(* Induction.                                                              *)

\* A non-empty set of natural numbers has a least element.
LEMMA LeastNatural ==
  ASSUME NEW T \in SUBSET Nat, T # {}
  PROVE  \E n \in T : \A m \in T : n <= m
PROOF
  <1> DEFINE Less == {ss \in Nat \X Nat : ss[1] < ss[2]}
  <1>1. IsWellFoundedOn(Less, Nat)
    BY NatLessThanWellFounded DEF OpToRel
  <1>2. PICK n \in T : \A m \in T : ~ (<<m, n>> \in Less)
    <2> HIDE DEF Less
    <2> QED
      BY <1>1, WFMin
  <1>3. \A m \in T : ~ (m < n)
    BY <1>2
  <1> QED
    BY <1>3

\* A set of natural numbers with 0 and all successors has them all.
LEMMA NaturalInduction ==
  ASSUME NEW Good, 0 \in Good, \A n \in Nat : n \in Good => n + 1 \in Good
  PROVE  \A n \in Nat : n \in Good
PROOF
  <1> SUFFICES ASSUME {n \in Nat : n \notin Good} # {} PROVE FALSE
    OBVIOUS
  <1>1. PICK n \in {n \in Nat : n \notin Good} : \A m \in {m \in Nat : m \notin Good} : n <= m
    BY LeastNatural
  <1>2. n - 1 \in Nat
    BY <1>1
  <1>3. n - 1 \in Good
    BY <1>1, <1>2
  <1>4. (n - 1) + 1 \in Good
    BY <1>2, <1>3
  <1>5. (n - 1) + 1 = n
    BY <1>1
  <1> QED
    BY <1>1, <1>4, <1>5

\* What holds of the empty set, and of a set with one element more, holds of
\* every finite set.
LEMMA SubsetInduction ==
  ASSUME NEW S, IsFiniteSet(S), NEW Good, {} \in Good,
         \A T \in SUBSET S : \A x \in S \ T : T \in Good => T \cup {x} \in Good
  PROVE  S \in Good
PROOF
  <1> DEFINE Sizes == {n \in Nat : \A T \in SUBSET S : Cardinality(T) = n => T \in Good}
  <1>1. \A T \in SUBSET S : IsFiniteSet(T) /\ Cardinality(T) \in Nat
    BY FS_Subset, FS_CardinalityType
  <1>2. 0 \in Sizes
    BY <1>1, FS_EmptySet
  <1>3. ASSUME NEW n \in Nat, n \in Sizes PROVE n + 1 \in Sizes
    <2>1. ASSUME NEW T \in SUBSET S, Cardinality(T) = n + 1 PROVE T \in Good
      <3>1. T # {}
        <4>1. Cardinality(T) # 0
          BY <2>1
        <4> HIDE DEF Sizes
        <4> QED
          BY <4>1, FS_EmptySet
      <3>2. PICK x \in T : TRUE
        BY <3>1
      <3>3. Cardinality(T \ {x}) = n
        <4> HIDE DEF Sizes
        <4>1. Cardinality(T \ {x}) = Cardinality(T) - 1
          BY <1>1, FS_RemoveElement
        <4> QED
          BY <2>1, <4>1
      <3>4. T \ {x} \in SUBSET S /\ T \ {x} \in Good /\ x \in S \ (T \ {x})
        BY <1>3, <3>2, <3>3
      <3>5. (T \ {x}) \cup {x} = T
        BY <3>2
      <3>6. (T \ {x}) \cup {x} \in Good
        BY <3>4
      <3> QED
        BY <3>5, <3>6
    <2> QED
      BY <2>1
  <1>4. \A n \in Nat : n \in Sizes
    <2> HIDE DEF Sizes
    <2> QED
      BY <1>2, <1>3, NaturalInduction
  <1>5. Cardinality(S) \in Sizes
    BY <1>1, <1>4
  <1> QED
    BY <1>5

-----------------------------------------------------------------------------
(* The recursion.                                                          *)

First(T) == CHOOSE x \in T : TRUE

\* The sums of f over all subsets of S, as the definition computes them.
IsSumTable(g, f, S) ==
  g = [T \in SUBSET S |-> IF T = {} THEN 0 ELSE f[First(T)] + g[T \ {First(T)}]]

\* The definition chooses such a table.
LEMMA SumIsTable ==
  ASSUME NEW f, NEW S
  PROVE  SumFunctionOnSet(f, S) = (CHOOSE g : IsSumTable(g, f, S))[S]
BY DEF SumFunctionOnSet, FoldFunctionOnSet, MapThenFoldSet, IsSumTable, First

\* There is one: it can be made for the subsets of at most n elements, whatever n.
LEMMA SumTableExists ==
  ASSUME NEW f, NEW S, IsFiniteSet(S)
  PROVE  \E g : IsSumTable(g, f, S)
PROOF
  <1> DEFINE Small(n) == {T \in SUBSET S : Cardinality(T) <= n}
             Next(g, n) == [T \in Small(n) |->
                              IF T = {} THEN 0 ELSE f[First(T)] + g[T \ {First(T)}]]
             Good == {n \in Nat : \E g : g = Next(g, n)}
  <1>1. \A T \in SUBSET S : IsFiniteSet(T) /\ Cardinality(T) \in Nat
                            /\ Cardinality(T) <= Cardinality(S)
    BY FS_Subset, FS_CardinalityType
  <1>2. \A T \in SUBSET S : T # {} =>
          /\ First(T) \in T /\ T \ {First(T)} \in SUBSET S
          /\ Cardinality(T \ {First(T)}) = Cardinality(T) - 1
          /\ Cardinality(T) >= 1
    <2> SUFFICES ASSUME NEW T \in SUBSET S, T # {}
                 PROVE  /\ First(T) \in T /\ T \ {First(T)} \in SUBSET S
                        /\ Cardinality(T \ {First(T)}) = Cardinality(T) - 1
                        /\ Cardinality(T) >= 1
      OBVIOUS
    <2>1. First(T) \in T
      BY DEF First
    <2>2. Cardinality(T) # 0
      BY <1>1, FS_EmptySet
    <2> QED
      BY <1>1, <2>1, <2>2, FS_RemoveElement
  <1>3. 0 \in Good
    <2> DEFINE g == [T \in Small(0) |-> 0]
    <2>1. ASSUME NEW T \in SUBSET S, Cardinality(T) <= 0 PROVE T = {}
      <3> HIDE DEF Good, Next, g
      <3>1. T # {} => Cardinality(T) >= 1
        BY <1>2
      <3>2. Cardinality(T) \in Nat
        BY <1>1
      <3> QED
        BY <2>1, <3>1, <3>2
    <2>2. g = Next(g, 0)
      BY <2>1
    <2> QED
      BY <2>2
  <1>4. ASSUME NEW n \in Nat, n \in Good PROVE n + 1 \in Good
    <2>1. PICK g : g = Next(g, n)
      BY <1>4
    <2> DEFINE h == Next(g, n + 1)
    <2>2. \A T \in Small(n) : T \in Small(n + 1) /\ h[T] = g[T]
      <3>1. \A T \in Small(n) : T \in Small(n + 1)
        BY <1>1
      <3>2. \A T \in Small(n) :
              g[T] = IF T = {} THEN 0 ELSE f[First(T)] + g[T \ {First(T)}]
        BY <2>1
      <3> QED
        BY <3>1, <3>2
    <2>3. \A T \in Small(n + 1) : T # {} => T \ {First(T)} \in Small(n)
      BY <1>1, <1>2
    <2>4. h = Next(h, n + 1)
      <3>1. ASSUME NEW T \in Small(n + 1), T # {}
            PROVE  g[T \ {First(T)}] = h[T \ {First(T)}]
        BY <2>2, <2>3, <3>1
      <3> HIDE DEF Small
      <3> QED
        BY <3>1
    <2> HIDE DEF Next, h
    <2> QED
      BY <2>4
  <1>5. \A n \in Nat : n \in Good
    <2> HIDE DEF Good
    <2> QED
      BY <1>3, <1>4, NaturalInduction
  <1>6. Cardinality(S) \in Good /\ Small(Cardinality(S)) = SUBSET S
    BY <1>1, <1>5
  <1>7. PICK g : g = Next(g, Cardinality(S))
    BY <1>6
  <1> QED
    BY <1>6, <1>7 DEF IsSumTable

\* Two tables agree where their functions do.
LEMMA SumTablesAgree ==
  ASSUME NEW f, NEW g, NEW S, IsFiniteSet(S), NEW R \in SUBSET S, \A x \in R : f[x] = g[x],
         NEW fs, IsSumTable(fs, f, S), NEW gs, IsSumTable(gs, g, R)
  PROVE  fs[R] = gs[R]
PROOF
  <1> DEFINE Good == {n \in Nat : \A T \in SUBSET R : Cardinality(T) = n => fs[T] = gs[T]}
  <1>1. \A T \in SUBSET R : IsFiniteSet(T) /\ Cardinality(T) \in Nat
    BY FS_Subset, FS_CardinalityType
  <1>2. \A T \in SUBSET R :
          /\ fs[T] = IF T = {} THEN 0 ELSE f[First(T)] + fs[T \ {First(T)}]
          /\ gs[T] = IF T = {} THEN 0 ELSE g[First(T)] + gs[T \ {First(T)}]
    BY DEF IsSumTable
  <1>3. 0 \in Good
    <2>1. \A T \in SUBSET R : Cardinality(T) = 0 => T = {}
      BY <1>1, FS_EmptySet
    <2> QED
      BY <1>2, <2>1
  <1>4. ASSUME NEW n \in Nat, n \in Good PROVE n + 1 \in Good
    <2>1. ASSUME NEW T \in SUBSET R, Cardinality(T) = n + 1 PROVE fs[T] = gs[T]
      <3>1. T # {}
        <4>1. Cardinality(T) # 0
          BY <2>1
        <4> HIDE DEF Good
        <4> QED
          BY <4>1, FS_EmptySet
      <3>2. First(T) \in T
        BY <3>1 DEF First
      <3>3. Cardinality(T \ {First(T)}) = n
        <4> HIDE DEF Good
        <4>1. Cardinality(T \ {First(T)}) = Cardinality(T) - 1
          BY <1>1, <3>2, FS_RemoveElement
        <4> QED
          BY <2>1, <4>1
      <3>4. T \ {First(T)} \in SUBSET R
        OBVIOUS
      <3>5. fs[T \ {First(T)}] = gs[T \ {First(T)}]
        BY <1>4, <3>3, <3>4
      <3> QED
        BY <1>2, <3>1, <3>2, <3>5
    <2> QED
      BY <2>1
  <1>5. \A n \in Nat : n \in Good
    <2> HIDE DEF Good
    <2> QED
      BY <1>3, <1>4, NaturalInduction
  <1> QED
    BY <1>1, <1>5

\* The sum over a finite set is the entry of any table.
LEMMA SumInTable ==
  ASSUME NEW f, NEW S, IsFiniteSet(S), NEW R \in SUBSET S, NEW g, IsSumTable(g, f, S)
  PROVE  SumFunctionOnSet(f, R) = g[R]
PROOF
  <1>1. IsFiniteSet(R)
    BY FS_Subset
  <1>2. PICK h : IsSumTable(h, f, R) /\ SumFunctionOnSet(f, R) = h[R]
    BY <1>1, SumTableExists, SumIsTable
  <1>3. g[R] = h[R]
    <2>1. PICK e : e = f
      OBVIOUS
    <2>2. IsSumTable(h, e, R) /\ \A x \in R : f[x] = e[x]
      BY <1>2, <2>1
    <2> HIDE <2>1
    <2> QED
      BY <2>2, SumTablesAgree
  <1> QED
    BY <1>2, <1>3

\* Nothing sums to 0.
LEMMA SumOfNothing == \A f : SumFunctionOnSet(f, {}) = 0
PROOF
  <1> TAKE f
  <1>1. IsFiniteSet({})
    BY FS_EmptySet
  <1>2. PICK g : IsSumTable(g, f, {})
    BY <1>1, SumTableExists
  <1>3. SumFunctionOnSet(f, {}) = g[{}]
    BY <1>1, <1>2, SumInTable
  <1> QED
    BY <1>2, <1>3 DEF IsSumTable

\* The element that the definition takes first.
LEMMA SumTakesFirst ==
  ASSUME NEW f, NEW S, IsFiniteSet(S), S # {}
  PROVE  SumFunctionOnSet(f, S) = f[First(S)] + SumFunctionOnSet(f, S \ {First(S)})
PROOF
  <1>1. PICK g : IsSumTable(g, f, S)
    BY SumTableExists
  <1>2. SumFunctionOnSet(f, S) = g[S]
    BY <1>1, SumInTable
  <1>3. SumFunctionOnSet(f, S \ {First(S)}) = g[S \ {First(S)}]
    BY <1>1, SumInTable
  <1>4. g[S] = f[First(S)] + g[S \ {First(S)}]
    BY <1>1 DEF IsSumTable
  <1> QED
    BY <1>2, <1>3, <1>4

-----------------------------------------------------------------------------
(* The order does not matter.                                              *)

\* A sum depends on no more of a function than its values in the set.
LEMMA SumOfEqual ==
  ASSUME NEW f, NEW g, NEW S, IsFiniteSet(S), \A x \in S : f[x] = g[x]
  PROVE  SumFunctionOnSet(f, S) = SumFunctionOnSet(g, S)
PROOF
  <1>1. PICK fs : IsSumTable(fs, f, S)
    BY SumTableExists
  <1>2. PICK gs : IsSumTable(gs, g, S)
    BY SumTableExists
  <1>3. fs[S] = gs[S]
    BY <1>1, <1>2, SumTablesAgree
  <1> QED
    BY <1>1, <1>2, <1>3, SumInTable

\* Integers sum to an integer.
LEMMA SumType ==
  ASSUME NEW f, NEW S, IsFiniteSet(S), \A x \in S : f[x] \in Int
  PROVE  SumFunctionOnSet(f, S) \in Int
PROOF
  <1> DEFINE Sum(T) == SumFunctionOnSet(f, T)
             Good == {n \in Nat : \A T \in SUBSET S : Cardinality(T) = n => Sum(T) \in Int}
  <1>1. \A T \in SUBSET S : IsFiniteSet(T) /\ Cardinality(T) \in Nat
    BY FS_Subset, FS_CardinalityType
  <1>2. 0 \in Good
    <2>1. \A T \in SUBSET S : Cardinality(T) = 0 => T = {}
      BY <1>1, FS_EmptySet
    <2>2. Sum({}) \in Int
      BY SumOfNothing
    <2> HIDE DEF Sum
    <2> QED
      BY <2>1, <2>2
  <1>3. ASSUME NEW n \in Nat, n \in Good PROVE n + 1 \in Good
    <2>1. ASSUME NEW T \in SUBSET S, Cardinality(T) = n + 1 PROVE Sum(T) \in Int
      <3>1. T # {}
        <4>1. Cardinality(T) # 0
          BY <2>1
        <4> HIDE DEF Good
        <4> QED
          BY <4>1, FS_EmptySet
      <3>2. First(T) \in T
        BY <3>1 DEF First
      <3>3. Cardinality(T \ {First(T)}) = n
        <4> HIDE DEF Good
        <4>1. Cardinality(T \ {First(T)}) = Cardinality(T) - 1
          BY <1>1, <3>2, FS_RemoveElement
        <4> QED
          BY <2>1, <4>1
      <3>4. Sum(T) = f[First(T)] + Sum(T \ {First(T)})
        BY <1>1, <3>1, SumTakesFirst
      <3> HIDE DEF Sum
      <3>5. Sum(T \ {First(T)}) \in Int
        BY <1>3, <3>3
      <3> QED
        BY <3>2, <3>4, <3>5
    <2> HIDE DEF Sum
    <2> QED
      BY <2>1
  <1>4. \A n \in Nat : n \in Good
    <2> HIDE DEF Good
    <2> QED
      BY <1>2, <1>3, NaturalInduction
  <1>5. Sum(S) \in Int
    <2> HIDE DEF Sum
    <2> QED
      BY <1>1, <1>4
  <1> QED
    BY <1>5

\* Any element may be taken first.
LEMMA SumTakesAny ==
  ASSUME NEW f, NEW S, IsFiniteSet(S), \A x \in S : f[x] \in Int, NEW x \in S
  PROVE  SumFunctionOnSet(f, S) = f[x] + SumFunctionOnSet(f, S \ {x})
PROOF
  <1> DEFINE Sum(T) == SumFunctionOnSet(f, T)
             Takes(T) == \A y \in T : Sum(T) = f[y] + Sum(T \ {y})
             Good == {n \in Nat : \A T \in SUBSET S : Cardinality(T) = n => Takes(T)}
  <1>1. \A T \in SUBSET S : IsFiniteSet(T) /\ Cardinality(T) \in Nat /\ Sum(T) \in Int
    BY FS_Subset, FS_CardinalityType, SumType
  <1>2. 0 \in Good
    BY <1>1, FS_EmptySet
  <1>3. ASSUME NEW n \in Nat, n \in Good PROVE n + 1 \in Good
    <2>1. ASSUME NEW T \in SUBSET S, Cardinality(T) = n + 1, NEW y \in T
          PROVE  Sum(T) = f[y] + Sum(T \ {y})
      <3> DEFINE c == First(T)
      <3>1. c \in T
        BY DEF First
      <3>2. \A z \in T : T \ {z} \in SUBSET S /\ Takes(T \ {z})
        <4> SUFFICES ASSUME NEW z \in T PROVE Takes(T \ {z})
          OBVIOUS
        <4>1. Cardinality(T \ {z}) = n
          <5> HIDE DEF Good
          <5>1. Cardinality(T \ {z}) = Cardinality(T) - 1
            BY <1>1, FS_RemoveElement
          <5> QED
            BY <2>1, <5>1
        <4> HIDE DEF Takes
        <4> QED
          BY <1>3, <4>1
      <3>3. Sum(T) = f[c] + Sum(T \ {c})
        BY <1>1, SumTakesFirst
      <3> HIDE DEF c, Good
      <3>4. CASE y = c
        BY <3>3, <3>4
      <3>5. CASE y # c
        <4> DEFINE rest == Sum((T \ {y}) \ {c})
        <4>1. Sum(T \ {c}) = f[y] + rest
          <5>1. Sum(T \ {c}) = f[y] + Sum((T \ {c}) \ {y})
            BY <3>1, <3>2, <3>5
          <5>2. (T \ {c}) \ {y} = (T \ {y}) \ {c}
            OBVIOUS
          <5> QED
            BY <5>1, <5>2
        <4>2. Sum(T \ {y}) = f[c] + rest
          BY <3>1, <3>2, <3>5
        <4>3. f[y] \in Int /\ f[c] \in Int /\ rest \in Int
          BY <1>1, <3>1
        <4> HIDE DEF rest, Sum
        <4> QED
          BY <3>3, <4>1, <4>2, <4>3
      <3> QED
        BY <3>4, <3>5
    <2> HIDE DEF Sum
    <2> QED
      BY <2>1
  <1>4. \A n \in Nat : n \in Good
    <2> HIDE DEF Good
    <2> QED
      BY <1>2, <1>3, NaturalInduction
  <1>5. Takes(S)
    <2> HIDE DEF Takes
    <2> QED
      BY <1>1, <1>4
  <1> QED
    BY <1>5

\* One element more.
LEMMA SumWithElement ==
  ASSUME NEW f, NEW S, IsFiniteSet(S), \A x \in S : f[x] \in Int,
         NEW T \in SUBSET S, NEW x \in S \ T
  PROVE  SumFunctionOnSet(f, T \cup {x}) = f[x] + SumFunctionOnSet(f, T)
PROOF
  <1>1. IsFiniteSet(T \cup {x}) /\ \A y \in T \cup {x} : f[y] \in Int
    BY FS_Subset
  <1>2. (T \cup {x}) \ {x} = T
    OBVIOUS
  <1> QED
    BY <1>1, <1>2, SumTakesAny

-----------------------------------------------------------------------------
(* The algebra of sums.                                                    *)

\* Zeros sum to 0.
LEMMA SumOfZeros ==
  ASSUME NEW f, NEW S, IsFiniteSet(S), \A x \in S : f[x] = 0
  PROVE  SumFunctionOnSet(f, S) = 0
PROOF
  <1> DEFINE Sum(T) == SumFunctionOnSet(f, T)
             Good == {T \in SUBSET S : Sum(T) = 0}
  <1>1. Sum({}) = 0
    BY SumOfNothing
  <1>2. ASSUME NEW T \in SUBSET S, NEW x \in S \ T, Sum(T) = 0
        PROVE  Sum(T \cup {x}) = 0
    BY <1>2, SumWithElement
  <1>3. S \in Good
    <2> HIDE DEF Sum
    <2>1. {} \in Good
      BY <1>1
    <2>2. \A T \in SUBSET S : \A x \in S \ T : T \in Good => T \cup {x} \in Good
      BY <1>2
    <2> HIDE DEF Good
    <2> QED
      BY <2>1, <2>2, SubsetInduction
  <1> QED
    BY <1>3

\* A linear combination is summed term by term.
LEMMA SumIsLinear ==
  ASSUME NEW f, NEW g, NEW h, NEW S, IsFiniteSet(S), NEW c \in Int,
         \A x \in S : f[x] \in Int /\ g[x] \in Int /\ h[x] = f[x] + c * g[x]
  PROVE  SumFunctionOnSet(h, S) = SumFunctionOnSet(f, S) + c * SumFunctionOnSet(g, S)
PROOF
  <1> DEFINE F(T) == SumFunctionOnSet(f, T)
             G(T) == SumFunctionOnSet(g, T)
             H(T) == SumFunctionOnSet(h, T)
             Good == {T \in SUBSET S : H(T) = F(T) + c * G(T)}
  <1>1. \A x \in S : h[x] \in Int
    OBVIOUS
  <1>2. F({}) = 0 /\ G({}) = 0 /\ H({}) = 0
    BY SumOfNothing
  <1>3. ASSUME NEW T \in SUBSET S, NEW x \in S \ T, H(T) = F(T) + c * G(T)
        PROVE  H(T \cup {x}) = F(T \cup {x}) + c * G(T \cup {x})
    <2>1. F(T \cup {x}) = f[x] + F(T) /\ G(T \cup {x}) = g[x] + G(T)
      BY SumWithElement
    <2>2. H(T \cup {x}) = h[x] + H(T)
      BY <1>1, SumWithElement
    <2>3. IsFiniteSet(T) /\ F(T) \in Int /\ G(T) \in Int
      BY FS_Subset, SumType
    <2> HIDE DEF F, G, H
    <2>4. c * (g[x] + G(T)) = c * g[x] + c * G(T) /\ c * g[x] \in Int /\ c * G(T) \in Int
      BY <2>3
    <2> QED
      BY <1>3, <2>1, <2>2, <2>3, <2>4
  <1>4. S \in Good
    <2> HIDE DEF F, G, H
    <2>1. {} \in Good
      BY <1>2
    <2>2. \A T \in SUBSET S : \A x \in S \ T : T \in Good => T \cup {x} \in Good
      BY <1>3
    <2> HIDE DEF Good
    <2> QED
      BY <2>1, <2>2, SubsetInduction
  <1> QED
    BY <1>4

\* So is a sum of two.
LEMMA SumAdds ==
  ASSUME NEW f, NEW g, NEW h, NEW S, IsFiniteSet(S),
         \A x \in S : f[x] \in Int /\ g[x] \in Int /\ h[x] = f[x] + g[x]
  PROVE  SumFunctionOnSet(h, S) = SumFunctionOnSet(f, S) + SumFunctionOnSet(g, S)
PROOF
  <1>1. PICK c \in Int : c = 1
    OBVIOUS
  <1>2. \A x \in S : f[x] \in Int /\ g[x] \in Int /\ h[x] = f[x] + c * g[x]
    BY <1>1
  <1>3. SumFunctionOnSet(h, S) = SumFunctionOnSet(f, S) + c * SumFunctionOnSet(g, S)
    <2> HIDE <1>1
    <2> QED
      BY <1>2, SumIsLinear
  <1>4. SumFunctionOnSet(g, S) \in Int
    BY SumType
  <1> QED
    BY <1>1, <1>3, <1>4

\* Larger terms have a larger sum.
LEMMA SumIsMonotone ==
  ASSUME NEW f, NEW g, NEW S, IsFiniteSet(S),
         \A x \in S : f[x] \in Int /\ g[x] \in Int /\ f[x] <= g[x]
  PROVE  SumFunctionOnSet(f, S) <= SumFunctionOnSet(g, S)
PROOF
  <1> DEFINE F(T) == SumFunctionOnSet(f, T)
             G(T) == SumFunctionOnSet(g, T)
             Good == {T \in SUBSET S : F(T) <= G(T)}
  <1>1. F({}) <= G({})
    BY SumOfNothing
  <1>2. ASSUME NEW T \in SUBSET S, NEW x \in S \ T, F(T) <= G(T)
        PROVE  F(T \cup {x}) <= G(T \cup {x})
    <2>1. F(T \cup {x}) = f[x] + F(T) /\ G(T \cup {x}) = g[x] + G(T)
      BY SumWithElement
    <2>2. IsFiniteSet(T) /\ F(T) \in Int /\ G(T) \in Int
      BY FS_Subset, SumType
    <2> HIDE DEF F, G
    <2> QED
      BY <1>2, <2>1, <2>2
  <1>3. S \in Good
    <2> HIDE DEF F, G
    <2>1. {} \in Good
      BY <1>1
    <2>2. \A T \in SUBSET S : \A x \in S \ T : T \in Good => T \cup {x} \in Good
      BY <1>2
    <2> HIDE DEF Good
    <2> QED
      BY <2>1, <2>2, SubsetInduction
  <1> QED
    BY <1>3

\* If one term changes, the sum changes by as much.
LEMMA SumAfterChange ==
  ASSUME NEW f, NEW g, NEW S, IsFiniteSet(S), NEW x \in S,
         \A y \in S : f[y] \in Int /\ g[y] \in Int,
         \A y \in S \ {x} : g[y] = f[y]
  PROVE  SumFunctionOnSet(g, S) = SumFunctionOnSet(f, S) + (g[x] - f[x])
PROOF
  <1>1. IsFiniteSet(S \ {x})
    BY FS_RemoveElement
  <1>2. SumFunctionOnSet(f, S \ {x}) = SumFunctionOnSet(g, S \ {x})
    BY <1>1, SumOfEqual
  <1>3. SumFunctionOnSet(f, S \ {x}) \in Int
    BY <1>1, SumType
  <1>4. SumFunctionOnSet(f, S) = f[x] + SumFunctionOnSet(f, S \ {x})
    BY SumTakesAny
  <1>5. SumFunctionOnSet(g, S) = g[x] + SumFunctionOnSet(g, S \ {x})
    BY SumTakesAny
  <1> QED
    BY <1>2, <1>3, <1>4, <1>5

\* Terms that are 0 may be left out.
LEMMA SumWithoutZeros ==
  ASSUME NEW f, NEW S, IsFiniteSet(S), NEW R \in SUBSET S,
         \A x \in S : f[x] \in Int, \A x \in S \ R : f[x] = 0
  PROVE  SumFunctionOnSet(f, S) = SumFunctionOnSet(f, R)
PROOF
  <1> DEFINE Sum(T) == SumFunctionOnSet(f, T)
             Good == {T \in SUBSET S : Sum(T) = Sum(T \cap R)}
  <1>1. {} \cap R = {}
    OBVIOUS
  <1>2. ASSUME NEW T \in SUBSET S, NEW x \in S \ T, Sum(T) = Sum(T \cap R)
        PROVE  Sum(T \cup {x}) = Sum((T \cup {x}) \cap R)
    <2>1. Sum(T \cup {x}) = f[x] + Sum(T)
      BY SumWithElement
    <2>2. IsFiniteSet(T) /\ Sum(T) \in Int
      BY FS_Subset, SumType
    <2>3. CASE x \in R
      <3>1. (T \cup {x}) \cap R = (T \cap R) \cup {x}
        BY <2>3
      <3>2. T \cap R \in SUBSET S /\ x \in S \ (T \cap R)
        OBVIOUS
      <3>3. Sum((T \cap R) \cup {x}) = f[x] + Sum(T \cap R)
        BY <3>2, SumWithElement
      <3> HIDE DEF Sum
      <3> QED
        BY <1>2, <2>1, <3>1, <3>3
    <2>4. CASE x \notin R
      <3>1. (T \cup {x}) \cap R = T \cap R
        BY <2>4
      <3>2. f[x] = 0
        BY <2>4
      <3>3. Sum(T \cup {x}) = Sum(T)
        BY <2>1, <2>2, <3>2
      <3> HIDE DEF Sum
      <3> QED
        BY <1>2, <3>1, <3>3
    <2> QED
      BY <2>3, <2>4
  <1>3. S \in Good
    <2> HIDE DEF Sum
    <2>1. {} \in Good
      BY <1>1
    <2>2. \A T \in SUBSET S : \A x \in S \ T : T \in Good => T \cup {x} \in Good
      BY <1>2
    <2> HIDE DEF Good
    <2> QED
      BY <2>1, <2>2, SubsetInduction
  <1>4. S \cap R = R
    OBVIOUS
  <1> QED
    BY <1>3, <1>4

\* A sum of naturals is a natural that bounds each of its terms.
LEMMA SumOfNaturals ==
  ASSUME NEW f, NEW S, IsFiniteSet(S), \A x \in S : f[x] \in Nat
  PROVE  /\ SumFunctionOnSet(f, S) \in Nat
         /\ \A x \in S : f[x] <= SumFunctionOnSet(f, S)
PROOF
  <1>1. ASSUME NEW T \in SUBSET S PROVE SumFunctionOnSet(f, T) \in Nat
    <2> DEFINE zeros == [x \in T |-> 0]
    <2>1. /\ IsFiniteSet(T)
          /\ \A x \in T : zeros[x] = 0 /\ zeros[x] \in Int /\ f[x] \in Int /\ zeros[x] <= f[x]
      BY FS_Subset
    <2> HIDE DEF zeros
    <2>2. SumFunctionOnSet(zeros, T) = 0 /\ SumFunctionOnSet(f, T) \in Int
      BY <2>1, SumOfZeros, SumType
    <2>3. SumFunctionOnSet(zeros, T) <= SumFunctionOnSet(f, T)
      BY <2>1, SumIsMonotone
    <2> QED
      BY <2>2, <2>3
  <1>2. ASSUME NEW x \in S PROVE f[x] <= SumFunctionOnSet(f, S)
    <2>1. SumFunctionOnSet(f, S) = f[x] + SumFunctionOnSet(f, S \ {x})
      BY SumTakesAny
    <2>2. SumFunctionOnSet(f, S \ {x}) \in Nat
      BY <1>1
    <2> QED
      BY <2>1, <2>2
  <1> QED
    BY <1>1, <1>2

\* Each term of f is the sum of a row of the table over T.
SumsRows(f, table, S, T) == \A x \in S : f[x] = SumFunctionOnSet(table[x], T)

\* The columns of one table are the rows of the other.
Transposes(turned, table, S, T) ==
  \A x \in S : \A y \in T : table[x][y] \in Int /\ turned[y][x] = table[x][y]

\* A table may be summed by rows or by columns.
LEMMA SumByColumns ==
  ASSUME NEW S, NEW T, IsFiniteSet(S), IsFiniteSet(T),
         NEW table, NEW turned, Transposes(turned, table, S, T),
         NEW row, SumsRows(row, table, S, T), NEW column, SumsRows(column, turned, T, S)
  PROVE  SumFunctionOnSet(row, S) = SumFunctionOnSet(column, T)
PROOF
  <1> DEFINE Part(U) == [y \in T |-> SumFunctionOnSet(turned[y], U)]
             Good == {U \in SUBSET S : SumFunctionOnSet(row, U) = SumFunctionOnSet(Part(U), T)}
  <1> USE DEF SumsRows, Transposes
  <1>1. \A x \in S : row[x] \in Int
    BY SumType
  <1>2. SumFunctionOnSet(row, {}) = SumFunctionOnSet(Part({}), T)
    <2>1. \A y \in T : Part({})[y] = 0
      BY SumOfNothing
    <2> HIDE DEF Part
    <2> QED
      BY <2>1, SumOfNothing, SumOfZeros
  <1>3. ASSUME NEW U \in SUBSET S, NEW x \in S \ U,
               SumFunctionOnSet(row, U) = SumFunctionOnSet(Part(U), T)
        PROVE  SumFunctionOnSet(row, U \cup {x}) = SumFunctionOnSet(Part(U \cup {x}), T)
    <2>1. SumFunctionOnSet(row, U \cup {x}) = row[x] + SumFunctionOnSet(row, U)
      BY <1>1, SumWithElement
    <2>2. IsFiniteSet(U)
      BY FS_Subset
    <2>3. \A y \in T : /\ Part(U)[y] \in Int /\ table[x][y] \in Int
                       /\ Part(U \cup {x})[y] = Part(U)[y] + table[x][y]
      <3> SUFFICES ASSUME NEW y \in T
                   PROVE  /\ Part(U)[y] \in Int /\ table[x][y] \in Int
                          /\ Part(U \cup {x})[y] = Part(U)[y] + table[x][y]
        OBVIOUS
      <3> DEFINE entries == turned[y]
      <3>1. \A z \in S : entries[z] = table[z][y] /\ entries[z] \in Int
        OBVIOUS
      <3> HIDE DEF entries
      <3>2. SumFunctionOnSet(entries, U) \in Int
        BY <2>2, <3>1, SumType
      <3>3. SumFunctionOnSet(entries, U \cup {x})
              = entries[x] + SumFunctionOnSet(entries, U)
        BY <3>1, SumWithElement
      <3> QED
        BY <3>1, <3>2, <3>3 DEF entries
    <2> HIDE DEF Part
    <2>4. SumFunctionOnSet(Part(U \cup {x}), T)
            = SumFunctionOnSet(Part(U), T) + SumFunctionOnSet(table[x], T)
      <3> DEFINE f == Part(U)
                 g == table[x]
                 h == Part(U \cup {x})
      <3>1. \A y \in T : f[y] \in Int /\ g[y] \in Int /\ h[y] = f[y] + g[y]
        BY <2>3
      <3> HIDE DEF f, g, h
      <3>2. SumFunctionOnSet(h, T) = SumFunctionOnSet(f, T) + SumFunctionOnSet(g, T)
        BY <3>1, SumAdds
      <3> QED
        BY <3>2 DEF f, g, h
    <2>5. SumFunctionOnSet(Part(U), T) \in Int
      BY <2>3, SumType
    <2>6. row[x] = SumFunctionOnSet(table[x], T) /\ row[x] \in Int
      BY <1>1
    <2> QED
      BY <1>3, <2>1, <2>4, <2>5, <2>6
  <1>4. S \in Good
    <2>1. {} \in Good
      BY <1>2
    <2>2. \A U \in SUBSET S : \A x \in S \ U : U \in Good => U \cup {x} \in Good
      <3> HIDE DEF Part
      <3> QED
        BY <1>3
    <2> HIDE DEF Good
    <2> QED
      BY <2>1, <2>2, SubsetInduction
  <1>5. \A y \in T : Part(S)[y] = column[y]
    OBVIOUS
  <1>6. SumFunctionOnSet(Part(S), T) = SumFunctionOnSet(column, T)
    <2> HIDE DEF Part
    <2> QED
      BY <1>5, SumOfEqual
  <1> QED
    BY <1>4, <1>6

-----------------------------------------------------------------------------
(* Numbers: the greatest of a set, the set in order, fields of a number.  *)

\* The greatest index of a set of indices that has n.
LEMMA MaxOfIndices ==
  ASSUME NEW n \in Nat \ {0}, NEW T \in SUBSET (1 .. n), n \in T
  PROVE  Max(T) = n
PROOF
  <1>1. \A y \in T : n >= y /\ y \in Int
    OBVIOUS
  <1>2. Max(T) \in T /\ \A y \in T : Max(T) >= y
    BY <1>1 DEF Max
  <1>3. Max(T) >= n /\ n >= Max(T) /\ Max(T) \in Int
    BY <1>1, <1>2
  <1> QED
    BY <1>3

\* The greatest index of a set of indices is one of them.
LEMMA MaxIsIndex ==
  ASSUME NEW n \in Nat, NEW T \in SUBSET (1 .. n), T # {}
  PROVE  Max(T) \in T /\ Max(T) \in 1 .. n /\ T \ {Max(T)} \in SUBSET (1 .. n)
PROOF
  <1> DEFINE Below == {m \in Nat : n - m \in T}
  <1>1. Below # {}
    <2>1. PICK y \in T : TRUE
      OBVIOUS
    <2>2. n - y \in Below
      BY <2>1
    <2> QED
      BY <2>2
  <1>2. PICK m \in Below : \A k \in Below : m <= k
    <2> HIDE DEF Below
    <2>1. Below \in SUBSET Nat
      BY DEF Below
    <2> QED
      BY <1>1, <2>1, LeastNatural
  <1>3. \A y \in T : n - y \in Below /\ m <= n - y
    <2> SUFFICES ASSUME NEW y \in T PROVE n - y \in Below
      BY <1>2
    <2>1. y \in Int /\ n - y \in Nat /\ n - (n - y) = y
      OBVIOUS
    <2> QED
      BY <2>1
  <1>4. n - m \in T /\ \A y \in T : n - m >= y
    BY <1>2, <1>3
  <1>5. Max(T) \in T
    BY <1>4 DEF Max
  <1> QED
    BY <1>5

\* The numbers of a set, each once, in increasing order.
Ascends(seq, S, n) ==
  /\ seq \in [1 .. n -> S]
  /\ \A i, j \in 1 .. n : i < j => seq[i] < seq[j]

\* A finite set of natural numbers has a greatest one.
LEMMA GreatestNatural ==
  ASSUME NEW S \in SUBSET Nat, IsFiniteSet(S), S # {}
  PROVE  \E m \in S : \A y \in S : y <= m
PROOF
  <1> DEFINE Good == {T \in SUBSET S : T # {} => \E m \in T : \A y \in T : y <= m}
  <1>1. {} \in Good
    OBVIOUS
  <1>2. ASSUME NEW T \in SUBSET S, NEW x \in S \ T, T \in Good
        PROVE  T \cup {x} \in Good
    <2>1. CASE T = {}
      BY <2>1
    <2>2. CASE T # {}
      <3>1. PICK m \in T : \A y \in T : y <= m
        BY <1>2, <2>2
      <3>2. CASE x <= m
        BY <3>1, <3>2
      <3>3. CASE m < x
        <4>1. \A y \in T \cup {x} : y <= x
          BY <3>1, <3>3
        <4> QED
          BY <4>1
      <3> QED
        BY <3>1, <3>2, <3>3
    <2> QED
      BY <2>1, <2>2
  <1>3. S \in Good
    <2> HIDE DEF Good
    <2> QED
      BY <1>1, <1>2, SubsetInduction
  <1> QED
    BY <1>3

\* A finite set of natural numbers can be sorted: the greatest one comes last.
LEMMA SetsCanBeSorted ==
  ASSUME NEW S \in SUBSET Nat, IsFiniteSet(S)
  PROVE  \E seq : Ascends(seq, S, Cardinality(S))
PROOF
  <1> DEFINE Good == {n \in Nat : \A T \in SUBSET S : Cardinality(T) = n => \E seq : Ascends(seq, T, n)}
  <1>1. \A T \in SUBSET S : IsFiniteSet(T) /\ Cardinality(T) \in Nat
    BY FS_Subset, FS_CardinalityType
  <1>2. 0 \in Good
    <2>1. \A T \in SUBSET S : Ascends(<<>>, T, 0)
      BY DEF Ascends
    <2> QED
      BY <2>1
  <1>3. ASSUME NEW n \in Nat, n \in Good PROVE n + 1 \in Good
    <2> SUFFICES ASSUME NEW T \in SUBSET S, Cardinality(T) = n + 1
                 PROVE  \E seq : Ascends(seq, T, n + 1)
      OBVIOUS
    <2>1. T # {}
      <3>1. Cardinality(T) # 0
        OBVIOUS
      <3> HIDE DEF Good
      <3> QED
        BY <3>1, FS_EmptySet
    <2>2. PICK m \in T : \A y \in T : y <= m
      <3> HIDE DEF Good
      <3> QED
        BY <1>1, <2>1, GreatestNatural
    <2>3. Cardinality(T \ {m}) = n
      <3>1. Cardinality(T \ {m}) = Cardinality(T) - 1
        <4> HIDE DEF Good
        <4> QED
          BY <1>1, FS_RemoveElement
      <3> QED
        BY <3>1
    <2>4. T \ {m} \in SUBSET S
      OBVIOUS
    <2>5. PICK q : Ascends(q, T \ {m}, n)
      BY <1>3, <2>3, <2>4
    <2> DEFINE seq == [i \in 1 .. (n + 1) |-> IF i = n + 1 THEN m ELSE q[i]]
    <2>6. \A i \in 1 .. n : q[i] \in T /\ q[i] # m /\ q[i] \in Nat /\ q[i] < m
      <3> SUFFICES ASSUME NEW i \in 1 .. n PROVE q[i] \in T /\ q[i] # m /\ q[i] \in Nat /\ q[i] < m
        OBVIOUS
      <3>1. q[i] \in T \ {m}
        BY <2>5 DEF Ascends
      <3>2. q[i] \in Nat /\ m \in Nat /\ q[i] <= m /\ q[i] # m
        BY <2>2, <3>1
      <3> QED
        BY <3>1, <3>2
    <2>7. \A i \in 1 .. (n + 1) : i = n + 1 \/ i \in 1 .. n
      OBVIOUS
    <2>8. seq \in [1 .. (n + 1) -> T]
      BY <2>6, <2>7
    <2>9. ASSUME NEW i \in 1 .. (n + 1), NEW j \in 1 .. (n + 1), i < j PROVE seq[i] < seq[j]
      <3>1. i \in 1 .. n /\ i # n + 1 /\ seq[i] = q[i]
        BY <2>9
      <3>2. CASE j = n + 1
        BY <2>6, <3>1, <3>2
      <3>3. CASE j # n + 1
        <4>1. j \in 1 .. n /\ seq[j] = q[j]
          BY <3>3
        <4> QED
          BY <2>5, <2>9, <3>1, <4>1 DEF Ascends
      <3> QED
        BY <3>2, <3>3
    <2>10. Ascends(seq, T, n + 1)
      <3> HIDE DEF seq
      <3> QED
        BY <2>8, <2>9 DEF Ascends
    <2> QED
      BY <2>10
  <1> HIDE DEF Good
  <1>4. Cardinality(S) \in Good
    BY <1>1, <1>2, <1>3, NaturalInduction
  <1> QED
    BY <1>1, <1>4 DEF Good

\* The low part of a packed number.
LEMMA LowPart ==
  ASSUME NEW m \in Nat \ {0}, NEW x \in Int, NEW b \in 0 .. m - 1
  PROVE  (x * m + b) % m = b
PROOF
  <1> DEFINE n == x * m + b
             q == n \div m
             r == n % m
  <1>1. n \in Int
    OBVIOUS
  <1>2. q \in Int /\ r \in 0 .. m - 1 /\ n = m * q + r
    <2> HIDE DEF n
    <2> QED
      BY <1>1, SMT
  <1>3. m * (x - q) = r - b
    <2>1. x * m + b = m * q + r
      BY <1>2
    <2> HIDE DEF n, q, r
    <2> QED
      BY <1>2, <2>1
  <1>4. x = q
    <2> HIDE DEF q, r, n
    <2>1. CASE x - q >= 1
      <3>1. m * (x - q) >= m
        BY <1>2, <2>1
      <3> QED
        BY <1>2, <1>3, <3>1
    <2>2. CASE x - q <= -1
      <3>1. m * (x - q) <= -m
        BY <1>2, <2>2
      <3> QED
        BY <1>2, <1>3, <3>1
    <2> QED
      BY <1>2, <2>1, <2>2
  <1> HIDE DEF n, q, r
  <1>5. r = b
    BY <1>2, <1>3, <1>4
  <1> QED
    BY <1>5 DEF n, r

\* What was put on top of a field that is in range.
LEMMA HighPart ==
  ASSUME NEW m \in Nat \ {0}, NEW x \in Int, NEW b \in 0 .. m - 1
  PROVE  (x * m + b) \div m = x
PROOF
  <1> DEFINE n == x * m + b
             q == n \div m
             r == n % m
  <1>1. n \in Int /\ r = b
    BY LowPart
  <1>2. q \in Int /\ n = m * q + r
    <2> HIDE DEF n
    <2> QED
      BY <1>1, SMT
  <1>3. m * (x - q) = 0
    <2>1. x * m + b = m * q + b
      BY <1>1, <1>2
    <2> HIDE DEF n, q, r
    <2> QED
      BY <1>2, <2>1
  <1>4. x - q = 0
    <2> HIDE DEF q, r, n
    <2>1. CASE x - q >= 1
      <3>1. m * (x - q) >= m
        BY <1>2, <2>1
      <3> QED
        BY <1>2, <1>3, <3>1
    <2>2. CASE x - q <= -1
      <3>1. m * (x - q) <= -m
        BY <1>2, <2>2
      <3> QED
        BY <1>2, <1>3, <3>1
    <2> QED
      BY <1>2, <2>1, <2>2
  <1> HIDE DEF q, r
  <1>5. q = x
    BY <1>2, <1>4
  <1> QED
    BY <1>5 DEF q, n

\* Two fields together take the room of both.
LEMMA RoomOfTwo ==
  ASSUME NEW a \in Nat \ {0}, NEW m \in Nat \ {0}, NEW x \in 0 .. a - 1, NEW b \in 0 .. m - 1
  PROVE  x * m + b \in 0 .. a * m - 1 /\ a * m \in Nat \ {0}
PROOF
  <1>1. x + 1 <= a /\ x * m \in Nat /\ a * m \in Nat
    OBVIOUS
  <1>2. (x + 1) * m <= a * m
    <2> DEFINE d == a - (x + 1)
    <2>1. d \in Nat /\ a = d + (x + 1)
      BY <1>1
    <2> HIDE DEF d
    <2>2. a * m = d * m + (x + 1) * m /\ d * m >= 0
      BY <2>1
    <2> QED
      BY <2>1, <2>2
  <1>3. (x + 1) * m = x * m + m
    OBVIOUS
  <1> QED
    BY <1>1, <1>2, <1>3

=============================================================================
