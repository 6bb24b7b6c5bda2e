-------------------------- MODULE SignatureProofs --------------------------
(***************************************************************************)
(* Proofs about the signature library, for every curve whose points are a  *)
(* group of prime order and for every choice of constant points: the       *)
(* arithmetic modulo a prime, the multiples of a point, the sums over the  *)
(* bits of a number, and from these hashing, signing and verification.     *)
(***************************************************************************)
EXTENDS SignatureSafety, SumTheorems, SequenceTheorems

-----------------------------------------------------------------------------
(* Recursion.  A recursive function is one that CHOOSE takes of those that  *)
(* satisfy its equation: first, that there is one.                          *)

\* f and h have the same values below n.
SameBelow(f, h, n) == \A i \in Nat : i < n => f[i] = h[i]

\* f satisfies the equation below n.
SolvesBelow(f, step, n) == \A i \in Nat : i < n => f[i] = step[i][f]

\* The value at n is computed of the values below n.
LooksBelow(step, V) ==
  /\ step \in [Nat -> [[Nat -> V] -> V]]
  /\ \A n \in Nat : \A f, h \in [Nat -> V] : SameBelow(f, h, n) => step[n][f] = step[n][h]

HasSolution(step, V) == \E g \in [Nat -> V] : \A n \in Nat : g[n] = step[n][g]

\* A function of the natural numbers of which each value is computed of the ones
\* below it exists.
LEMMA RecursionExists ==
  ASSUME NEW V, NEW v \in V, NEW step, LooksBelow(step, V)
  PROVE  HasSolution(step, V)
PROOF
  <1> DEFINE Good == {n \in Nat : \E f \in [Nat -> V] : SolvesBelow(f, step, n)}
  <1>1. 0 \in Good
    <2> DEFINE f == [n \in Nat |-> v]
    <2>1. f \in [Nat -> V]
      OBVIOUS
    <2>2. SolvesBelow(f, step, 0)
      BY DEF SolvesBelow
    <2> QED
      BY <2>1, <2>2
  <1>2. ASSUME NEW n \in Nat, n \in Good PROVE n + 1 \in Good
    <2>1. PICK f \in [Nat -> V] : SolvesBelow(f, step, n)
      BY <1>2
    <2> DEFINE h == [f EXCEPT ![n] = step[n][f]]
    <2>a. step[n][f] \in V
      BY DEF LooksBelow
    <2>2. h \in [Nat -> V] /\ h[n] = step[n][f] /\ \A i \in Nat : i # n => h[i] = f[i]
      BY <2>a
    <2> HIDE DEF h
    <2>3. \A i \in Nat : i <= n => SameBelow(f, h, i)
      BY <2>2 DEF SameBelow
    <2>4. \A i \in Nat : i <= n => step[i][f] = step[i][h]
      BY <2>2, <2>3 DEF LooksBelow
    <2>5. SolvesBelow(h, step, n + 1)
      <3> SUFFICES ASSUME NEW i \in Nat, i < n + 1 PROVE h[i] = step[i][h]
        BY DEF SolvesBelow
      <3>1. CASE i = n
        BY <2>2, <2>4, <3>1
      <3>2. CASE i < n
        BY <2>1, <2>2, <2>4, <3>2 DEF SolvesBelow
      <3> QED
        BY <3>1, <3>2
    <2> QED
      BY <2>2, <2>5
  <1>3. \A n \in Nat : \E f \in [Nat -> V] : SolvesBelow(f, step, n)
    <2>1. \A n \in Nat : n \in Good
      <3> HIDE DEF Good
      <3> QED
        BY <1>1, <1>2, NaturalInduction
    <2> QED
      BY <2>1
  <1>4. ASSUME NEW n \in Nat, NEW k \in Nat, NEW f \in [Nat -> V], NEW h \in [Nat -> V],
               SolvesBelow(f, step, n), SolvesBelow(h, step, k)
        PROVE  \A m \in Nat : m <= n /\ m <= k => SameBelow(f, h, m)
    <2> DEFINE Agree == {m \in Nat : m <= n /\ m <= k => SameBelow(f, h, m)}
    <2>1. 0 \in Agree
      BY DEF SameBelow
    <2>2. ASSUME NEW m \in Nat, m \in Agree PROVE m + 1 \in Agree
      <3> SUFFICES ASSUME m + 1 <= n, m + 1 <= k PROVE SameBelow(f, h, m + 1)
        OBVIOUS
      <3>1. SameBelow(f, h, m)
        BY <2>2
      <3>2. f[m] = step[m][f] /\ h[m] = step[m][h] /\ step[m][f] = step[m][h]
        BY <1>4, <3>1 DEF SolvesBelow, LooksBelow
      <3>3. ASSUME NEW i \in Nat, i < m + 1 PROVE f[i] = h[i]
        <4>1. i = m \/ i < m
          BY <3>3
        <4>2. f[m] = h[m]
          BY <3>2
        <4> QED
          BY <3>1, <4>1, <4>2 DEF SameBelow
      <3> QED
        BY <3>3 DEF SameBelow
    <2>3. \A m \in Nat : m \in Agree
      <3> HIDE DEF Agree
      <3> QED
        BY <2>1, <2>2, NaturalInduction
    <2> QED
      BY <2>3
  <1> DEFINE t(n) == CHOOSE f \in [Nat -> V] : SolvesBelow(f, step, n)
             g == [n \in Nat |-> t(n + 1)[n]]
  <1>5. \A n \in Nat : t(n) \in [Nat -> V] /\ SolvesBelow(t(n), step, n)
    BY <1>3
  <1> HIDE DEF t
  <1>6. g \in [Nat -> V]
    BY <1>5
  <1>7. ASSUME NEW n \in Nat PROVE g[n] = step[n][g]
    <2>1. t(n + 1) \in [Nat -> V] /\ SolvesBelow(t(n + 1), step, n + 1)
      BY <1>5
    <2>2. SameBelow(t(n + 1), g, n)
      <3> SUFFICES ASSUME NEW i \in Nat, i < n PROVE t(n + 1)[i] = t(i + 1)[i]
        BY DEF SameBelow
      <3>1. i + 1 \in Nat /\ n + 1 \in Nat /\ i + 1 <= n + 1 /\ i < i + 1
        OBVIOUS
      <3>2. t(i + 1) \in [Nat -> V] /\ SolvesBelow(t(i + 1), step, i + 1)
        BY <1>5, <3>1
      <3>3. SameBelow(t(n + 1), t(i + 1), i + 1)
        <4>1. \A m \in Nat : m <= n + 1 /\ m <= i + 1 => SameBelow(t(n + 1), t(i + 1), m)
          BY <1>4, <2>1, <3>1, <3>2
        <4> QED
          BY <3>1, <4>1
      <3> QED
        BY <3>1, <3>3 DEF SameBelow
    <2>3. step[n][t(n + 1)] = step[n][g]
      BY <1>6, <2>1, <2>2 DEF LooksBelow
    <2>4. t(n + 1)[n] = step[n][t(n + 1)]
      BY <2>1 DEF SolvesBelow
    <2> QED
      BY <2>3, <2>4
  <1> QED
    BY <1>6, <1>7 DEF HasSolution

\* A value for 0, and for each number one computed of the value before it.
IsIteration(g, base, next, D) ==
  g \in [Nat -> D] /\ g[0] = base /\ \A i \in Nat : g[i + 1] = next[i + 1][g[i]]

LEMMA IterationExists ==
  ASSUME NEW D, NEW base \in D, NEW next, next \in [Nat -> [D -> D]]
  PROVE  \E g : IsIteration(g, base, next, D)
PROOF
  <1> DEFINE step == [n \in Nat |-> [f \in [Nat -> D] |->
                        IF n = 0 THEN base ELSE next[n][f[n - 1]]]]
  <1>1. step \in [Nat -> [[Nat -> D] -> D]]
    <2>1. ASSUME NEW n \in Nat, NEW f \in [Nat -> D]
          PROVE  (IF n = 0 THEN base ELSE next[n][f[n - 1]]) \in D
      OBVIOUS
    <2> QED
      BY <2>1
  <1>2. \A n \in Nat : \A f \in [Nat -> D] :
          step[n][f] = IF n = 0 THEN base ELSE next[n][f[n - 1]]
    OBVIOUS
  <1> HIDE DEF step
  <1>3. ASSUME NEW n \in Nat, NEW f \in [Nat -> D], NEW h \in [Nat -> D], SameBelow(f, h, n)
        PROVE  step[n][f] = step[n][h]
    <2>1. n # 0 => f[n - 1] = h[n - 1]
      BY <1>3 DEF SameBelow
    <2> QED
      BY <1>2, <2>1
  <1>4. PICK g \in [Nat -> D] : \A n \in Nat : g[n] = step[n][g]
    <2>1. LooksBelow(step, D)
      BY <1>1, <1>3 DEF LooksBelow
    <2>2. HasSolution(step, D)
      BY <2>1, RecursionExists
    <2> QED
      BY <2>2 DEF HasSolution
  <1>5. g[0] = base
    BY <1>2, <1>4
  <1>6. ASSUME NEW i \in Nat PROVE g[i + 1] = next[i + 1][g[i]]
    <2>1. i + 1 \in Nat /\ i + 1 # 0 /\ (i + 1) - 1 = i
      OBVIOUS
    <2> QED
      BY <1>2, <1>4, <2>1
  <1> QED
    BY <1>5, <1>6 DEF IsIteration

\* A value for 1, for an even number one computed of the value of its half, for an odd
\* number one computed of the value before it: how ec_mult recurs.
IsHalving(g, base, even, odd, V) ==
  /\ g \in [Nat \ {0} -> V]
  /\ \A k \in Nat \ {0} :
       g[k] = IF k = 1 THEN base ELSE IF k % 2 = 0 THEN even[g[k \div 2]] ELSE odd[g[k - 1]]

LEMMA HalvingExists ==
  ASSUME NEW V, NEW base \in V, NEW even, even \in [V -> V], NEW odd, odd \in [V -> V]
  PROVE  \E g : IsHalving(g, base, even, odd, V)
PROOF
  <1> DEFINE value(f, n) == IF n <= 1 THEN base
                            ELSE IF n % 2 = 0 THEN even[f[n \div 2]] ELSE odd[f[n - 1]]
             step == [n \in Nat |-> [f \in [Nat -> V] |-> value(f, n)]]
  <1>1. \A n \in Nat : n > 1 => /\ n \div 2 \in Nat \ {0} /\ n \div 2 < n
                                /\ n - 1 \in Nat \ {0} /\ n - 1 < n
    BY SMT
  <1>2. ASSUME NEW n \in Nat, NEW f \in [Nat -> V] PROVE value(f, n) \in V
    BY <1>1
  <1>3. step \in [Nat -> [[Nat -> V] -> V]]
    <2> HIDE DEF value
    <2> QED
      BY <1>2
  <1>4. \A n \in Nat : \A f \in [Nat -> V] : step[n][f] = value(f, n)
    OBVIOUS
  <1> HIDE DEF step
  <1>5. ASSUME NEW n \in Nat, NEW f \in [Nat -> V], NEW h \in [Nat -> V], SameBelow(f, h, n)
        PROVE  step[n][f] = step[n][h]
    <2>1. n > 1 => f[n \div 2] = h[n \div 2] /\ f[n - 1] = h[n - 1]
      BY <1>1, <1>5 DEF SameBelow
    <2>2. value(f, n) = value(h, n)
      BY <2>1
    <2> HIDE DEF value
    <2> QED
      BY <1>4, <2>2
  <1>6. PICK f \in [Nat -> V] : \A n \in Nat : f[n] = step[n][f]
    <2>1. LooksBelow(step, V)
      BY <1>3, <1>5 DEF LooksBelow
    <2>2. HasSolution(step, V)
      BY <2>1, RecursionExists
    <2> QED
      BY <2>2 DEF HasSolution
  <1> DEFINE g == [k \in Nat \ {0} |-> f[k]]
  <1>7. g \in [Nat \ {0} -> V]
    OBVIOUS
  <1>8. ASSUME NEW k \in Nat \ {0}
        PROVE  g[k] = IF k = 1 THEN base ELSE IF k % 2 = 0 THEN even[g[k \div 2]] ELSE odd[g[k - 1]]
    <2>1. f[k] = value(f, k)
      BY <1>4, <1>6
    <2>2. g[k] = f[k] /\ (k # 1 => g[k \div 2] = f[k \div 2] /\ g[k - 1] = f[k - 1] /\ ~ (k <= 1))
      BY <1>1
    <2> QED
      BY <2>1, <2>2
  <1> QED
    BY <1>7, <1>8 DEF IsHalving

-----------------------------------------------------------------------------
(* Numbers.                                                                *)

\* power2 is what its definition says.
LEMMA PowersOfTwo ==
  /\ Math!power2[0] = 1
  /\ \A n \in Nat : Math!power2[n] \in Nat \ {0} /\ Math!power2[n + 1] = 2 * Math!power2[n]
PROOF
  <1> DEFINE D == Nat \ {0}
             next == [n \in Nat |-> [x \in D |-> 2 * x]]
  <1>1. 1 \in D /\ next \in [Nat -> [D -> D]] /\ \A n \in Nat, x \in D : next[n][x] = 2 * x
    OBVIOUS
  <1> HIDE DEF D, next
  <1>2. PICK g : IsIteration(g, 1, next, D)
    BY <1>1, IterationExists
  <1>3. \A n \in Nat : n # 0 => g[n] = 2 * g[n - 1]
    <2> SUFFICES ASSUME NEW n \in Nat, n # 0 PROVE g[n] = 2 * g[n - 1]
      OBVIOUS
    <2>1. n - 1 \in Nat /\ (n - 1) + 1 = n
      OBVIOUS
    <2> QED
      BY <1>1, <1>2, <2>1 DEF IsIteration
  <1>4. g = [n \in Nat |-> IF n = 0 THEN 1 ELSE 2 * g[n - 1]]
    BY <1>2, <1>3 DEF IsIteration
  <1>5. Math!power2 = [n \in Nat |-> IF n = 0 THEN 1 ELSE 2 * Math!power2[n - 1]]
    BY <1>4 DEF Math!power2
  <1>6. \A n \in Nat : Math!power2[n] = IF n = 0 THEN 1 ELSE 2 * Math!power2[n - 1]
    BY <1>5
  <1> DEFINE Good == {n \in Nat : Math!power2[n] \in Nat \ {0}}
  <1>7. \A n \in Nat : n \in Good
    <2>1. 0 \in Good
      BY <1>6
    <2>2. ASSUME NEW n \in Nat, n \in Good PROVE n + 1 \in Good
      BY <1>6, <2>2
    <2> HIDE DEF Good
    <2> QED
      BY <2>1, <2>2, NaturalInduction
  <1> QED
    BY <1>6, <1>7

\* Division with remainder.
LEMMA Division ==
  ASSUME NEW n \in Int, NEW m \in Nat \ {0}
  PROVE  n \div m \in Int /\ n % m \in 0 .. m - 1 /\ n = (n \div m) * m + (n % m)
BY SMT

\* A multiple of the modulus does not matter,
LEMMA MultipleIgnored ==
  ASSUME NEW x \in Int, NEW k \in Int, NEW m \in Nat \ {0}
  PROVE  (k * m + x) % m = x % m
PROOF
  <1>1. PICK d \in Int, r \in 0 .. m - 1 : r = x % m /\ x = d * m + r
    BY Division
  <1>2. k * m + x = (k + d) * m + r
    BY <1>1
  <1>3. ((k + d) * m + r) % m = r
    <2>1. k + d \in Int
      OBVIOUS
    <2> QED
      BY <2>1, LowPart
  <1> QED
    BY <1>1, <1>2, <1>3

\* so that a factor may be reduced first.
LEMMA FactorReduced ==
  ASSUME NEW a \in Int, NEW b \in Int, NEW m \in Nat \ {0}
  PROVE  (a * (b % m)) % m = (a * b) % m /\ ((b % m) * a) % m = (a * b) % m
PROOF
  <1>1. PICK d \in Int, r \in 0 .. m - 1 : r = b % m /\ b = d * m + r
    BY Division
  <1>2. a * b = (a * d) * m + a * r
    BY <1>1
  <1>3. PICK k \in Int, x \in Int : k = a * d /\ x = a * r
    BY <1>1
  <1>4. (k * m + x) % m = x % m
    BY <1>3, MultipleIgnored
  <1>5. a * (b % m) = x /\ (b % m) * a = x
    <2>1. a * r = r * a
      OBVIOUS
    <2> QED
      BY <1>1, <1>3, <2>1
  <1>6. a * b = k * m + x
    BY <1>2, <1>3
  <1> QED
    BY <1>4, <1>5, <1>6

\* The same of a term.
LEMMA TermReduced ==
  ASSUME NEW a \in Int, NEW b \in Int, NEW m \in Nat \ {0}
  PROVE  (a + (b % m)) % m = (a + b) % m /\ ((b % m) + a) % m = (a + b) % m
PROOF
  <1>1. PICK d \in Int, r \in 0 .. m - 1 : r = b % m /\ b = d * m + r
    BY Division
  <1>2. a + b = d * m + (a + r)
    BY <1>1
  <1>3. (d * m + (a + r)) % m = (a + r) % m
    <2>1. a + r \in Int
      OBVIOUS
    <2> QED
      BY <2>1, MultipleIgnored
  <1>4. a + (b % m) = a + r /\ (b % m) + a = a + r
    BY <1>1
  <1> QED
    BY <1>2, <1>3, <1>4

\* A residue is its own remainder.
LEMMA ResidueKept ==
  ASSUME NEW m \in Nat \ {0}, NEW x \in 0 .. m - 1
  PROVE  x % m = x
PROOF
  <1>1. (0 * m + x) % m = x
    BY LowPart
  <1> QED
    BY <1>1

\* The low i + 1 bits of a number are its low i bits and the next one.
LEMMA BitsSplit ==
  ASSUME NEW m \in Nat, NEW q \in Nat \ {0}
  PROVE  /\ m \div q \in Nat /\ m % q \in 0 .. q - 1
         /\ m % (2 * q) = (m % q) + q * ((m \div q) % 2)
         /\ m \div (2 * q) = (m \div q) \div 2
PROOF
  <1>1. PICK a \in Nat, r \in 0 .. q - 1 : a = m \div q /\ r = m % q /\ m = a * q + r
    BY Division, SMT
  <1>2. PICK h \in Nat, b \in 0 .. 1 : h = a \div 2 /\ b = a % 2 /\ a = 2 * h + b
    BY SMT
  <1>3. m = h * (2 * q) + (q * b + r) /\ q * b + r \in 0 .. 2 * q - 1
    <2>1. a * q = h * (2 * q) + q * b
      BY <1>2
    <2>2. b = 0 \/ b = 1
      OBVIOUS
    <2>3. q * 0 = 0 /\ q * 1 = q
      OBVIOUS
    <2>4. q * b + r \in 0 .. 2 * q - 1
      BY <2>2, <2>3
    <2>5. h * (2 * q) \in Nat /\ q * b \in Nat
      BY <2>2, <2>3
    <2> QED
      BY <1>1, <2>1, <2>4, <2>5
  <1>4. PICK d \in Nat \ {0}, x \in 0 .. 2 * q - 1 : d = 2 * q /\ x = q * b + r
    BY <1>3
  <1>5. (h * d + x) % d = x /\ (h * d + x) \div d = h
    BY <1>4, LowPart, HighPart
  <1>6. m % (2 * q) = q * b + r /\ m \div (2 * q) = h
    BY <1>3, <1>4, <1>5
  <1>7. (m % q) + q * ((m \div q) % 2) = r + q * b /\ (m \div q) \div 2 = h
    BY <1>1, <1>2
  <1>8. q * b \in Int /\ r + q * b = q * b + r
    OBVIOUS
  <1> QED
    BY <1>1, <1>6, <1>7, <1>8

\* The powers of two grow.
LEMMA PowersGrow ==
  ASSUME NEW a \in Nat, NEW b \in Nat, a <= b
  PROVE  Math!power2[a] <= Math!power2[b]
PROOF
  <1> DEFINE Good == {n \in Nat : a <= n => Math!power2[a] <= Math!power2[n]}
  <1> DEFINE f == Math!power2
  <1>a. \A n \in Nat : f[n] \in Nat /\ f[n + 1] = 2 * f[n]
    BY PowersOfTwo
  <1> HIDE DEF f
  <1>1. 0 \in Good
    BY <1>a DEF f
  <1>2. ASSUME NEW n \in Nat, n \in Good PROVE n + 1 \in Good
    <2> SUFFICES ASSUME a <= n + 1 PROVE f[a] <= f[n + 1]
      BY DEF f
    <2>1. CASE a = n + 1
      BY <1>a, <2>1
    <2>2. CASE a # n + 1
      <3>1. f[a] <= f[n]
        BY <1>2, <2>2 DEF f
      <3>2. f[a] \in Nat /\ f[n] \in Nat /\ f[n + 1] = 2 * f[n]
        BY <1>a
      <3> QED
        BY <3>1, <3>2
    <2> QED
      BY <2>1, <2>2
  <1> HIDE DEF Good
  <1>3. b \in Good
    BY <1>1, <1>2, NaturalInduction
  <1> QED
    BY <1>3 DEF Good

\* bit_length finds the bits of a number between two powers of two.
LEMMA BitLengthIs ==
  ASSUME NEW x \in Nat, NEW b \in 1 .. x, Math!power2[b] <= x, x < Math!power2[b + 1], b + 1 <= x
  PROVE  Math!bit_length(x) = b + 1
PROOF
  <1> DEFINE Fits(a) == Math!power2[a - 1] <= x /\ x < Math!power2[a]
  <1>1. b + 1 \in 1 .. x /\ Fits(b + 1)
    OBVIOUS
  <1>2. ASSUME NEW a \in 1 .. x, Fits(a) PROVE a = b + 1
    <2>1. a - 1 \in Nat /\ a \in Nat /\ b \in Nat /\ b + 1 \in Nat
      OBVIOUS
    <2>2. \A i, j \in Nat : i <= j => Math!power2[i] <= Math!power2[j]
      BY PowersGrow
    <2>3. \A i \in Nat : Math!power2[i] \in Nat
      BY PowersOfTwo
    <2>4. ~ (a <= b)
      BY <1>2, <2>1, <2>2, <2>3
    <2>5. ~ (b + 1 <= a - 1)
      BY <1>2, <2>1, <2>2, <2>3
    <2> QED
      BY <2>1, <2>4, <2>5
  <1> DEFINE found == CHOOSE a \in 1 .. x : Fits(a)
  <1>3. Math!bit_length(x) = found
    <2>1. x # 0
      OBVIOUS
    <2> QED
      BY <2>1, Zenon DEF Math!bit_length
  <1> HIDE DEF Fits
  <1>4. found = b + 1
    BY <1>1, <1>2
  <1> QED
    BY <1>3, <1>4

\* Modulo a prime every residue but 0 has an inverse.
LEMMA InverseExists ==
  ASSUME NEW q, IsPrime(q), NEW m \in 1 .. q - 1
  PROVE  \E a \in 1 .. q - 1 : (a * m) % q = 1
PROOF
  <1> DEFINE T == {d \in Nat : d >= 1 /\ \E a \in 1 .. q - 1 : (a * m) % q = d}
  <1>1. q \in Nat \ {0} /\ q > 1 /\ m \in Nat
    BY DEF IsPrime
  <1>2. m \in T
    <2>1. (1 * m) % q = m /\ 1 \in 1 .. q - 1
      <3>1. m \in 0 .. q - 1 /\ 1 * m = m
        BY <1>1
      <3> QED
        BY <1>1, <3>1, ResidueKept
    <2> QED
      BY <1>1, <2>1
  <1>3. PICK d \in T : \A e \in T : d <= e
    <2> HIDE DEF T
    <2>1. T \in SUBSET Nat
      BY DEF T
    <2> QED
      BY <1>2, <2>1, LeastNatural
  <1>4. PICK a \in 1 .. q - 1 : (a * m) % q = d
    BY <1>3
  <1>5. d \in 1 .. q - 1 /\ a \in Int /\ m \in Int
    <2>1. a * m \in Int
      BY <1>1
    <2>2. (a * m) % q \in 0 .. q - 1
      BY <1>1, <2>1, Division
    <2> QED
      BY <1>1, <1>3, <1>4, <2>2
  <1>6. PICK k \in Int, r \in 0 .. d - 1 : q = k * d + r /\ r = q % d
    <2>1. d \in Nat \ {0} /\ q \in Int
      BY <1>1, <1>5
    <2>2. q \div d \in Int /\ q % d \in 0 .. d - 1 /\ q = (q \div d) * d + (q % d)
      BY <2>1, Division
    <2> QED
      BY <2>2
  <1>7. r = 0
    <2> SUFFICES ASSUME r # 0 PROVE FALSE
      OBVIOUS
    <2>1. PICK b \in Int : b = (0 - k) * a
      BY <1>5
    <2>2. ((b % q) * m) % q = (m * b) % q
      BY <1>1, <1>5, <2>1, FactorReduced
    <2>3. m * b = (0 - k) * (a * m)
      BY <1>5, <2>1
    <2>4. ((0 - k) * (a * m)) % q = ((0 - k) * d) % q
      <3>1. PICK x \in Int, y \in Int : x = a * m /\ y = 0 - k
        BY <1>5
      <3>2. (y * (x % q)) % q = (y * x) % q
        BY <1>1, <3>1, FactorReduced
      <3> QED
        BY <1>4, <3>1, <3>2
    <2>5. (0 - k) * d = (0 - 1) * q + r
      <3>1. (0 - k) * d = 0 - (k * d)
        BY <1>5
      <3>2. k * d \in Int
        BY <1>5
      <3> QED
        BY <1>1, <1>6, <3>1, <3>2
    <2>6. ((0 - 1) * q + r) % q = r
      <3>1. r \in 0 .. q - 1
        BY <1>1, <1>5
      <3> QED
        BY <1>1, <3>1, LowPart
    <2>7. ((b % q) * m) % q = r
      BY <2>2, <2>3, <2>4, <2>5, <2>6
    <2>8. b % q \in 0 .. q - 1
      BY <1>1, <2>1, Division
    <2>9. b % q # 0
      <3>1. (0 * m) % q = 0
        <4>1. 0 * m = 0 /\ 0 \in 0 .. q - 1
          BY <1>1
        <4> QED
          BY <1>1, <4>1, ResidueKept
      <3> QED
        BY <2>7, <3>1
    <2>10. r \in T
      BY <1>1, <1>5, <2>7, <2>8, <2>9
    <2> QED
      BY <1>3, <1>5, <2>10
  <1>8. d = 1
    <2>1. q % d = 0
      BY <1>6, <1>7
    <2>2. d \notin 2 .. q - 1
      BY <2>1 DEF IsPrime
    <2> QED
      BY <1>1, <1>5, <2>2
  <1> QED
    BY <1>4, <1>8

\* It has one,
LEMMA InverseUnique ==
  ASSUME NEW q \in Nat \ {0}, NEW m \in Int, NEW a \in 0 .. q - 1, NEW b \in 0 .. q - 1,
         (a * m) % q = 1, (b * m) % q = 1
  PROVE  a = b
PROOF
  <1>1. PICK x \in Int, y \in Int : x = a * m /\ y = b * m
    OBVIOUS
  <1>2. (a * (y % q)) % q = (a * y) % q /\ (b * (x % q)) % q = (b * x) % q
    <2>1. a \in Int /\ b \in Int
      OBVIOUS
    <2>2. \A u, v \in Int : (u * (v % q)) % q = (u * v) % q
      BY FactorReduced
    <2> QED
      BY <1>1, <2>1, <2>2
  <1>3. a * y = b * x
    BY <1>1
  <1>4. a * (y % q) = a /\ b * (x % q) = b
    BY <1>1
  <1>5. a % q = a /\ b % q = b
    BY ResidueKept
  <1> QED
    BY <1>2, <1>3, <1>4, <1>5

\* and no two such residues multiply to 0.
LEMMA NoZeroDivisors ==
  ASSUME NEW q, IsPrime(q), NEW d \in Int, NEW e \in Int, (d * e) % q = 0
  PROVE  d % q = 0 \/ e % q = 0
PROOF
  <1> SUFFICES ASSUME d % q # 0 PROVE e % q = 0
    OBVIOUS
  <1>1. q \in Nat \ {0}
    BY DEF IsPrime
  <1>2. d % q \in 1 .. q - 1
    <2>1. d % q \in 0 .. q - 1
      BY <1>1, Division
    <2> QED
      BY <1>1, <2>1
  <1>3. PICK a \in 1 .. q - 1 : (a * (d % q)) % q = 1
    BY <1>2, InverseExists
  <1>4. PICK x \in Int, y \in Int : x = d * e /\ y = a * d
    BY <1>1, <1>3
  <1>a. a \in Int
    BY <1>1, <1>3
  <1>b. ASSUME NEW u \in Int, NEW v \in Int
        PROVE  (u * (v % q)) % q = (u * v) % q /\ ((v % q) * u) % q = (u * v) % q
    BY <1>1, FactorReduced, Zenon
  <1>5. y % q = 1
    <2>1. (a * (d % q)) % q = (a * d) % q
      BY <1>a, <1>b
    <2> QED
      BY <1>3, <1>4, <2>1
  <1>6. (a * (x % q)) % q = (a * x) % q
    BY <1>a, <1>b, <1>4
  <1>7. ((y % q) * e) % q = (e * y) % q
    BY <1>b, <1>4
  <1>8. a * x = e * y
    BY <1>1, <1>3, <1>4
  <1>9. a * (x % q) = 0 /\ (y % q) * e = e
    BY <1>1, <1>3, <1>4, <1>5
  <1>10. 0 % q = 0
    <2>1. 0 \in 0 .. q - 1
      BY <1>1
    <2> QED
      BY <1>1, <2>1, ResidueKept
  <1> QED
    BY <1>6, <1>7, <1>8, <1>9, <1>10

\* Nor is twice one of them, for an odd prime.
LEMMA TwiceIsNotZero ==
  ASSUME NEW q, IsPrime(q), 2 < q, NEW y \in Int, y % q # 0
  PROVE  (2 * y) % q # 0
PROOF
  <1>1. q \in Nat \ {0} /\ 2 \in Int /\ 2 \in 0 .. q - 1
    BY DEF IsPrime
  <1>2. 2 % q = 2
    BY <1>1, ResidueKept
  <1>3. (2 * y) % q = 0 => 2 % q = 0 \/ y % q = 0
    BY <1>1, NoZeroDivisors
  <1> QED
    BY <1>2, <1>3

\* The moduli in use.
Moduli == {c.FIELD_PRIME : c \in Curves} \union {c.EC_ORDER : c \in Curves}

LEMMA ModuliArePrime == \A q \in Moduli : IsPrime(q)
BY CurvesAssumption DEF Moduli

\* igcdex finds the inverse.
LEMMA IgcdexIs ==
  ASSUME NEW q \in Moduli, NEW m \in 1 .. q - 1
  PROVE  Math!igcdex[q][m] \in 1 .. q - 1 /\ (Math!igcdex[q][m] * m) % q = 1
PROOF
  <1> DEFINE found(k) == CHOOSE a \in 1 .. q - 1 : (a * k) % q = 1
  <1>1. \E a \in 1 .. q - 1 : (a * m) % q = 1
    BY ModuliArePrime, InverseExists
  <1>2. Math!igcdex[q] = [k \in 1 .. q - 1 |-> found(k)]
    BY DEF Math!igcdex, Moduli
  <1>3. Math!igcdex[q][m] = found(m)
    <2> HIDE DEF found
    <2> QED
      BY <1>2
  <1> QED
    BY <1>1, <1>3

-----------------------------------------------------------------------------
(* Points.                                                                 *)

Pairs(p) == (0 .. p - 1) \X (0 .. p - 1)

\* A power of two is above its exponent.
LEMMA PowersExceed == \A n \in Nat : n + 1 <= Math!power2[n]
PROOF
  <1> DEFINE f == Math!power2
             Good == {n \in Nat : n + 1 <= f[n]}
  <1>a. f[0] = 1 /\ \A n \in Nat : f[n] \in Nat /\ f[n + 1] = 2 * f[n]
    BY PowersOfTwo
  <1> HIDE DEF f
  <1>1. 0 \in Good
    BY <1>a
  <1>2. ASSUME NEW n \in Nat, n \in Good PROVE n + 1 \in Good
    BY <1>2, <1>a
  <1>3. \A n \in Nat : n \in Good
    <2> HIDE DEF Good
    <2> QED
      BY <1>1, <1>2, NaturalInduction
  <1> QED
    BY <1>3 DEF f

\* The field and the order of a curve, and the powers of two about them.
LEMMA CurveNumbers ==
  ASSUME NEW c \in Curves
  PROVE  /\ c.FIELD_PRIME \in Moduli /\ c.EC_ORDER \in Moduli
         /\ IsPrime(c.FIELD_PRIME) /\ IsPrime(c.EC_ORDER) /\ c.BETA \in Nat
         /\ c.FIELD_PRIME \in Nat /\ c.EC_ORDER \in Nat
         /\ 2 < c.EC_ORDER /\ c.EC_ORDER < c.FIELD_PRIME
         /\ Math!bit_length(c.FIELD_PRIME) \in Nat /\ 1 < Math!bit_length(c.FIELD_PRIME)
         /\ Math!power2[Math!bit_length(c.FIELD_PRIME) - 1] < c.EC_ORDER
         /\ c.FIELD_PRIME < Math!power2[Math!bit_length(c.FIELD_PRIME)]
         /\ LOW_PART_BITS \in 1 .. Math!bit_length(c.FIELD_PRIME) - 1
PROOF
  <1>1. c.FIELD_PRIME \in Moduli /\ c.EC_ORDER \in Moduli
    BY DEF Moduli
  <1>2. IsPrime(c.FIELD_PRIME) /\ IsPrime(c.EC_ORDER) /\ c.BETA \in Nat
    BY CurvesAssumption
  <1>3. c.FIELD_PRIME \in Nat /\ c.EC_ORDER \in Nat
    BY <1>2 DEF IsPrime
  <1>4. PICK b \in 1 .. c.FIELD_PRIME :
          /\ Math!power2[b] < c.EC_ORDER /\ c.EC_ORDER < c.FIELD_PRIME
          /\ c.FIELD_PRIME < Math!power2[b + 1]
    BY CurvesAssumption
  <1>5. b \in Nat /\ b + 1 \in Nat
    BY <1>3, <1>4
  <1>6. Math!power2[b] \in Nat /\ Math!power2[b + 1] \in Nat /\ b + 1 <= Math!power2[b]
    BY <1>5, PowersOfTwo, PowersExceed
  <1>7. b + 1 <= c.FIELD_PRIME /\ Math!power2[b] <= c.FIELD_PRIME /\ 2 < c.EC_ORDER
    BY <1>3, <1>4, <1>6
  <1>8. Math!bit_length(c.FIELD_PRIME) = b + 1
    BY <1>3, <1>4, <1>7, BitLengthIs
  <1>9. (b + 1) - 1 = b /\ 1 < b + 1
    BY <1>4, <1>3
  <1>10. LOW_PART_BITS \in 1 .. Math!bit_length(c.FIELD_PRIME) - 1
    BY CurvesAssumption
  <1> QED
    BY <1>1, <1>2, <1>3, <1>4, <1>5, <1>7, <1>8, <1>9, <1>10

\* Neither infinity nor a failure is a pair.
LEMMA NoPairs ==
  ASSUME NEW p
  PROVE  /\ Math!EC_INFINITY \notin Pairs(p) /\ AssertionError \notin Pairs(p)
         /\ Math!EC_INFINITY # AssertionError
         /\ \A P \in Pairs(p) : P = <<P[1], P[2]>> /\ P[1] \in 0 .. p - 1 /\ P[2] \in 0 .. p - 1
PROOF
  <1>1. \A P \in Pairs(p) : P = <<P[1], P[2]>> /\ P[1] \in 0 .. p - 1 /\ P[2] \in 0 .. p - 1
    BY DEF Pairs
  <1>2. \A P \in Pairs(p) : Len(P) = 2
    BY DEF Pairs
  <1>3. Len(Math!EC_INFINITY) = 1
    BY DEF Math!EC_INFINITY
  <1>4. Len(AssertionError) = 0
    BY DEF AssertionError, Math!AssertionError
  <1> QED
    BY <1>1, <1>2, <1>3, <1>4

\* A quotient by what is not 0 is a residue, the one that times the divisor is the dividend.
LEMMA QuotientIs ==
  ASSUME NEW q \in Moduli, NEW n \in Int, NEW d \in Int, d % q # 0
  PROVE  Math!div_mod(n, d, q) \in 0 .. q - 1 /\ (Math!div_mod(n, d, q) * d) % q = n % q
PROOF
  <1>1. IsPrime(q) /\ q \in Nat \ {0}
    BY ModuliArePrime DEF IsPrime
  <1>2. d % q \in 1 .. q - 1
    <2>1. d % q \in 0 .. q - 1
      BY <1>1, Division
    <2> QED
      BY <1>1, <2>1
  <1>3. PICK a \in 1 .. q - 1 : a = Math!igcdex[q][d % q] /\ (a * (d % q)) % q = 1
    BY <1>2, IgcdexIs
  <1>4. a \in Int
    BY <1>1, <1>3
  <1>5. PICK x \in Int, y \in Int : x = n * a /\ y = a * d
    BY <1>4
  <1>6. Math!div_mod(n, d, q) = x % q
    BY <1>3, <1>5 DEF Math!div_mod
  <1>7. x % q \in 0 .. q - 1
    BY <1>1, <1>5, Division
  <1>8. y % q = 1
    <2>1. (a * (d % q)) % q = (a * d) % q
      BY <1>1, <1>4, FactorReduced
    <2> QED
      BY <1>3, <1>5, <2>1
  <1>9. ((x % q) * d) % q = (d * x) % q
    BY <1>1, <1>5, FactorReduced
  <1>10. (n * (y % q)) % q = (n * y) % q
    BY <1>1, <1>5, FactorReduced
  <1>11. d * x = n * y /\ n * 1 = n
    BY <1>4, <1>5
  <1> QED
    BY <1>6, <1>7, <1>8, <1>9, <1>10, <1>11

\* Two residues that differ, differ by what is not a multiple of the modulus.
LEMMA ResiduesDiffer ==
  ASSUME NEW q \in Nat \ {0}, NEW x \in 0 .. q - 1, NEW y \in 0 .. q - 1
  PROVE  (x - y) % q = 0 <=> x = y
PROOF
  <1>1. CASE x >= y
    <2>1. x - y \in 0 .. q - 1
      BY <1>1
    <2> QED
      BY <2>1, ResidueKept
  <1>2. CASE x < y
    <2>1. (x + q) - y \in 0 .. q - 1 /\ (x + q) - y # 0 /\ x - y \in Int /\ q \in Int
      BY <1>2
    <2>2. x - y = (0 - 1) * q + ((x + q) - y)
      BY <1>2
    <2>3. ((0 - 1) * q + ((x + q) - y)) % q = (x + q) - y
      BY <2>1, LowPart
    <2> QED
      BY <1>2, <2>1, <2>2, <2>3
  <1> QED
    BY <1>1, <1>2

\* The sum of points is one of them, a pair, infinity or a failure.
LEMMA PlaneClosed ==
  ASSUME NEW c \in Curves, NEW P \in Math!Plane(c.FIELD_PRIME), NEW Q \in Math!Plane(c.FIELD_PRIME)
  PROVE  Math!ec_safe_add(P, Q, ALPHA, c.FIELD_PRIME) \in Math!Plane(c.FIELD_PRIME)
PROOF
  <1> DEFINE p == c.FIELD_PRIME
  <1>1. p \in Moduli /\ IsPrime(p) /\ p \in Nat \ {0} /\ p > 2
    BY CurveNumbers
  <1> HIDE DEF p
  <1>2. ASSUME NEW m \in Int, NEW x1 \in Int, NEW y1 \in Int, NEW x2 \in Int, NEW y2 \in Int
        PROVE  Math!ThirdPoint(m, <<x1, y1>>, <<x2, y2>>, p) \in Pairs(p)
    <2>1. (m * m - x1 - x2) % p \in 0 .. p - 1
      <3>1. m * m - x1 - x2 \in Int
        OBVIOUS
      <3> QED
        BY <1>1, <3>1, Division
    <2>2. PICK x \in 0 .. p - 1 : x = (m * m - x1 - x2) % p
      BY <2>1, Zenon
    <2>3. (m * (x1 - x) - y1) % p \in 0 .. p - 1
      <3>1. m * (x1 - x) - y1 \in Int
        OBVIOUS
      <3> QED
        BY <1>1, <3>1, Division
    <2> QED
      BY <2>2, <2>3 DEF Math!ThirdPoint, Pairs
  <1>3. ASSUME NEW P1 \in Pairs(p), NEW Q1 \in Pairs(p), P1[1] # Q1[1]
        PROVE  Math!ec_add(P1, Q1, p) \in Pairs(p)
    <2>1. PICK x1 \in 0 .. p - 1, y1 \in 0 .. p - 1 : P1 = <<x1, y1>>
      BY DEF Pairs
    <2>2. PICK x2 \in 0 .. p - 1, y2 \in 0 .. p - 1 : Q1 = <<x2, y2>>
      BY DEF Pairs
    <2>3. (x1 - x2) % p # 0
      BY <1>1, <1>3, <2>1, <2>2, ResiduesDiffer
    <2>4. x1 \in Int /\ y1 \in Int /\ x2 \in Int /\ y2 \in Int /\ y1 - y2 \in Int /\ x1 - x2 \in Int
      BY <1>1, <2>1, <2>2
    <2>5. Math!line_slope(P1, Q1, p) \in Int
      <3>1. Math!div_mod(y1 - y2, x1 - x2, p) \in 0 .. p - 1
        BY <1>1, <2>3, <2>4, QuotientIs
      <3>2. Math!line_slope(P1, Q1, p) = Math!div_mod(y1 - y2, x1 - x2, p)
        BY <2>1, <2>2 DEF Math!line_slope
      <3> QED
        BY <1>1, <3>1, <3>2
    <2> QED
      BY <1>2, <2>1, <2>2, <2>4, <2>5 DEF Math!ec_add
  <1>4. ASSUME NEW P1 \in Pairs(p)
        PROVE  Math!ec_double(P1, ALPHA, p) \in Pairs(p) \cup {AssertionError}
    <2>1. PICK x1 \in 0 .. p - 1, y1 \in 0 .. p - 1 : P1 = <<x1, y1>>
      BY DEF Pairs
    <2>2. x1 \in Int /\ y1 \in Int /\ 2 * y1 \in Int /\ 3 * x1 * x1 + ALPHA \in Int
      BY <1>1, <2>1 DEF ALPHA
    <2>3. CASE y1 % p = 0
      BY <2>1, <2>3 DEF Math!ec_double, AssertionError
    <2>4. CASE y1 % p # 0
      <3>1. (2 * y1) % p # 0
        <4>1. 2 % p = 2
          <5>1. 2 \in 0 .. p - 1
            BY <1>1
          <5> QED
            BY <1>1, <5>1, ResidueKept
        <4>2. \A d, e \in Int : (d * e) % p = 0 => d % p = 0 \/ e % p = 0
          BY <1>1, NoZeroDivisors
        <4>3. 2 \in Int
          OBVIOUS
        <4> QED
          BY <2>2, <2>4, <4>1, <4>2, <4>3
      <3>2. Math!div_mod(3 * x1 * x1 + ALPHA, 2 * y1, p) \in 0 .. p - 1
        BY <1>1, <2>2, <3>1, QuotientIs
      <3>3. Math!ec_double_slope(P1, ALPHA, p) = Math!div_mod(3 * x1 * x1 + ALPHA, 2 * y1, p)
        BY <2>1 DEF Math!ec_double_slope
      <3>4. Math!ec_double_slope(P1, ALPHA, p) \in Int
        BY <1>1, <3>2, <3>3
      <3>5. Math!ThirdPoint(Math!ec_double_slope(P1, ALPHA, p), P1, P1, p) \in Pairs(p)
        BY <1>2, <2>1, <2>2, <3>4
      <3> QED
        BY <2>1, <2>4, <3>5 DEF Math!ec_double
    <2> QED
      BY <2>3, <2>4
  <1>5. Math!Plane(p) = Pairs(p) \cup {Math!EC_INFINITY, AssertionError}
    BY DEF Math!Plane, Pairs, AssertionError
  <1>6. P \in Math!Plane(p) /\ Q \in Math!Plane(p)
    BY DEF p
  <1>7. Math!ec_safe_add(P, Q, ALPHA, p) \in Math!Plane(p)
    <2>1. CASE AssertionError \in {P, Q} \/ P = Math!EC_INFINITY \/ Q = Math!EC_INFINITY
      BY <1>5, <1>6, <2>1 DEF Math!ec_safe_add, AssertionError
    <2>2. CASE ~ (AssertionError \in {P, Q} \/ P = Math!EC_INFINITY \/ Q = Math!EC_INFINITY)
      <3>1. P \in Pairs(p) /\ Q \in Pairs(p)
        BY <1>5, <1>6, <2>2
      <3>2. Math!AssertionError \notin {P, Q}
        BY <2>2 DEF AssertionError
      <3>3. Math!ec_safe_add(P, Q, ALPHA, p)
              = IF P[1] # Q[1] THEN Math!ec_add(P, Q, p)
                ELSE IF P[2] = (p - Q[2]) % p THEN Math!EC_INFINITY
                ELSE Math!ec_double(P, ALPHA, p)
        BY <2>2, <3>2, Zenon DEF Math!ec_safe_add
      <3> QED
        BY <1>3, <1>4, <1>5, <3>1, <3>3
    <2> QED
      BY <2>1, <2>2
  <1> QED
    BY <1>7 DEF p

\* What ec_safe_mult computes, equation by equation.
LEMMA MultipleRecurs ==
  ASSUME NEW c \in Curves, NEW P \in Math!Plane(c.FIELD_PRIME)
  PROVE  /\ Multiple(c, 0, P) = Math!EC_INFINITY
         /\ Multiple(c, 1, P) = P
         /\ \A k \in Nat : k > 1 =>
              Multiple(c, k, P) = IF k % 2 = 0 THEN Multiple(c, k \div 2, Add(c, P, P))
                                  ELSE Add(c, Multiple(c, k - 1, P), P)
PROOF
  <1> DEFINE p == c.FIELD_PRIME
             S == Math!Plane(p)
             V == [S -> S]
             plus(q, r) == Math!ec_safe_add(q, r, ALPHA, p)
             mult[k \in Nat \ {0}] ==
               [q \in Math!Plane(p) |->
                  IF k = 1 THEN q
                  ELSE IF k % 2 = 0 THEN mult[k \div 2][Math!ec_safe_add(q, q, ALPHA, p)]
                  ELSE Math!ec_safe_add(mult[k - 1][q], q, ALPHA, p)]
             even == [f \in V |-> [q \in S |-> f[plus(q, q)]]]
             odd == [f \in V |-> [q \in S |-> plus(f[q], q)]]
             base == [q \in S |-> q]
  <1>1. \A q, r \in S : plus(q, r) \in S
    BY PlaneClosed
  <1>2. base \in V /\ even \in [V -> V] /\ odd \in [V -> V]
    <2> HIDE DEF S, plus
    <2> QED
      BY <1>1
  <1>3. PICK g : IsHalving(g, base, even, odd, V)
    <2> HIDE DEF base, even, odd, V
    <2> QED
      BY <1>2, HalvingExists
  <1>4. \A k \in Nat \ {0} : k # 1 => k \div 2 \in Nat \ {0} /\ k - 1 \in Nat \ {0}
    BY SMT
  <1>5. ASSUME NEW k \in Nat \ {0}
        PROVE  g[k] = [q \in S |-> IF k = 1 THEN q
                                   ELSE IF k % 2 = 0 THEN g[k \div 2][plus(q, q)]
                                   ELSE plus(g[k - 1][q], q)]
    <2> HIDE DEF S, plus
    <2>1. g[k] = IF k = 1 THEN base ELSE IF k % 2 = 0 THEN even[g[k \div 2]] ELSE odd[g[k - 1]]
      BY <1>3 DEF IsHalving
    <2>2. k # 1 => g[k \div 2] \in V /\ g[k - 1] \in V
      <3> HIDE DEF V, base, even, odd
      <3> QED
        BY <1>3, <1>4 DEF IsHalving
    <2>3. CASE k = 1
      BY <2>1, <2>3
    <2>4. CASE k # 1 /\ k % 2 = 0
      <3>1. g[k] = even[g[k \div 2]]
        <4> HIDE DEF even, odd, base
        <4> QED
          BY <2>1, <2>4
      <3>2. even[g[k \div 2]] = [q \in S |-> g[k \div 2][plus(q, q)]]
        BY <2>2, <2>4
      <3> QED
        BY <2>4, <3>1, <3>2
    <2>5. CASE k # 1 /\ k % 2 # 0
      <3>1. g[k] = odd[g[k - 1]]
        <4> HIDE DEF even, odd, base
        <4> QED
          BY <2>1, <2>5
      <3>2. odd[g[k - 1]] = [q \in S |-> plus(g[k - 1][q], q)]
        BY <2>2, <2>5
      <3> QED
        BY <2>5, <3>1, <3>2
    <2> QED
      BY <2>3, <2>4, <2>5
  <1>6. g = [k \in Nat \ {0} |->
               [q \in Math!Plane(p) |->
                  IF k = 1 THEN q
                  ELSE IF k % 2 = 0 THEN g[k \div 2][Math!ec_safe_add(q, q, ALPHA, p)]
                  ELSE Math!ec_safe_add(g[k - 1][q], q, ALPHA, p)]]
    <2>1. g = [k \in Nat \ {0} |-> g[k]]
      BY <1>3 DEF IsHalving
    <2> HIDE DEF p
    <2> QED
      BY <1>5, <2>1
  <1>7. mult = [k \in Nat \ {0} |->
                  [q \in Math!Plane(p) |->
                     IF k = 1 THEN q
                     ELSE IF k % 2 = 0 THEN mult[k \div 2][Math!ec_safe_add(q, q, ALPHA, p)]
                     ELSE Math!ec_safe_add(mult[k - 1][q], q, ALPHA, p)]]
    <2> HIDE DEF p
    <2> QED
      BY <1>6, Zenon DEF mult
  <1>8. \A m, q : Math!ec_safe_mult(m, q, ALPHA, p) = IF m = 0 THEN Math!EC_INFINITY ELSE mult[m][q]
    <2> HIDE DEF p
    <2> QED
      BY Zenon DEF Math!ec_safe_mult
  <1> HIDE DEF mult
  <1>9. \A k \in Nat \ {0} : \A q \in S :
          mult[k][q] = IF k = 1 THEN q
                       ELSE IF k % 2 = 0 THEN mult[k \div 2][plus(q, q)]
                       ELSE plus(mult[k - 1][q], q)
    <2> HIDE DEF p
    <2> QED
      BY <1>7
  <1>10. P \in S /\ plus(P, P) \in S /\ \A q, r : Add(c, q, r) = plus(q, r)
    BY <1>1 DEF Add
  <1>11. \A m, q : Multiple(c, m, q) = IF m = 0 THEN Math!EC_INFINITY ELSE mult[m][q]
    BY <1>8 DEF Multiple
  <1> HIDE DEF S, plus
  <1>12. Multiple(c, 0, P) = Math!EC_INFINITY /\ Multiple(c, 1, P) = P
    BY <1>9, <1>10, <1>11
  <1>13. ASSUME NEW k \in Nat, k > 1
         PROVE  Multiple(c, k, P) = IF k % 2 = 0 THEN Multiple(c, k \div 2, Add(c, P, P))
                                    ELSE Add(c, Multiple(c, k - 1, P), P)
    <2>1. k \in Nat \ {0} /\ k # 0 /\ k # 1
      BY <1>13
    <2>2. k \div 2 # 0 /\ k - 1 # 0
      BY <1>4, <2>1
    <2>3. mult[k][P] = IF k % 2 = 0 THEN mult[k \div 2][plus(P, P)] ELSE plus(mult[k - 1][P], P)
      BY <1>9, <1>10, <2>1
    <2>4. Multiple(c, k, P) = mult[k][P] /\ Multiple(c, k - 1, P) = mult[k - 1][P]
          /\ Multiple(c, k \div 2, plus(P, P)) = mult[k \div 2][plus(P, P)]
      BY <1>11, <2>1, <2>2
    <2> QED
      BY <1>10, <2>3, <2>4
  <1> QED
    BY <1>12, <1>13

-----------------------------------------------------------------------------
(* The group of a curve.                                                   *)

LEMMA PointsAre ==
  ASSUME NEW c \in Curves
  PROVE  /\ Math!EC_INFINITY \in PointsOnCurve(c)
         /\ PointsOnCurve(c) \subseteq Math!Plane(c.FIELD_PRIME)
         /\ AssertionError \notin PointsOnCurve(c)
         /\ \A P \in PointsOnCurve(c) : P # Math!EC_INFINITY => P \in Pairs(c.FIELD_PRIME)
PROOF
  <1> DEFINE p == c.FIELD_PRIME
  <1>1. Math!EC_INFINITY \in PointsOnCurve(c)
    BY DEF PointsOnCurve
  <1>2. \A P \in PointsOnCurve(c) : P # Math!EC_INFINITY => P \in Pairs(p)
    BY DEF PointsOnCurve, Pairs
  <1>3. AssertionError \notin Pairs(p) /\ Math!EC_INFINITY # AssertionError
    BY NoPairs
  <1>4. Math!Plane(p) = Pairs(p) \cup {Math!EC_INFINITY, AssertionError}
    BY DEF Math!Plane, Pairs, AssertionError
  <1> HIDE DEF p
  <1> QED
    BY <1>1, <1>2, <1>3, <1>4 DEF p

\* Addition is that of a commutative group, and the order of it annihilates.
LEMMA GroupLaws ==
  ASSUME NEW c \in Curves
  PROVE  /\ \A P, Q \in PointsOnCurve(c) : Add(c, P, Q) \in PointsOnCurve(c)
         /\ \A P, Q \in PointsOnCurve(c) : Add(c, P, Q) = Add(c, Q, P)
         /\ \A P, Q, R \in PointsOnCurve(c) : Add(c, Add(c, P, Q), R) = Add(c, P, Add(c, Q, R))
         /\ \A P \in PointsOnCurve(c) : Multiple(c, c.EC_ORDER, P) = Math!EC_INFINITY
         /\ \A P \in PointsOnCurve(c) : Add(c, Math!EC_INFINITY, P) = P
         /\ \A P \in PointsOnCurve(c) : Add(c, P, Math!EC_INFINITY) = P
PROOF
  <1>1. ASSUME NEW P \in PointsOnCurve(c) PROVE Add(c, Math!EC_INFINITY, P) = P
    <2>1. Math!AssertionError \notin {Math!EC_INFINITY, P}
      BY PointsAre DEF AssertionError
    <2> QED
      BY <2>1 DEF Add, Math!ec_safe_add
  <1>2. \A P \in PointsOnCurve(c) : Multiple(c, c.EC_ORDER, P) = Math!EC_INFINITY
    BY GroupAssumption
  <1>3. \A P, Q \in PointsOnCurve(c) : Add(c, P, Q) \in PointsOnCurve(c)
    BY GroupAssumption
  <1>4. \A P, Q \in PointsOnCurve(c) : Add(c, P, Q) = Add(c, Q, P)
    BY GroupAssumption
  <1>5. \A P, Q, R \in PointsOnCurve(c) : Add(c, Add(c, P, Q), R) = Add(c, P, Add(c, Q, R))
    BY GroupAssumption
  <1>6. \A P \in PointsOnCurve(c) : Add(c, P, Math!EC_INFINITY) = P
    <2>1. Math!EC_INFINITY \in PointsOnCurve(c)
      BY PointsAre
    <2> QED
      BY <1>1, <1>4, <2>1
  <1> QED
    BY <1>1, <1>2, <1>3, <1>4, <1>5, <1>6

\* Sums of four points may be rearranged.
LEMMA AddSwaps ==
  ASSUME NEW c \in Curves,
         NEW P \in PointsOnCurve(c), NEW Q \in PointsOnCurve(c),
         NEW R \in PointsOnCurve(c), NEW T \in PointsOnCurve(c)
  PROVE  Add(c, Add(c, P, Q), Add(c, R, T)) = Add(c, Add(c, P, R), Add(c, Q, T))
PROOF
  <1> DEFINE G == PointsOnCurve(c)
  <1>1. \A X, Y \in G : Add(c, X, Y) \in G /\ Add(c, X, Y) = Add(c, Y, X)
    BY GroupLaws
  <1>2. \A X, Y, Z \in G : Add(c, Add(c, X, Y), Z) = Add(c, X, Add(c, Y, Z))
    BY GroupLaws
  <1>3. P \in G /\ Q \in G /\ R \in G /\ T \in G /\ Add(c, R, T) \in G /\ Add(c, Q, T) \in G
    BY <1>1
  <1> HIDE DEF G
  <1>4. Add(c, Add(c, P, Q), Add(c, R, T)) = Add(c, P, Add(c, Q, Add(c, R, T)))
    BY <1>2, <1>3
  <1>5. Add(c, Q, Add(c, R, T)) = Add(c, R, Add(c, Q, T))
    <2>1. Add(c, Q, Add(c, R, T)) = Add(c, Add(c, Q, R), T)
      BY <1>2, <1>3
    <2>2. Add(c, Q, R) = Add(c, R, Q)
      BY <1>1, <1>3
    <2>3. Add(c, Add(c, R, Q), T) = Add(c, R, Add(c, Q, T))
      BY <1>2, <1>3
    <2> QED
      BY <2>1, <2>2, <2>3
  <1>6. Add(c, P, Add(c, R, Add(c, Q, T))) = Add(c, Add(c, P, R), Add(c, Q, T))
    BY <1>2, <1>3
  <1> QED
    BY <1>4, <1>5, <1>6

\* One multiple more is one addition more.
LEMMA MultipleNext ==
  ASSUME NEW c \in Curves
  PROVE  \A m \in Nat : \A P \in PointsOnCurve(c) :
           /\ Multiple(c, m, P) \in PointsOnCurve(c)
           /\ Multiple(c, m + 1, P) = Add(c, Multiple(c, m, P), P)
PROOF
  <1> DEFINE G == PointsOnCurve(c)
             Holds(m) == \A P \in G : /\ Multiple(c, m, P) \in G
                                      /\ Multiple(c, m + 1, P) = Add(c, Multiple(c, m, P), P)
             Good == {n \in Nat : \A m \in Nat : m < n => Holds(m)}
  <1>1. \A X, Y \in G : Add(c, X, Y) \in G
    BY GroupLaws
  <1>2. \A X, Y, Z \in G : Add(c, Add(c, X, Y), Z) = Add(c, X, Add(c, Y, Z))
    BY GroupLaws
  <1>3. Math!EC_INFINITY \in G /\ \A X \in G : Add(c, Math!EC_INFINITY, X) = X
    BY GroupLaws, PointsAre
  <1>4. \A P \in G : P \in Math!Plane(c.FIELD_PRIME)
    BY PointsAre
  <1>5. \A P \in G : Multiple(c, 0, P) = Math!EC_INFINITY /\ Multiple(c, 1, P) = P
    BY <1>4, MultipleRecurs
  <1>6. \A P \in G : \A k \in Nat : k > 1 /\ k % 2 = 0 =>
          Multiple(c, k, P) = Multiple(c, k \div 2, Add(c, P, P))
    BY <1>4, MultipleRecurs
  <1>7. \A P \in G : \A k \in Nat : k > 1 /\ k % 2 # 0 =>
          Multiple(c, k, P) = Add(c, Multiple(c, k - 1, P), P)
    BY <1>4, MultipleRecurs
  <1> HIDE DEF G
  <1>8. ASSUME NEW m \in Nat, \A i \in Nat : i < m => Holds(i) PROVE Holds(m)
    <2> SUFFICES ASSUME NEW P \in G
                 PROVE  /\ Multiple(c, m, P) \in G
                        /\ Multiple(c, m + 1, P) = Add(c, Multiple(c, m, P), P)
      OBVIOUS
    <2>1. Multiple(c, m, P) \in G
      <3>1. CASE m = 0
        BY <1>3, <1>5, <3>1
      <3>2. CASE m # 0
        <4>1. m - 1 \in Nat /\ m - 1 < m /\ (m - 1) + 1 = m
          BY <3>2
        <4>2. Holds(m - 1)
          BY <1>8, <4>1
        <4>3. Multiple(c, m - 1, P) \in G
              /\ Multiple(c, (m - 1) + 1, P) = Add(c, Multiple(c, m - 1, P), P)
          BY <4>2
        <4> QED
          BY <1>1, <4>1, <4>3
      <3> QED
        BY <3>1, <3>2
    <2>2. CASE m = 0
      <3>1. m + 1 = 1 /\ Multiple(c, 1, P) = P /\ Multiple(c, 0, P) = Math!EC_INFINITY
        BY <1>5, <2>2
      <3> QED
        BY <1>3, <2>2, <3>1
    <2>3. CASE m # 0 /\ (m + 1) % 2 # 0
      <3>1. m + 1 \in Nat /\ m + 1 > 1 /\ (m + 1) - 1 = m
        BY <2>3
      <3>2. Multiple(c, m + 1, P) = Add(c, Multiple(c, (m + 1) - 1, P), P)
        BY <1>7, <2>3, <3>1
      <3> QED
        BY <2>1, <3>1, <3>2
    <2>4. CASE m # 0 /\ (m + 1) % 2 = 0
      <3>1. PICK h \in Nat : m + 1 = 2 * h
        BY <2>4, SMT
      <3>2. (m + 1) \div 2 = h /\ m + 1 > 1 /\ m + 1 \in Nat
        BY <2>4, <3>1, SMT
      <3>3. Multiple(c, m + 1, P) = Multiple(c, h, Add(c, P, P))
        BY <1>6, <2>4, <3>2
      <3>4. Add(c, P, P) \in G
        BY <1>1
      <3>5. CASE m = 1
        <4>1. h = 1
          BY <3>1, <3>5
        <4>2. Multiple(c, 1, Add(c, P, P)) = Add(c, P, P) /\ Multiple(c, 1, P) = P
          BY <1>5, <3>4
        <4> QED
          BY <3>3, <3>5, <4>1, <4>2
      <3>6. CASE m # 1
        <4>1. m > 1 /\ m % 2 # 0 /\ m - 1 \in Nat /\ m - 1 > 1 /\ (m - 1) % 2 = 0
              /\ (m - 1) \div 2 = h - 1 /\ h - 1 \in Nat /\ h - 1 < m /\ (h - 1) + 1 = h
          BY <2>4, <3>1, <3>6, SMT
        <4>2. Multiple(c, m, P) = Add(c, Multiple(c, m - 1, P), P)
          BY <1>7, <4>1
        <4>3. Multiple(c, m - 1, P) = Multiple(c, h - 1, Add(c, P, P))
          BY <1>6, <4>1
        <4>4. Holds(h - 1)
          BY <1>8, <4>1
        <4>5. Multiple(c, h - 1, Add(c, P, P)) \in G
              /\ Multiple(c, (h - 1) + 1, Add(c, P, P))
                   = Add(c, Multiple(c, h - 1, Add(c, P, P)), Add(c, P, P))
          BY <3>4, <4>4
        <4> DEFINE X == Multiple(c, h - 1, Add(c, P, P))
        <4>6. Multiple(c, m + 1, P) = Add(c, X, Add(c, P, P)) /\ X \in G
          BY <3>3, <4>1, <4>5
        <4>7. Multiple(c, m, P) = Add(c, X, P)
          BY <4>2, <4>3
        <4> HIDE DEF X
        <4> QED
          BY <1>2, <2>1, <4>6, <4>7
      <3> QED
        BY <3>5, <3>6
    <2>5. Multiple(c, m + 1, P) = Add(c, Multiple(c, m, P), P)
      BY <2>2, <2>3, <2>4, Zenon
    <2> QED
      BY <2>1, <2>5
  <1> HIDE DEF Holds
  <1>9. 0 \in Good
    OBVIOUS
  <1>10. ASSUME NEW n \in Nat, n \in Good PROVE n + 1 \in Good
    <2>1. Holds(n)
      BY <1>8, <1>10
    <2>2. \A m \in Nat : m < n + 1 => m < n \/ m = n
      OBVIOUS
    <2> QED
      BY <1>10, <2>1, <2>2
  <1>11. \A n \in Nat : n \in Good
    <2> HIDE DEF Good
    <2> QED
      BY <1>9, <1>10, NaturalInduction
  <1>12. \A m \in Nat : Holds(m)
    <2> SUFFICES ASSUME NEW m \in Nat PROVE Holds(m)
      OBVIOUS
    <2>1. m + 1 \in Nat /\ m < m + 1
      OBVIOUS
    <2> QED
      BY <1>11, <2>1
  <1> QED
    BY <1>12 DEF Holds, G

\* Multiples of a sum of numbers, of a sum of points, of a product, of infinity.
LEMMA MultipleSum ==
  ASSUME NEW c \in Curves
  PROVE  \A b \in Nat : \A a \in Nat : \A P \in PointsOnCurve(c) :
           Multiple(c, a + b, P) = Add(c, Multiple(c, a, P), Multiple(c, b, P))
PROOF
  <1> DEFINE G == PointsOnCurve(c)
             Holds(b) == \A a \in Nat : \A P \in G :
                           Multiple(c, a + b, P) = Add(c, Multiple(c, a, P), Multiple(c, b, P))
             Good == {b \in Nat : Holds(b)}
  <1>1. \A X, Y, Z \in G : Add(c, Add(c, X, Y), Z) = Add(c, X, Add(c, Y, Z))
    BY GroupLaws
  <1>2. \A X \in G : Add(c, X, Math!EC_INFINITY) = X
    BY GroupLaws
  <1>3. \A m \in Nat : \A P \in G : /\ Multiple(c, m, P) \in G
                                    /\ Multiple(c, m + 1, P) = Add(c, Multiple(c, m, P), P)
    BY MultipleNext
  <1>4. \A P \in G : Multiple(c, 0, P) = Math!EC_INFINITY
    BY PointsAre, MultipleRecurs
  <1> HIDE DEF G
  <1>5. Holds(0)
    <2> SUFFICES ASSUME NEW a \in Nat, NEW P \in G
                 PROVE  Multiple(c, a + 0, P) = Add(c, Multiple(c, a, P), Multiple(c, 0, P))
      OBVIOUS
    <2>1. a + 0 = a
      OBVIOUS
    <2> QED
      BY <1>2, <1>3, <1>4, <2>1
  <1>6. ASSUME NEW b \in Nat, Holds(b) PROVE Holds(b + 1)
    <2> SUFFICES ASSUME NEW a \in Nat, NEW P \in G
                 PROVE  Multiple(c, a + (b + 1), P)
                          = Add(c, Multiple(c, a, P), Multiple(c, b + 1, P))
      OBVIOUS
    <2>1. a + (b + 1) = (a + b) + 1 /\ a + b \in Nat
      OBVIOUS
    <2>2. Multiple(c, (a + b) + 1, P) = Add(c, Multiple(c, a + b, P), P)
      BY <1>3, <2>1
    <2>3. Multiple(c, a + b, P) = Add(c, Multiple(c, a, P), Multiple(c, b, P))
      BY <1>6
    <2>4. Multiple(c, b + 1, P) = Add(c, Multiple(c, b, P), P)
      BY <1>3
    <2>5. Multiple(c, a, P) \in G /\ Multiple(c, b, P) \in G
      BY <1>3
    <2> QED
      BY <1>1, <2>1, <2>2, <2>3, <2>4, <2>5
  <1> HIDE DEF Holds
  <1>7. \A b \in Nat : b \in Good
    <2>1. 0 \in Good
      BY <1>5
    <2>2. \A n \in Nat : n \in Good => n + 1 \in Good
      BY <1>6
    <2> HIDE DEF Good
    <2> QED
      BY <2>1, <2>2, NaturalInduction
  <1>8. \A b \in Nat : Holds(b)
    BY <1>7
  <1> QED
    BY <1>8 DEF Holds, G

LEMMA MultipleOfSum ==
  ASSUME NEW c \in Curves
  PROVE  \A a \in Nat : \A P, Q \in PointsOnCurve(c) :
           Multiple(c, a, Add(c, P, Q)) = Add(c, Multiple(c, a, P), Multiple(c, a, Q))
PROOF
  <1> DEFINE G == PointsOnCurve(c)
             Holds(a) == \A P, Q \in G :
                           Multiple(c, a, Add(c, P, Q)) = Add(c, Multiple(c, a, P), Multiple(c, a, Q))
             Good == {a \in Nat : Holds(a)}
  <1>1. \A P, Q \in G : Add(c, P, Q) \in G
    BY GroupLaws
  <1>2. Math!EC_INFINITY \in G /\ \A X \in G : Add(c, X, Math!EC_INFINITY) = X
    BY GroupLaws, PointsAre
  <1>3. \A m \in Nat : \A P \in G : /\ Multiple(c, m, P) \in G
                                    /\ Multiple(c, m + 1, P) = Add(c, Multiple(c, m, P), P)
    BY MultipleNext
  <1>4. \A P \in G : Multiple(c, 0, P) = Math!EC_INFINITY
    BY PointsAre, MultipleRecurs
  <1>5. \A P, Q, R, T \in G :
          Add(c, Add(c, P, Q), Add(c, R, T)) = Add(c, Add(c, P, R), Add(c, Q, T))
    BY AddSwaps
  <1> HIDE DEF G
  <1>6. Holds(0)
    BY <1>1, <1>2, <1>4
  <1>7. ASSUME NEW a \in Nat, Holds(a) PROVE Holds(a + 1)
    <2> SUFFICES ASSUME NEW P \in G, NEW Q \in G
                 PROVE  Multiple(c, a + 1, Add(c, P, Q))
                          = Add(c, Multiple(c, a + 1, P), Multiple(c, a + 1, Q))
      OBVIOUS
    <2>1. Multiple(c, a + 1, Add(c, P, Q)) = Add(c, Multiple(c, a, Add(c, P, Q)), Add(c, P, Q))
      BY <1>1, <1>3
    <2>2. Multiple(c, a, Add(c, P, Q)) = Add(c, Multiple(c, a, P), Multiple(c, a, Q))
      BY <1>7
    <2>3. Multiple(c, a, P) \in G /\ Multiple(c, a, Q) \in G
      BY <1>3
    <2>4. Add(c, Add(c, Multiple(c, a, P), Multiple(c, a, Q)), Add(c, P, Q))
            = Add(c, Add(c, Multiple(c, a, P), P), Add(c, Multiple(c, a, Q), Q))
      BY <1>5, <2>3
    <2> QED
      BY <1>3, <2>1, <2>2, <2>4
  <1> HIDE DEF Holds
  <1>8. \A a \in Nat : a \in Good
    <2>1. 0 \in Good
      BY <1>6
    <2>2. \A n \in Nat : n \in Good => n + 1 \in Good
      BY <1>7
    <2> HIDE DEF Good
    <2> QED
      BY <2>1, <2>2, NaturalInduction
  <1>9. \A a \in Nat : Holds(a)
    BY <1>8
  <1> QED
    BY <1>9 DEF Holds, G

LEMMA MultipleOfInfinity ==
  ASSUME NEW c \in Curves
  PROVE  \A a \in Nat : Multiple(c, a, Math!EC_INFINITY) = Math!EC_INFINITY
PROOF
  <1> DEFINE Good == {a \in Nat : Multiple(c, a, Math!EC_INFINITY) = Math!EC_INFINITY}
             O == Math!EC_INFINITY
  <1>1. O \in PointsOnCurve(c)
    BY PointsAre
  <1>2. Multiple(c, 0, O) = O
    BY <1>1, PointsAre, MultipleRecurs
  <1>3. Add(c, O, O) = O
    BY <1>1, GroupLaws
  <1>4. \A m \in Nat : Multiple(c, m + 1, O) = Add(c, Multiple(c, m, O), O)
    BY <1>1, MultipleNext
  <1>5. 0 \in Good
    BY <1>2
  <1>6. \A n \in Nat : n \in Good => n + 1 \in Good
    BY <1>3, <1>4
  <1> HIDE DEF Good
  <1>7. \A a \in Nat : a \in Good
    BY <1>5, <1>6, NaturalInduction
  <1> QED
    BY <1>7 DEF Good

LEMMA MultipleProduct ==
  ASSUME NEW c \in Curves
  PROVE  \A a \in Nat : \A b \in Nat : \A P \in PointsOnCurve(c) :
           Multiple(c, a * b, P) = Multiple(c, a, Multiple(c, b, P))
PROOF
  <1> DEFINE G == PointsOnCurve(c)
             Holds(a) == \A b \in Nat : \A P \in G :
                           Multiple(c, a * b, P) = Multiple(c, a, Multiple(c, b, P))
             Good == {a \in Nat : Holds(a)}
  <1>1. \A m \in Nat : \A P \in G : /\ Multiple(c, m, P) \in G
                                    /\ Multiple(c, m + 1, P) = Add(c, Multiple(c, m, P), P)
    BY MultipleNext
  <1>2. \A P \in G : Multiple(c, 0, P) = Math!EC_INFINITY
    BY PointsAre, MultipleRecurs
  <1>3. \A a, b \in Nat : \A P \in G :
          Multiple(c, a + b, P) = Add(c, Multiple(c, a, P), Multiple(c, b, P))
    BY MultipleSum
  <1> HIDE DEF G
  <1>4. Holds(0)
    <2>1. \A b \in Nat : 0 * b = 0
      OBVIOUS
    <2> QED
      BY <1>1, <1>2, <2>1
  <1>5. ASSUME NEW a \in Nat, Holds(a) PROVE Holds(a + 1)
    <2> SUFFICES ASSUME NEW b \in Nat, NEW P \in G
                 PROVE  Multiple(c, (a + 1) * b, P) = Multiple(c, a + 1, Multiple(c, b, P))
      OBVIOUS
    <2>1. (a + 1) * b = (a * b) + b /\ a * b \in Nat
      OBVIOUS
    <2>2. Multiple(c, (a * b) + b, P) = Add(c, Multiple(c, a * b, P), Multiple(c, b, P))
      <3> DEFINE ab == a * b
      <3>1. ab \in Nat
        BY <2>1
      <3> HIDE DEF ab
      <3>2. Multiple(c, ab + b, P) = Add(c, Multiple(c, ab, P), Multiple(c, b, P))
        BY <1>3, <3>1
      <3> QED
        BY <3>2 DEF ab
    <2>3. Multiple(c, a * b, P) = Multiple(c, a, Multiple(c, b, P))
      BY <1>5
    <2>4. Multiple(c, b, P) \in G
      BY <1>1
    <2>5. Multiple(c, a + 1, Multiple(c, b, P))
            = Add(c, Multiple(c, a, Multiple(c, b, P)), Multiple(c, b, P))
      BY <1>1, <2>4
    <2> QED
      BY <2>1, <2>2, <2>3, <2>5
  <1> HIDE DEF Holds
  <1>6. \A a \in Nat : a \in Good
    <2>1. 0 \in Good
      BY <1>4
    <2>2. \A n \in Nat : n \in Good => n + 1 \in Good
      BY <1>5
    <2> HIDE DEF Good
    <2> QED
      BY <2>1, <2>2, NaturalInduction
  <1>7. \A a \in Nat : Holds(a)
    BY <1>6
  <1> QED
    BY <1>7 DEF Holds, G

\* A multiplier counts modulo the order.
LEMMA MultipleReduced ==
  ASSUME NEW c \in Curves
  PROVE  \A a \in Nat : \A P \in PointsOnCurve(c) :
           a % c.EC_ORDER \in 0 .. c.EC_ORDER - 1 /\ Multiple(c, a % c.EC_ORDER, P) = Multiple(c, a, P)
PROOF
  <1> DEFINE n == c.EC_ORDER
  <1>1. n \in Nat \ {0}
    BY CurveNumbers
  <1> HIDE DEF n
  <1> SUFFICES ASSUME NEW a \in Nat, NEW P \in PointsOnCurve(c)
               PROVE  a % n \in 0 .. n - 1 /\ Multiple(c, a % n, P) = Multiple(c, a, P)
    BY DEF n
  <1>2. PICK d \in Nat, r \in 0 .. n - 1 : r = a % n /\ a = d * n + r
    <2>1. a \in Int /\ a \div n \in Nat
      BY <1>1, BitsSplit
    <2>2. a % n \in 0 .. n - 1 /\ a = (a \div n) * n + (a % n)
      BY <1>1, <2>1, Division
    <2> QED
      BY <2>1, <2>2
  <1>3. PICK dn \in Nat : dn = d * n
    BY <1>1, <1>2
  <1>4. Multiple(c, dn + r, P) = Add(c, Multiple(c, dn, P), Multiple(c, r, P))
    BY <1>1, <1>3, MultipleSum
  <1>5. Multiple(c, dn, P) = Multiple(c, d, Multiple(c, n, P))
    BY <1>1, <1>3, MultipleProduct
  <1>6. Multiple(c, n, P) = Math!EC_INFINITY
    BY GroupLaws DEF n
  <1>7. Multiple(c, dn, P) = Math!EC_INFINITY
    BY <1>5, <1>6, MultipleOfInfinity
  <1>8. Multiple(c, r, P) \in PointsOnCurve(c)
    BY <1>1, MultipleNext
  <1>9. Multiple(c, dn + r, P) = Multiple(c, r, P)
    BY <1>4, <1>7, <1>8, GroupLaws
  <1> QED
    BY <1>2, <1>3, <1>9

\* Below the order no multiple of a finite point is infinity.
LEMMA MultipleIsFinite ==
  ASSUME NEW c \in Curves
  PROVE  \A m \in 1 .. c.EC_ORDER - 1 : \A P \in PointsOnCurve(c) :
           P # Math!EC_INFINITY => Multiple(c, m, P) # Math!EC_INFINITY
PROOF
  <1> DEFINE n == c.EC_ORDER
  <1>1. n \in Nat \ {0} /\ IsPrime(n)
    BY CurveNumbers
  <1> HIDE DEF n
  <1> SUFFICES ASSUME NEW m \in 1 .. n - 1, NEW P \in PointsOnCurve(c),
                      Multiple(c, m, P) = Math!EC_INFINITY
               PROVE  P = Math!EC_INFINITY
    BY DEF n
  <1>2. PICK a \in 1 .. n - 1 : (a * m) % n = 1
    BY <1>1, InverseExists
  <1>3. PICK x \in Nat : x = a * m
    BY <1>1, <1>2
  <1>4. Multiple(c, x, P) = Multiple(c, a, Multiple(c, m, P))
    BY <1>1, <1>2, <1>3, MultipleProduct
  <1>5. Multiple(c, a, Math!EC_INFINITY) = Math!EC_INFINITY
    BY <1>1, <1>2, MultipleOfInfinity
  <1>6. Multiple(c, x % n, P) = Multiple(c, x, P)
    BY <1>3, MultipleReduced DEF n
  <1>7. Multiple(c, 1, P) = P
    BY PointsAre, MultipleRecurs
  <1> QED
    BY <1>2, <1>3, <1>4, <1>5, <1>6, <1>7

\* A summand can be cancelled.
LEMMA AddCancels ==
  ASSUME NEW c \in Curves, NEW P \in PointsOnCurve(c), NEW Q \in PointsOnCurve(c),
         NEW R \in PointsOnCurve(c), Add(c, P, Q) = Add(c, P, R)
  PROVE  Q = R
PROOF
  <1> DEFINE n == c.EC_ORDER
             N == Multiple(c, n - 1, P)
  <1>1. n - 1 \in Nat /\ (n - 1) + 1 = n
    BY CurveNumbers
  <1>2. N \in PointsOnCurve(c) /\ Add(c, N, P) = Math!EC_INFINITY
    <2>1. Multiple(c, n, P) = Math!EC_INFINITY
      BY GroupLaws
    <2>2. N \in PointsOnCurve(c) /\ Multiple(c, (n - 1) + 1, P) = Add(c, N, P)
      BY <1>1, MultipleNext
    <2> QED
      BY <1>1, <2>1, <2>2
  <1> HIDE DEF N
  <1>3. \A X \in PointsOnCurve(c) : Add(c, N, Add(c, P, X)) = X
    <2> SUFFICES ASSUME NEW X \in PointsOnCurve(c) PROVE Add(c, N, Add(c, P, X)) = X
      OBVIOUS
    <2>1. Add(c, Add(c, N, P), X) = Add(c, N, Add(c, P, X))
      BY <1>2, GroupLaws
    <2>2. Add(c, Math!EC_INFINITY, X) = X
      BY GroupLaws
    <2> QED
      BY <1>2, <2>1, <2>2
  <1> QED
    BY <1>3

-----------------------------------------------------------------------------
(* The partial operations of signature.py.                                 *)

\* A residue has two roots, one the negative of the other.
LEMMA SquaresEqual ==
  ASSUME NEW q, IsPrime(q), NEW x \in 0 .. q - 1, NEW y \in 0 .. q - 1, (x * x) % q = (y * y) % q
  PROVE  x = y \/ x = (q - y) % q
PROOF
  <1>1. q \in Nat \ {0}
    BY DEF IsPrime
  <1>2. x \in Int /\ y \in Int /\ q \in Int /\ x - y \in Int /\ x + y \in Int
    BY <1>1
  <1>3. PICK d \in Int, r \in 0 .. q - 1 : r = (x * x) % q /\ x * x = d * q + r
    <2>1. x * x \in Int
      BY <1>2
    <2> QED
      BY <1>1, <2>1, Division
  <1>4. PICK e \in Int, r2 \in 0 .. q - 1 : r2 = (y * y) % q /\ y * y = e * q + r2
    <2>1. y * y \in Int
      BY <1>2
    <2> QED
      BY <1>1, <2>1, Division
  <1>5. (x - y) * (x + y) = x * x - y * y
    BY <1>2
  <1>6. x * x - y * y = (d - e) * q + 0
    <2>1. r = r2
      BY <1>3, <1>4
    <2>2. (d - e) * q = d * q - e * q
      BY <1>1, <1>3, <1>4
    <2>3. d * q \in Int /\ e * q \in Int /\ r \in Int /\ r2 \in Int
      BY <1>1, <1>3, <1>4
    <2> QED
      BY <1>3, <1>4, <2>1, <2>2, <2>3
  <1>7. ((x - y) * (x + y)) % q = 0
    <2>1. d - e \in Int /\ 0 \in 0 .. q - 1
      BY <1>1, <1>3, <1>4
    <2>2. ((d - e) * q + 0) % q = 0
      BY <1>1, <2>1, LowPart
    <2> QED
      BY <1>5, <1>6, <2>2
  <1>8. (x - y) % q = 0 \/ (x + y) % q = 0
    BY <1>2, <1>7, NoZeroDivisors
  <1>9. CASE (x - y) % q = 0
    BY <1>1, <1>9, ResiduesDiffer
  <1>10. CASE (x + y) % q = 0
    <2>1. (0 * q + 0) % q = 0 /\ (1 * q + 0) % q = 0
      BY <1>1, MultipleIgnored, ResidueKept
    <2>2. CASE y = 0
      <3>1. x % q = x /\ x + y = x
        BY <1>1, <1>2, <2>2, ResidueKept
      <3>2. q - y = 1 * q + 0
        BY <1>2, <2>2
      <3> QED
        BY <1>10, <2>1, <3>1, <3>2
    <2>3. CASE y # 0
      <3>1. q - y \in 0 .. q - 1
        BY <1>1, <2>3
      <3>2. x - (q - y) = (0 - 1) * q + (x + y)
        BY <1>2
      <3>3. ((0 - 1) * q + (x + y)) % q = (x + y) % q
        <4>1. 0 - 1 \in Int
          OBVIOUS
        <4> QED
          BY <1>1, <1>2, <4>1, MultipleIgnored
      <3>4. x = q - y
        BY <1>1, <1>10, <3>1, <3>2, <3>3, ResiduesDiffer
      <3> QED
        BY <1>1, <3>1, <3>4, ResidueKept
    <2> QED
      BY <2>2, <2>3
  <1> QED
    BY <1>8, <1>9, <1>10

\* Two finite points of one x are one point, or each the other's negative.
LEMMA SameXPoints ==
  ASSUME NEW c \in Curves, NEW P \in PointsOnCurve(c), NEW Q \in PointsOnCurve(c),
         P # Math!EC_INFINITY, Q # Math!EC_INFINITY, P[1] = Q[1]
  PROVE  P = Q \/ Add(c, P, Q) = Math!EC_INFINITY
PROOF
  <1> DEFINE p == c.FIELD_PRIME
  <1>1. IsPrime(p)
    BY CurveNumbers
  <1>2. P \in Pairs(p) /\ Q \in Pairs(p)
    BY PointsAre
  <1>3. (P[2] * P[2]) % p = (Q[2] * Q[2]) % p
    <2>1. /\ (P[2] * P[2]) % p = (P[1] * P[1] * P[1] + ALPHA * P[1] + c.BETA) % p
          /\ (Q[2] * Q[2]) % p = (Q[1] * Q[1] * Q[1] + ALPHA * Q[1] + c.BETA) % p
      BY Zenon DEF PointsOnCurve
    <2> QED
      BY <2>1
  <1> HIDE DEF p
  <1>4. P = <<P[1], P[2]>> /\ Q = <<Q[1], Q[2]>> /\ P[2] \in 0 .. p - 1 /\ Q[2] \in 0 .. p - 1
    BY <1>2, NoPairs
  <1>5. P[2] = Q[2] \/ P[2] = (p - Q[2]) % p
    BY <1>1, <1>3, <1>4, SquaresEqual
  <1>6. CASE P[2] = Q[2]
    BY <1>4, <1>6
  <1>7. CASE P[2] = (p - Q[2]) % p
    <2>1. Math!AssertionError \notin {P, Q}
      BY <1>2, NoPairs DEF AssertionError
    <2>2. Math!ec_safe_add(P, Q, ALPHA, p) = Math!EC_INFINITY
      BY <1>7, <2>1, Zenon DEF Math!ec_safe_add
    <2> QED
      BY <2>2 DEF Add, p
  <1> QED
    BY <1>5, <1>6, <1>7

\* ec_add and ec_double keep to pairs and failures.
LEMMA PartialClosed ==
  ASSUME NEW c \in Curves, NEW P \in Pairs(c.FIELD_PRIME) \cup {AssertionError},
         NEW Q \in Pairs(c.FIELD_PRIME) \cup {AssertionError}
  PROVE  /\ ec_add(P, Q, c.FIELD_PRIME) \in Pairs(c.FIELD_PRIME) \cup {AssertionError}
         /\ ec_double(P, ALPHA, c.FIELD_PRIME) \in Pairs(c.FIELD_PRIME) \cup {AssertionError}
PROOF
  <1> DEFINE p == c.FIELD_PRIME
  <1>1. p \in Moduli /\ IsPrime(p) /\ p \in Nat \ {0} /\ p > 2
    BY CurveNumbers
  <1>2. P \in Pairs(p) \cup {AssertionError} /\ Q \in Pairs(p) \cup {AssertionError}
    OBVIOUS
  <1> HIDE DEF p
  <1>3. \A n, d \in Int : d % p # 0 => div_mod(n, d, p) \in Int
    <2> SUFFICES ASSUME NEW n \in Int, NEW d \in Int, d % p # 0 PROVE div_mod(n, d, p) \in Int
      OBVIOUS
    <2>1. Math!div_mod(n, d, p) \in 0 .. p - 1
      BY <1>1, QuotientIs
    <2>2. Math!div_mod(n, d, p) = div_mod(n, d, p)
      BY DEF Math!div_mod, div_mod
    <2> QED
      BY <1>1, <2>1, <2>2
  <1>4. \A x, y \in Int : <<x % p, y % p>> \in Pairs(p)
    BY <1>1, Division DEF Pairs
  <1>5. ec_add(P, Q, p) \in Pairs(p) \cup {AssertionError}
    <2>1. CASE AssertionError \in {P, Q} \/ (P[1] - Q[1]) % p = 0
      BY <2>1, Zenon DEF ec_add
    <2>2. CASE ~ (AssertionError \in {P, Q} \/ (P[1] - Q[1]) % p = 0)
      <3>1. P \in Pairs(p) /\ Q \in Pairs(p)
        BY <1>2, <2>2
      <3>2. P[1] \in Int /\ P[2] \in Int /\ Q[1] \in Int /\ Q[2] \in Int
        BY <1>1, <3>1, NoPairs
      <3>3. P[2] - Q[2] \in Int /\ P[1] - Q[1] \in Int
        BY <3>2
      <3>4. PICK m \in Int : m = div_mod(P[2] - Q[2], P[1] - Q[1], p)
        BY <1>3, <2>2, <3>3
      <3>5. m * m - P[1] - Q[1] \in Int
        BY <3>2
      <3>6. PICK x \in 0 .. p - 1 : x = (m * m - P[1] - Q[1]) % p
        BY <1>1, <3>5, Division
      <3>7. m * (P[1] - x) - P[2] \in Int
        BY <1>1, <3>2
      <3>8. <<x, (m * (P[1] - x) - P[2]) % p>> \in Pairs(p)
        BY <1>1, <3>7, Division DEF Pairs
      <3>9. ec_add(P, Q, p) = <<x, (m * (P[1] - x) - P[2]) % p>>
        BY <2>2, <3>4, <3>6, Zenon DEF ec_add
      <3> QED
        BY <3>8, <3>9
    <2> QED
      BY <2>1, <2>2
  <1>6. ec_double(P, ALPHA, p) \in Pairs(p) \cup {AssertionError}
    <2>1. CASE P = AssertionError \/ P[2] % p = 0
      BY <2>1, Zenon DEF ec_double
    <2>2. CASE ~ (P = AssertionError \/ P[2] % p = 0)
      <3>1. P \in Pairs(p)
        BY <1>2, <2>2
      <3>2. P[1] \in Int /\ P[2] \in Int
        BY <1>1, <3>1, NoPairs
      <3>3. 3 * P[1] * P[1] + ALPHA \in Int /\ 2 * P[2] \in Int
        BY <3>2 DEF ALPHA
      <3>4. (2 * P[2]) % p # 0
        <4>1. \A y \in Int : y % p # 0 => (2 * y) % p # 0
          BY <1>1, TwiceIsNotZero
        <4>2. P # AssertionError /\ P[2] % p # 0
          BY <2>2
        <4> QED
          BY <3>2, <4>1, <4>2
      <3>5. PICK m \in Int : m = div_mod(3 * P[1] * P[1] + ALPHA, 2 * P[2], p)
        BY <1>3, <3>3, <3>4
      <3>6. m * m - 2 * P[1] \in Int
        BY <3>2
      <3>7. PICK x \in 0 .. p - 1 : x = (m * m - 2 * P[1]) % p
        BY <1>1, <3>6, Division
      <3>8. m * (P[1] - x) - P[2] \in Int
        BY <1>1, <3>2
      <3>9. <<x, (m * (P[1] - x) - P[2]) % p>> \in Pairs(p)
        BY <1>1, <3>8, Division DEF Pairs
      <3>10. ec_double(P, ALPHA, p) = <<x, (m * (P[1] - x) - P[2]) % p>>
        BY <2>2, <3>5, <3>7, Zenon DEF ec_double
      <3> QED
        BY <3>9, <3>10
    <2> QED
      BY <2>1, <2>2
  <1> QED
    BY <1>5, <1>6 DEF p

\* ec_add of two finite points with different x's is their sum, which is finite.
LEMMA PartialAdd ==
  ASSUME NEW c \in Curves, NEW P \in PointsOnCurve(c), NEW Q \in PointsOnCurve(c),
         P # Math!EC_INFINITY, Q # Math!EC_INFINITY, P[1] # Q[1]
  PROVE  /\ ec_add(P, Q, c.FIELD_PRIME) = Add(c, P, Q)
         /\ Add(c, P, Q) \in PointsOnCurve(c) /\ Add(c, P, Q) # Math!EC_INFINITY
PROOF
  <1> DEFINE p == c.FIELD_PRIME
  <1>1. p \in Nat \ {0}
    BY CurveNumbers
  <1>2. P \in Pairs(p) /\ Q \in Pairs(p)
    BY PointsAre
  <1> HIDE DEF p
  <1>3. AssertionError \notin {P, Q}
    BY <1>2, NoPairs
  <1>4. P[1] \in 0 .. p - 1 /\ Q[1] \in 0 .. p - 1
    BY <1>2, NoPairs
  <1>5. (P[1] - Q[1]) % p # 0
    BY <1>1, <1>4, ResiduesDiffer
  <1>6. ec_add(P, Q, p) = Math!ThirdPoint(Math!line_slope(P, Q, p), P, Q, p)
    BY <1>3, <1>5, Zenon DEF ec_add, div_mod, Math!ThirdPoint, Math!line_slope, Math!div_mod
  <1>7. Add(c, P, Q) = Math!ThirdPoint(Math!line_slope(P, Q, p), P, Q, p)
    <2>1. Math!AssertionError \notin {P, Q}
      BY <1>3 DEF AssertionError
    <2> QED
      BY <2>1, Zenon DEF Add, Math!ec_safe_add, Math!ec_add, p
  <1>8. Add(c, P, Q) \in PointsOnCurve(c)
    BY GroupLaws
  <1>9. Add(c, P, Q) # Math!EC_INFINITY
    <2>1. Math!EC_INFINITY # AssertionError /\ Math!EC_INFINITY \notin Pairs(p)
      BY NoPairs
    <2>2. ec_add(P, Q, p) \in Pairs(p) \cup {AssertionError}
      BY <1>2, PartialClosed DEF p
    <2> QED
      BY <1>6, <1>7, <2>1, <2>2
  <1> QED
    BY <1>6, <1>7, <1>8, <1>9 DEF p

\* A finite point is not its own negative, so ec_double doubles it.
LEMMA PartialDouble ==
  ASSUME NEW c \in Curves, NEW P \in PointsOnCurve(c), P # Math!EC_INFINITY
  PROVE  /\ P[2] # 0
         /\ ec_double(P, ALPHA, c.FIELD_PRIME) = Add(c, P, P)
         /\ Add(c, P, P) \in PointsOnCurve(c) /\ Add(c, P, P) # Math!EC_INFINITY
PROOF
  <1> DEFINE p == c.FIELD_PRIME
  <1>1. p \in Moduli /\ IsPrime(p) /\ p \in Nat \ {0} /\ p > 2
    BY CurveNumbers
  <1>2. P \in Pairs(p)
    BY PointsAre
  <1>3. Add(c, P, P) \in PointsOnCurve(c)
    BY GroupLaws
  <1>4. Add(c, P, P) # Math!EC_INFINITY
    <2>1. 2 \in 1 .. c.EC_ORDER - 1
      BY CurveNumbers
    <2>2. Multiple(c, 2, P) # Math!EC_INFINITY
      BY <2>1, MultipleIsFinite
    <2>3. Multiple(c, 1 + 1, P) = Add(c, Multiple(c, 1, P), P) /\ 1 + 1 = 2
      BY MultipleNext
    <2>4. Multiple(c, 1, P) = P
      BY PointsAre, MultipleRecurs
    <2> QED
      BY <2>2, <2>3, <2>4
  <1> HIDE DEF p
  <1>5. Math!AssertionError \notin {P, P} /\ P # AssertionError
    BY <1>2, NoPairs DEF AssertionError
  <1>6. P[1] \in 0 .. p - 1 /\ P[2] \in 0 .. p - 1
    BY <1>2, NoPairs
  <1>7. P[2] # (p - P[2]) % p
    <2> SUFFICES ASSUME P[2] = (p - P[2]) % p PROVE FALSE
      OBVIOUS
    <2>1. Math!ec_safe_add(P, P, ALPHA, p) = Math!EC_INFINITY
      BY <1>5, Zenon DEF Math!ec_safe_add
    <2> QED
      BY <1>4, <2>1 DEF Add, p
  <1>8. P[2] # 0
    <2> SUFFICES ASSUME P[2] = 0 PROVE FALSE
      OBVIOUS
    <2>1. p - P[2] = 1 * p + 0 /\ 0 \in 0 .. p - 1
      BY <1>1
    <2>2. (1 * p + 0) % p = 0
      BY <1>1, <2>1, LowPart
    <2> QED
      BY <1>7, <2>1, <2>2
  <1>9. P[2] % p # 0
    BY <1>1, <1>6, <1>8, ResidueKept
  <1>10. Add(c, P, P) = Math!ThirdPoint(Math!ec_double_slope(P, ALPHA, p), P, P, p)
    <2>1. Math!ec_safe_add(P, P, ALPHA, p) = Math!ec_double(P, ALPHA, p)
      BY <1>5, <1>7, Zenon DEF Math!ec_safe_add
    <2>2. Math!ec_double(P, ALPHA, p) = Math!ThirdPoint(Math!ec_double_slope(P, ALPHA, p), P, P, p)
      BY <1>9, Zenon DEF Math!ec_double
    <2> QED
      BY <2>1, <2>2 DEF Add, p
  <1>11. ec_double(P, ALPHA, p) = Math!ThirdPoint(Math!ec_double_slope(P, ALPHA, p), P, P, p)
    <2> DEFINE m == div_mod(3 * P[1] * P[1] + ALPHA, 2 * P[2], p)
    <2>1. m = Math!ec_double_slope(P, ALPHA, p)
      BY Zenon DEF Math!ec_double_slope, Math!div_mod, div_mod
    <2>2. m \in Int
      <3>1. 3 * P[1] * P[1] + ALPHA \in Int /\ 2 * P[2] \in Int /\ P[2] \in Int /\ 2 \in Int
        BY <1>1, <1>6 DEF ALPHA
      <3>2. (2 * P[2]) % p # 0
        <4>1. \A y \in Int : y % p # 0 => (2 * y) % p # 0
          BY <1>1, TwiceIsNotZero
        <4> QED
          BY <1>9, <3>1, <4>1
      <3>3. Math!div_mod(3 * P[1] * P[1] + ALPHA, 2 * P[2], p) \in 0 .. p - 1
        BY <1>1, <3>1, <3>2, QuotientIs
      <3>4. Math!ec_double_slope(P, ALPHA, p) \in 0 .. p - 1
        BY <3>3 DEF Math!ec_double_slope
      <3> QED
        BY <1>1, <2>1, <3>4
    <2>3. ec_double(P, ALPHA, p)
            = <<(m * m - 2 * P[1]) % p, (m * (P[1] - ((m * m - 2 * P[1]) % p)) - P[2]) % p>>
      BY <1>5, <1>9, Zenon DEF ec_double
    <2> HIDE DEF m
    <2>4. m * m - 2 * P[1] = m * m - P[1] - P[1]
      BY <1>1, <1>6, <2>2
    <2>5. Math!ThirdPoint(m, P, P, p)
            = <<(m * m - P[1] - P[1]) % p, (m * (P[1] - ((m * m - P[1] - P[1]) % p)) - P[2]) % p>>
      BY Zenon DEF Math!ThirdPoint
    <2> QED
      BY <2>1, <2>3, <2>4, <2>5
  <1> QED
    BY <1>3, <1>4, <1>8, <1>10, <1>11 DEF p

\* What ec_mult computes, equation by equation.
LEMMA MultRecurs ==
  ASSUME NEW c \in Curves, NEW P \in Pairs(c.FIELD_PRIME)
  PROVE  /\ ec_mult(1, P, ALPHA, c.FIELD_PRIME) = P
         /\ \A k \in Nat : k > 1 =>
              ec_mult(k, P, ALPHA, c.FIELD_PRIME)
                = IF k % 2 = 0
                  THEN ec_mult(k \div 2, ec_double(P, ALPHA, c.FIELD_PRIME), ALPHA, c.FIELD_PRIME)
                  ELSE ec_add(ec_mult(k - 1, P, ALPHA, c.FIELD_PRIME), P, c.FIELD_PRIME)
PROOF
  <1> DEFINE p == c.FIELD_PRIME
             S == Pairs(p) \cup {AssertionError}
             V == [S -> S]
             twice(q) == ec_double(q, ALPHA, p)
             plus(q, r) == ec_add(q, r, p)
             mult[k \in Nat \ {0}] ==
               [q \in ((0 .. p - 1) \X (0 .. p - 1)) \cup {AssertionError} |->
                  IF k = 1 THEN q
                  ELSE IF k % 2 = 0 THEN mult[k \div 2][ec_double(q, ALPHA, p)]
                  ELSE ec_add(mult[k - 1][q], q, p)]
             even == [f \in V |-> [q \in S |-> f[twice(q)]]]
             odd == [f \in V |-> [q \in S |-> plus(f[q], q)]]
             base == [q \in S |-> q]
  <1>1. \A q, r \in S : plus(q, r) \in S /\ twice(q) \in S
    BY PartialClosed
  <1>2. base \in V /\ even \in [V -> V] /\ odd \in [V -> V]
    <2> HIDE DEF S, plus, twice
    <2> QED
      BY <1>1
  <1>3. PICK g : IsHalving(g, base, even, odd, V)
    <2> HIDE DEF base, even, odd, V
    <2> QED
      BY <1>2, HalvingExists
  <1>4. \A k \in Nat \ {0} : k # 1 => k \div 2 \in Nat \ {0} /\ k - 1 \in Nat \ {0}
    BY SMT
  <1>5. ASSUME NEW k \in Nat \ {0}
        PROVE  g[k] = [q \in S |-> IF k = 1 THEN q
                                   ELSE IF k % 2 = 0 THEN g[k \div 2][twice(q)]
                                   ELSE plus(g[k - 1][q], q)]
    <2> HIDE DEF S, plus, twice
    <2>1. g[k] = IF k = 1 THEN base ELSE IF k % 2 = 0 THEN even[g[k \div 2]] ELSE odd[g[k - 1]]
      BY <1>3 DEF IsHalving
    <2>2. k # 1 => g[k \div 2] \in V /\ g[k - 1] \in V
      <3> HIDE DEF V, base, even, odd
      <3> QED
        BY <1>3, <1>4 DEF IsHalving
    <2>3. CASE k = 1
      BY <2>1, <2>3
    <2>4. CASE k # 1 /\ k % 2 = 0
      <3>1. g[k] = even[g[k \div 2]]
        <4> HIDE DEF even, odd, base
        <4> QED
          BY <2>1, <2>4
      <3>2. even[g[k \div 2]] = [q \in S |-> g[k \div 2][twice(q)]]
        BY <2>2, <2>4
      <3> QED
        BY <2>4, <3>1, <3>2
    <2>5. CASE k # 1 /\ k % 2 # 0
      <3>1. g[k] = odd[g[k - 1]]
        <4> HIDE DEF even, odd, base
        <4> QED
          BY <2>1, <2>5
      <3>2. odd[g[k - 1]] = [q \in S |-> plus(g[k - 1][q], q)]
        BY <2>2, <2>5
      <3> QED
        BY <2>5, <3>1, <3>2
    <2> QED
      BY <2>3, <2>4, <2>5
  <1>a. S = ((0 .. p - 1) \X (0 .. p - 1)) \cup {AssertionError}
    BY DEF Pairs
  <1>6. g = [k \in Nat \ {0} |->
               [q \in ((0 .. p - 1) \X (0 .. p - 1)) \cup {AssertionError} |->
                  IF k = 1 THEN q
                  ELSE IF k % 2 = 0 THEN g[k \div 2][ec_double(q, ALPHA, p)]
                  ELSE ec_add(g[k - 1][q], q, p)]]
    <2>1. g = [k \in Nat \ {0} |-> g[k]]
      BY <1>3 DEF IsHalving
    <2> HIDE DEF p, S
    <2> QED
      BY <1>5, <1>a, <2>1
  <1>7. mult = [k \in Nat \ {0} |->
                  [q \in ((0 .. p - 1) \X (0 .. p - 1)) \cup {AssertionError} |->
                     IF k = 1 THEN q
                     ELSE IF k % 2 = 0 THEN mult[k \div 2][ec_double(q, ALPHA, p)]
                     ELSE ec_add(mult[k - 1][q], q, p)]]
    <2> HIDE DEF p
    <2> QED
      BY <1>6, Zenon DEF mult
  <1>8. \A m, q : ec_mult(m, q, ALPHA, p) = mult[m][q]
    <2> HIDE DEF p
    <2> QED
      BY Zenon DEF ec_mult
  <1> HIDE DEF mult
  <1>9. \A k \in Nat \ {0} : \A q \in S :
          mult[k][q] = IF k = 1 THEN q
                       ELSE IF k % 2 = 0 THEN mult[k \div 2][twice(q)]
                       ELSE plus(mult[k - 1][q], q)
    <2> HIDE DEF p, S
    <2> QED
      BY <1>7, <1>a
  <1>10. P \in S
    OBVIOUS
  <1>11. ASSUME NEW k \in Nat, k > 1
         PROVE  ec_mult(k, P, ALPHA, p)
                  = IF k % 2 = 0 THEN ec_mult(k \div 2, twice(P), ALPHA, p)
                    ELSE plus(ec_mult(k - 1, P, ALPHA, p), P)
    <2>1. k \in Nat \ {0} /\ k # 1
      BY <1>11
    <2> HIDE DEF S, plus, twice
    <2> QED
      BY <1>8, <1>9, <1>10, <2>1
  <1>12. ec_mult(1, P, ALPHA, p) = P
    <2>1. 1 \in Nat \ {0}
      OBVIOUS
    <2> HIDE DEF S
    <2> QED
      BY <1>8, <1>9, <1>10, <2>1
  <1> QED
    BY <1>11, <1>12

\* Below the order, ec_mult does not fail: it is the multiple in the group.
LEMMA PartialMultiple ==
  ASSUME NEW c \in Curves
  PROVE  \A m \in 1 .. c.EC_ORDER - 1 : \A P \in PointsOnCurve(c) :
           P # Math!EC_INFINITY => ec_mult(m, P, ALPHA, c.FIELD_PRIME) = Multiple(c, m, P)
PROOF
  <1> DEFINE p == c.FIELD_PRIME
             n == c.EC_ORDER
             G == PointsOnCurve(c)
             Mult(k, P) == ec_mult(k, P, ALPHA, p)
             Holds(m) == m \in 1 .. n - 1 =>
                           \A P \in G : P # Math!EC_INFINITY => Mult(m, P) = Multiple(c, m, P)
             Good == {b \in Nat : \A m \in Nat : m < b => Holds(m)}
  <1>1. n \in Nat \ {0}
    BY CurveNumbers
  <1>2. \A P \in G : P # Math!EC_INFINITY =>
          /\ Mult(1, P) = P
          /\ \A k \in Nat : k > 1 /\ k % 2 = 0 => Mult(k, P) = Mult(k \div 2, ec_double(P, ALPHA, p))
          /\ \A k \in Nat : k > 1 /\ k % 2 # 0 => Mult(k, P) = ec_add(Mult(k - 1, P), P, p)
    BY PointsAre, MultRecurs
  <1>3. \A P \in G :
          /\ Multiple(c, 1, P) = P
          /\ \A k \in Nat : k > 1 /\ k % 2 = 0 => Multiple(c, k, P) = Multiple(c, k \div 2, Add(c, P, P))
          /\ \A k \in Nat : k > 1 /\ k % 2 # 0 => Multiple(c, k, P) = Add(c, Multiple(c, k - 1, P), P)
    BY PointsAre, MultipleRecurs
  <1>4. ASSUME NEW m \in Nat, \A i \in Nat : i < m => Holds(i) PROVE Holds(m)
    <2> SUFFICES ASSUME m \in 1 .. n - 1, NEW P \in G, P # Math!EC_INFINITY
                 PROVE  Mult(m, P) = Multiple(c, m, P)
      OBVIOUS
    <2>1. CASE m = 1
      BY <1>2, <1>3, <2>1
    <2>2. CASE m > 1 /\ m % 2 = 0
      <3>1. m \div 2 \in Nat /\ m \div 2 < m /\ m \div 2 \in 1 .. n - 1
        BY <1>1, <2>2, SMT
      <3>2. /\ ec_double(P, ALPHA, p) = Add(c, P, P)
            /\ Add(c, P, P) \in G /\ Add(c, P, P) # Math!EC_INFINITY
        BY PartialDouble
      <3>3. Holds(m \div 2)
        <4> HIDE DEF Holds
        <4> QED
          BY <1>4, <3>1
      <3>4. Mult(m \div 2, Add(c, P, P)) = Multiple(c, m \div 2, Add(c, P, P))
        <4> HIDE DEF Mult
        <4> QED
          BY <3>1, <3>2, <3>3
      <3>5. Mult(m, P) = Mult(m \div 2, ec_double(P, ALPHA, p))
        <4> HIDE DEF Mult
        <4> QED
          BY <1>2, <2>2
      <3>6. Multiple(c, m, P) = Multiple(c, m \div 2, Add(c, P, P))
        BY <1>3, <2>2
      <3> QED
        BY <3>2, <3>4, <3>5, <3>6
    <2>3. CASE m > 1 /\ m % 2 # 0
      <3> DEFINE Q == Multiple(c, m - 1, P)
      <3>1. m - 1 \in Nat /\ m - 1 < m /\ m - 1 \in 1 .. n - 1 /\ m - 2 \in 1 .. n - 1
            /\ m - 2 \in Nat /\ (m - 2) + 1 = m - 1 /\ (m - 1) + 1 = m
        BY <1>1, <2>3, SMT
      <3>2. Holds(m - 1)
        <4> HIDE DEF Holds
        <4> QED
          BY <1>4, <3>1
      <3>3. Mult(m - 1, P) = Q
        <4> HIDE DEF Mult
        <4> QED
          BY <3>1, <3>2
      <3>4. Q \in G /\ Q # Math!EC_INFINITY
        BY <3>1, MultipleNext, MultipleIsFinite
      <3>5. Multiple(c, m, P) = Add(c, Q, P)
        BY <1>3, <2>3
      <3>6. Add(c, Q, P) # Math!EC_INFINITY
        BY <3>5, MultipleIsFinite
      <3>7. Q # P
        <4> SUFFICES ASSUME Q = P PROVE FALSE
          OBVIOUS
        <4>1. Q = Add(c, Multiple(c, m - 2, P), P) /\ Multiple(c, m - 2, P) \in G
          BY <3>1, MultipleNext
        <4>2. Add(c, P, Multiple(c, m - 2, P)) = Q
          BY <4>1, GroupLaws
        <4>3. Add(c, P, Math!EC_INFINITY) = P /\ Math!EC_INFINITY \in G
          BY GroupLaws, PointsAre
        <4>4. Multiple(c, m - 2, P) = Math!EC_INFINITY
          BY <4>1, <4>2, <4>3, AddCancels
        <4>5. Multiple(c, m - 2, P) # Math!EC_INFINITY
          BY <3>1, MultipleIsFinite
        <4> QED
          BY <4>4, <4>5
      <3> HIDE DEF Q
      <3>8. Q[1] # P[1]
        BY <3>4, <3>6, <3>7, SameXPoints
      <3>9. ec_add(Q, P, p) = Add(c, Q, P)
        BY <3>4, <3>8, PartialAdd
      <3>10. Mult(m, P) = ec_add(Mult(m - 1, P), P, p)
        <4> HIDE DEF Mult
        <4> QED
          BY <1>2, <2>3
      <3> QED
        BY <3>3, <3>5, <3>9, <3>10
    <2>4. m = 1 \/ m > 1
      BY <1>1
    <2> QED
      BY <2>1, <2>2, <2>3, <2>4
  <1> HIDE DEF Holds
  <1>5. 0 \in Good
    OBVIOUS
  <1>6. \A b \in Nat : b \in Good => b + 1 \in Good
    <2> SUFFICES ASSUME NEW b \in Nat, b \in Good PROVE b + 1 \in Good
      OBVIOUS
    <2>1. Holds(b)
      BY <1>4
    <2>2. \A m \in Nat : m < b + 1 => m < b \/ m = b
      OBVIOUS
    <2> QED
      BY <2>1, <2>2
  <1>7. \A b \in Nat : b \in Good
    <2> HIDE DEF Good
    <2> QED
      BY <1>5, <1>6, NaturalInduction
  <1>8. \A m \in Nat : Holds(m)
    <2> SUFFICES ASSUME NEW m \in Nat PROVE Holds(m)
      OBVIOUS
    <2>1. m + 1 \in Nat /\ m < m + 1
      OBVIOUS
    <2> QED
      BY <1>7, <2>1
  <1>9. \A m \in 1 .. n - 1 : Holds(m)
    BY <1>1, <1>8
  <1> QED
    BY <1>9 DEF Holds

-----------------------------------------------------------------------------
(* The parameters.                                                         *)

\* A curve has a finite point.
LEMMA FinitePointExists ==
  ASSUME NEW c \in Curves
  PROVE  \E P \in PointsOnCurve(c) : P # Math!EC_INFINITY
PROOF
  <1> SUFFICES ASSUME \A P \in PointsOnCurve(c) : P = Math!EC_INFINITY PROVE FALSE
    OBVIOUS
  <1>1. PointsOnCurve(c) = {Math!EC_INFINITY}
    BY PointsAre
  <1>2. Cardinality(PointsOnCurve(c)) = 1
    BY <1>1, FS_Singleton
  <1>3. Cardinality(PointsOnCurve(c)) = c.EC_ORDER
    BY GroupAssumption
  <1> QED
    BY <1>2, <1>3, CurveNumbers

\* The right side of the curve's equation, of a residue instead of a number.
LEMMA CubicReduced ==
  ASSUME NEW q \in Nat \ {0}, NEW x \in Int, NEW B \in Int
  PROVE  (x * x * x + 1 * x + B) % q
           = ((x % q) * (x % q) * (x % q) + 1 * (x % q) + B) % q
PROOF
  <1>1. PICK d \in Int, r \in 0 .. q - 1 : r = x % q /\ x = d * q + r
    BY Division
  <1>2. PICK e \in Int : e = x - r /\ e = d * q
    BY <1>1
  <1>3. PICK k \in Int : k = x * x + x * r + r * r + 1
    BY <1>1
  <1>4. x * x * x + 1 * x + B = e * k + (r * r * r + 1 * r + B)
    <2>1. (x - r) * (x * x + x * r + r * r + 1) = x * x * x + x - (r * r * r + r)
      BY <1>1
    <2>2. e * k = x * x * x + x - (r * r * r + r)
      BY <1>2, <1>3, <2>1
    <2>3. x * x * x \in Int /\ r * r * r \in Int /\ r \in Int
      BY <1>1
    <2> QED
      BY <2>2, <2>3
  <1>5. e * k = (d * k) * q
    BY <1>1, <1>2, <1>3
  <1>6. PICK dk \in Int, y \in Int : dk = d * k /\ y = r * r * r + 1 * r + B
    <2>1. r \in Int
      BY <1>1
    <2>2. d * k \in Int /\ r * r * r + 1 * r + B \in Int
      BY <1>1, <1>3, <2>1
    <2> QED
      BY <2>2
  <1>7. (dk * q + y) % q = y % q
    BY <1>6, MultipleIgnored
  <1> QED
    BY <1>1, <1>4, <1>5, <1>6, <1>7

\* Min finds the least of some natural numbers.
LEMMA MinIs ==
  ASSUME NEW S \in SUBSET Nat, S # {}
  PROVE  Min(S) \in S
PROOF
  <1>1. \E n \in S : \A m \in S : n <= m
    BY LeastNatural
  <1> QED
    BY <1>1 DEF Min

\* Whatever the digits, a finite point of the curve is made of them.
LEMMA DigitsMakePoint ==
  ASSUME NEW c \in Curves, NEW digits \in Nat
  PROVE  PointOfDigits(digits, c) \in PointsOnCurve(c) /\ PointOfDigits(digits, c) # Math!EC_INFINITY
PROOF
  <1> DEFINE p == c.FIELD_PRIME
             y_squared(x) == x * x * x + ALPHA * x + c.BETA
             Found == {i \in 0 .. p : is_quad_residue(y_squared(digits + i), p)}
  <1>1. p \in Nat \ {0} /\ c.BETA \in Nat
    BY CurveNumbers
  <1>2. PICK P \in PointsOnCurve(c) : P # Math!EC_INFINITY
    BY FinitePointExists
  <1>3. P \in Pairs(p) /\ P[1] \in 0 .. p - 1 /\ P[2] \in 0 .. p - 1
    BY <1>2, PointsAre, NoPairs
  <1>4. (P[2] * P[2]) % p = y_squared(P[1]) % p
    BY <1>2, Zenon DEF PointsOnCurve
  <1> HIDE DEF p
  <1>5. \A x \in Int : y_squared(x) \in Int /\ x % p \in 0 .. p - 1
          /\ y_squared(x) % p = y_squared(x % p) % p
    <2> SUFFICES ASSUME NEW x \in Int
                 PROVE  y_squared(x) \in Int /\ x % p \in 0 .. p - 1
                        /\ y_squared(x) % p = y_squared(x % p) % p
      OBVIOUS
    <2>1. y_squared(x) \in Int
      BY <1>1 DEF ALPHA
    <2>2. x % p \in 0 .. p - 1
      BY <1>1, Division
    <2>3. y_squared(x) % p = y_squared(x % p) % p
      <3>1. c.BETA \in Int
        BY <1>1
      <3>2. (x * x * x + 1 * x + c.BETA) % p
              = ((x % p) * (x % p) * (x % p) + 1 * (x % p) + c.BETA) % p
        BY <1>1, <3>1, CubicReduced
      <3> QED
        BY <3>2, Zenon DEF ALPHA
    <2> QED
      BY <2>1, <2>2, <2>3
  <1>6. Found # {}
    <2>1. P[1] - digits \in Int
      BY <1>1, <1>3
    <2>2. PICK k \in Int, i \in 0 .. p - 1 : i = (P[1] - digits) % p /\ P[1] - digits = k * p + i
      BY <1>1, <2>1, Division
    <2>3. i \in 0 .. p /\ digits + i \in Int /\ P[1] \in Int
      BY <1>1, <1>3, <2>2
    <2>4. digits + i = (0 - k) * p + P[1]
      <3>1. (0 - k) * p = 0 - (k * p) /\ k * p \in Int
        BY <1>1, <2>2
      <3> QED
        BY <2>2, <2>3, <3>1
    <2>5. (digits + i) % p = P[1]
      <3>1. 0 - k \in Int
        BY <2>2
      <3>2. ((0 - k) * p + P[1]) % p = P[1]
        BY <1>1, <1>3, <3>1, LowPart
      <3> QED
        BY <2>4, <3>2
    <2>6. y_squared(digits + i) % p = y_squared(P[1]) % p
      <3> HIDE DEF y_squared
      <3> QED
        BY <1>5, <2>3, <2>5
    <2>7. is_quad_residue(y_squared(digits + i), p)
      <3> HIDE DEF y_squared
      <3> QED
        BY <1>3, <1>4, <2>6 DEF is_quad_residue
    <2> HIDE DEF y_squared
    <2> QED
      BY <2>3, <2>7
  <1> DEFINE x == digits + Min(Found)
             Roots == {m \in 0 .. p - 1 : (m * m) % p = y_squared(x) % p}
  <1>7. Min(Found) \in Found
    <2>1. Found \in SUBSET Nat
      BY <1>1
    <2> HIDE DEF Found
    <2> QED
      BY <1>6, <2>1, MinIs
  <1>8. x \in Int
    <2>1. \A i \in Found : i \in Int
      BY <1>1
    <2> HIDE DEF Found
    <2> QED
      BY <1>7, <2>1
  <1>9. Roots # {}
    <2>1. is_quad_residue(y_squared(x), p)
      <3> HIDE DEF y_squared
      <3> QED
        BY <1>7
    <2> HIDE DEF y_squared, x
    <2> QED
      BY <2>1 DEF is_quad_residue
  <1>10. Min(Roots) \in Roots
    <2>1. Roots \in SUBSET Nat
      BY <1>1
    <2> HIDE DEF Roots
    <2> QED
      BY <1>9, <2>1, MinIs
  <1>11. PointOfDigits(digits, c) = <<x % p, Min(Roots)>>
    BY Zenon DEF PointOfDigits, sqrt_mod, p
  <1> HIDE DEF Found
  <1>12. Min(Roots) \in 0 .. p - 1 /\ (Min(Roots) * Min(Roots)) % p = y_squared(x % p) % p
    <2>1. y_squared(x) % p = y_squared(x % p) % p
      <3> HIDE DEF y_squared, x
      <3> QED
        BY <1>5, <1>8
    <2>2. \A m \in Roots : m \in 0 .. p - 1 /\ (m * m) % p = y_squared(x) % p
      <3> HIDE DEF y_squared, x
      <3> QED
        OBVIOUS
    <2> HIDE DEF Roots, y_squared, x
    <2> QED
      BY <1>10, <2>1, <2>2
  <1>13. x % p \in 0 .. p - 1
    BY <1>5, <1>8
  <1> HIDE DEF x, Roots
  <1>14. PICK a \in 0 .. p - 1, b \in 0 .. p - 1 : a = x % p /\ b = Min(Roots)
    BY <1>12, <1>13
  <1>15. PointOfDigits(digits, c) = <<a, b>> /\ (b * b) % p = y_squared(a) % p
    BY <1>11, <1>12, <1>14
  <1>16. <<a, b>> \in PointsOnCurve(c)
    BY <1>14, <1>15, Zenon DEF PointsOnCurve, p
  <1>17. <<a, b>> # Math!EC_INFINITY
    <2>1. <<a, b>> \in Pairs(p)
      BY <1>14 DEF Pairs
    <2> QED
      BY <2>1, NoPairs
  <1> QED
    BY <1>15, <1>16, <1>17

\* The list of the doublings of a point.
DoublesOf(points, c, P, count) ==
  /\ points \in Seq(Pairs(c.FIELD_PRIME)) /\ Len(points) = count
  /\ \A i \in 1 .. count : points[i] = Multiple(c, Math!power2[i - 1], P)

LEMMA DoublingsAre ==
  ASSUME NEW c \in Curves, NEW P \in PointsOnCurve(c), P # Math!EC_INFINITY, NEW count \in Nat \ {0}
  PROVE  DoublesOf(Doublings(P, count, c.FIELD_PRIME), c, P, count)
PROOF
  <1> DEFINE p == c.FIELD_PRIME
             n == count - 1
             S == Pairs(p) \cup {AssertionError}
             next == [i \in Nat |-> [q \in S |-> ec_double(q, ALPHA, p)]]
             double[i \in 0 .. count - 1] == IF i = 0 THEN P ELSE ec_double(double[i - 1], ALPHA, p)
  <1>1. P \in S
    BY PointsAre
  <1>2. \A q \in S : ec_double(q, ALPHA, p) \in S
    BY PartialClosed
  <1>3. next \in [Nat -> [S -> S]]
    <2> HIDE DEF S, p
    <2> QED
      BY <1>2
  <1>4. PICK g : IsIteration(g, P, next, S)
    <2> HIDE DEF next, S
    <2> QED
      BY <1>1, <1>3, IterationExists
  <1>5. \A i \in Nat : g[i] \in S /\ g[0] = P /\ g[i + 1] = ec_double(g[i], ALPHA, p)
    <2>1. \A i \in Nat : g[i] \in S /\ g[0] = P /\ g[i + 1] = next[i + 1][g[i]]
      BY <1>4 DEF IsIteration
    <2>2. \A i \in Nat : \A q \in S : next[i + 1][q] = ec_double(q, ALPHA, p)
      <3> HIDE DEF S, p
      <3> QED
        OBVIOUS
    <2> HIDE DEF next, S, p
    <2> QED
      BY <2>1, <2>2
  <1> DEFINE h == [i \in 0 .. n |-> g[i]]
  <1>6. n \in Nat
    OBVIOUS
  <1>7. h = [i \in 0 .. n |-> IF i = 0 THEN P ELSE ec_double(h[i - 1], ALPHA, p)]
    <2>1. \A i \in 0 .. n : h[i] = IF i = 0 THEN P ELSE ec_double(h[i - 1], ALPHA, p)
      <3> SUFFICES ASSUME NEW i \in 0 .. n
                   PROVE  h[i] = IF i = 0 THEN P ELSE ec_double(h[i - 1], ALPHA, p)
        OBVIOUS
      <3>1. CASE i = 0
        BY <1>5, <3>1
      <3>2. CASE i # 0
        <4>1. i - 1 \in Nat /\ (i - 1) + 1 = i /\ i - 1 \in 0 .. n
          BY <3>2
        <4>2. g[(i - 1) + 1] = ec_double(g[i - 1], ALPHA, p)
          BY <1>5, <4>1
        <4> QED
          BY <3>2, <4>1, <4>2
      <3> QED
        BY <3>1, <3>2
    <2>2. h = [i \in 0 .. n |-> h[i]]
      OBVIOUS
    <2> HIDE DEF h
    <2> QED
      BY <2>1, <2>2
  <1>8. double = [i \in 0 .. count - 1 |-> IF i = 0 THEN P ELSE ec_double(double[i - 1], ALPHA, p)]
    <2> HIDE DEF p, h
    <2> QED
      BY <1>7, Zenon DEF double
  <1>9. Doublings(P, count, p) = [i \in 1 .. count |-> double[i - 1]]
    <2> HIDE DEF p
    <2> QED
      BY Zenon DEF Doublings
  <1> HIDE DEF double
  <1> DEFINE Good == {i \in Nat : i < count =>
                        /\ double[i] = Multiple(c, Math!power2[i], P)
                        /\ double[i] \in PointsOnCurve(c) /\ double[i] # Math!EC_INFINITY}
  <1>10. \A i \in Nat : i \in Good
    <2>1. 0 \in Good
      <3>1. double[0] = P
        BY <1>8
      <3>2. Math!power2[0] = 1 /\ Multiple(c, 1, P) = P
        BY PowersOfTwo, PointsAre, MultipleRecurs
      <3> QED
        BY <3>1, <3>2
    <2>2. ASSUME NEW i \in Nat, i \in Good PROVE i + 1 \in Good
      <3> SUFFICES ASSUME i + 1 < count
                   PROVE  /\ double[i + 1] = Multiple(c, Math!power2[i + 1], P)
                          /\ double[i + 1] \in PointsOnCurve(c) /\ double[i + 1] # Math!EC_INFINITY
        OBVIOUS
      <3>1. /\ double[i] = Multiple(c, Math!power2[i], P)
            /\ double[i] \in PointsOnCurve(c) /\ double[i] # Math!EC_INFINITY
        BY <2>2
      <3>2. i + 1 \in 0 .. count - 1 /\ i + 1 # 0 /\ (i + 1) - 1 = i
        OBVIOUS
      <3>3. double[i + 1] = ec_double(double[i], ALPHA, p)
        BY <1>8, <3>2
      <3>4. /\ double[i + 1] = Add(c, double[i], double[i])
            /\ double[i + 1] \in PointsOnCurve(c) /\ double[i + 1] # Math!EC_INFINITY
        BY <3>1, <3>3, PartialDouble
      <3>5. PICK k \in Nat : k = Math!power2[i] /\ Math!power2[i + 1] = k + k
        BY PowersOfTwo
      <3>6. Multiple(c, k + k, P) = Add(c, Multiple(c, k, P), Multiple(c, k, P))
        BY MultipleSum
      <3> QED
        BY <3>1, <3>4, <3>5, <3>6
    <2> HIDE DEF Good
    <2> QED
      BY <2>1, <2>2, NaturalInduction
  <1>11. ASSUME NEW i \in 1 .. count
         PROVE  double[i - 1] = Multiple(c, Math!power2[i - 1], P) /\ double[i - 1] \in Pairs(p)
    <2>1. i - 1 \in Nat /\ i - 1 < count
      OBVIOUS
    <2>2. /\ double[i - 1] = Multiple(c, Math!power2[i - 1], P)
          /\ double[i - 1] \in PointsOnCurve(c) /\ double[i - 1] # Math!EC_INFINITY
      BY <1>10, <2>1
    <2> QED
      BY <2>2, PointsAre
  <1> DEFINE points == Doublings(P, count, p)
  <1> HIDE DEF p
  <1>12. points \in Seq(Pairs(p)) /\ Len(points) = count
    BY <1>9, <1>11
  <1>13. \A i \in 1 .. count : points[i] = Multiple(c, Math!power2[i - 1], P)
    BY <1>9, <1>11
  <1> QED
    BY <1>12, <1>13 DEF DoublesOf, p

\* u is s, of k elements, and then t, of m elements.
InARow(u, s, t, k, m, S) ==
  /\ u \in Seq(S) /\ Len(u) = k + m
  /\ \A i \in 1 .. k : u[i] = s[i]
  /\ \A i \in 1 .. m : u[k + i] = t[i]

LEMMA ConcatIs ==
  ASSUME NEW S, NEW s \in Seq(S), NEW t \in Seq(S), NEW k \in Nat, NEW m \in Nat,
         Len(s) = k, Len(t) = m
  PROVE  InARow(s \o t, s, t, k, m, S)
PROOF
  <1>1. /\ s \o t \in Seq(S)
        /\ Len(s \o t) = Len(s) + Len(t)
        /\ \A i \in 1 .. Len(s) + Len(t) : (s \o t)[i] = IF i <= Len(s) THEN s[i] ELSE t[i - Len(s)]
    BY ConcatProperties, Zenon
  <1>2. PICK u : u = s \o t
    BY Zenon
  <1>3. u \in Seq(S) /\ Len(u) = Len(s) + Len(t)
        /\ \A i \in 1 .. Len(s) + Len(t) : u[i] = IF i <= Len(s) THEN s[i] ELSE t[i - Len(s)]
    BY <1>1, <1>2, Zenon
  <1>4. \A i \in 1 .. k + m : u[i] = IF i <= k THEN s[i] ELSE t[i - k]
    BY <1>3
  <1>5. \A i \in 1 .. m : u[k + i] = t[i]
    <2> SUFFICES ASSUME NEW i \in 1 .. m PROVE u[k + i] = t[i]
      OBVIOUS
    <2>1. k + i \in 1 .. k + m /\ ~ (k + i <= k) /\ (k + i) - k = i
      OBVIOUS
    <2> QED
      BY <1>4, <2>1
  <1>6. \A i \in 1 .. k : u[i] = s[i]
    BY <1>4
  <1>7. u \in Seq(S) /\ Len(u) = k + m
    BY <1>3
  <1>8. InARow(u, s, t, k, m, S)
    BY <1>5, <1>6, <1>7 DEF InARow
  <1> QED
    BY <1>2, <1>8, Zenon

\* The elements of five sequences in a row.
Parts(S, all, a, b, d, e, f, l, h) ==
  /\ a \in Seq(S) /\ b \in Seq(S) /\ d \in Seq(S) /\ e \in Seq(S) /\ f \in Seq(S)
  /\ l \in Nat /\ h \in Nat
  /\ Len(a) = 2 /\ Len(b) = l /\ Len(d) = h /\ Len(e) = l /\ Len(f) = h
  /\ all = a \o b \o d \o e \o f

LEMMA FiveParts ==
  ASSUME NEW S, NEW all, NEW a, NEW b, NEW d, NEW e, NEW f, NEW l, NEW h,
         Parts(S, all, a, b, d, e, f, l, h)
  PROVE  /\ all \in Seq(S) /\ Len(all) = 2 + 2 * (l + h)
         /\ all[1] = a[1] /\ all[2] = a[2]
         /\ \A i \in 1 .. l : all[2 + i] = b[i] /\ all[2 + (l + h) + i] = e[i]
         /\ \A i \in 1 .. h : all[2 + l + i] = d[i] /\ all[2 + (l + h) + l + i] = f[i]
PROOF
  <1> USE DEF Parts
  <1> DEFINE ab == a \o b
             abd == ab \o d
             abde == abd \o e
             k2 == 2 + l
             k3 == k2 + h
             k4 == k3 + l
  <1>1. 2 \in Nat /\ k2 \in Nat /\ k3 \in Nat /\ k4 \in Nat
    OBVIOUS
  <1>2. InARow(ab, a, b, 2, l, S)
    BY <1>1, ConcatIs
  <1>3. all = abde \o f
    OBVIOUS
  <1>4. ab \in Seq(S) /\ Len(ab) = k2
    <2> HIDE DEF ab
    <2> QED
      BY <1>2 DEF InARow
  <1> HIDE DEF ab, k2
  <1>5. InARow(abd, ab, d, k2, h, S)
    BY <1>1, <1>4, ConcatIs
  <1>6. abd \in Seq(S) /\ Len(abd) = k3
    <2> HIDE DEF abd
    <2> QED
      BY <1>5 DEF InARow
  <1> HIDE DEF abd, k3
  <1>7. InARow(abde, abd, e, k3, l, S)
    BY <1>1, <1>6, ConcatIs
  <1>8. abde \in Seq(S) /\ Len(abde) = k4
    <2> HIDE DEF abde
    <2> QED
      BY <1>7 DEF InARow
  <1> HIDE DEF abde, k4
  <1>9. InARow(all, abde, f, k4, h, S)
    <2>1. InARow(abde \o f, abde, f, k4, h, S)
      BY <1>1, <1>8, ConcatIs
    <2> QED
      BY <1>3, <2>1, Zenon
  <1>a. k2 = 2 + l /\ k3 = k2 + h /\ k4 = k3 + l
    BY DEF k2, k3, k4
  <1>10. all \in Seq(S) /\ Len(all) = 2 + 2 * (l + h)
    BY <1>9, <1>a DEF InARow
  <1>11. \A i \in 1 .. k4 : all[i] = abde[i]
    BY <1>9 DEF InARow
  <1>12. \A i \in 1 .. k3 : i \in 1 .. k4 /\ abde[i] = abd[i]
    BY <1>7, <1>a DEF InARow
  <1>13. \A i \in 1 .. k2 : i \in 1 .. k3 /\ abd[i] = ab[i]
    BY <1>5, <1>a DEF InARow
  <1>14. \A i \in 1 .. k2 : all[i] = ab[i]
    BY <1>11, <1>12, <1>13
  <1>15. all[1] = a[1] /\ all[2] = a[2]
    <2>1. 1 \in 1 .. k2 /\ 2 \in 1 .. k2 /\ 1 \in 1 .. 2 /\ 2 \in 1 .. 2
      BY <1>a
    <2>2. ab[1] = a[1] /\ ab[2] = a[2]
      BY <1>2, <2>1 DEF InARow
    <2> QED
      BY <1>14, <2>1, <2>2
  <1>16. ASSUME NEW i \in 1 .. l PROVE all[2 + i] = b[i] /\ all[2 + (l + h) + i] = e[i]
    <2>1. 2 + i \in 1 .. k2 /\ ab[2 + i] = b[i]
      BY <1>2, <1>a DEF InARow
    <2>2. k3 + i \in 1 .. k4 /\ abde[k3 + i] = e[i] /\ k3 + i = 2 + (l + h) + i
      BY <1>7, <1>a DEF InARow
    <2> QED
      BY <1>11, <1>14, <2>1, <2>2
  <1>17. ASSUME NEW i \in 1 .. h PROVE all[2 + l + i] = d[i] /\ all[2 + (l + h) + l + i] = f[i]
    <2>1. k2 + i \in 1 .. k3 /\ abd[k2 + i] = d[i] /\ k2 + i = 2 + l + i
      BY <1>5, <1>a DEF InARow
    <2>2. all[k4 + i] = f[i] /\ k4 + i = 2 + (l + h) + l + i
      <3>1. all[k4 + i] = f[i]
        BY <1>9 DEF InARow
      <3>2. k4 + i = 2 + (l + h) + l + i
        BY <1>a
      <3> QED
        BY <3>1, <3>2
    <2> QED
      BY <1>11, <1>12, <2>1, <2>2
  <1> QED
    BY <1>10, <1>15, <1>16, <1>17

\* The i-th point made of the digits of pi.
BasePoint(c, pi, i) == PointOfDigits(pi[i], c)

\* The parameters in use are those of the curve c and the digits pi.
Loaded(c, pi) == c \in Curves /\ pi \in PiDigits /\ params = pedersen_params(c, pi)

LEMMA ParametersAre ==
  ASSUME NEW c, NEW pi, Loaded(c, pi)
  PROVE  /\ FIELD_PRIME = c.FIELD_PRIME /\ EC_ORDER = c.EC_ORDER /\ BETA = c.BETA
         /\ N_ELEMENT_BITS_HASH = Math!bit_length(c.FIELD_PRIME)
         /\ CONSTANT_POINTS = generate_constant_points(c, pi, N_ELEMENT_BITS_HASH - LOW_PART_BITS)
         /\ \A i \in 1 .. 6 : /\ BasePoint(c, pi, i) \in PointsOnCurve(c)
                              /\ BasePoint(c, pi, i) # Math!EC_INFINITY
PROOF
  <1>1. FIELD_PRIME = c.FIELD_PRIME /\ EC_ORDER = c.EC_ORDER /\ BETA = c.BETA
        /\ CONSTANT_POINTS = generate_constant_points(c, pi, Math!bit_length(c.FIELD_PRIME) - LOW_PART_BITS)
    BY DEF Loaded, pedersen_params, FIELD_PRIME, EC_ORDER, BETA, CONSTANT_POINTS
  <1>2. N_ELEMENT_BITS_HASH = Math!bit_length(c.FIELD_PRIME)
    BY <1>1 DEF N_ELEMENT_BITS_HASH
  <1>3. \A i \in 1 .. 6 : pi[i] \in Nat
    BY InputsAssumption DEF Loaded
  <1>4. \A i \in 1 .. 6 : /\ BasePoint(c, pi, i) \in PointsOnCurve(c)
                          /\ BasePoint(c, pi, i) # Math!EC_INFINITY
    BY <1>3, DigitsMakePoint DEF Loaded, BasePoint
  <1> QED
    BY <1>1, <1>2, <1>4

\* The constant points: the shift point, the generator, and of each hashed element the
\* doublings of a point for its low part and of another for its high part.
ConstantPoints(c, pi, l, h) ==
  /\ CONSTANT_POINTS \in Seq(Pairs(c.FIELD_PRIME)) /\ Len(CONSTANT_POINTS) = 2 + 2 * (l + h)
  /\ SHIFT_POINT = BasePoint(c, pi, 1) /\ EC_GEN = BasePoint(c, pi, 2)
  /\ \A i \in 1 .. l :
       /\ CONSTANT_POINTS[2 + i] = Multiple(c, Math!power2[i - 1], BasePoint(c, pi, 3))
       /\ CONSTANT_POINTS[2 + (l + h) + i] = Multiple(c, Math!power2[i - 1], BasePoint(c, pi, 5))
  /\ \A i \in 1 .. h :
       /\ CONSTANT_POINTS[2 + l + i] = Multiple(c, Math!power2[i - 1], BasePoint(c, pi, 4))
       /\ CONSTANT_POINTS[2 + (l + h) + l + i] = Multiple(c, Math!power2[i - 1], BasePoint(c, pi, 6))

LEMMA ConstantPointsAre ==
  ASSUME NEW c, NEW pi, Loaded(c, pi)
  PROVE  \E h \in Nat : /\ N_ELEMENT_BITS_HASH = LOW_PART_BITS + h
                        /\ h > 0 /\ LOW_PART_BITS \in Nat /\ LOW_PART_BITS > 0
                        /\ ConstantPoints(c, pi, LOW_PART_BITS, h)
PROOF
  <1> DEFINE l == LOW_PART_BITS
             N == N_ELEMENT_BITS_HASH
             p == c.FIELD_PRIME
             P(i) == PointOfDigits(pi[i], c)
  <1>1. c \in Curves
    BY DEF Loaded
  <1>2. N \in Nat /\ l \in 1 .. N - 1
    BY <1>1, ParametersAre, CurveNumbers
  <1>3. PICK h \in Nat \ {0} : h = N - l /\ N = l + h /\ l \in Nat /\ l > 0
    BY <1>2
  <1>4. \A i \in 1 .. 6 : P(i) \in PointsOnCurve(c) /\ P(i) # Math!EC_INFINITY /\ P(i) \in Pairs(p)
    <2>1. \A i \in 1 .. 6 : P(i) \in PointsOnCurve(c) /\ P(i) # Math!EC_INFINITY
      BY ParametersAre DEF BasePoint
    <2> HIDE DEF P
    <2> QED
      BY <1>1, <2>1, PointsAre
  <1> DEFINE Doubled(i) == Doublings(P(i), IF i % 2 = 1 THEN LOW_PART_BITS ELSE h, p)
             D(i, count) == Doublings(P(i), count, p)
             a == <<P(1), P(2)>>
  <1>5. CONSTANT_POINTS = a \o Doubled(3) \o Doubled(4) \o Doubled(5) \o Doubled(6)
    <2>1. CONSTANT_POINTS = generate_constant_points(c, pi, h)
      BY <1>3, ParametersAre
    <2> QED
      BY <2>1, Zenon DEF generate_constant_points
  <1>6. Doubled(3) = D(3, l) /\ Doubled(4) = D(4, h) /\ Doubled(5) = D(5, l) /\ Doubled(6) = D(6, h)
    <2>1. 3 % 2 = 1 /\ 4 % 2 = 0 /\ 5 % 2 = 1 /\ 6 % 2 = 0
      BY SMT
    <2> QED
      BY <2>1
  <1>7. DoublesOf(D(3, l), c, P(3), l) /\ DoublesOf(D(4, h), c, P(4), h)
        /\ DoublesOf(D(5, l), c, P(5), l) /\ DoublesOf(D(6, h), c, P(6), h)
    <2>1. l \in Nat \ {0}
      BY <1>3
    <2> HIDE DEF P
    <2> QED
      BY <1>1, <1>3, <1>4, <2>1, DoublingsAre
  <1>8. a \in Seq(Pairs(p)) /\ Len(a) = 2 /\ a[1] = P(1) /\ a[2] = P(2)
    <2> HIDE DEF P
    <2> QED
      BY <1>4
  <1> DEFINE D3 == D(3, l)
             D4 == D(4, h)
             D5 == D(5, l)
             D6 == D(6, h)
  <1>9. CONSTANT_POINTS = a \o D3 \o D4 \o D5 \o D6
    <2> HIDE DEF a, Doubled, D
    <2> QED
      BY <1>5, <1>6, Zenon
  <1>10. /\ D3 \in Seq(Pairs(p)) /\ D4 \in Seq(Pairs(p)) /\ D5 \in Seq(Pairs(p)) /\ D6 \in Seq(Pairs(p))
         /\ Len(D3) = l /\ Len(D4) = h /\ Len(D5) = l /\ Len(D6) = h
         /\ \A i \in 1 .. l : /\ D3[i] = Multiple(c, Math!power2[i - 1], P(3))
                              /\ D5[i] = Multiple(c, Math!power2[i - 1], P(5))
         /\ \A i \in 1 .. h : /\ D4[i] = Multiple(c, Math!power2[i - 1], P(4))
                              /\ D6[i] = Multiple(c, Math!power2[i - 1], P(6))
    <2> HIDE DEF P, D
    <2> QED
      BY <1>7 DEF DoublesOf
  <1> HIDE DEF a, D3, D4, D5, D6, p
  <1> DEFINE all == CONSTANT_POINTS
  <1>11. /\ all \in Seq(Pairs(p)) /\ Len(all) = 2 + 2 * (l + h)
         /\ all[1] = a[1] /\ all[2] = a[2]
         /\ \A i \in 1 .. l : all[2 + i] = D3[i] /\ all[2 + (l + h) + i] = D5[i]
         /\ \A i \in 1 .. h : all[2 + l + i] = D4[i] /\ all[2 + (l + h) + l + i] = D6[i]
    <2> HIDE DEF all, l
    <2>1. all = a \o D3 \o D4 \o D5 \o D6
      BY <1>9 DEF all
    <2>2. /\ a \in Seq(Pairs(p)) /\ D3 \in Seq(Pairs(p)) /\ D4 \in Seq(Pairs(p))
          /\ D5 \in Seq(Pairs(p)) /\ D6 \in Seq(Pairs(p)) /\ l \in Nat /\ h \in Nat
          /\ Len(a) = 2 /\ Len(D3) = l /\ Len(D4) = h /\ Len(D5) = l /\ Len(D6) = h
      BY <1>3, <1>8, <1>10
    <2>3. Parts(Pairs(p), all, a, D3, D4, D5, D6, l, h)
      BY <2>1, <2>2, Zenon DEF Parts
    <2> QED
      BY <2>3, FiveParts, SMTT(30)
  <1>12. \A i : P(i) = BasePoint(c, pi, i)
    BY DEF BasePoint
  <1> HIDE DEF P
  <1>13. SHIFT_POINT = BasePoint(c, pi, 1) /\ EC_GEN = BasePoint(c, pi, 2)
    BY <1>8, <1>11, <1>12 DEF SHIFT_POINT, EC_GEN
  <1>14. ConstantPoints(c, pi, LOW_PART_BITS, h)
    <2>1. CONSTANT_POINTS \in Seq(Pairs(c.FIELD_PRIME)) /\ Len(CONSTANT_POINTS) = 2 + 2 * (l + h)
      BY <1>11 DEF p
    <2>2. \A i \in 1 .. l :
            /\ CONSTANT_POINTS[2 + i] = Multiple(c, Math!power2[i - 1], BasePoint(c, pi, 3))
            /\ CONSTANT_POINTS[2 + (l + h) + i] = Multiple(c, Math!power2[i - 1], BasePoint(c, pi, 5))
      BY <1>10, <1>11, <1>12
    <2>3. \A i \in 1 .. h :
            /\ CONSTANT_POINTS[2 + l + i] = Multiple(c, Math!power2[i - 1], BasePoint(c, pi, 4))
            /\ CONSTANT_POINTS[2 + (l + h) + l + i] = Multiple(c, Math!power2[i - 1], BasePoint(c, pi, 6))
      BY <1>10, <1>11, <1>12
    <2> QED
      BY <1>13, <2>1, <2>2, <2>3 DEF ConstantPoints
  <1> QED
    BY <1>3, <1>14

-----------------------------------------------------------------------------
(* The sum over the bits of a number.                                      *)

Outcomes(p) == Pairs(p) \cup {AssertionError}

\* What a round of AddByBits makes of the one before it.
RoundAfter(before, point, p) ==
  [left |-> before.left \div 2,
   sum |-> IF AssertionError \in {before.sum, point} \/ before.sum[1] = point[1] THEN AssertionError
           ELSE IF before.left % 2 = 1 THEN ec_add(before.sum, point, p)
           ELSE before.sum]

\* g is the rounds of AddByBits(m, points, start).
AreRounds(g, m, points, start, p) ==
  /\ g[0] = [left |-> m, sum |-> start]
  /\ \A i \in 0 .. Len(points) - 1 : g[i + 1] = RoundAfter(g[i], points[i + 1], p)
  /\ \A i \in 0 .. Len(points) : g[i] \in [left : Nat, sum : Outcomes(p)]
  /\ AddByBits(m, points, start) = IF g[Len(points)].left = 0 THEN g[Len(points)].sum ELSE AssertionError

LEMMA RoundsExist ==
  ASSUME NEW c \in Curves, FIELD_PRIME = c.FIELD_PRIME, NEW m \in Nat,
         NEW points \in Seq(Pairs(c.FIELD_PRIME)), NEW start \in Outcomes(c.FIELD_PRIME)
  PROVE  \E g : AreRounds(g, m, points, start, c.FIELD_PRIME)
PROOF
  <1> DEFINE p == c.FIELD_PRIME
             n == Len(points)
             D == [left : Nat, sum : Outcomes(p)]
             first == [left |-> m, sum |-> start]
             next == [i \in Nat |-> [q \in D |-> IF i \in 1 .. n THEN RoundAfter(q, points[i], p) ELSE q]]
  <1>1. n \in Nat /\ \A i \in 1 .. n : points[i] \in Pairs(p)
    OBVIOUS
  <1>2. first \in D
    OBVIOUS
  <1>3. ASSUME NEW q \in D, NEW P \in Pairs(p) PROVE RoundAfter(q, P, p) \in D
    <2>1. q.left \in Nat /\ q.sum \in Outcomes(p) /\ P \in Outcomes(p)
      BY <1>3 DEF Outcomes
    <2>2. q.left \div 2 \in Nat
      BY <2>1, SMT
    <2>3. ec_add(q.sum, P, p) \in Outcomes(p)
      BY <2>1, PartialClosed DEF Outcomes
    <2>4. AssertionError \in Outcomes(p)
      BY DEF Outcomes
    <2> HIDE DEF p
    <2> QED
      BY <2>1, <2>2, <2>3, <2>4 DEF RoundAfter
  <1>4. next \in [Nat -> [D -> D]]
    <2> HIDE DEF D, p, n
    <2> QED
      BY <1>1, <1>3
  <1>5. PICK g : IsIteration(g, first, next, D)
    <2> HIDE DEF next, D, first
    <2> QED
      BY <1>2, <1>4, IterationExists
  <1>6. g[0] = first /\ \A i \in Nat : g[i] \in D
    BY <1>5 DEF IsIteration
  <1>7. ASSUME NEW i \in 0 .. n - 1 PROVE g[i + 1] = RoundAfter(g[i], points[i + 1], p)
    <2>1. i \in Nat /\ i + 1 \in Nat /\ i + 1 \in 1 .. n
      BY <1>1
    <2>2. g[i + 1] = next[i + 1][g[i]] /\ g[i] \in D
      <3> HIDE DEF next, D, first
      <3> QED
        BY <1>5, <2>1 DEF IsIteration
    <2>3. next[i + 1][g[i]] = RoundAfter(g[i], points[i + 1], p)
      <3> HIDE DEF D, n, p
      <3> QED
        BY <2>1, <2>2
    <2> QED
      BY <2>2, <2>3
  <1> HIDE DEF next
  <1> DEFINE h == [i \in 0 .. n |-> g[i]]
             round[i \in 0 .. Len(points)] ==
               IF i = 0 THEN [left |-> m, sum |-> start]
               ELSE LET before == round[i - 1]
                        fails == \/ AssertionError \in {before.sum, points[i]}
                                 \/ before.sum[1] = points[i][1]
                    IN  [left |-> before.left \div 2,
                         sum |-> IF fails THEN AssertionError
                                 ELSE IF before.left % 2 = 1 THEN ec_add(before.sum, points[i], FIELD_PRIME)
                                 ELSE before.sum]
  <1>8. h = [i \in 0 .. n |-> IF i = 0 THEN first ELSE RoundAfter(h[i - 1], points[i], p)]
    <2>1. \A i \in 0 .. n : h[i] = IF i = 0 THEN first ELSE RoundAfter(h[i - 1], points[i], p)
      <3> SUFFICES ASSUME NEW i \in 0 .. n
                   PROVE  h[i] = IF i = 0 THEN first ELSE RoundAfter(h[i - 1], points[i], p)
        OBVIOUS
      <3> HIDE DEF first, p
      <3>1. CASE i = 0
        BY <1>6, <3>1
      <3>2. CASE i # 0
        <4>1. i - 1 \in 0 .. n - 1 /\ (i - 1) + 1 = i /\ i - 1 \in 0 .. n
          BY <1>1, <3>2
        <4>2. g[(i - 1) + 1] = RoundAfter(g[i - 1], points[(i - 1) + 1], p)
          BY <1>7, <4>1
        <4>3. h[i] = g[i] /\ h[i - 1] = g[i - 1]
          BY <4>1
        <4> QED
          BY <3>2, <4>1, <4>2, <4>3
      <3> QED
        BY <3>1, <3>2
    <2>2. h = [i \in 0 .. n |-> h[i]]
      OBVIOUS
    <2> HIDE DEF h
    <2> QED
      BY <2>1, <2>2
  <1>9. h = [i \in 0 .. Len(points) |->
               IF i = 0 THEN [left |-> m, sum |-> start]
               ELSE [left |-> h[i - 1].left \div 2,
                     sum |-> IF \/ AssertionError \in {h[i - 1].sum, points[i]}
                                \/ h[i - 1].sum[1] = points[i][1] THEN AssertionError
                             ELSE IF h[i - 1].left % 2 = 1 THEN ec_add(h[i - 1].sum, points[i], FIELD_PRIME)
                             ELSE h[i - 1].sum]]
    <2> HIDE DEF h
    <2>1. FIELD_PRIME = p
      OBVIOUS
    <2> HIDE DEF p
    <2> QED
      BY <1>8, <2>1, Zenon DEF RoundAfter
  <1>10. round = [i \in 0 .. Len(points) |->
               IF i = 0 THEN [left |-> m, sum |-> start]
               ELSE [left |-> round[i - 1].left \div 2,
                     sum |-> IF \/ AssertionError \in {round[i - 1].sum, points[i]}
                                \/ round[i - 1].sum[1] = points[i][1] THEN AssertionError
                             ELSE IF round[i - 1].left % 2 = 1
                                  THEN ec_add(round[i - 1].sum, points[i], FIELD_PRIME)
                             ELSE round[i - 1].sum]]
    <2> HIDE DEF h
    <2> QED
      BY <1>9, Zenon DEF round
  <1>11. AddByBits(m, points, start) = IF round[Len(points)].left = 0 THEN round[Len(points)].sum ELSE AssertionError
    BY Zenon DEF AddByBits
  <1> HIDE DEF round
  <1>12. round = [i \in 0 .. n |-> IF i = 0 THEN first ELSE RoundAfter(round[i - 1], points[i], p)]
    <2>1. FIELD_PRIME = p
      OBVIOUS
    <2> HIDE DEF p
    <2> QED
      BY <1>10, <2>1, Zenon DEF RoundAfter
  <1> DEFINE Good == {i \in Nat : i <= n => round[i] = g[i]}
  <1>13. \A i \in Nat : i \in Good
    <2> HIDE DEF first, p
    <2>1. 0 \in Good
      BY <1>1, <1>6, <1>12
    <2>2. ASSUME NEW i \in Nat, i \in Good PROVE i + 1 \in Good
      <3> SUFFICES ASSUME i + 1 <= n PROVE round[i + 1] = g[i + 1]
        OBVIOUS
      <3>1. i + 1 \in 0 .. n /\ i + 1 # 0 /\ (i + 1) - 1 = i /\ i \in 0 .. n - 1
        BY <1>1
      <3>2. round[i] = g[i]
        BY <1>1, <2>2, <3>1
      <3>3. round[i + 1] = RoundAfter(round[i], points[i + 1], p)
        BY <1>12, <3>1
      <3> QED
        BY <1>7, <3>1, <3>2, <3>3
    <2> HIDE DEF Good
    <2> QED
      BY <2>1, <2>2, NaturalInduction
  <1>14. round[n] = g[n]
    BY <1>1, <1>13
  <1>15. AddByBits(m, points, start) = IF g[n].left = 0 THEN g[n].sum ELSE AssertionError
    BY <1>11, <1>14
  <1>16. \A i \in 0 .. n : g[i] \in D
    BY <1>1, <1>6
  <1> QED
    BY <1>6, <1>7, <1>15, <1>16 DEF AreRounds

\* What fails in a round, fails.
LEMMA FailureStays ==
  ASSUME NEW p, NEW g, NEW m, NEW points, NEW start, AreRounds(g, m, points, start, p),
         Len(points) \in Nat, NEW a \in 0 .. Len(points), g[a].sum = AssertionError
  PROVE  AddByBits(m, points, start) = AssertionError
PROOF
  <1> DEFINE n == Len(points)
             Good == {i \in Nat : a <= i /\ i <= n => g[i].sum = AssertionError}
  <1>1. 0 \in Good
    OBVIOUS
  <1>2. ASSUME NEW i \in Nat, i \in Good PROVE i + 1 \in Good
    <2> SUFFICES ASSUME a <= i + 1, i + 1 <= n, a # i + 1 PROVE g[i + 1].sum = AssertionError
      OBVIOUS
    <2>1. i \in 0 .. n - 1 /\ a <= i /\ i <= n
      OBVIOUS
    <2>2. g[i].sum = AssertionError
      BY <1>2, <2>1
    <2>3. g[i + 1] = RoundAfter(g[i], points[i + 1], p)
      BY <2>1 DEF AreRounds
    <2> QED
      BY <2>2, <2>3 DEF RoundAfter
  <1>3. n \in Good
    <2> HIDE DEF Good
    <2> QED
      BY <1>1, <1>2, NaturalInduction
  <1>4. g[n].sum = AssertionError
    BY <1>3
  <1> QED
    BY <1>4 DEF AreRounds

\* After j rounds over the doublings of P, with l left at their start and S summed up.
SumSoFar(r, c, l, S, P, j) ==
  /\ r.left = l \div Math!power2[j]
  /\ \/ /\ r.sum = AssertionError
        /\ \E i \in 0 .. j - 1 : Add(c, S, Multiple(c, l % Math!power2[i], P))[1]
                                   = Multiple(c, Math!power2[i], P)[1]
     \/ /\ r.sum = Add(c, S, Multiple(c, l % Math!power2[j], P))
        /\ r.sum \in PointsOnCurve(c) /\ r.sum # Math!EC_INFINITY

\* The b points after the first a are the doublings of P.
DoublesFrom(points, c, P, a, b) ==
  /\ points \in Seq(Pairs(c.FIELD_PRIME)) /\ a + b <= Len(points)
  /\ \A j \in 1 .. b : points[a + j] = Multiple(c, Math!power2[j - 1], P)

LEMMA RoundsAdd ==
  ASSUME NEW c \in Curves, NEW g, NEW m, NEW points, NEW start,
         AreRounds(g, m, points, start, c.FIELD_PRIME),
         NEW P \in PointsOnCurve(c), NEW a \in Nat, NEW b \in Nat, DoublesFrom(points, c, P, a, b),
         NEW S \in PointsOnCurve(c), S # Math!EC_INFINITY, NEW l \in Nat,
         g[a].left = l, g[a].sum = S
  PROVE  SumSoFar(g[a + b], c, l, S, P, b)
PROOF
  <1> DEFINE p == c.FIELD_PRIME
             G == PointsOnCurve(c)
             O == Math!EC_INFINITY
             q(j) == Math!power2[j]
             Mul(k) == Multiple(c, k, P)
             Good == {j \in Nat : j <= b => SumSoFar(g[a + j], c, l, S, P, j)}
  <1>1. \A j \in Nat : q(j) \in Nat \ {0} /\ q(j + 1) = 2 * q(j) /\ q(0) = 1
    BY PowersOfTwo
  <1>2. 0 \in Good
    <2>1. l \div 1 = l /\ l % 1 = 0
      BY SMT
    <2>2. Multiple(c, 0, P) = O /\ Add(c, S, O) = S
      BY PointsAre, MultipleRecurs, GroupLaws
    <2>3. a + 0 = a
      OBVIOUS
    <2>4. SumSoFar(g[a + 0], c, l, S, P, 0)
      BY <1>1, <2>1, <2>2, <2>3 DEF SumSoFar
    <2> QED
      BY <2>4
  <1>3. ASSUME NEW j \in Nat, j \in Good PROVE j + 1 \in Good
    <2> SUFFICES ASSUME j + 1 <= b PROVE SumSoFar(g[a + (j + 1)], c, l, S, P, j + 1)
      OBVIOUS
    <2>1. SumSoFar(g[a + j], c, l, S, P, j)
      BY <1>3
    <2>2. a + j \in 0 .. Len(points) - 1 /\ a + (j + 1) = (a + j) + 1 /\ j + 1 \in 1 .. b
          /\ (j + 1) - 1 = j
      BY DEF DoublesFrom
    <2> DEFINE r == g[a + j]
               T == points[a + (j + 1)]
    <2>3. g[a + (j + 1)] = RoundAfter(r, T, p)
      BY <2>2 DEF AreRounds
    <2>4. T = Mul(q(j)) /\ T \in Pairs(p)
      <3>1. points[a + (j + 1)] = Multiple(c, Math!power2[(j + 1) - 1], P)
        BY <2>2 DEF DoublesFrom
      <3>2. a + (j + 1) \in 1 .. Len(points)
        BY <2>2
      <3>3. points[a + (j + 1)] \in Pairs(p)
        BY <3>2 DEF DoublesFrom
      <3> QED
        BY <2>2, <3>1, <3>3
    <2>5. T \in G /\ T # O /\ T # AssertionError
      <3>1. q(j) \in Nat
        BY <1>1
      <3>2. Mul(q(j)) \in G
        BY <3>1, MultipleNext
      <3> QED
        BY <2>4, <3>2, NoPairs
    <2>6. /\ l \div q(j) \in Nat /\ l % q(j) \in Nat
          /\ l % q(j + 1) = (l % q(j)) + q(j) * ((l \div q(j)) % 2)
          /\ l \div q(j + 1) = (l \div q(j)) \div 2
      <3>1. /\ l \div q(j) \in Nat /\ l % q(j) \in 0 .. q(j) - 1
            /\ l % (2 * q(j)) = (l % q(j)) + q(j) * ((l \div q(j)) % 2)
            /\ l \div (2 * q(j)) = (l \div q(j)) \div 2
        BY <1>1, BitsSplit
      <3> QED
        BY <1>1, <3>1
    <2> HIDE DEF T, r
    <2>7. RoundAfter(r, T, p).left = l \div q(j + 1)
      BY <2>1, <2>6 DEF RoundAfter, SumSoFar, r
    <2>8. CASE r.sum = AssertionError /\ \E i \in 0 .. j - 1 : Add(c, S, Mul(l % q(i)))[1] = Mul(q(i))[1]
      <3>1. RoundAfter(r, T, p).sum = AssertionError
        BY <2>8 DEF RoundAfter
      <3>2. \E i \in 0 .. (j + 1) - 1 : Add(c, S, Mul(l % q(i)))[1] = Mul(q(i))[1]
        <4>1. PICK i \in 0 .. j - 1 : Add(c, S, Mul(l % q(i)))[1] = Mul(q(i))[1]
          BY <2>8
        <4>2. i \in 0 .. (j + 1) - 1
          BY <4>1
        <4> QED
          BY <4>1, <4>2
      <3> QED
        BY <2>3, <2>7, <3>1, <3>2 DEF SumSoFar
    <2> DEFINE X == Add(c, S, Mul(l % q(j)))
    <2>9. CASE r.sum = X /\ r.sum \in G /\ r.sum # O
      <3>1. X \in G /\ X # O /\ X # AssertionError
        BY <2>9, PointsAre
      <3>2. CASE X[1] = T[1]
        <4>1. RoundAfter(r, T, p).sum = AssertionError
          BY <2>9, <3>2 DEF RoundAfter
        <4>2. j \in 0 .. (j + 1) - 1 /\ Add(c, S, Mul(l % q(j)))[1] = Mul(q(j))[1]
          BY <2>4, <3>2
        <4>3. \E i \in 0 .. (j + 1) - 1 : Add(c, S, Mul(l % q(i)))[1] = Mul(q(i))[1]
          BY <4>2
        <4> QED
          BY <2>3, <2>7, <4>1, <4>3 DEF SumSoFar
      <3>3. CASE X[1] # T[1]
        <4> DEFINE bit == (l \div q(j)) % 2
        <4>1. r.left = l \div q(j) /\ AssertionError \notin {r.sum, T}
          BY <2>1, <2>5, <2>9, <3>1 DEF SumSoFar, r
        <4>2. bit = 0 \/ bit = 1
          BY <2>6, SMT
        <4>3. CASE bit = 0
          <5>1. q(j) * 0 = 0
            BY <1>1
          <5>2. l % q(j + 1) = l % q(j)
            BY <2>6, <4>3, <5>1
          <5>3. RoundAfter(r, T, p).sum = X
            BY <2>9, <3>3, <4>1, <4>3 DEF RoundAfter
          <5>4. X = Add(c, S, Mul(l % q(j + 1)))
            BY <5>2
          <5> HIDE DEF X
          <5> QED
            BY <2>3, <2>7, <3>1, <5>3, <5>4 DEF SumSoFar
        <4>4. CASE bit = 1
          <5>1. q(j) * 1 = q(j)
            BY <1>1
          <5>2. l % q(j + 1) = (l % q(j)) + q(j)
            BY <2>6, <4>4, <5>1
          <5>3. RoundAfter(r, T, p).sum = ec_add(X, T, p)
            BY <2>9, <3>3, <4>1, <4>4 DEF RoundAfter
          <5>4. ec_add(X, T, p) = Add(c, X, T) /\ Add(c, X, T) \in G /\ Add(c, X, T) # O
            BY <2>5, <3>1, <3>3, PartialAdd
          <5>5. PICK u \in Nat, v \in Nat : u = l % q(j) /\ v = q(j)
            BY <1>1, <2>6
          <5>6. Mul(u + v) = Add(c, Mul(u), Mul(v))
            BY MultipleSum
          <5>7. Mul(u) \in G /\ Mul(v) \in G
            BY MultipleNext
          <5>8. Add(c, Add(c, S, Mul(u)), Mul(v)) = Add(c, S, Add(c, Mul(u), Mul(v)))
            BY <5>7, GroupLaws
          <5>9. Add(c, X, T) = Add(c, S, Mul(l % q(j + 1)))
            BY <2>4, <5>2, <5>5, <5>6, <5>8
          <5> HIDE DEF X
          <5> QED
            BY <2>3, <2>7, <5>3, <5>4, <5>9 DEF SumSoFar
        <4> QED
          BY <4>2, <4>3, <4>4
      <3> QED
        BY <3>2, <3>3
    <2> QED
      BY <2>1, <2>8, <2>9 DEF SumSoFar, r
  <1>4. b \in Good
    <2> HIDE DEF Good
    <2> QED
      BY <1>2, <1>3, NaturalInduction
  <1> QED
    BY <1>4

-----------------------------------------------------------------------------
(* The hashes.                                                             *)

\* Under the parameters of a curve, the operators of fast_pedersen_hash.py are those
\* of its group.
LEMMA GroupNames ==
  ASSUME NEW c, NEW pi, Loaded(c, pi)
  PROVE  /\ \A P, Q : Plus(P, Q) = Add(c, P, Q)
         /\ \A m, P : Times(m, P) = Multiple(c, m, P)
PROOF
  <1>1. FIELD_PRIME = c.FIELD_PRIME
    BY ParametersAre
  <1> QED
    BY <1>1, Zenon DEF Plus, Times, Add, Multiple

\* The points of one element: the doublings of P for its low part, of R for the others.
ElementPoints(points, c, P, R, l, h) ==
  /\ points \in Seq(Pairs(c.FIELD_PRIME)) /\ Len(points) = l + h
  /\ \A i \in 1 .. l : points[i] = Multiple(c, Math!power2[i - 1], P)
  /\ \A i \in 1 .. h : points[l + i] = Multiple(c, Math!power2[i - 1], R)

\* The sum over the bits of an element is that of the multiples by its two parts.
LEMMA ElementAdds ==
  ASSUME NEW c \in Curves, FIELD_PRIME = c.FIELD_PRIME,
         NEW P \in PointsOnCurve(c), NEW R \in PointsOnCurve(c), NEW l \in Nat, NEW h \in Nat,
         NEW points, ElementPoints(points, c, P, R, l, h),
         NEW S \in PointsOnCurve(c), S # Math!EC_INFINITY, NEW x \in Nat,
         AddByBits(x, points, S) # AssertionError
  PROVE  /\ AddByBits(x, points, S)
              = Add(c, S, Add(c, Multiple(c, x % Math!power2[l], P), Multiple(c, x \div Math!power2[l], R)))
         /\ AddByBits(x, points, S) \in PointsOnCurve(c)
         /\ AddByBits(x, points, S) # Math!EC_INFINITY
PROOF
  <1> DEFINE p == c.FIELD_PRIME
             G == PointsOnCurve(c)
  <1>1. S \in Outcomes(p)
    BY PointsAre DEF Outcomes
  <1>2. points \in Seq(Pairs(p)) /\ Len(points) = l + h
    BY DEF ElementPoints
  <1>3. PICK g : AreRounds(g, x, points, S, p)
    BY <1>1, <1>2, RoundsExist
  <1>4. g[0].left = x /\ g[0].sum = S
    BY <1>3 DEF AreRounds
  <1>5. AddByBits(x, points, S) = g[l + h].sum /\ g[l + h].left = 0
    BY <1>2, <1>3 DEF AreRounds
  <1>6. \A i \in 0 .. l + h : g[i].sum # AssertionError
    BY <1>2, <1>3, FailureStays
  <1>7. PICK q \in Nat \ {0}, t \in Nat : q = Math!power2[l] /\ t = x \div q /\ x % q \in Nat
    <2>1. Math!power2[l] \in Nat \ {0}
      BY PowersOfTwo
    <2>2. x \div Math!power2[l] \in Nat /\ x % Math!power2[l] \in 0 .. Math!power2[l] - 1
      BY <2>1, BitsSplit
    <2> QED
      BY <2>1, <2>2
  <1> DEFINE X == Add(c, S, Multiple(c, x % q, P))
  <1>8. g[l].left = t /\ g[l].sum = X /\ X \in G /\ X # Math!EC_INFINITY
    <2>1. DoublesFrom(points, c, P, 0, l)
      <3>1. \A j \in 1 .. l : 0 + j = j
        OBVIOUS
      <3>2. 0 + l <= l + h
        OBVIOUS
      <3> QED
        BY <1>2, <3>1, <3>2 DEF DoublesFrom, ElementPoints
    <2>2. SumSoFar(g[0 + l], c, x, S, P, l)
      BY <1>3, <1>4, <2>1, RoundsAdd
    <2>3. 0 + l = l /\ l \in 0 .. l + h
      OBVIOUS
    <2>4. g[l].sum # AssertionError
      BY <1>6, <2>3
    <2> QED
      BY <1>7, <2>2, <2>3, <2>4 DEF SumSoFar
  <1> HIDE DEF X
  <1>9. SumSoFar(g[l + h], c, t, X, R, h)
    <2>1. DoublesFrom(points, c, R, l, h)
      BY <1>2 DEF DoublesFrom, ElementPoints
    <2> QED
      BY <1>3, <1>7, <1>8, <2>1, RoundsAdd
  <1>10. PICK k \in Nat \ {0} : k = Math!power2[h]
    BY PowersOfTwo
  <1>11. t % k = t
    <2>1. t \div k = 0
      BY <1>5, <1>9, <1>10 DEF SumSoFar
    <2>2. t = (t \div k) * k + (t % k) /\ t % k \in 0 .. k - 1
      <3>1. t \in Int
        BY <1>7
      <3> QED
        BY <1>10, <3>1, Division
    <2> QED
      BY <1>10, <2>1, <2>2
  <1>12. /\ g[l + h].sum = Add(c, X, Multiple(c, t, R))
         /\ g[l + h].sum \in G /\ g[l + h].sum # Math!EC_INFINITY
    <2>1. g[l + h].sum # AssertionError
      BY <1>5
    <2> QED
      BY <1>9, <1>10, <1>11, <2>1 DEF SumSoFar
  <1>13. Multiple(c, x % q, P) \in G /\ Multiple(c, t, R) \in G
    BY <1>7, MultipleNext
  <1>14. Add(c, X, Multiple(c, t, R)) = Add(c, S, Add(c, Multiple(c, x % q, P), Multiple(c, t, R)))
    BY <1>13, GroupLaws DEF X
  <1> QED
    BY <1>5, <1>7, <1>12, <1>14

\* A failure, added to, stays one.
LEMMA FailureAdds ==
  ASSUME NEW c \in Curves, FIELD_PRIME = c.FIELD_PRIME, NEW x \in Nat,
         NEW points \in Seq(Pairs(c.FIELD_PRIME))
  PROVE  AddByBits(x, points, AssertionError) = AssertionError
PROOF
  <1>1. AssertionError \in Outcomes(c.FIELD_PRIME)
    BY DEF Outcomes
  <1>2. PICK g : AreRounds(g, x, points, AssertionError, c.FIELD_PRIME)
    BY <1>1, RoundsExist
  <1>3. Len(points) \in Nat /\ 0 \in 0 .. Len(points) /\ g[0].sum = AssertionError
    BY <1>2 DEF AreRounds
  <1> QED
    BY <1>2, <1>3, FailureStays

\* pedersen_hash_as_point adds one element after the other.
LEMMA HashOfTwo ==
  ASSUME NEW x, NEW y
  PROVE  LET N == N_ELEMENT_BITS_HASH IN
         pedersen_hash_as_point(<<x, y>>)
           = AddByBits(y, SubSeq(CONSTANT_POINTS, 3 + (2 - 1) * N, 2 + 2 * N),
                       AddByBits(x, SubSeq(CONSTANT_POINTS, 3 + (1 - 1) * N, 2 + 1 * N), SHIFT_POINT))
PROOF
  <1> DEFINE elements == <<x, y>>
             PointList(i) == SubSeq(CONSTANT_POINTS, 3 + (i - 1) * N_ELEMENT_BITS_HASH,
                                                     2 + i * N_ELEMENT_BITS_HASH)
             point[i \in 0 .. Len(elements)] ==
               IF i = 0 THEN SHIFT_POINT ELSE AddByBits(elements[i], PointList(i), point[i - 1])
             one == AddByBits(x, PointList(1), SHIFT_POINT)
             two == AddByBits(y, PointList(2), one)
             f == [i \in 0 .. 2 |-> IF i = 0 THEN SHIFT_POINT ELSE IF i = 1 THEN one ELSE two]
             S == {SHIFT_POINT, one, two}
  <1>1. Len(elements) = 2 /\ elements[1] = x /\ elements[2] = y
    OBVIOUS
  <1>2. \A i \in 0 .. 2 :
          f[i] = IF i = 0 THEN SHIFT_POINT ELSE AddByBits(elements[i], PointList(i), f[i - 1])
    <2> HIDE DEF PointList, elements
    <2>1. f[0] = SHIFT_POINT /\ f[1] = one /\ f[2] = two
      OBVIOUS
    <2>2. 1 - 1 = 0 /\ 2 - 1 = 1 /\ 1 # 0 /\ 2 # 0
      OBVIOUS
    <2>3. f[1] = AddByBits(elements[1], PointList(1), f[1 - 1])
      BY <1>1, <2>1, <2>2
    <2>4. f[2] = AddByBits(elements[2], PointList(2), f[2 - 1])
      BY <1>1, <2>1, <2>2
    <2>5. \A i \in 0 .. 2 : i = 0 \/ i = 1 \/ i = 2
      OBVIOUS
    <2> HIDE DEF f
    <2> QED
      BY <2>1, <2>2, <2>3, <2>4, <2>5
  <1>3. f = [i \in 0 .. Len(elements) |->
               IF i = 0 THEN SHIFT_POINT ELSE AddByBits(elements[i], PointList(i), f[i - 1])]
    <2>1. f = [i \in 0 .. 2 |-> f[i]]
      OBVIOUS
    <2> HIDE DEF f, PointList, elements
    <2> QED
      BY <1>1, <1>2, <2>1
  <1>4. point = [i \in 0 .. Len(elements) |->
               IF i = 0 THEN SHIFT_POINT ELSE AddByBits(elements[i], PointList(i), point[i - 1])]
    <2> HIDE DEF f, PointList, elements
    <2> QED
      BY <1>3, Zenon DEF point
  <1>5. pedersen_hash_as_point(elements) = point[Len(elements)]
    <2> HIDE DEF elements
    <2> QED
      BY Zenon DEF pedersen_hash_as_point
  <1> HIDE DEF point
  <1>6. point[2] = two
    <2> HIDE DEF PointList, elements
    <2>1. point[0] = SHIFT_POINT
      BY <1>1, <1>4
    <2>2. 1 \in 0 .. 2 /\ 1 # 0 /\ 1 - 1 = 0 /\ 2 \in 0 .. 2 /\ 2 # 0 /\ 2 - 1 = 1
      OBVIOUS
    <2>3. point[1] = AddByBits(x, PointList(1), point[0])
      BY <1>1, <1>4, <2>2
    <2>4. point[2] = AddByBits(y, PointList(2), point[1])
      BY <1>1, <1>4, <2>2
    <2> QED
      BY <2>1, <2>3, <2>4
  <1> QED
    BY <1>1, <1>5, <1>6

\* Where the sum over the bits does not fail, it is the sum of four multiples.
LEMMA HashesAgree ==
  ASSUME NEW c, NEW pi, Loaded(c, pi), NEW x \in Nat, NEW y \in Nat,
         pedersen_hash_as_point(<<x, y>>) # AssertionError
  PROVE  fast_pedersen_hash_point(x, y) = pedersen_hash_as_point(<<x, y>>)
PROOF
  <1> DEFINE p == c.FIELD_PRIME
             G == PointsOnCurve(c)
             l == LOW_PART_BITS
             N == N_ELEMENT_BITS_HASH
             B(i) == BasePoint(c, pi, i)
             PL1 == SubSeq(CONSTANT_POINTS, 3 + (1 - 1) * N, 2 + 1 * N)
             PL2 == SubSeq(CONSTANT_POINTS, 3 + (2 - 1) * N, 2 + 2 * N)
             q == Math!power2[l]
  <1>1. c \in Curves /\ FIELD_PRIME = p
    BY ParametersAre DEF Loaded
  <1>2. \A i \in 1 .. 6 : B(i) \in G /\ B(i) # Math!EC_INFINITY
    BY ParametersAre
  <1>3. PICK h \in Nat : /\ N = l + h /\ h > 0 /\ l \in Nat /\ l > 0
                         /\ ConstantPoints(c, pi, l, h)
    BY ConstantPointsAre
  <1> HIDE DEF B, l, N
  <1>4. ElementPoints(PL1, c, B(3), B(4), l, h)
    <2>1. PL1 = SubSeq(CONSTANT_POINTS, 3, 2 + (l + h))
      <3>1. 3 + (1 - 1) * N = 3 /\ 2 + 1 * N = 2 + (l + h)
        BY <1>3
      <3> QED
        BY <3>1
    <2>2. CONSTANT_POINTS \in Seq(Pairs(p)) /\ Len(CONSTANT_POINTS) = 2 + 2 * (l + h)
      BY <1>3 DEF ConstantPoints
    <2>3. \A i \in 3 .. 2 + (l + h) : CONSTANT_POINTS[i] \in Pairs(p)
      BY <1>3, <2>2
    <2>4. PL1 \in Seq(Pairs(p)) /\ Len(PL1) = l + h
          /\ \A i \in 1 .. l + h : PL1[i] = CONSTANT_POINTS[3 + i - 1]
      <3>1. 3 \in Int /\ 2 + (l + h) \in Int /\ 3 <= 2 + (l + h) /\ (2 + (l + h)) - 3 + 1 = l + h
        BY <1>3
      <3> HIDE DEF PL1
      <3> QED
        BY <2>1, <2>3, <3>1, SubSeqProperties
    <2> HIDE DEF PL1
    <2>5. \A i \in 1 .. l : PL1[i] = Multiple(c, Math!power2[i - 1], B(3))
      <3> SUFFICES ASSUME NEW i \in 1 .. l PROVE PL1[i] = Multiple(c, Math!power2[i - 1], B(3))
        OBVIOUS
      <3>1. i \in 1 .. l + h /\ 3 + i - 1 = 2 + i
        BY <1>3
      <3>2. CONSTANT_POINTS[2 + i] = Multiple(c, Math!power2[i - 1], B(3))
        BY <1>3 DEF ConstantPoints, B
      <3> QED
        BY <2>4, <3>1, <3>2
    <2>6. \A i \in 1 .. h : PL1[l + i] = Multiple(c, Math!power2[i - 1], B(4))
      <3> SUFFICES ASSUME NEW i \in 1 .. h PROVE PL1[l + i] = Multiple(c, Math!power2[i - 1], B(4))
        OBVIOUS
      <3>1. l + i \in 1 .. l + h /\ 3 + (l + i) - 1 = 2 + l + i
        BY <1>3
      <3>2. CONSTANT_POINTS[2 + l + i] = Multiple(c, Math!power2[i - 1], B(4))
        BY <1>3 DEF ConstantPoints, B
      <3> QED
        BY <2>4, <3>1, <3>2
    <2> QED
      BY <2>4, <2>5, <2>6 DEF ElementPoints
  <1>5. ElementPoints(PL2, c, B(5), B(6), l, h)
    <2>1. PL2 = SubSeq(CONSTANT_POINTS, 3 + (l + h), 2 + 2 * (l + h))
      <3>1. 3 + (2 - 1) * N = 3 + (l + h) /\ 2 + 2 * N = 2 + 2 * (l + h)
        BY <1>3
      <3> QED
        BY <3>1
    <2>2. CONSTANT_POINTS \in Seq(Pairs(p)) /\ Len(CONSTANT_POINTS) = 2 + 2 * (l + h)
      BY <1>3 DEF ConstantPoints
    <2>3. \A i \in 3 + (l + h) .. 2 + 2 * (l + h) : CONSTANT_POINTS[i] \in Pairs(p)
      BY <1>3, <2>2
    <2>4. PL2 \in Seq(Pairs(p)) /\ Len(PL2) = l + h
          /\ \A i \in 1 .. l + h : PL2[i] = CONSTANT_POINTS[(3 + (l + h)) + i - 1]
      <3>1. PICK a \in Nat, b \in Nat : a = 3 + (l + h) /\ b = 2 + 2 * (l + h)
        BY <1>3
      <3>2. a \in Int /\ b \in Int /\ a <= b /\ b - a + 1 = l + h
        BY <1>3, <3>1
      <3>3. \A i \in a .. b : CONSTANT_POINTS[i] \in Pairs(p)
        BY <2>3, <3>1
      <3>4. PL2 = SubSeq(CONSTANT_POINTS, a, b)
        BY <2>1, <3>1
      <3> HIDE DEF PL2
      <3>5. PL2 \in Seq(Pairs(p)) /\ Len(PL2) = l + h
            /\ \A i \in 1 .. l + h : PL2[i] = CONSTANT_POINTS[a + i - 1]
        BY <3>2, <3>3, <3>4, SubSeqProperties
      <3> QED
        BY <3>1, <3>5
    <2> HIDE DEF PL2
    <2>5. \A i \in 1 .. l : PL2[i] = Multiple(c, Math!power2[i - 1], B(5))
      <3> SUFFICES ASSUME NEW i \in 1 .. l PROVE PL2[i] = Multiple(c, Math!power2[i - 1], B(5))
        OBVIOUS
      <3>1. i \in 1 .. l + h /\ (3 + (l + h)) + i - 1 = 2 + (l + h) + i
        BY <1>3
      <3>2. CONSTANT_POINTS[2 + (l + h) + i] = Multiple(c, Math!power2[i - 1], B(5))
        BY <1>3 DEF ConstantPoints, B
      <3> QED
        BY <2>4, <3>1, <3>2
    <2>6. \A i \in 1 .. h : PL2[l + i] = Multiple(c, Math!power2[i - 1], B(6))
      <3> SUFFICES ASSUME NEW i \in 1 .. h PROVE PL2[l + i] = Multiple(c, Math!power2[i - 1], B(6))
        OBVIOUS
      <3>1. l + i \in 1 .. l + h /\ (3 + (l + h)) + (l + i) - 1 = 2 + (l + h) + l + i
        BY <1>3
      <3>2. CONSTANT_POINTS[2 + (l + h) + l + i] = Multiple(c, Math!power2[i - 1], B(6))
        BY <1>3 DEF ConstantPoints, B
      <3> QED
        BY <2>4, <3>1, <3>2
    <2> QED
      BY <2>4, <2>5, <2>6 DEF ElementPoints
  <1> DEFINE S == SHIFT_POINT
             X == AddByBits(x, PL1, S)
             Y == AddByBits(y, PL2, X)
  <1>6. pedersen_hash_as_point(<<x, y>>) = Y
    BY HashOfTwo DEF N
  <1>7. PL1 \in Seq(Pairs(p)) /\ PL2 \in Seq(Pairs(p))
    BY <1>4, <1>5 DEF ElementPoints
  <1>8. S = B(1) /\ S \in G /\ S # Math!EC_INFINITY
    BY <1>2, <1>3 DEF ConstantPoints, B
  <1> HIDE DEF PL1, PL2, S
  <1>9. X # AssertionError
    <2> SUFFICES ASSUME X = AssertionError PROVE FALSE
      OBVIOUS
    <2>1. Y = AddByBits(y, PL2, AssertionError)
      OBVIOUS
    <2>2. Y = AssertionError
      BY <1>1, <1>7, <2>1, FailureAdds
    <2> QED
      BY <1>6, <2>2
  <1>10. /\ B(3) \in G /\ B(4) \in G /\ B(5) \in G /\ B(6) \in G
         /\ B(3) # Math!EC_INFINITY /\ B(4) # Math!EC_INFINITY
         /\ B(5) # Math!EC_INFINITY /\ B(6) # Math!EC_INFINITY
    BY <1>2
  <1> DEFINE E1 == Add(c, Multiple(c, x % q, B(3)), Multiple(c, x \div q, B(4)))
             E2 == Add(c, Multiple(c, y % q, B(5)), Multiple(c, y \div q, B(6)))
  <1>11. X = Add(c, S, E1) /\ X \in G /\ X # Math!EC_INFINITY
    BY <1>1, <1>3, <1>4, <1>8, <1>9, <1>10, ElementAdds
  <1>12. Y = Add(c, X, E2)
    <2>1. Y # AssertionError
      BY <1>6
    <2> HIDE DEF X
    <2> QED
      BY <1>1, <1>3, <1>5, <1>10, <1>11, <2>1, ElementAdds
  <1>13. /\ CONSTANT_POINTS[3 + 0] = B(3) /\ CONSTANT_POINTS[3 + l] = B(4)
         /\ CONSTANT_POINTS[3 + N] = B(5) /\ CONSTANT_POINTS[3 + (N + l)] = B(6)
    <2>1. Math!power2[0] = 1 /\ 1 - 1 = 0 /\ 1 \in 1 .. l /\ 1 \in 1 .. h
      BY <1>3, PowersOfTwo
    <2>2. \A i \in 3 .. 6 : Multiple(c, 1, B(i)) = B(i)
      BY <1>1, <1>2, PointsAre, MultipleRecurs
    <2>3. Multiple(c, 1, B(3)) = B(3) /\ Multiple(c, 1, B(4)) = B(4)
          /\ Multiple(c, 1, B(5)) = B(5) /\ Multiple(c, 1, B(6)) = B(6)
      BY <2>2
    <2>4. /\ CONSTANT_POINTS[2 + 1] = B(3) /\ CONSTANT_POINTS[2 + (l + h) + 1] = B(5)
          /\ CONSTANT_POINTS[2 + l + 1] = B(4) /\ CONSTANT_POINTS[2 + (l + h) + l + 1] = B(6)
      BY <1>3, <2>1, <2>3 DEF ConstantPoints, B
    <2>5. /\ 3 + 0 = 2 + 1 /\ 3 + l = 2 + l + 1
          /\ 3 + N = 2 + (l + h) + 1 /\ 3 + (N + l) = 2 + (l + h) + l + 1
      BY <1>3
    <2> QED
      BY <2>4, <2>5
  <1>14. \A e, P, Q : process_single_element(e, P, Q)
                        = Add(c, Multiple(c, e % q, P), Multiple(c, e \div q, Q))
    BY GroupNames, Zenon DEF process_single_element, q, l
  <1>15. fast_pedersen_hash_point(x, y)
           = Add(c, Add(c, S, process_single_element(x, CONSTANT_POINTS[3 + 0], CONSTANT_POINTS[3 + l])),
                 process_single_element(y, CONSTANT_POINTS[3 + N], CONSTANT_POINTS[3 + (N + l)]))
    BY GroupNames, Zenon DEF fast_pedersen_hash_point, l, N, S
  <1> HIDE DEF E1, E2, X, Y, q
  <1>16. fast_pedersen_hash_point(x, y) = Add(c, Add(c, S, E1), E2)
    BY <1>13, <1>14, <1>15, Zenon DEF E1, E2
  <1> QED
    BY <1>6, <1>11, <1>12, <1>16

-----------------------------------------------------------------------------
(* The verification.                                                       *)

\* The multipliers that the computation of the AIR takes.
LEMMA RangeIs ==
  ASSUME NEW c, NEW pi, Loaded(c, pi)
  PROVE  /\ N_ELEMENT_BITS_ECDSA \in Nat \ {0}
         /\ Math!power2[N_ELEMENT_BITS_ECDSA] \in Nat /\ Math!power2[N_ELEMENT_BITS_ECDSA] < EC_ORDER
         /\ \A m \in Int : InSignatureRange(m) => m \in 1 .. EC_ORDER - 1 /\ m \in Nat
PROOF
  <1>1. c \in Curves /\ EC_ORDER = c.EC_ORDER /\ N_ELEMENT_BITS_HASH = Math!bit_length(c.FIELD_PRIME)
    BY ParametersAre DEF Loaded
  <1>2. N_ELEMENT_BITS_ECDSA \in Nat \ {0} /\ Math!power2[N_ELEMENT_BITS_ECDSA] < EC_ORDER
        /\ EC_ORDER \in Nat
    BY <1>1, CurveNumbers DEF N_ELEMENT_BITS_ECDSA
  <1>3. Math!power2[N_ELEMENT_BITS_ECDSA] \in Nat
    BY <1>2, PowersOfTwo
  <1>4. \A m \in Int : InSignatureRange(m) => m \in 1 .. EC_ORDER - 1 /\ m \in Nat
    BY <1>2, <1>3 DEF InSignatureRange
  <1> QED
    BY <1>2, <1>3, <1>4

\* What the computation of the AIR returns: it fails where it meets two points of one x,
\* and adds the multiple to the shift point elsewhere.
MimicAdds(X, c, m, P, S) ==
  \/ X = AssertionError /\ AirMeets(m, P, S)
  \/ X = Add(c, S, Multiple(c, m, P)) /\ X \in PointsOnCurve(c) /\ X # Math!EC_INFINITY

LEMMA MimicIs ==
  ASSUME NEW c, NEW pi, Loaded(c, pi), NEW P \in PointsOnCurve(c), P # Math!EC_INFINITY,
         NEW S \in PointsOnCurve(c), S # Math!EC_INFINITY, NEW m \in Int, InSignatureRange(m)
  PROVE  MimicAdds(mimic_ec_mult_air(m, P, S), c, m, P, S)
PROOF
  <1> DEFINE p == c.FIELD_PRIME
             n == N_ELEMENT_BITS_ECDSA
             points == Doublings(P, n, p)
             X == mimic_ec_mult_air(m, P, S)
             q == Math!power2[n]
  <1>1. c \in Curves /\ FIELD_PRIME = p
    BY ParametersAre DEF Loaded
  <1>2. n \in Nat \ {0} /\ m \in Nat /\ q \in Nat \ {0} /\ m \in 0 .. q - 1
    <2>1. n \in Nat \ {0} /\ m \in Nat
      BY RangeIs
    <2>2. q \in Nat \ {0}
      BY <2>1, PowersOfTwo
    <2>3. m < q
      BY DEF InSignatureRange
    <2> QED
      BY <2>1, <2>2, <2>3
  <1> HIDE DEF n
  <1>3. points \in Seq(Pairs(p)) /\ Len(points) = n
        /\ \A i \in 1 .. n : points[i] = Multiple(c, Math!power2[i - 1], P)
    <2>1. DoublesOf(points, c, P, n)
      BY <1>1, <1>2, DoublingsAre
    <2> HIDE DEF points
    <2> QED
      BY <2>1 DEF DoublesOf
  <1>4. X = AddByBits(m, points, S)
    <2>1. P # AssertionError
      BY <1>1, PointsAre
    <2> QED
      BY <1>1, <2>1 DEF mimic_ec_mult_air, n
  <1> HIDE DEF points, X
  <1>5. S \in Outcomes(p)
    BY <1>1, PointsAre DEF Outcomes
  <1>6. PICK g : AreRounds(g, m, points, S, p)
    BY <1>1, <1>2, <1>3, <1>5, RoundsExist
  <1>7. g[0].left = m /\ g[0].sum = S /\ X = IF g[n].left = 0 THEN g[n].sum ELSE AssertionError
    BY <1>3, <1>4, <1>6 DEF AreRounds
  <1>8. SumSoFar(g[0 + n], c, m, S, P, n)
    <2>1. DoublesFrom(points, c, P, 0, n)
      <3>1. \A j \in 1 .. n : 0 + j = j
        OBVIOUS
      <3>2. 0 + n <= Len(points)
        BY <1>2, <1>3
      <3> QED
        BY <1>3, <3>1, <3>2 DEF DoublesFrom
    <2>2. 0 \in Nat /\ n \in Nat
      BY <1>2
    <2> QED
      BY <1>1, <1>2, <1>6, <1>7, <2>1, <2>2, RoundsAdd
  <1>9. 0 + n = n
    BY <1>2
  <1>10. m % q = m /\ m \div q = 0
    <2>1. (0 * q + m) % q = m /\ (0 * q + m) \div q = 0
      BY <1>2, LowPart, HighPart
    <2>2. 0 * q + m = m
      BY <1>2
    <2> QED
      BY <2>1, <2>2
  <1>11. X = g[n].sum
    BY <1>7, <1>8, <1>9, <1>10 DEF SumSoFar
  <1>12. CASE /\ g[n].sum = AssertionError
              /\ \E i \in 0 .. n - 1 : Add(c, S, Multiple(c, m % Math!power2[i], P))[1]
                                         = Multiple(c, Math!power2[i], P)[1]
    <2>1. PICK i \in 0 .. n - 1 : Add(c, S, Multiple(c, m % Math!power2[i], P))[1]
                                    = Multiple(c, Math!power2[i], P)[1]
      BY <1>12
    <2>2. PartialSum(m, P, S, i) = Add(c, S, Multiple(c, m % Math!power2[i], P))
          /\ Times(Math!power2[i], P) = Multiple(c, Math!power2[i], P)
      BY GroupNames, Zenon DEF PartialSum
    <2>3. PartialSum(m, P, S, i)[1] = Times(Math!power2[i], P)[1]
      BY <2>1, <2>2
    <2>4. i \in 0 .. N_ELEMENT_BITS_ECDSA - 1
      BY DEF n
    <2>5. AirMeets(m, P, S)
      BY <2>3, <2>4, Zenon DEF AirMeets
    <2> QED
      BY <1>11, <1>12, <2>5 DEF MimicAdds, X
  <1>13. CASE /\ g[n].sum = Add(c, S, Multiple(c, m % q, P))
              /\ g[n].sum \in PointsOnCurve(c) /\ g[n].sum # Math!EC_INFINITY
    BY <1>10, <1>11, <1>13 DEF MimicAdds, X
  <1> QED
    BY <1>8, <1>9, <1>12, <1>13 DEF SumSoFar

\* The negative of a finite point is one.
LEMMA NegativeIs ==
  ASSUME NEW c \in Curves, NEW S \in PointsOnCurve(c), S # Math!EC_INFINITY,
         NEW M, M = <<S[1], c.FIELD_PRIME - S[2]>>
  PROVE  /\ M \in PointsOnCurve(c) /\ M # Math!EC_INFINITY
         /\ Add(c, S, M) = Math!EC_INFINITY
PROOF
  <1> DEFINE p == c.FIELD_PRIME
  <1>1. p \in Nat \ {0}
    BY CurveNumbers
  <1>2. S \in Pairs(p) /\ S[2] # 0
    BY PointsAre, PartialDouble
  <1>3. (S[2] * S[2]) % p = (S[1] * S[1] * S[1] + ALPHA * S[1] + c.BETA) % p
    BY Zenon DEF PointsOnCurve
  <1> HIDE DEF p
  <1>4. PICK x \in 0 .. p - 1, y \in 1 .. p - 1 : S[1] = x /\ S[2] = y
    <2>1. S[1] \in 0 .. p - 1 /\ S[2] \in 0 .. p - 1
      BY <1>2, NoPairs
    <2> QED
      BY <1>1, <1>2, <2>1
  <1>5. PICK z \in 1 .. p - 1 : z = p - y /\ y = p - z
    BY <1>1, <1>4
  <1>6. M = <<x, z>> /\ M \in Pairs(p)
    BY <1>1, <1>4, <1>5 DEF p, Pairs
  <1>7. (z * z) % p = (y * y) % p
    <2>1. z * z = (p - 2 * y) * p + y * y
      BY <1>1, <1>4, <1>5
    <2>2. PICK k \in Int, v \in Int : k = p - 2 * y /\ v = y * y
      BY <1>1, <1>4
    <2>3. (k * p + v) % p = v % p
      BY <1>1, <2>2, MultipleIgnored
    <2> QED
      BY <2>1, <2>2, <2>3
  <1>8. M \in PointsOnCurve(c)
    <2>1. M[1] = S[1] /\ (M[2] * M[2]) % p = (S[2] * S[2]) % p
      BY <1>4, <1>6, <1>7
    <2>2. (M[2] * M[2]) % p = (M[1] * M[1] * M[1] + ALPHA * M[1] + c.BETA) % p
      BY <1>3, <2>1 DEF p
    <2> QED
      BY <1>6, <2>2, Zenon DEF PointsOnCurve, Pairs, p
  <1>9. M # Math!EC_INFINITY /\ M # AssertionError /\ S # AssertionError
    BY <1>2, <1>6, NoPairs
  <1>10. Add(c, S, M) = Math!EC_INFINITY
    <2>1. S[1] = M[1] /\ S[2] = (p - M[2]) % p
      <3>1. y \in 0 .. p - 1
        BY <1>1, <1>4
      <3>2. y % p = y
        BY <1>1, <3>1, ResidueKept
      <3> QED
        BY <1>4, <1>5, <1>6, <3>2
    <2>2. Math!AssertionError \notin {S, M}
      BY <1>9 DEF AssertionError
    <2>3. Math!ec_safe_add(S, M, ALPHA, p) = Math!EC_INFINITY
      BY <1>9, <2>1, <2>2, Zenon DEF Math!ec_safe_add
    <2> QED
      BY <2>3 DEF Add, p
  <1> QED
    BY <1>8, <1>9, <1>10

\* ec_add of finite points: it fails where their x's are the same.
LEMMA AddOutcome ==
  ASSUME NEW c \in Curves, NEW P \in PointsOnCurve(c), NEW Q \in PointsOnCurve(c),
         P # Math!EC_INFINITY, Q # Math!EC_INFINITY
  PROVE  \/ ec_add(P, Q, c.FIELD_PRIME) = AssertionError /\ P[1] = Q[1]
         \/ /\ ec_add(P, Q, c.FIELD_PRIME) = Add(c, P, Q)
            /\ Add(c, P, Q) \in PointsOnCurve(c) /\ Add(c, P, Q) # Math!EC_INFINITY
PROOF
  <1>1. CASE P[1] = Q[1]
    <2> DEFINE p == c.FIELD_PRIME
    <2>1. p \in Nat \ {0} /\ P \in Pairs(p)
      BY CurveNumbers, PointsAre
    <2> HIDE DEF p
    <2>2. P[1] \in 0 .. p - 1
      BY <2>1, NoPairs
    <2>3. (P[1] - Q[1]) % p = 0
      BY <1>1, <2>1, <2>2, ResiduesDiffer
    <2>4. ec_add(P, Q, p) = AssertionError
      BY <2>3, Zenon DEF ec_add
    <2> QED
      BY <1>1, <2>4 DEF p
  <1>2. CASE P[1] # Q[1]
    BY <1>2, PartialAdd
  <1> QED
    BY <1>1, <1>2

\* Nothing is added to a failure.
LEMMA AddOfFailure ==
  ASSUME NEW Q, NEW p
  PROVE  ec_add(AssertionError, Q, p) = AssertionError /\ ec_add(Q, AssertionError, p) = AssertionError
BY Zenon DEF ec_add

\* The generator, the shift point and its negative are finite points.
LEMMA ShiftIs ==
  ASSUME NEW c, NEW pi, Loaded(c, pi)
  PROVE  /\ EC_GEN \in PointsOnCurve(c) /\ EC_GEN # Math!EC_INFINITY
         /\ SHIFT_POINT \in PointsOnCurve(c) /\ SHIFT_POINT # Math!EC_INFINITY
         /\ MINUS_SHIFT_POINT \in PointsOnCurve(c) /\ MINUS_SHIFT_POINT # Math!EC_INFINITY
         /\ Add(c, MINUS_SHIFT_POINT, SHIFT_POINT) = Math!EC_INFINITY
PROOF
  <1>1. c \in Curves /\ FIELD_PRIME = c.FIELD_PRIME
    BY ParametersAre DEF Loaded
  <1>2. EC_GEN = BasePoint(c, pi, 2) /\ SHIFT_POINT = BasePoint(c, pi, 1)
    BY ConstantPointsAre DEF ConstantPoints
  <1>3. \A i \in 1 .. 6 : BasePoint(c, pi, i) \in PointsOnCurve(c) /\ BasePoint(c, pi, i) # Math!EC_INFINITY
    BY ParametersAre
  <1>4. EC_GEN \in PointsOnCurve(c) /\ EC_GEN # Math!EC_INFINITY
        /\ SHIFT_POINT \in PointsOnCurve(c) /\ SHIFT_POINT # Math!EC_INFINITY
    BY <1>2, <1>3
  <1>5. MINUS_SHIFT_POINT = <<SHIFT_POINT[1], c.FIELD_PRIME - SHIFT_POINT[2]>>
    BY <1>1, Zenon DEF MINUS_SHIFT_POINT
  <1>6. /\ MINUS_SHIFT_POINT \in PointsOnCurve(c) /\ MINUS_SHIFT_POINT # Math!EC_INFINITY
        /\ Add(c, SHIFT_POINT, MINUS_SHIFT_POINT) = Math!EC_INFINITY
    BY <1>1, <1>4, <1>5, NegativeIs
  <1>7. Add(c, MINUS_SHIFT_POINT, SHIFT_POINT) = Math!EC_INFINITY
    BY <1>1, <1>4, <1>6, GroupLaws
  <1> QED
    BY <1>4, <1>6, <1>7

\* The equation of ECDSA, before the multipliers are reduced.
Equation(c, m, r, w, Q) ==
  LET R == Multiple(c, w, Add(c, Multiple(c, m, EC_GEN), Multiple(c, r, Q)))
  IN  R # Math!EC_INFINITY /\ R[1] = r

LEMMA EquationIs ==
  ASSUME NEW c, NEW pi, Loaded(c, pi), NEW Q \in PointsOnCurve(c),
         NEW m \in Nat, NEW r \in Nat, NEW w \in Nat, NEW s, w = inv_mod_curve_size(s)
  PROVE  EcdsaHolds(m, r, s, Q) <=> Equation(c, m, r, w, Q)
PROOF
  <1> DEFINE n == c.EC_ORDER
             mG == Multiple(c, m, EC_GEN)
             rQ == Multiple(c, r, Q)
  <1>1. c \in Curves /\ EC_ORDER = n
    BY ParametersAre DEF Loaded
  <1>2. EC_GEN \in PointsOnCurve(c)
    BY ShiftIs
  <1>3. mG \in PointsOnCurve(c) /\ rQ \in PointsOnCurve(c)
    BY <1>1, <1>2, MultipleNext
  <1>4. Multiple(c, w, Add(c, mG, rQ)) = Add(c, Multiple(c, w, mG), Multiple(c, w, rQ))
    BY <1>1, <1>3, MultipleOfSum
  <1>5. PICK wm \in Nat, wr \in Nat : wm = w * m /\ wr = w * r
    OBVIOUS
  <1>6. Multiple(c, w, mG) = Multiple(c, wm, EC_GEN) /\ Multiple(c, w, rQ) = Multiple(c, wr, Q)
    <2>1. Multiple(c, w * m, EC_GEN) = Multiple(c, w, mG)
      BY <1>1, <1>2, MultipleProduct
    <2>2. Multiple(c, w * r, Q) = Multiple(c, w, rQ)
      BY <1>1, MultipleProduct
    <2> QED
      BY <1>5, <2>1, <2>2
  <1>7. Multiple(c, wm % n, EC_GEN) = Multiple(c, wm, EC_GEN) /\ Multiple(c, wr % n, Q) = Multiple(c, wr, Q)
    BY <1>1, <1>2, MultipleReduced
  <1> DEFINE R == Plus(Times((w * m) % EC_ORDER, EC_GEN), Times((w * r) % EC_ORDER, Q))
             E == Multiple(c, w, Add(c, mG, rQ))
  <1>8. R = Add(c, Multiple(c, (w * m) % n, EC_GEN), Multiple(c, (w * r) % n, Q))
    BY <1>1, GroupNames, Zenon
  <1>9. R = E
    <2> HIDE DEF R
    <2> QED
      BY <1>4, <1>5, <1>6, <1>7, <1>8
  <1>10. EcdsaHolds(m, r, s, Q) <=> (R # Math!EC_INFINITY /\ R[1] = r)
    BY Zenon DEF EcdsaHolds
  <1>11. Equation(c, m, r, w, Q) <=> (E # Math!EC_INFINITY /\ E[1] = r)
    BY Zenon DEF Equation
  <1> HIDE DEF R, E
  <1> QED
    BY <1>9, <1>10, <1>11

\* Where the computation of the AIR meets no two points of one x, it checks the equation.
LEMMA VerifyPointIs ==
  ASSUME NEW c, NEW pi, Loaded(c, pi), NEW Q \in PointsOnCurve(c), Q # Math!EC_INFINITY,
         NEW m \in Nat, NEW r \in Nat, NEW w \in Nat, InSignatureRange(r), InSignatureRange(w)
  PROVE  /\ VerifyPoint(m, r, w, Q) => Equation(c, m, r, w, Q)
         /\ InSignatureRange(m) /\ Equation(c, m, r, w, Q) /\ ~ VerifyPoint(m, r, w, Q)
              => VerificationMeets(m, r, w, Q)
PROOF
  <1> DEFINE p == c.FIELD_PRIME
             G == PointsOnCurve(c)
             O == Math!EC_INFINITY
             S == SHIFT_POINT
             M == MINUS_SHIFT_POINT
             zG == mimic_ec_mult_air(m, EC_GEN, M)
             rQ == mimic_ec_mult_air(r, Q, S)
             B == ec_add(zG, rQ, p)
             wB == mimic_ec_mult_air(w, B, S)
             sum == ec_add(wB, M, p)
             mG1 == Multiple(c, m, EC_GEN)
             rQ1 == Multiple(c, r, Q)
             B1 == Add(c, mG1, rQ1)
             X == Multiple(c, w, B1)
  <1>1. c \in Curves /\ FIELD_PRIME = p
    BY ParametersAre DEF Loaded
  <1>2. /\ EC_GEN \in G /\ EC_GEN # O /\ S \in G /\ S # O /\ M \in G /\ M # O
        /\ Add(c, M, S) = O
    BY ShiftIs
  <1>3. VerifyPoint(m, r, w, Q) <=> (sum # AssertionError /\ sum[1] = r)
    BY <1>1, Zenon DEF VerifyPoint
  <1>4. mG1 \in G /\ rQ1 \in G /\ B1 \in G /\ X \in G
    <2>1. mG1 \in G /\ rQ1 \in G
      BY <1>1, <1>2, MultipleNext
    <2>2. B1 \in G
      BY <1>1, <2>1, GroupLaws
    <2> QED
      BY <1>1, <2>1, <2>2, MultipleNext
  <1>5. /\ \A P, R \in G : Add(c, P, R) \in G /\ Add(c, P, R) = Add(c, R, P)
        /\ \A P, R, T \in G : Add(c, Add(c, P, R), T) = Add(c, P, Add(c, R, T))
        /\ \A P \in G : Add(c, O, P) = P
    BY <1>1, GroupLaws
  <1> DEFINE meets == VerificationMeets(m, r, w, Q)
             zG2 == Plus(Times(m, EC_GEN), M)
             rQ2 == Plus(Times(r, Q), S)
             B2 == Plus(zG2, rQ2)
  <1>6. meets <=> \/ AirMeets(m, EC_GEN, M)
                  \/ AirMeets(r, Q, S)
                  \/ SameX(zG2, rQ2)
                  \/ AirMeets(w, B2, S)
                  \/ SameX(Plus(Times(w, B2), S), M)
    BY Zenon DEF VerificationMeets
  <1>7. zG2 = Add(c, mG1, M) /\ rQ2 = Add(c, rQ1, S) /\ B2 = Add(c, zG2, rQ2)
        /\ Plus(Times(w, B2), S) = Add(c, Multiple(c, w, B2), S)
    BY GroupNames, Zenon
  <1>8. Equation(c, m, r, w, Q) <=> (X # O /\ X[1] = r)
    BY Zenon DEF Equation
  <1> HIDE DEF S, M, mG1, rQ1, zG2, rQ2, B2, meets, G
  <1>9. zG2 = Add(c, M, mG1) /\ rQ2 = Add(c, S, rQ1) /\ zG2 \in G /\ rQ2 \in G
    BY <1>2, <1>4, <1>5, <1>7
  <1>10. B2 = B1
    <2>1. Add(c, Add(c, M, mG1), Add(c, S, rQ1)) = Add(c, Add(c, M, S), Add(c, mG1, rQ1))
      BY <1>1, <1>2, <1>4, AddSwaps DEF G
    <2>2. Add(c, O, Add(c, mG1, rQ1)) = Add(c, mG1, rQ1)
      BY <1>4, <1>5
    <2> QED
      BY <1>2, <1>7, <1>9, <2>1, <2>2
  <1> HIDE DEF B1
  <1>11. Plus(Times(w, B2), S) = Add(c, S, X) /\ Add(c, S, X) \in G
    BY <1>2, <1>4, <1>5, <1>7, <1>10
  <1> HIDE DEF X
  <1>12. Add(c, Add(c, S, X), M) = X
    <2>1. Add(c, Add(c, S, X), M) = Add(c, M, Add(c, S, X))
      BY <1>2, <1>5, <1>11
    <2>2. Add(c, M, Add(c, S, X)) = Add(c, Add(c, M, S), X)
      BY <1>2, <1>4, <1>5
    <2> QED
      BY <1>2, <1>4, <1>5, <2>1, <2>2
  <1>13. CASE ~ InSignatureRange(m)
    <2>1. zG = AssertionError
      BY <1>13, Zenon DEF mimic_ec_mult_air
    <2>2. B = AssertionError
      BY <2>1, AddOfFailure
    <2>3. wB = AssertionError
      BY <2>2, Zenon DEF mimic_ec_mult_air
    <2>4. sum = AssertionError
      BY <2>3, AddOfFailure
    <2> QED
      BY <1>3, <1>13, <2>4
  <1>14. CASE InSignatureRange(m)
    <2>1. MimicAdds(zG, c, m, EC_GEN, M)
      <3>1. m \in Int
        OBVIOUS
      <3> QED
        BY <1>2, <1>14, <3>1, MimicIs DEF G
    <2>2. MimicAdds(rQ, c, r, Q, S)
      <3>1. r \in Int
        OBVIOUS
      <3> QED
        BY <1>2, <3>1, MimicIs DEF G
    <2>3. \A P : mimic_ec_mult_air(w, AssertionError, P) = AssertionError
      BY Zenon DEF mimic_ec_mult_air
    <2>4. CASE B = AssertionError
      <3>1. sum = AssertionError
        BY <2>3, <2>4, AddOfFailure
      <3>2. meets
        <4>1. CASE AirMeets(m, EC_GEN, M) \/ AirMeets(r, Q, S)
          BY <1>6, <4>1
        <4>2. CASE ~ (AirMeets(m, EC_GEN, M) \/ AirMeets(r, Q, S))
          <5>1. zG = zG2 /\ zG2 # O
            BY <1>9, <2>1, <4>2 DEF MimicAdds, mG1
          <5>2. rQ = rQ2 /\ rQ2 # O
            BY <1>9, <2>2, <4>2 DEF MimicAdds, rQ1
          <5>3. zG2[1] = rQ2[1]
            <6>1. \/ ec_add(zG2, rQ2, p) = AssertionError /\ zG2[1] = rQ2[1]
                  \/ Add(c, zG2, rQ2) \in G /\ ec_add(zG2, rQ2, p) = Add(c, zG2, rQ2)
              BY <1>1, <1>9, <5>1, <5>2, AddOutcome DEF G
            <6>2. AssertionError \notin G
              BY <1>1, PointsAre DEF G
            <6>3. ec_add(zG2, rQ2, p) = AssertionError
              BY <2>4, <5>1, <5>2
            <6> QED
              BY <6>1, <6>2, <6>3
          <5> QED
            BY <1>6, <5>3 DEF SameX
        <4> QED
          BY <4>1, <4>2
      <3> QED
        BY <1>3, <3>1, <3>2 DEF meets
    <2>5. CASE B # AssertionError
      <3>1. zG # AssertionError /\ rQ # AssertionError
        BY <2>5, AddOfFailure
      <3>2. zG = zG2 /\ zG2 # O
        BY <1>9, <2>1, <3>1 DEF MimicAdds, mG1
      <3>3. rQ = rQ2 /\ rQ2 # O
        BY <1>9, <2>2, <3>1 DEF MimicAdds, rQ1
      <3>4. B = B2 /\ B2 \in G /\ B2 # O
        <4>1. \/ ec_add(zG2, rQ2, p) = AssertionError
              \/ /\ ec_add(zG2, rQ2, p) = Add(c, zG2, rQ2)
                 /\ Add(c, zG2, rQ2) \in G /\ Add(c, zG2, rQ2) # O
          BY <1>1, <1>9, <3>2, <3>3, AddOutcome DEF G
        <4>2. B = ec_add(zG2, rQ2, p)
          BY <3>2, <3>3
        <4> QED
          BY <1>7, <2>5, <4>1, <4>2
      <3> HIDE DEF B
      <3>5. MimicAdds(wB, c, w, B2, S)
        <4>1. w \in Int
          OBVIOUS
        <4>2. MimicAdds(mimic_ec_mult_air(w, B2, S), c, w, B2, S)
          BY <1>2, <3>4, <4>1, MimicIs DEF G
        <4> QED
          BY <3>4, <4>2
      <3>6. CASE wB = AssertionError /\ AirMeets(w, B2, S)
        <4>1. sum = AssertionError
          BY <3>6, AddOfFailure
        <4>2. meets
          BY <1>6, <3>6
        <4> QED
          BY <1>3, <4>1, <4>2 DEF meets
      <3>7. CASE wB = Add(c, S, X) /\ wB \in G /\ wB # O
        <4>1. \/ ec_add(wB, M, p) = AssertionError /\ wB[1] = M[1]
              \/ /\ ec_add(wB, M, p) = Add(c, wB, M)
                 /\ Add(c, wB, M) \in G /\ Add(c, wB, M) # O
          BY <1>1, <1>2, <3>7, AddOutcome DEF G
        <4>2. CASE ec_add(wB, M, p) = AssertionError /\ wB[1] = M[1]
          <5>1. SameX(Plus(Times(w, B2), S), M)
            BY <1>11, <3>7, <4>2 DEF SameX
          <5> QED
            BY <1>3, <1>6, <4>2, <5>1 DEF meets
        <4>3. CASE ec_add(wB, M, p) = Add(c, wB, M) /\ Add(c, wB, M) \in G /\ Add(c, wB, M) # O
          <5>1. sum = X /\ X # O
            BY <1>12, <3>7, <4>3
          <5>2. X # AssertionError
            BY <1>1, <1>4, PointsAre DEF G
          <5> QED
            BY <1>3, <1>8, <5>1, <5>2
        <4> QED
          BY <4>1, <4>2, <4>3
      <3>8. Multiple(c, w, B2) = X
        BY <1>10 DEF X
      <3>9. \/ wB = AssertionError /\ AirMeets(w, B2, S)
            \/ wB = Add(c, S, X) /\ wB \in G /\ wB # O
        BY <3>5, <3>8, Zenon DEF MimicAdds, G
      <3> QED
        BY <3>6, <3>7, <3>9
    <2> QED
      BY <2>4, <2>5
  <1> QED
    BY <1>13, <1>14

-----------------------------------------------------------------------------
(* The states.                                                             *)

\* inv_mod_curve_size finds the inverse modulo the order.
LEMMA InverseIs ==
  ASSUME NEW c, NEW pi, Loaded(c, pi), NEW x \in 1 .. EC_ORDER - 1
  PROVE  /\ inv_mod_curve_size(x) \in 1 .. EC_ORDER - 1
         /\ (inv_mod_curve_size(x) * x) % EC_ORDER = 1
PROOF
  <1> DEFINE n == EC_ORDER
             y == inv_mod_curve_size(x)
  <1>1. n \in Moduli /\ n \in Nat \ {0} /\ 2 < n
    BY ParametersAre, CurveNumbers DEF Loaded
  <1>2. y = Math!div_mod(1, x, n)
    BY Zenon DEF inv_mod_curve_size, div_mod, Math!div_mod
  <1> HIDE DEF n, y
  <1>3. x \in Int /\ 1 \in Int /\ x \in 1 .. n - 1
    BY <1>1 DEF n
  <1>4. x % n # 0 /\ 1 % n = 1
    BY <1>1, <1>3, ResidueKept
  <1>5. y \in 0 .. n - 1 /\ (y * x) % n = 1
    BY <1>1, <1>2, <1>3, <1>4, QuotientIs
  <1>6. y # 0
    <2>1. (0 * x) % n = 0
      BY <1>1, <1>3
    <2> QED
      BY <1>5, <2>1
  <1>7. y \in 1 .. n - 1
    BY <1>1, <1>5, <1>6
  <1> QED
    BY <1>5, <1>7 DEF y, n

\* What sign makes of a nonce it does not refuse: its w is in range, and divides
\* the nonce by m + r * key.
Signed(c, m, key, k, sig) ==
  LET w == inv_mod_curve_size(sig[2])
  IN  /\ sig \in Int \X Int /\ InSignatureRange(sig[1]) /\ sig[2] \in 1 .. EC_ORDER - 1
      /\ w \in Nat /\ InSignatureRange(w)
      /\ (w * (m + sig[1] * key)) % EC_ORDER = k % EC_ORDER
      /\ sig[1] = Multiple(c, k, EC_GEN)[1]

LEMMA SignatureIs ==
  ASSUME NEW c, NEW pi, Loaded(c, pi), NEW m \in Nat,
         NEW key \in 1 .. EC_ORDER - 1, NEW k \in 1 .. EC_ORDER - 1,
         SignatureOf(m, key, k) # None
  PROVE  Signed(c, m, key, k, SignatureOf(m, key, k))
PROOF
  <1> DEFINE n == EC_ORDER
             r == ec_mult(k, EC_GEN, ALPHA, FIELD_PRIME)[1]
             d == m + r * key
             w == div_mod(k, d, n)
             s == inv_mod_curve_size(w)
             v == inv_mod_curve_size(s)
  <1>1. c \in Curves /\ FIELD_PRIME = c.FIELD_PRIME /\ n = c.EC_ORDER
    BY ParametersAre DEF Loaded
  <1>2. n \in Moduli /\ IsPrime(n) /\ n \in Nat \ {0} /\ 2 < n
    BY <1>1, CurveNumbers
  <1>3. EC_GEN \in PointsOnCurve(c) /\ EC_GEN # Math!EC_INFINITY
    BY ShiftIs
  <1>4. ec_mult(k, EC_GEN, ALPHA, FIELD_PRIME) = Multiple(c, k, EC_GEN)
    BY <1>1, <1>3, PartialMultiple
  <1>5. r \in Int
    <2>1. k \in Nat
      BY <1>2
    <2>2. Multiple(c, k, EC_GEN) \in PointsOnCurve(c) /\ Multiple(c, k, EC_GEN) # Math!EC_INFINITY
      BY <1>1, <1>3, <2>1, MultipleNext, MultipleIsFinite
    <2>3. Multiple(c, k, EC_GEN) \in Pairs(c.FIELD_PRIME) /\ c.FIELD_PRIME \in Nat
      BY <1>1, <2>2, PointsAre, CurveNumbers
    <2> QED
      BY <1>4, <2>3 DEF Pairs
  <1>6. /\ InSignatureRange(r) /\ d % n # 0 /\ InSignatureRange(w)
        /\ SignatureOf(m, key, k) = <<r, s>>
    BY Zenon DEF SignatureOf
  <1>7. r = Multiple(c, k, EC_GEN)[1]
    BY <1>4
  <1> HIDE DEF n, r
  <1>8. d \in Int
    <2>1. key \in Int
      OBVIOUS
    <2> QED
      BY <1>5, <2>1
  <1> HIDE DEF d
  <1>9. w \in 0 .. n - 1 /\ (w * d) % n = k % n
    <2>1. w = Math!div_mod(k, d, n)
      BY Zenon DEF div_mod, Math!div_mod
    <2>2. k \in Int
      OBVIOUS
    <2> QED
      BY <1>2, <1>6, <1>8, <2>1, <2>2, QuotientIs
  <1> HIDE DEF w
  <1>10. w \in 1 .. n - 1
    BY <1>2, <1>6, <1>9 DEF InSignatureRange
  <1>11. ASSUME NEW x \in 1 .. n - 1
         PROVE  inv_mod_curve_size(x) \in 1 .. n - 1 /\ (inv_mod_curve_size(x) * x) % n = 1
    BY InverseIs DEF n
  <1>12. s \in 1 .. n - 1 /\ (s * w) % n = 1
    BY <1>10, <1>11
  <1> HIDE DEF s
  <1>13. v \in 1 .. n - 1 /\ (v * s) % n = 1
    BY <1>11, <1>12
  <1>14. v = w
    <2> HIDE DEF v
    <2>1. w * s = s * w /\ s \in Int
      BY <1>2, <1>10, <1>12
    <2>2. (w * s) % n = 1
      BY <1>12, <2>1
    <2>3. v \in 0 .. n - 1
      BY <1>2, <1>13
    <2> QED
      BY <1>2, <1>9, <1>13, <2>1, <2>2, <2>3, InverseUnique
  <1> DEFINE sig == <<r, s>>
  <1>15. sig[1] = r /\ sig[2] = s /\ sig \in Int \X Int
    BY <1>2, <1>5, <1>12
  <1>16. inv_mod_curve_size(sig[2]) = w /\ w \in Nat
    BY <1>2, <1>9, <1>14, <1>15
  <1> HIDE DEF sig, v
  <1>17. m + sig[1] * key = d
    BY <1>15 DEF d
  <1>18. Signed(c, m, key, k, sig)
    BY <1>6, <1>7, <1>9, <1>12, <1>15, <1>16, <1>17, Zenon DEF Signed, n
  <1> QED
    BY <1>6, <1>18 DEF sig

\* What the library computes depends on its parameters alone.
LEMMA ParametersKept ==
  ASSUME UNCHANGED params
  PROVE  /\ UNCHANGED <<FIELD_PRIME, BETA, EC_ORDER, CONSTANT_POINTS, N_ELEMENT_BITS_ECDSA>>
         /\ \A c, pi : Loaded(c, pi)' <=> Loaded(c, pi)
PROOF
  <1>1. UNCHANGED <<FIELD_PRIME, BETA, EC_ORDER, CONSTANT_POINTS>>
    BY DEF FIELD_PRIME, BETA, EC_ORDER, CONSTANT_POINTS
  <1>2. UNCHANGED N_ELEMENT_BITS_ECDSA
    BY <1>1 DEF N_ELEMENT_BITS_ECDSA, N_ELEMENT_BITS_HASH
  <1> QED
    BY <1>1, <1>2 DEF Loaded

LEMMA AnswersKept ==
  ASSUME UNCHANGED params, NEW m, NEW r, NEW s, NEW key
  PROVE  verify(m, r, s, key)' = verify(m, r, s, key)
PROOF
  <1>1. UNCHANGED <<FIELD_PRIME, BETA, EC_ORDER, CONSTANT_POINTS, N_ELEMENT_BITS_ECDSA>>
    BY ParametersKept
  <1>2. \A a, points, start : AddByBits(a, points, start)' = AddByBits(a, points, start)
    BY <1>1, SMT DEF AddByBits
  <1>3. \A a, P, S : mimic_ec_mult_air(a, P, S)' = mimic_ec_mult_air(a, P, S)
    BY <1>1, <1>2 DEF mimic_ec_mult_air, InSignatureRange
  <1>4. UNCHANGED <<EC_GEN, SHIFT_POINT, MINUS_SHIFT_POINT>>
    BY <1>1 DEF EC_GEN, SHIFT_POINT, MINUS_SHIFT_POINT
  <1>5. \A w, Q : VerifyPoint(m, r, w, Q)' <=> VerifyPoint(m, r, w, Q)
    BY <1>1, <1>3, <1>4 DEF VerifyPoint
  <1>6. \A x : UNCHANGED <<is_valid_stark_key(x), get_y_coordinate(x), inv_mod_curve_size(x)>>
    BY <1>1 DEF is_valid_stark_key, get_y_coordinate, inv_mod_curve_size, y_squared_of
  <1>7. \A w : VerifyKey(m, r, w, key)' <=> VerifyKey(m, r, w, key)
    BY <1>1, <1>5, <1>6 DEF VerifyKey
  <1> QED
    BY <1>1, <1>6, <1>7 DEF verify, InSignatureRange, is_point_on_curve

LEMMA SigningKept ==
  ASSUME UNCHANGED params, NEW m, NEW key, NEW k
  PROVE  /\ SignatureOf(m, key, k)' = SignatureOf(m, key, k)
         /\ private_key_to_ec_point_on_stark_curve(key)' = private_key_to_ec_point_on_stark_curve(key)
         /\ private_to_stark_key(key)' = private_to_stark_key(key)
PROOF
  <1>1. UNCHANGED <<FIELD_PRIME, EC_ORDER, CONSTANT_POINTS, N_ELEMENT_BITS_ECDSA>>
    BY ParametersKept
  <1>2. UNCHANGED EC_GEN
    BY <1>1 DEF EC_GEN
  <1>3. SignatureOf(m, key, k)' = SignatureOf(m, key, k)
    BY <1>1, <1>2 DEF SignatureOf, InSignatureRange, inv_mod_curve_size
  <1>4. private_key_to_ec_point_on_stark_curve(key)' = private_key_to_ec_point_on_stark_curve(key)
    BY <1>1, <1>2 DEF private_key_to_ec_point_on_stark_curve
  <1> QED
    BY <1>3, <1>4 DEF private_to_stark_key

LEMMA HashingKept ==
  ASSUME UNCHANGED params, NEW x, NEW y
  PROVE  /\ pedersen_hash_as_point(<<x, y>>)' = pedersen_hash_as_point(<<x, y>>)
         /\ fast_pedersen_hash_point(x, y)' = fast_pedersen_hash_point(x, y)
PROOF
  <1>1. UNCHANGED <<FIELD_PRIME, CONSTANT_POINTS>>
    BY ParametersKept
  <1>2. UNCHANGED <<N_ELEMENT_BITS_HASH, SHIFT_POINT>>
    BY <1>1 DEF N_ELEMENT_BITS_HASH, SHIFT_POINT
  <1>3. pedersen_hash_as_point(<<x, y>>)' = pedersen_hash_as_point(<<x, y>>)
    BY <1>1, <1>2, SMT DEF pedersen_hash_as_point, AddByBits
  <1>4. fast_pedersen_hash_point(x, y)' = fast_pedersen_hash_point(x, y)
    BY <1>1, <1>2 DEF fast_pedersen_hash_point, process_single_element, Plus, Times
  <1> QED
    BY <1>3, <1>4

\* The signature is the one that sign made of some nonce, the verdict is that of
\* verify, the hashes are those of the two implementations.
SignerInv ==
  /\ \E c \in Curves, pi \in PiDigits : Loaded(c, pi)
  /\ priv_key \in 0 .. EC_ORDER - 1
  /\ msg_hash \in Nat /\ msg_hash < Math!power2[N_ELEMENT_BITS_ECDSA]
  /\ signature # None =>
       priv_key # 0 /\ signature \in Int \X Int /\ signature[2] \in 1 .. EC_ORDER - 1

GenuineInv ==
  genuine =>
    /\ signature # None
    /\ \E k \in 1 .. EC_ORDER - 1 : signature = SignatureOf(msg_hash, priv_key, k)

VerdictInv ==
  verdict # None =>
    /\ signature # None
    /\ \E key \in KeysOfSigner \union OtherKeys :
         verdict = [key |-> key, answer |-> verify(msg_hash, signature[1], signature[2], key)]

HashedInv ==
  hashed # None =>
    \E x, y \in Elements :
      hashed = [elements |-> <<x, y>>, slow |-> pedersen_hash_as_point(<<x, y>>),
                fast |-> fast_pedersen_hash_point(x, y)]

SignatureInv == SignerInv /\ GenuineInv /\ VerdictInv /\ HashedInv

LEMMA InitIsSigning == Init => SignatureInv
PROOF
  <1> SUFFICES ASSUME Init PROVE SignatureInv
    OBVIOUS
  <1>1. PICK c \in Curves, pi \in PiDigits : params = pedersen_params(c, pi)
    <2>1. params \in {pedersen_params(c, pi) : c \in Curves, pi \in PiDigits}
      BY DEF Init
    <2> QED
      BY <2>1, SMT
  <1>2. Loaded(c, pi)
    BY <1>1 DEF Loaded
  <1>3. EC_ORDER \in Nat /\ 2 < EC_ORDER
    BY <1>2, ParametersAre, CurveNumbers
  <1>4. N_ELEMENT_BITS_ECDSA \in Nat
    BY <1>2, RangeIs
  <1>5. 0 < Math!power2[N_ELEMENT_BITS_ECDSA]
    BY <1>4, PowersOfTwo
  <1>6. priv_key = 0 /\ msg_hash = 0 /\ signature = None /\ genuine = FALSE /\ verdict = None /\ hashed = None
    BY Zenon DEF Init
  <1>7. priv_key \in 0 .. EC_ORDER - 1 /\ msg_hash \in Nat
    BY <1>3, <1>6
  <1> QED
    BY <1>2, <1>5, <1>6, <1>7, Zenon DEF SignatureInv, SignerInv, GenuineInv, VerdictInv, HashedInv

LEMMA StepsSign == SignatureInv /\ [Next]_vars => SignatureInv'
PROOF
  <1> SUFFICES ASSUME SignatureInv, [Next]_vars PROVE SignatureInv'
    OBVIOUS
  <1>1. UNCHANGED params
    BY DEF Next, vars, DrawKey, sign, Replace, Verify, pedersen_hash
  <1>2. PICK c \in Curves, pi \in PiDigits : Loaded(c, pi)
    BY DEF SignatureInv, SignerInv
  <1>3. UNCHANGED <<FIELD_PRIME, EC_ORDER, N_ELEMENT_BITS_ECDSA>>
        /\ (\E d \in Curves, e \in PiDigits : Loaded(d, e))'
    BY <1>1, <1>2, ParametersKept
  <1>4. \A m, r, s, key : verify(m, r, s, key)' = verify(m, r, s, key)
    BY <1>1, AnswersKept
  <1>5. /\ \A m, key, k : SignatureOf(m, key, k)' = SignatureOf(m, key, k)
        /\ \A key : private_key_to_ec_point_on_stark_curve(key)' = private_key_to_ec_point_on_stark_curve(key)
        /\ \A key : private_to_stark_key(key)' = private_to_stark_key(key)
    BY <1>1, SigningKept
  <1>6. \A x, y : /\ pedersen_hash_as_point(<<x, y>>)' = pedersen_hash_as_point(<<x, y>>)
                  /\ fast_pedersen_hash_point(x, y)' = fast_pedersen_hash_point(x, y)
    BY <1>1, HashingKept
  <1>7. EC_ORDER \in Nat /\ 2 < EC_ORDER
    BY <1>2, ParametersAre, CurveNumbers
  <1>8. ASSUME UNCHANGED priv_key
        PROVE  UNCHANGED (KeysOfSigner \union OtherKeys)
    <2>1. UNCHANGED private_key_to_ec_point_on_stark_curve(priv_key)
      BY <1>1, <1>3, <1>8
      DEF private_key_to_ec_point_on_stark_curve, EC_GEN, CONSTANT_POINTS
    <2>2. UNCHANGED private_to_stark_key(priv_key)
      BY <2>1 DEF private_to_stark_key
    <2>3. UNCHANGED OtherKeys
      BY <1>3, <2>1 DEF OtherKeys
    <2> QED
      BY <2>1, <2>2, <2>3 DEF KeysOfSigner
  <1>9. ASSUME UNCHANGED <<priv_key, msg_hash, signature>>
        PROVE  SignerInv' /\ (UNCHANGED genuine => GenuineInv') /\ (UNCHANGED verdict => VerdictInv')
    <2>1. SignerInv'
      BY <1>3, <1>9 DEF SignatureInv, SignerInv
    <2>2. ASSUME UNCHANGED genuine PROVE GenuineInv'
      <3>1. \A k : SignatureOf(msg_hash, priv_key, k)' = SignatureOf(msg_hash, priv_key, k)
        BY <1>1, <1>3, <1>9 DEF SignatureOf, InSignatureRange, inv_mod_curve_size, EC_GEN, CONSTANT_POINTS
      <3> QED
        BY <1>3, <1>9, <2>2, <3>1 DEF SignatureInv, GenuineInv
    <2>3. ASSUME UNCHANGED verdict PROVE VerdictInv'
      <3>1. UNCHANGED (KeysOfSigner \union OtherKeys)
        BY <1>8, <1>9
      <3>2. \A key : verify(msg_hash, signature[1], signature[2], key)'
                       = verify(msg_hash, signature[1], signature[2], key)
        BY <1>4, <1>9
      <3> QED
        BY <1>9, <2>3, <3>1, <3>2, Zenon DEF SignatureInv, VerdictInv
    <2> QED
      BY <2>1, <2>2, <2>3
  <1>10. ASSUME UNCHANGED hashed PROVE HashedInv'
    BY <1>6, <1>10 DEF SignatureInv, HashedInv
  <1>11. ASSUME NEW m \in Messages, DrawKey(m) PROVE SignatureInv'
    <2>1. signature = None /\ ~ genuine /\ verdict = None /\ UNCHANGED hashed
      BY <1>11 DEF SignatureInv, SignerInv, GenuineInv, VerdictInv, DrawKey
    <2>2. UNCHANGED <<signature, genuine, verdict>> /\ msg_hash' = m
          /\ priv_key' \in 1 .. EC_ORDER - 1 /\ m < Math!power2[N_ELEMENT_BITS_ECDSA]
      BY <1>11 DEF DrawKey, get_random_private_key
    <2>3. m \in Nat /\ priv_key' \in 0 .. EC_ORDER - 1
      BY <1>7, <2>2, InputsAssumption
    <2>4. SignerInv'
      BY <1>3, <2>1, <2>2, <2>3 DEF SignerInv
    <2> QED
      BY <1>10, <2>1, <2>2, <2>4 DEF SignatureInv, GenuineInv, VerdictInv
  <1>12. CASE sign
    <2>1. UNCHANGED <<priv_key, msg_hash, verdict, hashed>> /\ priv_key # 0 /\ signature = None
      BY <1>12 DEF sign
    <2>2. priv_key \in 1 .. EC_ORDER - 1 /\ msg_hash \in Nat /\ verdict = None
      BY <1>7, <2>1 DEF SignatureInv, SignerInv, VerdictInv
    <2>3. \/ \E k \in 1 .. EC_ORDER - 1 :
               SignatureOf(msg_hash, priv_key, k) # None /\ signature' = SignatureOf(msg_hash, priv_key, k)
          \/ UNCHANGED <<signature, genuine>>
      BY <1>12 DEF sign, generate_k_rfc6979
    <2>4. CASE \E k \in 1 .. EC_ORDER - 1 :
                 SignatureOf(msg_hash, priv_key, k) # None /\ signature' = SignatureOf(msg_hash, priv_key, k)
      <3>1. PICK k \in 1 .. EC_ORDER - 1 :
              SignatureOf(msg_hash, priv_key, k) # None /\ signature' = SignatureOf(msg_hash, priv_key, k)
        BY <2>4
      <3>2. Signed(c, msg_hash, priv_key, k, SignatureOf(msg_hash, priv_key, k))
        BY <1>2, <2>2, <3>1, SignatureIs
      <3>3. signature' \in Int \X Int /\ signature'[2] \in 1 .. EC_ORDER - 1
        BY <3>1, <3>2 DEF Signed
      <3>4. SignatureOf(msg_hash, priv_key, k)' = SignatureOf(msg_hash, priv_key, k)
        BY <1>1, <1>3, <2>1 DEF SignatureOf, InSignatureRange, inv_mod_curve_size, EC_GEN, CONSTANT_POINTS
      <3>5. (signature = SignatureOf(msg_hash, priv_key, k))'
        BY <3>1, <3>4
      <3>6. SignerInv'
        BY <1>3, <2>1, <3>3 DEF SignatureInv, SignerInv
      <3>7. GenuineInv'
        BY <1>3, <3>1, <3>5 DEF GenuineInv
      <3> QED
        BY <1>10, <2>1, <2>2, <3>6, <3>7 DEF SignatureInv, VerdictInv
    <2>5. CASE UNCHANGED <<signature, genuine>>
      BY <1>9, <1>10, <2>1, <2>5 DEF SignatureInv
    <2> QED
      BY <2>3, <2>4, <2>5
  <1>13. CASE Replace
    <2>1. UNCHANGED <<priv_key, msg_hash, verdict, hashed>> /\ genuine /\ genuine' = FALSE /\ verdict = None
      BY <1>13 DEF Replace
    <2>2. PICK pair \in Foreign : 1 <= pair[2] /\ pair[2] < EC_ORDER /\ signature' = pair
      BY <1>13 DEF Replace
    <2>3. signature' \in Int \X Int
      BY <2>2, InputsAssumption
    <2>4. signature'[2] \in 1 .. EC_ORDER - 1
      <3>1. pair[2] \in Int
        BY <2>2, InputsAssumption
      <3> QED
        BY <1>7, <2>2, <3>1
    <2>5. priv_key # 0
      BY <2>1 DEF SignatureInv, SignerInv, GenuineInv
    <2>6. SignerInv'
      BY <1>3, <2>1, <2>3, <2>4, <2>5 DEF SignatureInv, SignerInv
    <2> QED
      BY <1>10, <2>1, <2>6 DEF SignatureInv, GenuineInv, VerdictInv
  <1>14. CASE Verify
    <2>1. UNCHANGED <<priv_key, msg_hash, signature, genuine, hashed>> /\ signature # None
      BY <1>14 DEF Verify
    <2>2. PICK key \in KeysOfSigner \union OtherKeys :
            verdict' = [key |-> key, answer |-> verify(msg_hash, signature[1], signature[2], key)]
      BY <1>14, Zenon DEF Verify
    <2>3. UNCHANGED (KeysOfSigner \union OtherKeys)
      BY <1>8, <2>1
    <2>4. verify(msg_hash, signature[1], signature[2], key)'
            = verify(msg_hash, signature[1], signature[2], key)
      BY <1>4, <2>1
    <2>5. VerdictInv'
      BY <2>1, <2>2, <2>3, <2>4, Zenon DEF VerdictInv
    <2> QED
      BY <1>9, <1>10, <2>1, <2>5 DEF SignatureInv
  <1>15. ASSUME NEW x \in Elements, NEW y \in Elements, pedersen_hash(x, y) PROVE SignatureInv'
    <2>1. UNCHANGED <<priv_key, msg_hash, signature, genuine, verdict>>
      BY <1>15 DEF pedersen_hash
    <2>2. hashed' = [elements |-> <<x, y>>, slow |-> pedersen_hash_as_point(<<x, y>>),
                     fast |-> fast_pedersen_hash_point(x, y)]
      BY <1>15, Zenon DEF pedersen_hash
    <2>3. HashedInv'
      BY <1>6, <2>2 DEF HashedInv
    <2> QED
      BY <1>9, <2>1, <2>3 DEF SignatureInv
  <1>16. CASE UNCHANGED vars
    BY <1>9, <1>10, <1>16 DEF SignatureInv, vars
  <1> QED
    BY <1>11, <1>12, <1>13, <1>14, <1>15, <1>16 DEF Next

THEOREM SignatureInvariant == Spec => []SignatureInv
BY InitIsSigning, StepsSign, PTL DEF Spec

\* signature.py:154, safe_random_ec_point: the partial doubling and addition that
\* ec_mult is made of do not fail for a key, and the public key is one of the points
\* that are drawn as multiples of the generator.
THEOREM KeysAreMultiples == Spec => []MultiplesOfGeneratorExist
PROOF
  <1>1. ASSUME SignatureInv PROVE MultiplesOfGeneratorExist
    <2> SUFFICES ASSUME priv_key # 0
                 PROVE  /\ private_key_to_ec_point_on_stark_curve(priv_key) = Times(priv_key, EC_GEN)
                        /\ private_key_to_ec_point_on_stark_curve(priv_key)
                             \in Math!safe_random_ec_point(FIELD_PRIME, ALPHA, EC_GEN, EC_ORDER)
      BY DEF MultiplesOfGeneratorExist
    <2>1. PICK c \in Curves, pi \in PiDigits : Loaded(c, pi)
      BY <1>1 DEF SignatureInv, SignerInv
    <2>2. FIELD_PRIME = c.FIELD_PRIME /\ EC_ORDER = c.EC_ORDER /\ EC_ORDER \in Nat
      BY <2>1, ParametersAre, CurveNumbers
    <2>3. priv_key \in 1 .. EC_ORDER - 1
      BY <1>1, <2>2 DEF SignatureInv, SignerInv
    <2>4. EC_GEN \in PointsOnCurve(c) /\ EC_GEN # Math!EC_INFINITY
      BY <2>1, ShiftIs
    <2>5. private_key_to_ec_point_on_stark_curve(priv_key) = Multiple(c, priv_key, EC_GEN)
      BY <2>2, <2>3, <2>4, PartialMultiple DEF private_key_to_ec_point_on_stark_curve
    <2>6. Times(priv_key, EC_GEN) = Multiple(c, priv_key, EC_GEN)
      BY <2>1, GroupNames
    <2>7. Times(priv_key, EC_GEN)
            \in Math!safe_random_ec_point(FIELD_PRIME, ALPHA, EC_GEN, EC_ORDER)
      BY <2>3 DEF Times, Math!safe_random_ec_point
    <2> QED
      BY <2>5, <2>6, <2>7
  <1> QED
    BY <1>1, SignatureInvariant, PTL

\* fast_pedersen_hash.py:37-41: whenever the slow hash does not fail, the sum of four
\* multiples is the sum over the bits of the elements.
THEOREM FastHashIsTheHash == Spec => []FastHashIsPedersenHash
PROOF
  <1>1. ASSUME SignatureInv PROVE FastHashIsPedersenHash
    <2> SUFFICES ASSUME hashed # None, hashed.slow # AssertionError PROVE hashed.fast = hashed.slow
      BY DEF FastHashIsPedersenHash
    <2>1. PICK c \in Curves, pi \in PiDigits : Loaded(c, pi)
      BY <1>1 DEF SignatureInv, SignerInv
    <2>2. PICK x \in Elements, y \in Elements :
            hashed = [elements |-> <<x, y>>, slow |-> pedersen_hash_as_point(<<x, y>>),
                      fast |-> fast_pedersen_hash_point(x, y)]
      BY <1>1 DEF SignatureInv, HashedInv
    <2>3. x \in Nat /\ y \in Nat
      BY InputsAssumption
    <2> QED
      BY <2>1, <2>2, <2>3, HashesAgree
  <1> QED
    BY <1>1, SignatureInvariant, PTL

-----------------------------------------------------------------------------
(* Keys.                                                                    *)

\* A residue and its opposite have one square.
LEMMA NegativeSquare ==
  ASSUME NEW p \in Nat \ {0}, NEW y \in 0 .. p - 1
  PROVE  /\ (-y) % p = (p - y) % p /\ (p - y) % p \in 0 .. p - 1
         /\ (((p - y) % p) * ((p - y) % p)) % p = (y * y) % p
PROOF
  <1>1. PICK z \in 1 .. p : z = p - y /\ y = p - z
    OBVIOUS
  <1>2. -y = (-1) * p + z /\ -1 \in Int /\ y \in Int /\ z \in Int
    BY <1>1
  <1>3. ((-1) * p + z) % p = z % p
    BY <1>2, MultipleIgnored
  <1>4. z % p \in 0 .. p - 1
    BY <1>2, Division
  <1>5. ((z % p) * (z % p)) % p = (y * y) % p
    <2>1. PICK k \in Int, v \in Int : k = p - 2 * y /\ v = y * y
      OBVIOUS
    <2>2. z * z = k * p + v
      BY <1>1, <2>1
    <2>3. (k * p + v) % p = v % p
      BY <2>1, MultipleIgnored
    <2>4. PICK u \in Int : u = z % p
      BY <1>4
    <2>5. (u * (z % p)) % p = (u * z) % p /\ ((z % p) * z) % p = (z * z) % p
      BY <1>2, <2>4, FactorReduced
    <2>6. (u * u) % p = (z * z) % p
      BY <2>4, <2>5
    <2> QED
      BY <2>1, <2>2, <2>3, <2>4, <2>6
  <1> QED
    BY <1>1, <1>2, <1>3, <1>4, <1>5, ResidueKept

\* The points that random_ec_point draws are the finite points of the curve.
LEMMA DrawnPointsAre ==
  ASSUME NEW c \in Curves, NEW Q
  PROVE  Q \in Math!random_ec_point(c.FIELD_PRIME, ALPHA, c.BETA)
           <=> Q \in PointsOnCurve(c) /\ Q # Math!EC_INFINITY
PROOF
  <1> DEFINE p == c.FIELD_PRIME
             f(x) == Math!y_squared_from_x(x, ALPHA, c.BETA, p)
             Y(x) == Math!recover_y(x, ALPHA, c.BETA, p)
  <1>1. p \in Nat \ {0} /\ 2 < p /\ IsPrime(p) /\ c.BETA \in Nat
    BY CurveNumbers
  <1> HIDE DEF p
  <1>2. Q \in Math!random_ec_point(p, ALPHA, c.BETA)
          <=> \E x \in 0 .. p - 1 : \E y \in Y(x) : \E y_coef \in {1, -1} : Q = <<x, (y_coef * y) % p>>
    <2> DEFINE R(x) == {<<x, (y_coef * y) % p>> : y_coef \in {1, -1}, y \in Y(x)}
    <2>1. Math!random_ec_point(p, ALPHA, c.BETA) = UNION {R(x) : x \in 0 .. p - 1}
      BY SMT DEF Math!random_ec_point
    <2>2. \A x : Q \in R(x) <=> \E y \in Y(x) : \E y_coef \in {1, -1} : Q = <<x, (y_coef * y) % p>>
      <3> HIDE DEF Y
      <3> QED
        BY SMT
    <2> HIDE DEF R, Y
    <2>3. Q \in UNION {R(x) : x \in 0 .. p - 1} <=> \E x \in 0 .. p - 1 : Q \in R(x)
      OBVIOUS
    <2> QED
      BY <2>1, <2>2, <2>3
  <1>3. Q \in PointsOnCurve(c) /\ Q # Math!EC_INFINITY
          <=> \E x \in 0 .. p - 1, y \in 0 .. p - 1 : Q = <<x, y>> /\ (y * y) % p = f(x)
    <2>1. \A x \in 0 .. p - 1, y \in 0 .. p - 1 : <<x, y>> # Math!EC_INFINITY
      BY NoPairs DEF Pairs
    <2>2. Q \in PointsOnCurve(c) /\ Q # Math!EC_INFINITY
            => \E x \in 0 .. p - 1, y \in 0 .. p - 1 : Q = <<x, y>> /\ (y * y) % p = f(x)
      BY DEF PointsOnCurve, Math!y_squared_from_x, p
    <2>3. ASSUME NEW x \in 0 .. p - 1, NEW y \in 0 .. p - 1, Q = <<x, y>>, (y * y) % p = f(x)
          PROVE  Q \in PointsOnCurve(c) /\ Q # Math!EC_INFINITY
      BY <2>1, <2>3 DEF PointsOnCurve, Math!y_squared_from_x, p
    <2> QED
      BY <2>2, <2>3
  <1>4. \A x \in 0 .. p - 1 : f(x) \in 0 .. p - 1
    BY <1>1 DEF Math!y_squared_from_x, ALPHA
  <1> HIDE DEF f
  <1>5. \A x \in 0 .. p - 1 : \A z \in Y(x) : z \in 0 .. p - 1 /\ (z * z) % p = f(x)
    <2> SUFFICES ASSUME NEW x \in 0 .. p - 1, NEW z \in Y(x) PROVE z \in 0 .. p - 1 /\ (z * z) % p = f(x)
      OBVIOUS
    <2> DEFINE S == {m \in 0 .. p - 1 : (m * m) % p = f(x) % p}
    <2>1. f(x) % p = f(x)
      BY <1>1, <1>4, ResidueKept
    <2>2. S # {} /\ z = Min(S)
      BY Zenon DEF Math!recover_y, Math!is_quad_residue, Math!sqrt, Math!Min, Min, f
    <2>3. S \in SUBSET Nat
      BY <1>1
    <2> HIDE DEF S
    <2>4. z \in S
      BY <2>2, <2>3, MinIs
    <2> QED
      BY <2>1, <2>4 DEF S
  <1>6. \A x \in 0 .. p - 1 : (\E y \in 0 .. p - 1 : (y * y) % p = f(x)) => Y(x) # {}
    BY <1>1, <1>4, ResidueKept DEF Math!recover_y, Math!is_quad_residue, f
  <1> HIDE DEF Y
  <1>7. ASSUME NEW y \in 0 .. p - 1
        PROVE  (1 * y) % p = y /\ ((-1) * y) % p = (p - y) % p /\ (p - y) % p \in 0 .. p - 1
               /\ (((p - y) % p) * ((p - y) % p)) % p = (y * y) % p
    <2>1. 1 * y = y /\ (-1) * y = -y
      BY <1>1
    <2>2. y % p = y
      BY <1>1, ResidueKept
    <2>3. /\ (-y) % p = (p - y) % p /\ (p - y) % p \in 0 .. p - 1
          /\ (((p - y) % p) * ((p - y) % p)) % p = (y * y) % p
      BY <1>1, NegativeSquare
    <2> QED
      BY <2>1, <2>2, <2>3
  <1>8. ASSUME NEW x \in 0 .. p - 1, NEW y \in Y(x), NEW a \in {1, -1}, Q = <<x, (a * y) % p>>
        PROVE  \E v \in 0 .. p - 1 : Q = <<x, v>> /\ (v * v) % p = f(x)
    <2>1. y \in 0 .. p - 1 /\ (y * y) % p = f(x)
      BY <1>5
    <2> QED
      BY <1>7, <1>8, <2>1
  <1>9. ASSUME NEW x \in 0 .. p - 1, NEW v \in 0 .. p - 1, Q = <<x, v>>, (v * v) % p = f(x)
        PROVE  \E y \in Y(x) : \E a \in {1, -1} : Q = <<x, (a * y) % p>>
    <2>1. PICK y \in Y(x) : TRUE
      BY <1>6, <1>9
    <2>2. y \in 0 .. p - 1 /\ (y * y) % p = f(x)
      BY <1>5
    <2>3. v = y \/ v = (p - y) % p
      BY <1>1, <1>9, <2>2, SquaresEqual
    <2> QED
      BY <1>7, <1>9, <2>2, <2>3
  <1> QED
    BY <1>2, <1>3, <1>8, <1>9 DEF p

\* A key is a pair, or a residue alone.
IsKey(key, p) == key \in Pairs(p) \/ \E x \in 0 .. p - 1 : key = <<x>>

LEMMA KeysAre ==
  ASSUME NEW c, NEW pi, Loaded(c, pi), priv_key \in 1 .. EC_ORDER - 1
  PROVE  /\ \A key \in KeysOfSigner \union OtherKeys : IsKey(key, c.FIELD_PRIME)
         /\ private_key_to_ec_point_on_stark_curve(priv_key) = Multiple(c, priv_key, EC_GEN)
         /\ Multiple(c, priv_key, EC_GEN) \in PointsOnCurve(c)
         /\ Multiple(c, priv_key, EC_GEN) # Math!EC_INFINITY
PROOF
  <1> DEFINE p == c.FIELD_PRIME
             Q == Multiple(c, priv_key, EC_GEN)
  <1>1. c \in Curves /\ FIELD_PRIME = p /\ EC_ORDER = c.EC_ORDER /\ EC_ORDER \in Nat /\ p \in Nat /\ 2 < p
    BY ParametersAre, CurveNumbers DEF Loaded
  <1>2. EC_GEN \in PointsOnCurve(c) /\ EC_GEN # Math!EC_INFINITY
    BY ShiftIs
  <1>3. private_key_to_ec_point_on_stark_curve(priv_key) = Q
    BY <1>1, <1>2, PartialMultiple DEF private_key_to_ec_point_on_stark_curve
  <1>4. Q \in PointsOnCurve(c) /\ Q # Math!EC_INFINITY
    <2>1. priv_key \in Nat
      BY <1>1
    <2> QED
      BY <1>1, <1>2, <2>1, MultipleNext, MultipleIsFinite
  <1>5. Q \in Pairs(p) /\ Q[1] \in 0 .. p - 1 /\ Q[2] \in 0 .. p - 1
    <2>1. Q \in Pairs(p)
      BY <1>1, <1>4, PointsAre
    <2> QED
      BY <2>1 DEF Pairs
  <1> HIDE DEF p, Q
  <1>6. ASSUME NEW key \in KeysOfSigner \union OtherKeys PROVE IsKey(key, p)
    <2>1. key \in {Q, <<Q[1]>>, <<0>>, <<p - 1>>, <<1, 1>>, <<Q[1], (-Q[2]) % p>>}
      BY <1>1, <1>3, <1>6, Zenon DEF KeysOfSigner, OtherKeys, private_to_stark_key, ec_neg
    <2>2. (-Q[2]) % p \in 0 .. p - 1 /\ 0 \in 0 .. p - 1 /\ 1 \in 0 .. p - 1 /\ p - 1 \in 0 .. p - 1
      BY <1>1, <1>5
    <2>3. <<1, 1>> \in Pairs(p) /\ <<Q[1], (-Q[2]) % p>> \in Pairs(p)
      BY <1>5, <2>2 DEF Pairs
    <2> QED
      BY <1>5, <2>1, <2>2, <2>3 DEF IsKey
  <1> QED
    BY <1>3, <1>4, <1>6 DEF p, Q

\* The points of a key: itself, or those with its x, the ones verify tries.
LEMMA PointsOfPair ==
  ASSUME NEW c, NEW pi, Loaded(c, pi), NEW key \in Pairs(c.FIELD_PRIME)
  PROVE  /\ Len(key) = 2
         /\ is_point_on_curve(key) <=> key \in PointsOnCurve(c)
         /\ is_point_on_curve(key) => PointsOf(key) = {key}
PROOF
  <1> DEFINE p == c.FIELD_PRIME
  <1>1. c \in Curves /\ FIELD_PRIME = p /\ BETA = c.BETA /\ p \in Nat
    BY ParametersAre, CurveNumbers DEF Loaded
  <1>2. key # Math!EC_INFINITY /\ Len(key) = 2
    <2>1. key # Math!EC_INFINITY
      BY NoPairs
    <2> QED
      BY <2>1 DEF Pairs
  <1>3. is_point_on_curve(key) <=> key \in PointsOnCurve(c)
    BY <1>1, <1>2 DEF is_point_on_curve, PointsOnCurve, Pairs
  <1>4. \A Q : Q \in Math!random_ec_point(FIELD_PRIME, ALPHA, BETA)
                 <=> Q \in PointsOnCurve(c) /\ Q # Math!EC_INFINITY
    BY <1>1, DrawnPointsAre
  <1>5. PointsOf(key) = {Q \in Math!random_ec_point(FIELD_PRIME, ALPHA, BETA) : Q = key}
    BY <1>2 DEF PointsOf
  <1> QED
    BY <1>2, <1>3, <1>4, <1>5

LEMMA PointsOfResidue ==
  ASSUME NEW c, NEW pi, Loaded(c, pi), NEW x \in 0 .. c.FIELD_PRIME - 1
  PROVE  /\ Len(<<x>>) = 1
         /\ ~ is_valid_stark_key(x) => PointsOf(<<x>>) = {}
         /\ is_valid_stark_key(x) =>
              PointsOf(<<x>>) = {<<x, get_y_coordinate(x)>>, <<x, (-get_y_coordinate(x)) % FIELD_PRIME>>}
PROOF
  <1> DEFINE p == c.FIELD_PRIME
             f == y_squared_of(x)
             y == get_y_coordinate(x)
             z == (-y) % p
  <1>1. c \in Curves /\ FIELD_PRIME = p /\ BETA = c.BETA /\ p \in Nat \ {0} /\ IsPrime(p) /\ c.BETA \in Nat
    BY ParametersAre, CurveNumbers DEF Loaded
  <1>2. f \in 0 .. p - 1 /\ f = (x * x * x + ALPHA * x + c.BETA) % p
    BY <1>1 DEF y_squared_of, ALPHA
  <1>3. \A Q : Q \in PointsOf(<<x>>) <=> Q \in PointsOnCurve(c) /\ Q # Math!EC_INFINITY /\ Q[1] = x
    <2>1. \A Q : Q \in Math!random_ec_point(FIELD_PRIME, ALPHA, BETA)
                   <=> Q \in PointsOnCurve(c) /\ Q # Math!EC_INFINITY
      BY <1>1, DrawnPointsAre
    <2>2. PointsOf(<<x>>) = {Q \in Math!random_ec_point(FIELD_PRIME, ALPHA, BETA) : Q[1] = x}
      BY DEF PointsOf
    <2> QED
      BY <2>1, <2>2
  <1>4. \A Q : Q \in PointsOnCurve(c) /\ Q # Math!EC_INFINITY /\ Q[1] = x
                 <=> \E v \in 0 .. p - 1 : Q = <<x, v>> /\ (v * v) % p = f
    <2> HIDE DEF f
    <2>1. ASSUME NEW Q \in PointsOnCurve(c), Q # Math!EC_INFINITY, Q[1] = x
          PROVE  \E v \in 0 .. p - 1 : Q = <<x, v>> /\ (v * v) % p = f
      <3>1. Q \in Pairs(p)
        BY <1>1, <2>1, PointsAre
      <3>2. Q[2] \in 0 .. p - 1 /\ Q = <<x, Q[2]>>
        BY <2>1, <3>1 DEF Pairs
      <3>3. (Q[2] * Q[2]) % p = f
        BY <1>2, <2>1 DEF PointsOnCurve
      <3> QED
        BY <3>2, <3>3
    <2>2. ASSUME NEW Q, NEW v \in 0 .. p - 1, Q = <<x, v>>, (v * v) % p = f
          PROVE  Q \in PointsOnCurve(c) /\ Q # Math!EC_INFINITY /\ Q[1] = x
      <3>1. Q \in Pairs(p) /\ Q[1] = x /\ Q[2] = v
        BY <2>2 DEF Pairs
      <3>2. Q # Math!EC_INFINITY
        BY <1>1, <3>1, NoPairs
      <3> QED
        BY <1>2, <2>2, <3>1, <3>2 DEF PointsOnCurve, Pairs
    <2> QED
      BY <2>1, <2>2
  <1>5. f % p = f
    BY <1>1, <1>2, ResidueKept
  <1>6. is_valid_stark_key(x) <=> \E v \in 0 .. p - 1 : (v * v) % p = f
    BY <1>1, <1>5 DEF is_valid_stark_key, is_quad_residue
  <1>7. ASSUME is_valid_stark_key(x) PROVE y \in 0 .. p - 1 /\ (y * y) % p = f
    <2> DEFINE S == {m \in 0 .. p - 1 : (m * m) % p = f}
    <2>1. S # {} /\ S \in SUBSET Nat
      BY <1>1, <1>6, <1>7
    <2>2. y = Min(S)
      BY <1>1, <1>5 DEF get_y_coordinate, sqrt_mod
    <2> HIDE DEF S, y
    <2>3. y \in S
      BY <2>1, <2>2, MinIs
    <2> QED
      BY <2>3 DEF S
  <1> HIDE DEF p, f, y
  <1>8. ASSUME NEW v \in 0 .. p - 1
        PROVE  (-v) % p = (p - v) % p /\ (p - v) % p \in 0 .. p - 1
               /\ (((p - v) % p) * ((p - v) % p)) % p = (v * v) % p
    BY <1>1, NegativeSquare
  <1>9. ASSUME is_valid_stark_key(x), NEW Q
        PROVE  Q \in PointsOf(<<x>>) <=> Q \in {<<x, y>>, <<x, z>>}
    <2>1. y \in 0 .. p - 1 /\ (y * y) % p = f
      BY <1>7, <1>9
    <2>2. z = (p - y) % p /\ z \in 0 .. p - 1 /\ (z * z) % p = f
      BY <1>8, <2>1
    <2>3. \A v \in 0 .. p - 1 : (v * v) % p = f <=> v = y \/ v = z
      <3>1. \A v \in 0 .. p - 1 : (v * v) % p = f => v = y \/ v = z
        BY <1>1, <2>1, <2>2, SquaresEqual
      <3> HIDE DEF z
      <3> QED
        BY <2>1, <2>2, <3>1
    <2> HIDE DEF z
    <2> QED
      BY <1>3, <1>4, <2>1, <2>2, <2>3
  <1>10. ASSUME ~ is_valid_stark_key(x) PROVE PointsOf(<<x>>) = {}
    BY <1>3, <1>4, <1>6, <1>10
  <1>11. is_valid_stark_key(x) => PointsOf(<<x>>) = {<<x, y>>, <<x, z>>}
    BY <1>9
  <1> QED
    BY <1>1, <1>10, <1>11 DEF y

LEMMA VerifyKeyIs ==
  ASSUME NEW c, NEW pi, Loaded(c, pi), NEW key, IsKey(key, c.FIELD_PRIME), NEW m, NEW r, NEW w
  PROVE  /\ Len(key) = 2 <=> key \in Pairs(c.FIELD_PRIME)
         /\ Len(key) # 2 \/ is_point_on_curve(key) =>
              (VerifyKey(m, r, w, key) <=> \E Q \in PointsOf(key) : VerifyPoint(m, r, w, Q))
PROOF
  <1>1. CASE key \in Pairs(c.FIELD_PRIME)
    <2>1. Len(key) = 2 /\ (is_point_on_curve(key) => PointsOf(key) = {key})
      BY <1>1, PointsOfPair
    <2>2. VerifyKey(m, r, w, key) <=> VerifyPoint(m, r, w, key)
      BY <2>1, Zenon DEF VerifyKey
    <2> QED
      BY <1>1, <2>1, <2>2
  <1>2. ASSUME NEW x \in 0 .. c.FIELD_PRIME - 1, key = <<x>>
        PROVE  /\ Len(key) = 1 /\ key \notin Pairs(c.FIELD_PRIME)
               /\ VerifyKey(m, r, w, key) <=> \E Q \in PointsOf(key) : VerifyPoint(m, r, w, Q)
    <2>1. Len(key) = 1 /\ key[1] = x
      BY <1>2
    <2>2. key \notin Pairs(c.FIELD_PRIME)
      BY <2>1, PointsOfPair
    <2>3. VerifyKey(m, r, w, key)
            <=> /\ is_valid_stark_key(x)
                /\ \/ VerifyPoint(m, r, w, <<x, get_y_coordinate(x)>>)
                   \/ VerifyPoint(m, r, w, <<x, (-get_y_coordinate(x)) % FIELD_PRIME>>)
      BY <2>1 DEF VerifyKey
    <2>4. /\ ~ is_valid_stark_key(x) => PointsOf(key) = {}
          /\ is_valid_stark_key(x) =>
               PointsOf(key) = {<<x, get_y_coordinate(x)>>, <<x, (-get_y_coordinate(x)) % FIELD_PRIME>>}
      BY <1>2, PointsOfResidue
    <2> QED
      BY <2>1, <2>2, <2>3, <2>4, Zenon
  <1> QED
    BY <1>1, <1>2 DEF IsKey

-----------------------------------------------------------------------------
(* Verification.                                                            *)

\* What verify answers under a key, by the points of the key.
LEMMA AnswerIs ==
  ASSUME NEW c, NEW pi, Loaded(c, pi), NEW key, IsKey(key, c.FIELD_PRIME),
         NEW m \in Nat, m < Math!power2[N_ELEMENT_BITS_ECDSA], NEW r \in Int,
         NEW s \in 1 .. EC_ORDER - 1, NEW w, w = inv_mod_curve_size(s)
  PROVE  /\ verify(m, r, s, key) = "accepted" =>
              \E Q \in PointsOf(key) : EcdsaHolds(m, r, s, Q)
         /\ verify(m, r, s, key) = "rejected" /\ m # 0 =>
              \A Q \in PointsOf(key) : EcdsaHolds(m, r, s, Q) => VerificationMeets(m, r, w, Q)
         /\ /\ InSignatureRange(r) /\ InSignatureRange(w) /\ (Len(key) = 2 => is_point_on_curve(key))
            => verify(m, r, s, key) \in {"accepted", "rejected"}
PROOF
  <1> DEFINE answer == verify(m, r, s, key)
             Assertions == /\ InSignatureRange(r) /\ InSignatureRange(w)
                           /\ Len(key) = 2 => is_point_on_curve(key)
             found == \E Q \in PointsOf(key) : VerifyPoint(m, r, w, Q)
  <1>1. c \in Curves /\ EC_ORDER \in Nat /\ FIELD_PRIME = c.FIELD_PRIME /\ BETA = c.BETA
    BY ParametersAre, CurveNumbers DEF Loaded
  <1>2. w \in 1 .. EC_ORDER - 1 /\ w \in Nat
    <2>1. w \in 1 .. EC_ORDER - 1
      BY InverseIs
    <2> QED
      BY <1>1, <2>1
  <1>3. m \in 0 .. Math!power2[N_ELEMENT_BITS_ECDSA] - 1
    BY RangeIs
  <1>4. answer = IF ~ Assertions THEN "AssertionError"
                 ELSE IF VerifyKey(m, r, w, key) THEN "accepted" ELSE "rejected"
    BY <1>3, Zenon DEF verify
  <1>5. Assertions => (VerifyKey(m, r, w, key) <=> found)
    BY VerifyKeyIs
  <1>6. ASSUME Assertions, NEW Q \in PointsOf(key)
        PROVE  /\ Q \in PointsOnCurve(c) /\ Q # Math!EC_INFINITY /\ r \in Nat
               /\ EcdsaHolds(m, r, s, Q) <=> Equation(c, m, r, w, Q)
    <2>1. Q \in Math!random_ec_point(FIELD_PRIME, ALPHA, BETA)
      BY DEF PointsOf
    <2>2. Q \in PointsOnCurve(c) /\ Q # Math!EC_INFINITY
      BY <1>1, <2>1, DrawnPointsAre
    <2>3. r \in Nat
      BY <1>6, RangeIs
    <2> QED
      BY <1>2, <2>2, <2>3, EquationIs
  <1> HIDE DEF answer
  <1>7. ASSUME answer = "accepted" PROVE \E Q \in PointsOf(key) : EcdsaHolds(m, r, s, Q)
    <2>1. Assertions /\ found
      BY <1>4, <1>5, <1>7
    <2>2. PICK Q \in PointsOf(key) : VerifyPoint(m, r, w, Q)
      BY <2>1
    <2>3. Equation(c, m, r, w, Q)
      BY <1>2, <1>6, <2>1, <2>2, VerifyPointIs
    <2> QED
      BY <1>6, <2>1, <2>2, <2>3
  <1>8. ASSUME answer = "rejected", m # 0, NEW Q \in PointsOf(key), EcdsaHolds(m, r, s, Q)
        PROVE  VerificationMeets(m, r, w, Q)
    <2>1. Assertions /\ ~ found
      BY <1>4, <1>5, <1>8
    <2>2. ~ VerifyPoint(m, r, w, Q)
      BY <2>1
    <2>3. InSignatureRange(m)
      BY <1>8 DEF InSignatureRange
    <2> QED
      BY <1>2, <1>6, <1>8, <2>1, <2>2, <2>3, VerifyPointIs
  <1>9. Assertions => answer \in {"accepted", "rejected"}
    BY <1>4
  <1> QED
    BY <1>7, <1>8, <1>9 DEF answer

\* signature.py:244-259: for every signature and every key, what verify accepts
\* satisfies the equation of ECDSA at a point of the key, and what it rejects does so
\* only where the computation of the AIR meets two points of one x.
THEOREM VerificationIsEcdsa == Spec => []VerifyIsEcdsa
PROOF
  <1>1. ASSUME SignatureInv PROVE VerifyIsEcdsa
    <2> DEFINE m == msg_hash
               r == signature[1]
               s == signature[2]
               Holds(Q) == EcdsaHolds(m, r, s, Q)
    <2> SUFFICES ASSUME verdict # None
                 PROVE  /\ verdict.answer = "accepted" => \E Q \in PointsOf(verdict.key) : Holds(Q)
                        /\ verdict.answer = "rejected" /\ m # 0 =>
                             \A Q \in PointsOf(verdict.key) : Holds(Q) => Meets(Q)
      BY Zenon DEF VerifyIsEcdsa
    <2>1. PICK c \in Curves, pi \in PiDigits : Loaded(c, pi)
      BY <1>1 DEF SignatureInv, SignerInv
    <2>2. PICK key \in KeysOfSigner \union OtherKeys :
            verdict = [key |-> key, answer |-> verify(m, r, s, key)]
      BY <1>1, Zenon DEF SignatureInv, VerdictInv
    <2>3. verdict.key = key /\ verdict.answer = verify(m, r, s, key)
      BY <2>2
    <2>4. /\ m \in Nat /\ m < Math!power2[N_ELEMENT_BITS_ECDSA] /\ r \in Int /\ s \in 1 .. EC_ORDER - 1
          /\ priv_key \in 0 .. EC_ORDER - 1 /\ priv_key # 0
      BY <1>1 DEF SignatureInv, SignerInv, VerdictInv
    <2>5. priv_key \in 1 .. EC_ORDER - 1
      <3>1. EC_ORDER \in Nat
        BY <2>1, ParametersAre, CurveNumbers
      <3> QED
        BY <2>4, <3>1
    <2>6. IsKey(key, c.FIELD_PRIME)
      BY <2>1, <2>5, KeysAre
    <2>7. \A Q : Meets(Q) <=> VerificationMeets(m, r, inv_mod_curve_size(s), Q)
      BY DEF Meets
    <2> HIDE DEF m, r, s
    <2> QED
      BY <2>1, <2>3, <2>4, <2>6, <2>7, AnswerIs
  <1> QED
    BY <1>1, SignatureInvariant, PTL

\* What sign makes satisfies the equation.
LEMMA SignedHolds ==
  ASSUME NEW c, NEW pi, Loaded(c, pi), NEW m \in Nat, NEW key \in 1 .. EC_ORDER - 1,
         NEW k \in 1 .. EC_ORDER - 1, NEW r \in Nat, NEW w \in Nat,
         (w * (m + r * key)) % EC_ORDER = k % EC_ORDER, r = Multiple(c, k, EC_GEN)[1]
  PROVE  Equation(c, m, r, w, Multiple(c, key, EC_GEN))
PROOF
  <1> DEFINE G == EC_GEN
             n == EC_ORDER
             d == m + r * key
             R == Multiple(c, w, Add(c, Multiple(c, m, G), Multiple(c, r, Multiple(c, key, G))))
  <1>1. c \in Curves /\ n = c.EC_ORDER /\ n \in Nat \ {0}
    BY ParametersAre, CurveNumbers DEF Loaded
  <1>2. G \in PointsOnCurve(c) /\ G # Math!EC_INFINITY
    BY ShiftIs
  <1>3. key \in Nat /\ k \in Nat /\ r * key \in Nat /\ d \in Nat
    BY <1>1
  <1>4. Equation(c, m, r, w, Multiple(c, key, G)) <=> R # Math!EC_INFINITY /\ R[1] = r
    BY Zenon DEF Equation
  <1>5. Multiple(c, r * key, G) = Multiple(c, r, Multiple(c, key, G))
    BY <1>1, <1>2, <1>3, MultipleProduct
  <1>6. Multiple(c, d, G) = Add(c, Multiple(c, m, G), Multiple(c, r * key, G))
    BY <1>1, <1>2, <1>3, MultipleSum
  <1> HIDE DEF d, n, G
  <1>7. Multiple(c, w * d, G) = Multiple(c, w, Multiple(c, d, G)) /\ w * d \in Nat
    BY <1>1, <1>2, <1>3, MultipleProduct
  <1>8. Multiple(c, w * d, G) = Multiple(c, k, G)
    <2>1. PICK v \in Nat : v = w * d
      BY <1>7
    <2>2. v % n = k % n
      BY <2>1 DEF d, n
    <2>3. Multiple(c, v % n, G) = Multiple(c, v, G) /\ Multiple(c, k % n, G) = Multiple(c, k, G)
      BY <1>1, <1>2, <1>3, MultipleReduced
    <2> QED
      BY <2>1, <2>2, <2>3
  <1>9. R = Multiple(c, k, G)
    BY <1>5, <1>6, <1>7, <1>8
  <1>10. Multiple(c, k, G) # Math!EC_INFINITY
    BY <1>1, <1>2, MultipleIsFinite DEF n
  <1> QED
    BY <1>4, <1>9, <1>10 DEF G

\* signature.py:138-141, 227: sign and verify agree: a message that sign finds
\* signable, other than 0, is accepted under the signer's point and under its x alone,
\* unless the computation of the AIR meets two points of one x.
THEOREM OwnSignaturesAccepted == Spec => []OwnSignatureAccepted
PROOF
  <1>1. ASSUME SignatureInv PROVE OwnSignatureAccepted
    <2> DEFINE m == msg_hash
               r == signature[1]
               s == signature[2]
               w == inv_mod_curve_size(s)
               key == verdict.key
               P == Times(priv_key, EC_GEN)
    <2> SUFFICES ASSUME m # 0, genuine, verdict # None, key \in KeysOfSigner
                 PROVE  verdict.answer = "accepted" \/ Meets(P)
      BY Zenon DEF OwnSignatureAccepted, SignableMessagesVerify
    <2>1. PICK c \in Curves, pi \in PiDigits : Loaded(c, pi)
      BY <1>1 DEF SignatureInv, SignerInv
    <2>2. /\ m \in Nat /\ m < Math!power2[N_ELEMENT_BITS_ECDSA]
          /\ priv_key \in 0 .. EC_ORDER - 1 /\ priv_key # 0 /\ signature # None
      BY <1>1 DEF SignatureInv, SignerInv, VerdictInv
    <2>3. priv_key \in 1 .. EC_ORDER - 1
      <3>1. EC_ORDER \in Nat
        BY <2>1, ParametersAre, CurveNumbers
      <3> QED
        BY <2>2, <3>1
    <2>4. PICK k \in 1 .. EC_ORDER - 1 : signature = SignatureOf(msg_hash, priv_key, k)
      BY <1>1 DEF SignatureInv, GenuineInv
    <2>5. Signed(c, m, priv_key, k, signature)
      BY <2>1, <2>2, <2>3, <2>4, SignatureIs
    <2>6. /\ r \in Int /\ InSignatureRange(r) /\ s \in 1 .. EC_ORDER - 1
          /\ w \in Nat /\ InSignatureRange(w)
          /\ (w * (m + r * priv_key)) % EC_ORDER = k % EC_ORDER
          /\ r = Multiple(c, k, EC_GEN)[1]
      BY <2>5 DEF Signed
    <2>7. r \in Nat
      BY <2>1, <2>6, RangeIs
    <2>8. key \in KeysOfSigner \union OtherKeys /\ verdict.answer = verify(m, r, s, key)
      <3>1. PICK kk \in KeysOfSigner \union OtherKeys :
              verdict = [key |-> kk, answer |-> verify(m, r, s, kk)]
        BY <1>1, Zenon DEF SignatureInv, VerdictInv
      <3> QED
        BY <3>1
    <2>9. IsKey(key, c.FIELD_PRIME) /\ P \in PointsOnCurve(c) /\ P # Math!EC_INFINITY
          /\ P = Multiple(c, priv_key, EC_GEN) /\ key \in {P, <<P[1]>>}
      <3>1. P = Multiple(c, priv_key, EC_GEN)
        BY <2>1, GroupNames
      <3> QED
        BY <2>1, <2>3, <2>8, <3>1, KeysAre DEF KeysOfSigner, private_to_stark_key
    <2>10. EcdsaHolds(m, r, s, P)
      <3> HIDE DEF m, r, w, P, s
      <3>1. Equation(c, m, r, w, P)
        BY <2>1, <2>2, <2>3, <2>6, <2>7, <2>9, SignedHolds
      <3> QED
        BY <2>1, <2>2, <2>6, <2>7, <2>9, <3>1, EquationIs DEF w
    <2>11. P \in PointsOf(key) /\ (Len(key) = 2 => is_point_on_curve(key))
      <3>1. P \in Pairs(c.FIELD_PRIME) /\ Len(P) = 2 /\ is_point_on_curve(P)
        BY <2>1, <2>9, PointsAre, PointsOfPair
      <3>2. Len(<<P[1]>>) = 1 /\ <<P[1]>>[1] = P[1]
        OBVIOUS
      <3>3. P \in Math!random_ec_point(FIELD_PRIME, ALPHA, BETA)
        BY <2>1, <2>9, ParametersAre, DrawnPointsAre
      <3> HIDE DEF P, key
      <3>4. P \in PointsOf(key)
        BY <2>9, <3>1, <3>2, <3>3 DEF PointsOf
      <3> QED
        BY <2>9, <3>1, <3>2, <3>4
    <2>12. Meets(P) <=> VerificationMeets(m, r, w, P)
      BY DEF Meets
    <2> HIDE DEF m, r, s, P, key
    <2>13. w = inv_mod_curve_size(s)
      OBVIOUS
    <2> HIDE DEF w
    <2>14. /\ verify(m, r, s, key) = "rejected" /\ m # 0 =>
                \A Q \in PointsOf(key) : EcdsaHolds(m, r, s, Q) => VerificationMeets(m, r, w, Q)
           /\ verify(m, r, s, key) \in {"accepted", "rejected"}
      BY <2>1, <2>2, <2>6, <2>9, <2>11, <2>13, AnswerIs
    <2> QED
      BY <2>8, <2>10, <2>11, <2>12, <2>14
  <1> QED
    BY <1>1, SignatureInvariant, PTL
=============================================================================
