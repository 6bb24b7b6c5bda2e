---------------------------- MODULE PricesProofs ----------------------------
(***************************************************************************)
(* Proofs about configurations and prices: the script and the program      *)
(* compute the same hashes, the hashes tell configurations apart, so the   *)
(* contract accepts what was approved and nothing else; a quorum stands    *)
(* behind every price, and every quorum gives one.                         *)
(***************************************************************************)
EXTENDS ConfiguredPrices, SumTheorems, SequenceTheorems

-----------------------------------------------------------------------------
(* The three folds of the configuration: over the digits of a number, over  *)
(* the fields that the script hashes, over the words that the program does. *)

Step(kind, b, x, w) ==
  IF kind = "digits" THEN x * b + w
  ELSE IF kind = "fields" THEN hash2(x, felt(convert2int(w)))
  ELSE hash_update_single(x, w)

\* What a fold computes over each set of indices.
IsTable(g, kind, b, base, seq, n) ==
  g = [T \in SUBSET (1 .. n) |->
         IF T = {} THEN base ELSE Step(kind, b, g[T \ {Max(T)}], seq[Max(T)])]

\* And after each index.
IsTrail(tr, kind, b, base, seq, n) ==
  /\ tr[0] = base
  /\ \A i \in 1 .. n : tr[i] = Step(kind, b, tr[i - 1], seq[i])

\* There is such a table: from one up to n, one up to n + 1.
LEMMA TableExists ==
  ASSUME NEW kind, NEW b, NEW base, NEW seq, NEW n \in Nat
  PROVE  \E g : IsTable(g, kind, b, base, seq, n)
PROOF
  <1> DEFINE Good == {m \in Nat : \E g : IsTable(g, kind, b, base, seq, m)}
  <1>1. 0 \in Good
    <2> DEFINE g == [T \in SUBSET (1 .. 0) |-> base]
    <2>1. \A T \in SUBSET (1 .. 0) : T = {}
      OBVIOUS
    <2>2. IsTable(g, kind, b, base, seq, 0)
      BY <2>1 DEF IsTable
    <2> QED
      BY <2>2
  <1>2. ASSUME NEW m \in Nat, m \in Good PROVE m + 1 \in Good
    <2>1. PICK g : IsTable(g, kind, b, base, seq, m)
      BY <1>2
    <2> DEFINE h == [T \in SUBSET (1 .. (m + 1)) |->
                       IF m + 1 \in T THEN Step(kind, b, g[T \ {m + 1}], seq[m + 1]) ELSE g[T]]
    <2>2. ASSUME NEW T \in SUBSET (1 .. (m + 1))
          PROVE  h[T] = IF T = {} THEN base ELSE Step(kind, b, h[T \ {Max(T)}], seq[Max(T)])
      <3>1. T \ {m + 1} \in SUBSET (1 .. m) /\ (m + 1 \notin T => T \in SUBSET (1 .. m))
        OBVIOUS
      <3>2. CASE m + 1 \in T
        <4>1. Max(T) = m + 1
          BY <3>2, MaxOfIndices
        <4>2. h[T] = Step(kind, b, g[T \ {m + 1}], seq[m + 1]) /\ h[T \ {m + 1}] = g[T \ {m + 1}]
          BY <3>2
        <4> HIDE DEF h
        <4> QED
          BY <3>2, <4>1, <4>2
      <3>3. CASE m + 1 \notin T
        <4>1. h[T] = g[T]
          BY <3>3
        <4>2. g[T] = IF T = {} THEN base ELSE Step(kind, b, g[T \ {Max(T)}], seq[Max(T)])
          BY <2>1, <3>1, <3>3 DEF IsTable
        <4>3. h[T \ {Max(T)}] = g[T \ {Max(T)}]
          BY <3>3
        <4> HIDE DEF h
        <4> QED
          BY <4>1, <4>2, <4>3
      <3> QED
        BY <3>2, <3>3
    <2>3. IsTable(h, kind, b, base, seq, m + 1)
      <3>1. h = [T \in SUBSET (1 .. (m + 1)) |-> h[T]]
        OBVIOUS
      <3> HIDE DEF h
      <3> QED
        BY <2>2, <3>1 DEF IsTable
    <2> HIDE DEF h
    <2> QED
      BY <2>3
  <1> HIDE DEF Good
  <1>3. n \in Good
    BY <1>1, <1>2, NaturalInduction
  <1> QED
    BY <1>3 DEF Good

\* The table of 1 .. n is where the trail ends.
LEMMA TableHasTrail ==
  ASSUME NEW kind, NEW b, NEW base, NEW seq, NEW n \in Nat, NEW h,
         IsTable(h, kind, b, base, seq, n)
  PROVE  \E tr : IsTrail(tr, kind, b, base, seq, n) /\ tr[n] = h[1 .. n]
PROOF
  <1> DEFINE tr == [i \in 0 .. n |-> h[1 .. i]]
  <1>1. \A T \in SUBSET (1 .. n) :
          h[T] = IF T = {} THEN base ELSE Step(kind, b, h[T \ {Max(T)}], seq[Max(T)])
    BY DEF IsTable
  <1>2. tr[0] = base
    <2>1. 1 .. 0 = {} /\ {} \in SUBSET (1 .. n) /\ 0 \in 0 .. n
      OBVIOUS
    <2>2. tr[0] = h[1 .. 0]
      BY <2>1
    <2> HIDE DEF tr
    <2>3. h[{}] = base
      BY <1>1, <2>1
    <2> QED
      BY <2>1, <2>2, <2>3
  <1>3. ASSUME NEW i \in 1 .. n PROVE tr[i] = Step(kind, b, tr[i - 1], seq[i])
    <2>1. 1 .. i \in SUBSET (1 .. n) /\ i \in 1 .. i /\ i \in Nat \ {0} /\ 1 .. i # {}
      OBVIOUS
    <2>2. Max(1 .. i) = i
      BY <2>1, MaxOfIndices
    <2>3. (1 .. i) \ {i} = 1 .. (i - 1) /\ i - 1 \in 0 .. n /\ i \in 0 .. n
      OBVIOUS
    <2>4. tr[i] = h[1 .. i] /\ tr[i - 1] = h[(1 .. i) \ {i}]
      BY <2>3
    <2> HIDE DEF tr
    <2>5. h[1 .. i] = Step(kind, b, h[(1 .. i) \ {i}], seq[i])
      BY <1>1, <2>1, <2>2
    <2> QED
      BY <2>4, <2>5
  <1>4. tr[n] = h[1 .. n]
    OBVIOUS
  <1> HIDE DEF tr
  <1>5. IsTrail(tr, kind, b, base, seq, n)
    BY <1>2, <1>3 DEF IsTrail
  <1> QED
    BY <1>4, <1>5

\* The number of a list of digits.
LEMMA ValueHasTrail ==
  ASSUME NEW b, NEW seq, NEW n \in Nat, DOMAIN seq = 1 .. n
  PROVE  \E tr : IsTrail(tr, "digits", b, 0, seq, n) /\ tr[n] = Value(b, seq)
PROOF
  <1> DEFINE IsFold(g) ==
               g = [T \in SUBSET DOMAIN seq |->
                      IF T = {} THEN 0 ELSE g[T \ {Max(T)}] * b + seq[Max(T)]]
             h == CHOOSE g : IsFold(g)
  <1>1. Value(b, seq) = h[DOMAIN seq]
    BY DEF Value, FoldLeft, MapThenFoldSet
  <1>2. \A g : IsFold(g) <=> IsTable(g, "digits", b, 0, seq, n)
    BY DEF IsTable, Step
  <1> HIDE DEF IsFold
  <1>3. IsTable(h, "digits", b, 0, seq, n)
    BY <1>2, TableExists
  <1> HIDE DEF h
  <1> QED
    BY <1>1, <1>3, TableHasTrail

\* The hash of the fields of the script, the last of which is their number.
LEMMA FieldsHaveTrail ==
  ASSUME NEW values, NEW n \in Nat,
         DOMAIN Append(values, StrValue(10, decimal[Len(values)])) = 1 .. n
  PROVE  \E tr : /\ IsTrail(tr, "fields", 0, felt(0),
                            Append(values, StrValue(10, decimal[Len(values)])), n)
                 /\ tr[n] = hash_fields(values)
PROOF
  <1> DEFINE seq == Append(values, StrValue(10, decimal[Len(values)]))
             IsFold(g) ==
               g = [T \in SUBSET DOMAIN seq |->
                      IF T = {} THEN felt(0)
                      ELSE hash2(g[T \ {Max(T)}], felt(convert2int(seq[Max(T)])))]
             h == CHOOSE g : IsFold(g)
  <1>1. hash_fields(values) = h[DOMAIN seq]
    BY DEF hash_fields, FoldLeft, MapThenFoldSet
  <1>2. DOMAIN seq = 1 .. n
    OBVIOUS
  <1> HIDE DEF seq
  <1>3. \A g : IsFold(g) <=> IsTable(g, "fields", 0, felt(0), seq, n)
    BY <1>2 DEF IsTable, Step
  <1> HIDE DEF IsFold
  <1>4. IsTable(h, "fields", 0, felt(0), seq, n)
    BY <1>3, TableExists
  <1> HIDE DEF h
  <1>5. \E tr : IsTrail(tr, "fields", 0, felt(0), seq, n) /\ tr[n] = hash_fields(values)
    BY <1>1, <1>2, <1>4, TableHasTrail
  <1> QED
    BY <1>5 DEF seq

\* The state of the hash of the program.
LEMMA UpdateHasTrail ==
  ASSUME NEW state, NEW seq, NEW n \in Nat, DOMAIN seq = 1 .. n
  PROVE  \E tr : IsTrail(tr, "words", 0, state, seq, n) /\ tr[n] = hash_update(state, seq)
PROOF
  <1> DEFINE IsFold(g) ==
               g = [T \in SUBSET DOMAIN seq |->
                      IF T = {} THEN state
                      ELSE hash_update_single(g[T \ {Max(T)}], seq[Max(T)])]
             h == CHOOSE g : IsFold(g)
  <1>1. hash_update(state, seq) = h[DOMAIN seq]
    BY DEF hash_update, FoldLeft, MapThenFoldSet
  <1>2. \A g : IsFold(g) <=> IsTable(g, "words", 0, state, seq, n)
    BY DEF IsTable, Step
  <1> HIDE DEF IsFold
  <1>3. IsTable(h, "words", 0, state, seq, n)
    BY <1>2, TableExists
  <1> HIDE DEF h
  <1> QED
    BY <1>1, <1>3, TableHasTrail

\* A fold depends on nothing else.
LEMMA TrailsAgree ==
  ASSUME NEW kind, NEW b, NEW base, NEW seq, NEW seq2, NEW n \in Nat, NEW tr, NEW tr2,
         IsTrail(tr, kind, b, base, seq, n), IsTrail(tr2, kind, b, base, seq2, n),
         \A i \in 1 .. n : seq[i] = seq2[i]
  PROVE  tr[n] = tr2[n]
PROOF
  <1> DEFINE Good == {m \in Nat : m <= n => tr[m] = tr2[m]}
  <1>1. 0 \in Good
    BY DEF IsTrail
  <1>2. ASSUME NEW m \in Nat, m \in Good PROVE m + 1 \in Good
    <2> SUFFICES ASSUME m + 1 <= n PROVE tr[m + 1] = tr2[m + 1]
      OBVIOUS
    <2>1. m + 1 \in 1 .. n /\ (m + 1) - 1 = m /\ tr[m] = tr2[m]
      BY <1>2
    <2> HIDE DEF Good
    <2>2. tr[m + 1] = Step(kind, b, tr[m], seq[m + 1])
      BY <2>1 DEF IsTrail
    <2>3. tr2[m + 1] = Step(kind, b, tr2[m], seq2[m + 1])
      BY <2>1 DEF IsTrail
    <2>4. seq[m + 1] = seq2[m + 1]
      BY <2>1
    <2> QED
      BY <2>1, <2>2, <2>3, <2>4
  <1> HIDE DEF Good
  <1>3. n \in Good
    BY <1>1, <1>2, NaturalInduction
  <1> QED
    BY <1>3 DEF Good

-----------------------------------------------------------------------------
(* Numbers and their digits.                                               *)

\* Digits in a base make a number.
LEMMA ValueType ==
  ASSUME NEW b \in Nat, NEW seq \in Seq(Nat)
  PROVE  Value(b, seq) \in Nat
PROOF
  <1>1. Len(seq) \in Nat /\ DOMAIN seq = 1 .. Len(seq) /\ \A i \in 1 .. Len(seq) : seq[i] \in Nat
    OBVIOUS
  <1>2. PICK tr : IsTrail(tr, "digits", b, 0, seq, Len(seq)) /\ tr[Len(seq)] = Value(b, seq)
    BY <1>1, ValueHasTrail
  <1> DEFINE Good == {m \in Nat : m <= Len(seq) => tr[m] \in Nat}
  <1>3. 0 \in Good
    BY <1>2 DEF IsTrail
  <1>4. ASSUME NEW m \in Nat, m \in Good PROVE m + 1 \in Good
    <2> SUFFICES ASSUME m + 1 <= Len(seq) PROVE tr[m + 1] \in Nat
      OBVIOUS
    <2>1. m + 1 \in 1 .. Len(seq) /\ (m + 1) - 1 = m /\ tr[m] \in Nat
      BY <1>1, <1>4
    <2>2. tr[m + 1] = tr[m] * b + seq[m + 1]
      BY <1>2, <2>1 DEF IsTrail, Step
    <2>3. seq[m + 1] \in Nat
      BY <1>1, <2>1
    <2>4. \A x, d \in Nat : x * b + d \in Nat
      OBVIOUS
    <2>5. tr[m] * b + seq[m + 1] \in Nat
      BY <2>1, <2>3, <2>4
    <2> QED
      BY <2>2, <2>5
  <1> HIDE DEF Good
  <1>5. Len(seq) \in Good
    BY <1>1, <1>3, <1>4, NaturalInduction
  <1> QED
    BY <1>1, <1>2, <1>5 DEF Good

\* One digit more.
LEMMA ValueOfAppend ==
  ASSUME NEW b \in Nat, NEW seq \in Seq(Nat), NEW d \in Nat
  PROVE  Value(b, Append(seq, d)) = Value(b, seq) * b + d
PROOF
  <1> DEFINE longer == Append(seq, d)
             n == Len(seq)
  <1>1. /\ n \in Nat /\ DOMAIN seq = 1 .. n /\ DOMAIN longer = 1 .. (n + 1)
        /\ \A i \in 1 .. n : seq[i] = longer[i]
        /\ longer[n + 1] = d
    OBVIOUS
  <1> HIDE DEF longer, n
  <1>2. PICK tr : IsTrail(tr, "digits", b, 0, seq, n) /\ tr[n] = Value(b, seq)
    BY <1>1, ValueHasTrail
  <1>3. PICK tr2 : IsTrail(tr2, "digits", b, 0, longer, n + 1) /\ tr2[n + 1] = Value(b, longer)
    BY <1>1, ValueHasTrail
  <1>4. IsTrail(tr2, "digits", b, 0, longer, n)
    BY <1>1, <1>3 DEF IsTrail
  <1>5. tr[n] = tr2[n]
    BY <1>1, <1>2, <1>4, TrailsAgree
  <1>6. n + 1 \in 1 .. (n + 1) /\ (n + 1) - 1 = n
    BY <1>1
  <1>7. tr2[n + 1] = tr2[n] * b + longer[n + 1]
    BY <1>3, <1>6 DEF IsTrail, Step
  <1>8. Value(b, longer) = Value(b, seq) * b + d
    BY <1>1, <1>2, <1>3, <1>5, <1>7
  <1> QED
    BY <1>8 DEF longer

\* Zeros in front change nothing: the padded id is the id.
LEMMA ValueOfPadded ==
  ASSUME NEW b \in Nat, NEW seq \in Seq(Nat), NEW k \in Nat
  PROVE  Value(b, [i \in 1 .. k |-> 0] \o seq) = Value(b, seq)
PROOF
  <1> DEFINE zeros == [i \in 1 .. k |-> 0]
             padded == zeros \o seq
             n == Len(seq)
  <1>1. /\ n \in Nat /\ DOMAIN seq = 1 .. n
        /\ DOMAIN padded = 1 .. (k + n)
        /\ \A i \in 1 .. k : padded[i] = 0
        /\ \A i \in 1 .. n : padded[k + i] = seq[i] /\ seq[i] \in Nat
    <2>1. zeros \in Seq(Nat) /\ Len(zeros) = k /\ \A i \in 1 .. k : zeros[i] = 0
      OBVIOUS
    <2> HIDE DEF zeros
    <2>2. n \in Nat /\ DOMAIN seq = 1 .. n /\ \A i \in 1 .. n : seq[i] \in Nat
      OBVIOUS
    <2>3. Len(padded) = k + n /\ DOMAIN padded = 1 .. (k + n)
      BY <2>1, SMTT(30)
    <2>4. \A i \in 1 .. k : padded[i] = 0
      BY <2>1, <2>2, SMTT(30)
    <2>5. \A i \in 1 .. n : padded[k + i] = seq[i]
      BY <2>1, <2>2, SMTT(30)
    <2> QED
      BY <2>2, <2>3, <2>4, <2>5, Zenon
  <1>2. PICK tr : IsTrail(tr, "digits", b, 0, padded, k + n) /\ tr[k + n] = Value(b, padded)
    <2> HIDE DEF padded
    <2> QED
      BY <1>1, ValueHasTrail
  <1>3. PICK tr2 : IsTrail(tr2, "digits", b, 0, seq, n) /\ tr2[n] = Value(b, seq)
    BY <1>1, ValueHasTrail
  <1> HIDE DEF padded, n
  <1>4. tr[k] = 0
    <2> DEFINE Good == {m \in Nat : m <= k => tr[m] = 0}
    <2>1. 0 \in Good
      BY <1>2 DEF IsTrail
    <2>2. ASSUME NEW m \in Nat, m \in Good PROVE m + 1 \in Good
      <3> SUFFICES ASSUME m + 1 <= k PROVE tr[m + 1] = 0
        OBVIOUS
      <3>1. m + 1 \in 1 .. (k + n) /\ m + 1 \in 1 .. k /\ (m + 1) - 1 = m /\ tr[m] = 0
        BY <1>1, <2>2
      <3>2. tr[m + 1] = tr[m] * b + padded[m + 1]
        BY <1>2, <3>1 DEF IsTrail, Step
      <3> QED
        BY <1>1, <3>1, <3>2
    <2> HIDE DEF Good
    <2>3. k \in Good
      BY <2>1, <2>2, NaturalInduction
    <2> QED
      BY <2>3 DEF Good
  <1>5. tr[k + n] = tr2[n]
    <2> DEFINE Good == {m \in Nat : m <= n => tr[k + m] = tr2[m]}
    <2>1. 0 \in Good
      BY <1>3, <1>4 DEF IsTrail
    <2>2. ASSUME NEW m \in Nat, m \in Good PROVE m + 1 \in Good
      <3> SUFFICES ASSUME m + 1 <= n PROVE tr[k + (m + 1)] = tr2[m + 1]
        OBVIOUS
      <3>1. /\ k + (m + 1) \in 1 .. (k + n) /\ m + 1 \in 1 .. n /\ (m + 1) - 1 = m
            /\ (k + (m + 1)) - 1 = k + m /\ tr[k + m] = tr2[m]
        BY <1>1, <2>2
      <3> HIDE DEF Good
      <3>2. tr[k + (m + 1)] = tr[k + m] * b + padded[k + (m + 1)]
        BY <1>2, <3>1 DEF IsTrail, Step
      <3>3. tr2[m + 1] = tr2[m] * b + seq[m + 1]
        BY <1>3, <3>1 DEF IsTrail, Step
      <3>4. padded[k + (m + 1)] = seq[m + 1]
        BY <1>1, <3>1
      <3> QED
        BY <3>1, <3>2, <3>3, <3>4
    <2> HIDE DEF Good
    <2>3. n \in Good
      BY <1>1, <2>1, <2>2, NaturalInduction
    <2> QED
      BY <1>1, <2>3 DEF Good
  <1>6. Value(b, padded) = Value(b, seq)
    BY <1>2, <1>3, <1>5
  <1> QED
    BY <1>6 DEF padded

\* The digits of the numbers up to k.
IsDecimal(g, k) ==
  g = [m \in 0 .. k |-> IF m < 10 THEN <<m>> ELSE Append(g[m \div 10], m % 10)]

\* A number without its last digit is smaller.
LEMMA TenthIsSmaller ==
  \A m \in Nat : m >= 10 => m \div 10 \in Nat /\ m \div 10 < m /\ m % 10 \in Nat
                          /\ (m \div 10) * 10 + (m % 10) = m
BY SMT

\* The definition of decimal defines: a table of the numbers up to any k,
LEMMA DecimalTableExists ==
  ASSUME NEW k \in Nat
  PROVE  \E g : IsDecimal(g, k)
PROOF
  <1> DEFINE Good == {m \in Nat : \E g : IsDecimal(g, m)}
  <1>1. 0 \in Good
    <2> DEFINE g == [m \in 0 .. 0 |-> <<m>>]
    <2>1. IsDecimal(g, 0)
      BY DEF IsDecimal
    <2> QED
      BY <2>1
  <1>2. ASSUME NEW m \in Nat, m \in Good PROVE m + 1 \in Good
    <2>1. PICK g : IsDecimal(g, m)
      BY <1>2
    <2> DEFINE h == [j \in 0 .. (m + 1) |-> IF j < 10 THEN <<j>> ELSE Append(g[j \div 10], j % 10)]
    <2>2. \A j \in 0 .. m : h[j] = g[j]
      <3> SUFFICES ASSUME NEW j \in 0 .. m PROVE h[j] = g[j]
        OBVIOUS
      <3>1. g[j] = IF j < 10 THEN <<j>> ELSE Append(g[j \div 10], j % 10)
        BY <2>1 DEF IsDecimal
      <3>2. j \in 0 .. (m + 1)
        OBVIOUS
      <3>3. h[j] = IF j < 10 THEN <<j>> ELSE Append(g[j \div 10], j % 10)
        BY <3>2
      <3> QED
        BY <3>1, <3>3
    <2>3. \A j \in 0 .. (m + 1) : j >= 10 => j \div 10 \in 0 .. m
      BY TenthIsSmaller
    <2>4. \A j \in 0 .. (m + 1) : j >= 10 => g[j \div 10] = h[j \div 10]
      <3> HIDE DEF h
      <3> QED
        BY <2>2, <2>3
    <2>5. \A j \in 0 .. (m + 1) : h[j] = IF j < 10 THEN <<j>> ELSE Append(h[j \div 10], j % 10)
      <3> SUFFICES ASSUME NEW j \in 0 .. (m + 1)
                   PROVE  h[j] = IF j < 10 THEN <<j>> ELSE Append(h[j \div 10], j % 10)
        OBVIOUS
      <3>1. h[j] = IF j < 10 THEN <<j>> ELSE Append(g[j \div 10], j % 10)
        OBVIOUS
      <3>2. j \in Int /\ (~ (j < 10) => j >= 10)
        OBVIOUS
      <3>3. ~ (j < 10) => g[j \div 10] = h[j \div 10]
        BY <2>4, <3>2
      <3> HIDE DEF h
      <3> QED
        BY <3>1, <3>3
    <2>6. h = [j \in 0 .. (m + 1) |-> h[j]]
      OBVIOUS
    <2> HIDE DEF h
    <2>7. IsDecimal(h, m + 1)
      BY <2>5, <2>6 DEF IsDecimal
    <2> QED
      BY <2>7
  <1> HIDE DEF Good
  <1>3. k \in Good
    BY <1>1, <1>2, NaturalInduction
  <1> QED
    BY <1>3 DEF Good

\* and the tables agree,
LEMMA DecimalTablesAgree ==
  ASSUME NEW k \in Nat, NEW k2 \in Nat, NEW g, NEW g2, IsDecimal(g, k), IsDecimal(g2, k2),
         NEW n \in Nat, n <= k, n <= k2
  PROVE  g[n] = g2[n]
PROOF
  <1> DEFINE Good == {m \in Nat : \A j \in 0 .. m : j <= k /\ j <= k2 => g[j] = g2[j]}
  <1>1. 0 \in Good
    BY DEF IsDecimal
  <1>2. ASSUME NEW m \in Nat, m \in Good PROVE m + 1 \in Good
    <2> SUFFICES ASSUME m + 1 <= k, m + 1 <= k2 PROVE g[m + 1] = g2[m + 1]
      BY <1>2
    <2>1. m + 1 \in 0 .. k /\ m + 1 \in 0 .. k2
      OBVIOUS
    <2>2. /\ g[m + 1] = IF m + 1 < 10 THEN <<m + 1>> ELSE Append(g[(m + 1) \div 10], (m + 1) % 10)
          /\ g2[m + 1] = IF m + 1 < 10 THEN <<m + 1>> ELSE Append(g2[(m + 1) \div 10], (m + 1) % 10)
      BY <2>1 DEF IsDecimal
    <2>3. ASSUME m + 1 >= 10 PROVE g[(m + 1) \div 10] = g2[(m + 1) \div 10]
      <3>1. (m + 1) \div 10 \in Nat /\ (m + 1) \div 10 < m + 1
        BY <2>3, TenthIsSmaller
      <3> QED
        BY <1>2, <3>1
    <2> QED
      BY <2>2, <2>3
  <1> HIDE DEF Good
  <1>3. n \in Good
    BY <1>1, <1>2, NaturalInduction
  <1> QED
    BY <1>3 DEF Good

\* so that decimal is as defined.
LEMMA DecimalIs ==
  \A n \in Nat : decimal[n] = IF n < 10 THEN <<n>> ELSE Append(decimal[n \div 10], n % 10)
PROOF
  <1> DEFINE table(n) == CHOOSE g : IsDecimal(g, n)
             f == [n \in Nat |-> table(n)[n]]
  <1>1. \A n \in Nat : IsDecimal(table(n), n)
    BY DecimalTableExists
  <1>2. ASSUME NEW n \in Nat
        PROVE  f[n] = IF n < 10 THEN <<n>> ELSE Append(f[n \div 10], n % 10)
    <2> HIDE DEF table
    <2>1. n \in 0 .. n
      OBVIOUS
    <2>2. table(n)[n] = IF n < 10 THEN <<n>> ELSE Append(table(n)[n \div 10], n % 10)
      BY <1>1, <2>1 DEF IsDecimal
    <2>3. ASSUME n >= 10 PROVE table(n)[n \div 10] = f[n \div 10]
      <3>1. n \div 10 \in Nat /\ n \div 10 <= n
        BY <2>3, TenthIsSmaller
      <3>2. table(n)[n \div 10] = table(n \div 10)[n \div 10]
        BY <1>1, <3>1, DecimalTablesAgree
      <3> QED
        BY <3>1, <3>2
    <2> QED
      BY <2>2, <2>3
  <1>3. f = [n \in Nat |-> IF n < 10 THEN <<n>> ELSE Append(f[n \div 10], n % 10)]
    <2>1. f = [n \in Nat |-> f[n]]
      OBVIOUS
    <2> HIDE DEF f
    <2> QED
      BY <1>2, <2>1
  <1> HIDE DEF f
  <1>4. decimal = [n \in Nat |-> IF n < 10 THEN <<n>> ELSE Append(decimal[n \div 10], n % 10)]
    BY <1>3 DEF decimal
  <1> QED
    BY <1>4

\* A number is the value of its digits.
LEMMA ValueOfDecimal ==
  ASSUME NEW n \in Nat
  PROVE  Value(10, decimal[n]) = n /\ decimal[n] \in Seq(Nat)
PROOF
  <1> DEFINE Good == {m \in Nat : \A j \in 0 .. m :
                                   decimal[j] \in Seq(Nat) /\ Value(10, decimal[j]) = j}
  <1>1. \A j \in Nat : j < 10 => decimal[j] \in Seq(Nat) /\ Value(10, decimal[j]) = j
    <2> SUFFICES ASSUME NEW j \in Nat, j < 10
                 PROVE  decimal[j] \in Seq(Nat) /\ Value(10, decimal[j]) = j
      OBVIOUS
    <2>1. decimal[j] = <<j>>
      BY DecimalIs
    <2>2. PICK tr : IsTrail(tr, "digits", 10, 0, <<j>>, 1) /\ tr[1] = Value(10, <<j>>)
      <3>1. DOMAIN <<j>> = 1 .. 1
        OBVIOUS
      <3> QED
        BY <3>1, ValueHasTrail
    <2>3. tr[1] = tr[0] * 10 + j /\ tr[0] = 0
      BY <2>2 DEF IsTrail, Step
    <2> QED
      BY <2>1, <2>2, <2>3
  <1>2. 0 \in Good
    BY <1>1
  <1>3. ASSUME NEW m \in Nat, m \in Good PROVE m + 1 \in Good
    <2> SUFFICES decimal[m + 1] \in Seq(Nat) /\ Value(10, decimal[m + 1]) = m + 1
      BY <1>3
    <2>1. CASE m + 1 < 10
      BY <1>1, <2>1
    <2>2. CASE m + 1 >= 10
      <3> DEFINE q == (m + 1) \div 10
                 r == (m + 1) % 10
      <3>1. q \in 0 .. m /\ r \in Nat /\ q * 10 + r = m + 1
        BY <2>2, TenthIsSmaller
      <3>2. decimal[m + 1] = Append(decimal[q], r)
        <4>1. m + 1 \in Nat /\ ~ (m + 1 < 10)
          BY <2>2
        <4> QED
          BY <4>1, DecimalIs, Zenon
      <3>3. decimal[q] \in Seq(Nat) /\ Value(10, decimal[q]) = q
        BY <1>3, <3>1
      <3> HIDE DEF q, r, Good
      <3>4. Value(10, Append(decimal[q], r)) = Value(10, decimal[q]) * 10 + r
        BY <3>1, <3>3, ValueOfAppend
      <3> QED
        BY <3>1, <3>2, <3>3, <3>4
    <2> QED
      BY <2>1, <2>2
  <1> HIDE DEF Good
  <1>4. n \in Good
    BY <1>2, <1>3, NaturalInduction
  <1> QED
    BY <1>4 DEF Good

-----------------------------------------------------------------------------
(* The hash of a list of words: a chain of hashes from 0, then their number. *)

IsChain(c, words) ==
  /\ c[0] = felt(0)
  /\ \A i \in 1 .. Len(words) : c[i] = hash2(c[i - 1], felt(words[i]))

HasDigest(words, hash) ==
  \E c : IsChain(c, words) /\ hash = hash2(c[Len(words)], felt(Len(words)))

\* A list has one hash,
LEMMA DigestIsOne ==
  ASSUME NEW words, Len(words) \in Nat, NEW hash, NEW hash2nd,
         HasDigest(words, hash), HasDigest(words, hash2nd)
  PROVE  hash = hash2nd
PROOF
  <1> DEFINE n == Len(words)
  <1>1. PICK c : IsChain(c, words) /\ hash = hash2(c[n], felt(n))
    BY DEF HasDigest
  <1>2. PICK d : IsChain(d, words) /\ hash2nd = hash2(d[n], felt(n))
    BY DEF HasDigest
  <1> DEFINE Good == {m \in Nat : m <= n => c[m] = d[m]}
  <1>3. 0 \in Good
    BY <1>1, <1>2 DEF IsChain
  <1>4. ASSUME NEW m \in Nat, m \in Good PROVE m + 1 \in Good
    <2> SUFFICES ASSUME m + 1 <= n PROVE c[m + 1] = d[m + 1]
      OBVIOUS
    <2>1. m + 1 \in 1 .. Len(words) /\ (m + 1) - 1 = m /\ c[m] = d[m]
      BY <1>4
    <2> HIDE DEF Good
    <2> QED
      BY <1>1, <1>2, <2>1 DEF IsChain
  <1> HIDE DEF Good
  <1>5. n \in Good
    BY <1>3, <1>4, NaturalInduction
  <1> QED
    BY <1>1, <1>2, <1>5 DEF Good

\* and a hash is of one list, however the list came about.
LEMMA DigestTellsApart ==
  ASSUME NEW words \in Seq(Int), NEW words2 \in Seq(Int), NEW hash,
         HasDigest(words, hash), HasDigest(words2, hash)
  PROVE  words = words2
PROOF
  <1> DEFINE n == Len(words)
  <1>1. PICK c : IsChain(c, words) /\ hash = hash2(c[n], felt(n))
    BY DEF HasDigest
  <1>2. PICK d : IsChain(d, words2) /\ hash = hash2(d[Len(words2)], felt(Len(words2)))
    BY DEF HasDigest
  <1>3. Len(words2) = n /\ c[n] = d[n] /\ n \in Nat
    BY <1>1, <1>2 DEF hash2, felt
  <1> HIDE DEF n
  <1>4. ASSUME NEW i \in 1 .. n, c[i] = d[i]
        PROVE  c[i - 1] = d[i - 1] /\ words[i] = words2[i]
    <2>1. c[i] = hash2(c[i - 1], felt(words[i]))
      BY <1>1 DEF IsChain, n
    <2>2. d[i] = hash2(d[i - 1], felt(words2[i]))
      BY <1>2, <1>3 DEF IsChain
    <2>3. \A x, y, x2, y2 : hash2(x, felt(y)) = hash2(x2, felt(y2)) => x = x2 /\ y = y2
      BY DEF hash2, felt
    <2>4. hash2(c[i - 1], felt(words[i])) = hash2(d[i - 1], felt(words2[i]))
      BY <1>4, <2>1, <2>2
    <2> QED
      BY <2>3, <2>4
  <1> DEFINE Good == {m \in Nat : m <= n => c[n - m] = d[n - m]}
  <1>5. 0 \in Good
    <2>1. n - 0 = n
      BY <1>3
    <2> QED
      BY <1>3, <2>1
  <1>6. ASSUME NEW m \in Nat, m \in Good PROVE m + 1 \in Good
    <2> SUFFICES ASSUME m + 1 <= n PROVE c[n - (m + 1)] = d[n - (m + 1)]
      OBVIOUS
    <2>1. n - m \in 1 .. n /\ (n - m) - 1 = n - (m + 1) /\ c[n - m] = d[n - m]
      BY <1>3, <1>6
    <2> HIDE DEF Good
    <2>2. c[(n - m) - 1] = d[(n - m) - 1]
      BY <1>4, <2>1
    <2> QED
      BY <2>1, <2>2
  <1>7. \A m \in Nat : m \in Good
    <2> HIDE DEF Good
    <2> QED
      BY <1>5, <1>6, NaturalInduction
  <1>8. \A i \in 1 .. n : words[i] = words2[i]
    <2> SUFFICES ASSUME NEW i \in 1 .. n PROVE words[i] = words2[i]
      OBVIOUS
    <2>1. n - i \in Nat /\ n - i <= n /\ n - (n - i) = i
      BY <1>3
    <2>2. c[i] = d[i]
      BY <1>7, <2>1
    <2> QED
      BY <1>4, <2>2
  <1> QED
    BY <1>3, <1>8, SMTT(30) DEF n

\* One list and then another; the provers reason about it by the lemmas.
Join(x, y) == x \o y

LEMMA Associates ==
  ASSUME NEW x \in Seq(Int), NEW y \in Seq(Int), NEW z \in Seq(Int)
  PROVE  Join(Join(x, y), z) = Join(x, Join(y, z))
BY ConcatAssociative, SMTT(30) DEF Join

LEMMA Joined ==
  ASSUME NEW S, NEW x \in Seq(S), NEW y \in Seq(S)
  PROVE  Join(x, y) \in Seq(S)
BY ConcatProperties DEF Join

\* The script hashes the numbers of its fields.
LEMMA FieldsDigest ==
  ASSUME NEW S, NEW values \in Seq(S)
  PROVE  HasDigest(Numbers(values), hash_fields(values))
PROOF
  <1> DEFINE n == Len(values)
             last == StrValue(10, decimal[Len(values)])
             seq == Append(values, last)
  <1>1. /\ n \in Nat /\ DOMAIN values = 1 .. n /\ DOMAIN seq = 1 .. (n + 1)
        /\ \A i \in 1 .. n : seq[i] = values[i]
        /\ seq[n + 1] = last
    <2> HIDE DEF last
    <2> QED
      OBVIOUS
  <1>2. convert2int(last) = n
    BY <1>1, ValueOfDecimal DEF convert2int, StrValue
  <1>3. PICK tr : IsTrail(tr, "fields", 0, felt(0), seq, n + 1) /\ tr[n + 1] = hash_fields(values)
    <2>1. n + 1 \in Nat
      BY <1>1
    <2> QED
      BY <1>1, <2>1, FieldsHaveTrail
  <1>4. Len(Numbers(values)) = n /\ \A i \in 1 .. n : Numbers(values)[i] = convert2int(values[i])
    <2> HIDE DEF n
    <2> QED
      BY <1>1 DEF Numbers
  <1> HIDE DEF n, last, seq
  <1>5. tr[0] = felt(0) /\ \A i \in 1 .. (n + 1) : tr[i] = hash2(tr[i - 1], felt(convert2int(seq[i])))
    BY <1>3 DEF IsTrail, Step
  <1>6. IsChain(tr, Numbers(values))
    <2>1. \A i \in 1 .. n : i \in 1 .. (n + 1)
      BY <1>1
    <2> QED
      BY <1>1, <1>4, <1>5, <2>1 DEF IsChain
  <1>7. hash_fields(values) = hash2(tr[n], felt(n))
    <2>1. n + 1 \in 1 .. (n + 1) /\ (n + 1) - 1 = n
      BY <1>1
    <2> QED
      BY <1>1, <1>2, <1>3, <1>5, <2>1
  <1> QED
    BY <1>4, <1>6, <1>7 DEF HasDigest

\* The state of the program's hash after these words.
Accumulated(state, words) ==
  \E c : /\ IsChain(c, words)
         /\ state = [current_hash |-> c[Len(words)], n_words |-> Len(words)]

LEMMA NothingAccumulated == Accumulated(hash_init, <<>>)
PROOF
  <1> DEFINE c == [i \in {0} |-> felt(0)]
  <1>1. c[0] = felt(0) /\ Len(<<>>) = 0
    OBVIOUS
  <1>2. IsChain(c, <<>>)
    BY <1>1 DEF IsChain
  <1>3. hash_init = [current_hash |-> c[Len(<<>>)], n_words |-> Len(<<>>)]
    BY <1>1 DEF hash_init
  <1> QED
    BY <1>2, <1>3 DEF Accumulated

\* More words after those.
LEMMA UpdateAccumulates ==
  ASSUME NEW words \in Seq(Int), NEW data \in Seq(Int), NEW state, Accumulated(state, words)
  PROVE  Accumulated(hash_update(state, data), Join(words, data))
PROOF
  <1> DEFINE k == Len(words)
             n == Len(data)
             all == Join(words, data)
  <1>1. /\ k \in Nat /\ n \in Nat /\ DOMAIN data = 1 .. n /\ Len(all) = k + n
        /\ \A i \in 1 .. k : all[i] = words[i]
        /\ \A i \in 1 .. n : all[k + i] = data[i]
    BY DEF Join
  <1>2. PICK c : /\ c[0] = felt(0)
                 /\ \A i \in 1 .. k : c[i] = hash2(c[i - 1], felt(words[i]))
                 /\ state = [current_hash |-> c[k], n_words |-> k]
    BY DEF Accumulated, IsChain
  <1>3. PICK tr : IsTrail(tr, "words", 0, state, data, n) /\ tr[n] = hash_update(state, data)
    BY <1>1, UpdateHasTrail
  <1> HIDE DEF k, n, all
  <1>4. /\ tr[0] = state
        /\ \A i \in 1 .. n : tr[i] = [current_hash |-> hash2(tr[i - 1].current_hash, felt(data[i])),
                                     n_words |-> tr[i - 1].n_words + 1]
    BY <1>3 DEF IsTrail, Step, hash_update_single
  <1> DEFINE Good == {m \in Nat : m <= n =>
                        tr[m] = [current_hash |-> tr[m].current_hash, n_words |-> k + m]}
  <1>5. 0 \in Good
    BY <1>1, <1>2, <1>4
  <1>6. ASSUME NEW m \in Nat, m \in Good PROVE m + 1 \in Good
    <2> SUFFICES ASSUME m + 1 <= n
                 PROVE  tr[m + 1] = [current_hash |-> tr[m + 1].current_hash, n_words |-> k + (m + 1)]
      OBVIOUS
    <2>1. m + 1 \in 1 .. n /\ (m + 1) - 1 = m /\ tr[m].n_words = k + m
      <3>1. m + 1 \in 1 .. n /\ (m + 1) - 1 = m /\ m <= n
        BY <1>1
      <3>2. tr[m] = [current_hash |-> tr[m].current_hash, n_words |-> k + m]
        BY <1>6, <3>1
      <3> QED
        BY <3>1, <3>2, SMTT(30)
    <2> HIDE DEF Good
    <2>2. tr[m + 1] = [current_hash |-> hash2(tr[m].current_hash, felt(data[m + 1])),
                       n_words |-> (k + m) + 1]
      BY <1>4, <2>1
    <2>3. (k + m) + 1 = k + (m + 1)
      BY <1>1
    <2> QED
      BY <2>2, <2>3
  <1>7. n \in Good
    <2> HIDE DEF Good
    <2> QED
      BY <1>1, <1>5, <1>6, NaturalInduction
  <1> DEFINE d == [i \in 0 .. k + n |-> IF i <= k THEN c[i] ELSE tr[i - k].current_hash]
  <1>8. /\ d[0] = felt(0) /\ \A i \in 0 .. k : d[i] = c[i]
        /\ \A i \in 0 .. n : d[k + i] = tr[i].current_hash
    <2>1. \A i \in 0 .. k : i \in 0 .. k + n /\ i <= k
      BY <1>1
    <2>2. \A i \in 0 .. k : d[i] = c[i]
      BY <2>1
    <2>3. ASSUME NEW i \in 0 .. n PROVE d[k + i] = tr[i].current_hash
      <3>1. k + i \in 0 .. k + n /\ (k + i) - k = i
        BY <1>1
      <3>2. CASE i = 0
        <4>1. k + i = k /\ k \in 0 .. k
          BY <1>1, <3>2
        <4> QED
          BY <1>2, <1>4, <2>2, <3>2, <4>1
      <3>3. CASE i # 0
        <4>1. ~ (k + i <= k)
          BY <1>1, <3>3
        <4> QED
          BY <3>1, <4>1
      <3> QED
        BY <3>2, <3>3
    <2>4. 0 \in 0 .. k
      BY <1>1
    <2> HIDE DEF d
    <2> QED
      BY <1>2, <2>2, <2>3, <2>4
  <1> HIDE DEF d
  <1>9. ASSUME NEW i \in 1 .. k + n PROVE d[i] = hash2(d[i - 1], felt(all[i]))
    <2>1. CASE i <= k
      <3>1. i \in 1 .. k /\ i \in 0 .. k /\ i - 1 \in 0 .. k
        BY <1>1, <2>1
      <3> QED
        BY <1>1, <1>2, <1>8, <3>1
    <2>2. CASE ~ (i <= k)
      <3>1. PICK j : j = i - k
        OBVIOUS
      <3>2. j \in 1 .. n /\ j \in 0 .. n /\ j - 1 \in 0 .. n /\ k + j = i /\ k + (j - 1) = i - 1
        BY <1>1, <2>2, <3>1
      <3>3. d[i] = tr[j].current_hash /\ d[i - 1] = tr[j - 1].current_hash
        BY <1>8, <3>2
      <3>4. tr[j].current_hash = hash2(tr[j - 1].current_hash, felt(data[j]))
        <4>1. tr[j] = [current_hash |-> hash2(tr[j - 1].current_hash, felt(data[j])),
                       n_words |-> tr[j - 1].n_words + 1]
          BY <1>4, <3>2
        <4> QED
          BY <4>1
      <3>5. all[i] = data[j]
        BY <1>1, <3>2
      <3> QED
        BY <3>3, <3>4, <3>5
    <2> QED
      BY <2>1, <2>2
  <1>10. IsChain(d, all)
    BY <1>1, <1>8, <1>9 DEF IsChain
  <1>11. hash_update(state, data) = [current_hash |-> d[Len(all)], n_words |-> Len(all)]
    <2>1. n \in 0 .. n /\ d[k + n] = tr[n].current_hash
      BY <1>1, <1>8
    <2>2. tr[n] = [current_hash |-> tr[n].current_hash, n_words |-> k + n]
      BY <1>1, <1>7
    <2> QED
      BY <1>1, <1>3, <2>1, <2>2
  <1> QED
    BY <1>10, <1>11 DEF Accumulated, all

\* One word is a list of one.
LEMMA SingleAccumulates ==
  ASSUME NEW words \in Seq(Int), NEW item \in Int, NEW state, Accumulated(state, words)
  PROVE  Accumulated(hash_update_single(state, item), Join(words, <<item>>))
PROOF
  <1>1. hash_update(state, <<item>>) = hash_update_single(state, item)
    <2>1. DOMAIN <<item>> = 1 .. 1 /\ 1 \in Nat /\ 1 \in 1 .. 1 /\ 1 - 1 = 0 /\ <<item>>[1] = item
      OBVIOUS
    <2>2. PICK tr : /\ IsTrail(tr, "words", 0, state, <<item>>, 1)
                    /\ tr[1] = hash_update(state, <<item>>)
      BY <2>1, UpdateHasTrail
    <2>3. tr[0] = state /\ tr[1] = hash_update_single(tr[0], item)
      BY <2>1, <2>2 DEF IsTrail, Step
    <2> QED
      BY <2>2, <2>3
  <1>2. <<item>> \in Seq(Int)
    OBVIOUS
  <1> QED
    BY <1>1, <1>2, UpdateAccumulates

LEMMA FinalDigest ==
  ASSUME NEW words, NEW state, Accumulated(state, words)
  PROVE  HasDigest(words, hash_finalize(state))
BY DEF Accumulated, HasDigest, hash_finalize

-----------------------------------------------------------------------------
(* Configurations as lists of words.                                       *)

Segments == [upper_bound : Int, risk : 0 .. RISK_UPPER_BOUND - 1]

\* An asset as the program is given it.
LoadedFields ==
  [asset_id : Nat, resolution : Nat \ {0}, risk_factor_segments : Seq(Segments),
   oracle_price_signed_asset_ids : Seq(Nat), oracle_price_quorum : Nat \ {0},
   oracle_price_signers : Seq(Nat)]

LoadedGeneral ==
  [max_funding_rate : Nat, collateral_asset_id : Nat, collateral_resolution : Nat \ {0},
   fee_position_id : Nat, fee_public_key : Nat, positions_tree_height : Nat,
   orders_tree_height : Nat, price_validity_period : Nat, funding_validity_period : Nat,
   data_availability_mode : Nat, is_risk_by_balance_only : BOOLEAN]

Combined(segments) == [i \in DOMAIN segments |-> combined_segment(segments[i])]

AssetWords(info) ==
  <<info.asset_id, info.resolution, Len(info.risk_factor_segments)>>
    \o Combined(info.risk_factor_segments)
    \o <<Len(info.oracle_price_signed_asset_ids)>> \o info.oracle_price_signed_asset_ids
    \o <<info.oracle_price_quorum>>
    \o <<Len(info.oracle_price_signers)>> \o info.oracle_price_signers

GeneralWords(config) ==
  <<GENERAL_CONFIG_HASH_VERSION, config.max_funding_rate, config.collateral_asset_id,
    config.collateral_resolution, config.fee_position_id, config.fee_public_key,
    config.positions_tree_height, config.orders_tree_height, config.price_validity_period,
    config.funding_validity_period, config.data_availability_mode,
    IF config.is_risk_by_balance_only THEN 1 ELSE 0>>

\* A segment is two numbers in one.
LEMMA SegmentsTellApart ==
  /\ \A s \in Segments : combined_segment(s) \in Int
  /\ \A s, t \in Segments : combined_segment(s) = combined_segment(t) => s = t
PROOF
  <1>1. RISK_UPPER_BOUND \in Nat \ {0}
    BY FixedPointAssumption
  <1>2. \A s \in Segments : combined_segment(s) \in Int
    <2>1. \A x, y, z \in Int : x * y + z \in Int
      OBVIOUS
    <2> SUFFICES ASSUME NEW s \in Segments PROVE s.upper_bound * RISK_UPPER_BOUND + s.risk \in Int
      BY DEF combined_segment
    <2>2. s.upper_bound \in Int /\ s.risk \in Int /\ RISK_UPPER_BOUND \in Int
      BY <1>1 DEF Segments
    <2> QED
      BY <2>1, <2>2
  <1>3. ASSUME NEW s \in Segments, NEW t \in Segments, combined_segment(s) = combined_segment(t)
        PROVE  s = t
    <2>1. s.upper_bound \in Int /\ s.risk \in 0 .. RISK_UPPER_BOUND - 1
      BY DEF Segments
    <2>2. t.upper_bound \in Int /\ t.risk \in 0 .. RISK_UPPER_BOUND - 1
      BY DEF Segments
    <2>3. /\ combined_segment(s) % RISK_UPPER_BOUND = s.risk
          /\ combined_segment(s) \div RISK_UPPER_BOUND = s.upper_bound
      BY <1>1, <2>1, LowPart, HighPart DEF combined_segment
    <2>4. /\ combined_segment(t) % RISK_UPPER_BOUND = t.risk
          /\ combined_segment(t) \div RISK_UPPER_BOUND = t.upper_bound
      BY <1>1, <2>2, LowPart, HighPart DEF combined_segment
    <2>5. s.risk = t.risk /\ s.upper_bound = t.upper_bound
      BY <1>3, <2>3, <2>4
    <2> QED
      BY <2>5 DEF Segments
  <1> QED
    BY <1>2, <1>3

LEMMA CombinedTellsApart ==
  /\ \A s \in Seq(Segments) : Combined(s) \in Seq(Int) /\ Len(Combined(s)) = Len(s)
  /\ \A s, t \in Seq(Segments) : Combined(s) = Combined(t) => s = t
PROOF
  <1>1. ASSUME NEW s \in Seq(Segments)
        PROVE  /\ Combined(s) \in Seq(Int) /\ Len(Combined(s)) = Len(s)
               /\ \A i \in 1 .. Len(s) : Combined(s)[i] = combined_segment(s[i])
    <2>1. DOMAIN s = 1 .. Len(s) /\ Len(s) \in Nat /\ \A i \in 1 .. Len(s) : s[i] \in Segments
      OBVIOUS
    <2>2. \A i \in 1 .. Len(s) : combined_segment(s[i]) \in Int
      BY <2>1, SegmentsTellApart
    <2> QED
      BY <2>1, <2>2 DEF Combined
  <1>2. ASSUME NEW s \in Seq(Segments), NEW t \in Seq(Segments), Combined(s) = Combined(t)
        PROVE  s = t
    <2>1. Len(s) = Len(t)
      BY <1>1, <1>2
    <2>2. \A i \in 1 .. Len(s) : combined_segment(s[i]) = combined_segment(t[i])
      BY <1>1, <1>2, <2>1
    <2>3. \A i \in 1 .. Len(s) : s[i] \in Segments /\ t[i] \in Segments
      BY <2>1
    <2>4. \A i \in 1 .. Len(s) : s[i] = t[i]
      BY <2>2, <2>3, SegmentsTellApart
    <2> QED
      BY <2>1, <2>4
  <1> QED
    BY <1>1, <1>2

\* Sequences with the same elements.
LEMMA SameElements ==
  ASSUME NEW a \in Seq(Int), NEW c \in Seq(Int), Len(a) = Len(c), \A i \in 1 .. Len(a) : a[i] = c[i]
  PROVE  a = c
OBVIOUS

\* Six lists, one after the other.
AreJoined(words, h, c, l, ids, q, k, signers) ==
  words = Join(Join(Join(Join(Join(Join(h, c), l), ids), q), k), signers)

AreGrouped(words, h, c, l, ids, q, k, signers) ==
  /\ words \in Seq(Int)
  /\ words = Join(h, Join(c, Join(l, Join(ids, Join(Join(q, k), signers)))))

LEMMA Regrouped ==
  ASSUME NEW h \in Seq(Int), NEW c \in Seq(Int), NEW l \in Seq(Int), NEW ids \in Seq(Int),
         NEW q \in Seq(Int), NEW k \in Seq(Int), NEW signers \in Seq(Int), NEW words,
         AreJoined(words, h, c, l, ids, q, k, signers)
  PROVE  AreGrouped(words, h, c, l, ids, q, k, signers)
PROOF
  <1>1. PICK qk \in Seq(Int) : qk = Join(q, k)
    BY Joined
  <1>2. PICK r3 \in Seq(Int) : r3 = Join(qk, signers)
    BY Joined
  <1>3. PICK r2 \in Seq(Int) : r2 = Join(ids, r3)
    BY Joined
  <1>4. PICK r1 \in Seq(Int) : r1 = Join(l, r2)
    BY Joined
  <1>5. PICK p1 \in Seq(Int) : p1 = Join(h, c)
    BY Joined
  <1>6. PICK p2 \in Seq(Int) : p2 = Join(p1, l)
    BY Joined
  <1>7. PICK p3 \in Seq(Int) : p3 = Join(p2, ids)
    BY Joined
  <1>8. PICK p4 \in Seq(Int) : p4 = Join(p3, q)
    BY Joined
  <1>9. words = Join(Join(p4, k), signers)
    BY <1>5, <1>6, <1>7, <1>8 DEF AreJoined
  <1>10. words \in Seq(Int)
    <2>1. Join(p4, k) \in Seq(Int)
      BY Joined
    <2> QED
      BY <1>9, <2>1, Joined
  <1>11. Join(p4, k) = Join(p3, qk)
    BY <1>1, <1>8, Associates
  <1>12. Join(Join(p3, qk), signers) = Join(p3, r3)
    BY <1>2, Associates
  <1>13. Join(p3, r3) = Join(p2, r2)
    BY <1>3, <1>7, Associates
  <1>14. Join(p2, r2) = Join(p1, r1)
    BY <1>4, <1>6, Associates
  <1>15. Join(p1, r1) = Join(h, Join(c, r1))
    BY <1>5, Associates
  <1>16. words = Join(h, Join(c, r1))
    BY <1>9, <1>11, <1>12, <1>13, <1>14, <1>15, Zenon
  <1>17. words = Join(h, Join(c, Join(l, Join(ids, Join(Join(q, k), signers)))))
    BY <1>1, <1>2, <1>3, <1>4, <1>16
  <1> QED
    BY <1>10, <1>17 DEF AreGrouped

\* Two lists that start with as many words are cut at the same place.
LEMMA CutAtTheSamePlace ==
  ASSUME NEW a \in Seq(Int), NEW b \in Seq(Int), NEW c \in Seq(Int), NEW d \in Seq(Int),
         Len(a) = Len(c), Join(a, b) = Join(c, d)
  PROVE  a = c /\ b = d
PROOF
  <1> DEFINE ab == Join(a, b)
             cd == Join(c, d)
  <1>1. /\ Len(ab) = Len(a) + Len(b)
        /\ \A i \in 1 .. Len(a) + Len(b) : ab[i] = IF i <= Len(a) THEN a[i] ELSE b[i - Len(a)]
    BY ConcatProperties DEF Join
  <1>2. /\ Len(cd) = Len(c) + Len(d)
        /\ \A i \in 1 .. Len(c) + Len(d) : cd[i] = IF i <= Len(c) THEN c[i] ELSE d[i - Len(c)]
    BY ConcatProperties DEF Join
  <1>3. ab = cd /\ Len(a) \in Nat /\ Len(b) \in Nat /\ Len(d) \in Nat
    OBVIOUS
  <1> HIDE DEF ab, cd
  <1>4. Len(b) = Len(d)
    BY <1>1, <1>2, <1>3
  <1>5. ASSUME NEW i \in 1 .. Len(a) PROVE a[i] = c[i]
    <2>1. i \in 1 .. Len(a) + Len(b) /\ i <= Len(a) /\ i <= Len(c) /\ i \in 1 .. Len(c) + Len(d)
      BY <1>3, <1>4
    <2> QED
      BY <1>1, <1>2, <1>3, <2>1
  <1>6. ASSUME NEW i \in 1 .. Len(b) PROVE b[i] = d[i]
    <2>1. PICK j : j = Len(a) + i
      OBVIOUS
    <2>2. /\ j \in 1 .. Len(a) + Len(b) /\ j \in 1 .. Len(c) + Len(d)
          /\ ~ (j <= Len(a)) /\ ~ (j <= Len(c)) /\ j - Len(a) = i /\ j - Len(c) = i
      BY <1>3, <1>4, <2>1
    <2> QED
      BY <1>1, <1>2, <1>3, <2>2
  <1>7. a = c
    BY <1>5, SameElements, Zenon
  <1>8. b = d
    BY <1>4, <1>6, SameElements, Zenon
  <1> QED
    BY <1>7, <1>8

LEMMA PairIsTwo ==
  ASSUME NEW x \in Int, NEW y \in Int
  PROVE  <<x>> \o <<y>> = <<x, y>>
PROOF
  <1> DEFINE both == <<x>> \o <<y>>
  <1>1. <<x>> \in Seq(Int) /\ <<y>> \in Seq(Int) /\ <<x, y>> \in Seq(Int)
    OBVIOUS
  <1>2. /\ both \in Seq(Int) /\ Len(both) = 2
        /\ \A i \in 1 .. 2 : both[i] = IF i <= 1 THEN <<x>>[i] ELSE <<y>>[i - 1]
    BY <1>1, ConcatProperties
  <1> HIDE DEF both
  <1>3. both[1] = x /\ both[2] = y
    BY <1>2
  <1>4. \A i \in 1 .. 2 : both[i] = <<x, y>>[i]
    BY <1>3
  <1>5. both = <<x, y>>
    BY <1>1, <1>2, <1>4, SameElements
  <1> QED
    BY <1>5 DEF both

\* The words of an asset, list by list.
LEMMA AssetWordsAre ==
  ASSUME NEW info \in LoadedFields
  PROVE  /\ AssetWords(info) \in Seq(Int)
         /\ AssetWords(info)
              = Join(<<info.asset_id, info.resolution, Len(info.risk_factor_segments)>>,
                Join(Combined(info.risk_factor_segments),
                Join(<<Len(info.oracle_price_signed_asset_ids)>>,
                Join(info.oracle_price_signed_asset_ids,
                Join(<<info.oracle_price_quorum, Len(info.oracle_price_signers)>>,
                     info.oracle_price_signers)))))
PROOF
  <1>1. /\ info.asset_id \in Int /\ info.resolution \in Int /\ info.oracle_price_quorum \in Int
        /\ info.risk_factor_segments \in Seq(Segments)
        /\ info.oracle_price_signed_asset_ids \in Seq(Nat)
        /\ info.oracle_price_signers \in Seq(Nat)
    BY DEF LoadedFields
  <1>2. /\ Len(info.oracle_price_signers) \in Int /\ Len(info.risk_factor_segments) \in Int
        /\ Len(info.oracle_price_signed_asset_ids) \in Int
    BY <1>1
  <1>3. PICK h \in Seq(Int) :
          h = <<info.asset_id, info.resolution, Len(info.risk_factor_segments)>>
    <2>1. <<info.asset_id, info.resolution, Len(info.risk_factor_segments)>> \in Seq(Int)
      BY <1>1, <1>2
    <2> QED
      BY <2>1, Zenon
  <1>4. PICK c \in Seq(Int) : c = Combined(info.risk_factor_segments)
    BY <1>1, CombinedTellsApart
  <1>5. PICK l \in Seq(Int) : l = <<Len(info.oracle_price_signed_asset_ids)>>
    <2>1. <<Len(info.oracle_price_signed_asset_ids)>> \in Seq(Int)
      BY <1>2
    <2> QED
      BY <2>1, Zenon
  <1>6. PICK ids \in Seq(Int) : ids = info.oracle_price_signed_asset_ids
    BY <1>1
  <1>7. PICK q \in Seq(Int) : q = <<info.oracle_price_quorum>>
    <2>1. <<info.oracle_price_quorum>> \in Seq(Int)
      BY <1>1
    <2> QED
      BY <2>1, Zenon
  <1>8. PICK k \in Seq(Int) : k = <<Len(info.oracle_price_signers)>>
    <2>1. <<Len(info.oracle_price_signers)>> \in Seq(Int)
      BY <1>2
    <2> QED
      BY <2>1, Zenon
  <1>9. PICK signers \in Seq(Int) : signers = info.oracle_price_signers
    BY <1>1
  <1>10. PICK w : w = AssetWords(info)
    OBVIOUS
  <1>11. AreJoined(w, h, c, l, ids, q, k, signers)
    BY <1>3, <1>4, <1>5, <1>6, <1>7, <1>8, <1>9, <1>10 DEF AreJoined, AssetWords, Join
  <1>12. AreGrouped(w, h, c, l, ids, q, k, signers)
    BY <1>11, Regrouped
  <1>13. Join(q, k) = <<info.oracle_price_quorum, Len(info.oracle_price_signers)>>
    BY <1>1, <1>2, <1>7, <1>8, PairIsTwo DEF Join
  <1> QED
    BY <1>3, <1>4, <1>5, <1>6, <1>9, <1>10, <1>12, <1>13 DEF AreGrouped

\* With their lengths between them, the lists cannot be cut otherwise.
LEMMA AssetWordsTellApart ==
  ASSUME NEW a \in LoadedFields, NEW b \in LoadedFields, AssetWords(a) = AssetWords(b)
  PROVE  a = b
PROOF
  <1> DEFINE head(i) == <<i.asset_id, i.resolution, Len(i.risk_factor_segments)>>
             segments(i) == Combined(i.risk_factor_segments)
             len(i) == <<Len(i.oracle_price_signed_asset_ids)>>
             ids(i) == i.oracle_price_signed_asset_ids
             mid(i) == <<i.oracle_price_quorum, Len(i.oracle_price_signers)>>
             signers(i) == i.oracle_price_signers
             r4(i) == Join(mid(i), signers(i))
             r3(i) == Join(ids(i), r4(i))
             r2(i) == Join(len(i), r3(i))
             r1(i) == Join(segments(i), r2(i))
  <1>1. \A i \in LoadedFields : AssetWords(i) = Join(head(i), r1(i))
    BY AssetWordsAre
  <1>2. ASSUME NEW i \in LoadedFields
        PROVE  /\ head(i) \in Seq(Int) /\ segments(i) \in Seq(Int) /\ len(i) \in Seq(Int)
               /\ ids(i) \in Seq(Int) /\ mid(i) \in Seq(Int) /\ signers(i) \in Seq(Int)
               /\ Len(head(i)) = 3 /\ Len(len(i)) = 1 /\ Len(mid(i)) = 2
               /\ Len(segments(i)) = Len(i.risk_factor_segments)
    <2>1. /\ i.asset_id \in Int /\ i.resolution \in Int /\ i.oracle_price_quorum \in Int
          /\ i.risk_factor_segments \in Seq(Segments)
          /\ ids(i) \in Seq(Nat) /\ signers(i) \in Seq(Nat)
      BY DEF LoadedFields
    <2> QED
      BY <2>1, CombinedTellsApart
  <1>3. \A i \in LoadedFields : r4(i) \in Seq(Int) /\ r3(i) \in Seq(Int) /\ r2(i) \in Seq(Int)
                               /\ r1(i) \in Seq(Int)
    <2> HIDE DEF head, segments, len, ids, mid, signers
    <2>1. \A x, y \in Seq(Int) : Join(x, y) \in Seq(Int)
      BY Joined
    <2> QED
      BY <1>2, <2>1
  <1>4. head(a) = head(b) /\ r1(a) = r1(b)
    <2>1. Join(head(a), r1(a)) = Join(head(b), r1(b)) /\ Len(head(a)) = Len(head(b))
      BY <1>1, <1>2
    <2>9. /\ head(a) \in Seq(Int) /\ head(b) \in Seq(Int)
          /\ r1(a) \in Seq(Int) /\ r1(b) \in Seq(Int)
      BY <1>2, <1>3
    <2> HIDE DEF head, r1
    <2> QED
      BY <2>1, <2>9, CutAtTheSamePlace, ZenonT(60)
  <1>5. /\ a.asset_id = b.asset_id /\ a.resolution = b.resolution
        /\ Len(a.risk_factor_segments) = Len(b.risk_factor_segments)
    <2>1. \A x, y, z, x2, y2, z2 : <<x, y, z>> = <<x2, y2, z2>> => x = x2 /\ y = y2 /\ z = z2
      OBVIOUS
    <2> QED
      BY <1>4, <2>1
  <1>6. segments(a) = segments(b) /\ r2(a) = r2(b)
    <2>1. Len(segments(a)) = Len(segments(b))
      BY <1>2, <1>5
    <2>2. Join(segments(a), r2(a)) = Join(segments(b), r2(b))
      BY <1>4
    <2>9. /\ segments(a) \in Seq(Int) /\ segments(b) \in Seq(Int)
          /\ r2(a) \in Seq(Int) /\ r2(b) \in Seq(Int)
      BY <1>2, <1>3
    <2> HIDE DEF segments, r2
    <2> QED
      BY <2>1, <2>2, <2>9, CutAtTheSamePlace, ZenonT(60)
  <1>7. len(a) = len(b) /\ r3(a) = r3(b)
    <2>1. Join(len(a), r3(a)) = Join(len(b), r3(b)) /\ Len(len(a)) = Len(len(b))
      BY <1>2, <1>6
    <2>9. /\ len(a) \in Seq(Int) /\ len(b) \in Seq(Int)
          /\ r3(a) \in Seq(Int) /\ r3(b) \in Seq(Int)
      BY <1>2, <1>3
    <2> HIDE DEF len, r3
    <2> QED
      BY <2>1, <2>9, CutAtTheSamePlace, ZenonT(60)
  <1>8. ids(a) = ids(b) /\ r4(a) = r4(b)
    <2>1. Len(ids(a)) = Len(ids(b))
      <3>1. \A x, y : <<x>> = <<y>> => x = y
        OBVIOUS
      <3> QED
        BY <1>7, <3>1
    <2>2. Join(ids(a), r4(a)) = Join(ids(b), r4(b))
      BY <1>7
    <2>9. /\ ids(a) \in Seq(Int) /\ ids(b) \in Seq(Int)
          /\ r4(a) \in Seq(Int) /\ r4(b) \in Seq(Int)
      BY <1>2, <1>3
    <2> HIDE DEF ids, r4
    <2> QED
      BY <2>1, <2>2, <2>9, CutAtTheSamePlace, ZenonT(60)
  <1>9. mid(a) = mid(b) /\ signers(a) = signers(b)
    <2>1. Join(mid(a), signers(a)) = Join(mid(b), signers(b)) /\ Len(mid(a)) = Len(mid(b))
      BY <1>2, <1>8
    <2>9. /\ mid(a) \in Seq(Int) /\ mid(b) \in Seq(Int)
          /\ signers(a) \in Seq(Int) /\ signers(b) \in Seq(Int)
      BY <1>2, <1>3
    <2> HIDE DEF mid, signers
    <2> QED
      BY <2>1, <2>9, CutAtTheSamePlace, ZenonT(60)
  <1>10. a.risk_factor_segments = b.risk_factor_segments
    <2>1. a.risk_factor_segments \in Seq(Segments) /\ b.risk_factor_segments \in Seq(Segments)
      BY DEF LoadedFields
    <2> QED
      BY <1>6, <2>1, CombinedTellsApart
  <1>11. a.oracle_price_quorum = b.oracle_price_quorum
    <2>1. \A x, y, x2, y2 : <<x, y>> = <<x2, y2>> => x = x2
      OBVIOUS
    <2> QED
      BY <1>9, <2>1
  <1>12. /\ a.oracle_price_signed_asset_ids = b.oracle_price_signed_asset_ids
         /\ a.oracle_price_signers = b.oracle_price_signers
    BY <1>8, <1>9
  <1>13. a = b
    <2>1. \A i \in LoadedFields :
            i = [asset_id |-> i.asset_id, resolution |-> i.resolution,
                 risk_factor_segments |-> i.risk_factor_segments,
                 oracle_price_signed_asset_ids |-> i.oracle_price_signed_asset_ids,
                 oracle_price_quorum |-> i.oracle_price_quorum,
                 oracle_price_signers |-> i.oracle_price_signers]
      BY DEF LoadedFields
    <2> HIDE DEF head, segments, len, ids, mid, signers, r1, r2, r3, r4
    <2> QED
      BY <1>5, <1>10, <1>11, <1>12, <2>1, Zenon
  <1> QED
    BY <1>13

\* The general fields are told apart by their words.
LEMMA GeneralWordsTellApart ==
  ASSUME NEW a \in LoadedGeneral, NEW b \in LoadedGeneral, GeneralWords(a) = GeneralWords(b)
  PROVE  a = b
PROOF
  <1>1. /\ a.max_funding_rate = b.max_funding_rate
        /\ a.collateral_asset_id = b.collateral_asset_id
        /\ a.collateral_resolution = b.collateral_resolution
        /\ a.fee_position_id = b.fee_position_id
        /\ a.fee_public_key = b.fee_public_key
        /\ a.positions_tree_height = b.positions_tree_height
    BY DEF GeneralWords
  <1>2. /\ a.orders_tree_height = b.orders_tree_height
        /\ a.price_validity_period = b.price_validity_period
        /\ a.funding_validity_period = b.funding_validity_period
        /\ a.data_availability_mode = b.data_availability_mode
        /\ (IF a.is_risk_by_balance_only THEN 1 ELSE 0)
             = (IF b.is_risk_by_balance_only THEN 1 ELSE 0)
    BY DEF GeneralWords
  <1>3. a.is_risk_by_balance_only \in BOOLEAN /\ b.is_risk_by_balance_only \in BOOLEAN
    BY DEF LoadedGeneral
  <1>4. a.is_risk_by_balance_only = b.is_risk_by_balance_only
    BY <1>2, <1>3
  <1> QED
    BY <1>1, <1>2, <1>4 DEF LoadedGeneral

-----------------------------------------------------------------------------
(* The script and the program hash the same words.                         *)

\* What the program hashes of an asset.
LEMMA AssetHashIsDigest ==
  ASSUME NEW info \in LoadedFields
  PROVE  HasDigest(AssetWords(info), synthetic_asset_info_hash(info))
PROOF
  <1>1. /\ info.asset_id \in Int /\ info.resolution \in Int /\ info.oracle_price_quorum \in Int
        /\ info.risk_factor_segments \in Seq(Segments)
        /\ info.oracle_price_signed_asset_ids \in Seq(Nat)
        /\ info.oracle_price_signers \in Seq(Nat)
    BY DEF LoadedFields
  <1>2. /\ Len(info.oracle_price_signers) \in Int /\ Len(info.risk_factor_segments) \in Int
        /\ Len(info.oracle_price_signed_asset_ids) \in Int
    BY <1>1
  <1>3. PICK h \in Seq(Int) :
          h = <<info.asset_id, info.resolution, Len(info.risk_factor_segments)>>
    <2>1. <<info.asset_id, info.resolution, Len(info.risk_factor_segments)>> \in Seq(Int)
      BY <1>1, <1>2
    <2> QED
      BY <2>1, Zenon
  <1>4. PICK c \in Seq(Int) : c = Combined(info.risk_factor_segments)
    BY <1>1, CombinedTellsApart
  <1>5. PICK l \in Int : l = Len(info.oracle_price_signed_asset_ids)
    BY <1>2
  <1>6. PICK ids \in Seq(Int) : ids = info.oracle_price_signed_asset_ids
    BY <1>1
  <1>7. PICK q \in Int : q = info.oracle_price_quorum
    BY <1>1
  <1>8. PICK k \in Int : k = Len(info.oracle_price_signers)
    BY <1>2
  <1>9. PICK signers \in Seq(Int) : signers = info.oracle_price_signers
    BY <1>1
  <1>10. PICK s1 : s1 = hash_update(hash_init, h)
    OBVIOUS
  <1>11. PICK s2 : s2 = hash_update(s1, c)
    OBVIOUS
  <1>12. PICK s3 : s3 = hash_update(hash_update_single(s2, l), ids)
    OBVIOUS
  <1>13. PICK s4 : s4 = hash_update_single(hash_update_single(s3, q), k)
    OBVIOUS
  <1>14. synthetic_asset_info_hash(info) = hash_finalize(hash_update(s4, signers))
    <2>1. Combined(info.risk_factor_segments)
            = [i \in DOMAIN info.risk_factor_segments |-> combined_segment(info.risk_factor_segments[i])]
      BY DEF Combined
    <2> QED
      BY <1>3, <1>4, <1>5, <1>6, <1>7, <1>8, <1>9, <1>10, <1>11, <1>12, <1>13, <2>1, Zenon
         DEF synthetic_asset_info_hash
  <1>15. Accumulated(s1, h)
    <2>1. <<>> \in Seq(Int)
      OBVIOUS
    <2>2. Accumulated(s1, Join(<<>>, h))
      BY <1>10, <2>1, NothingAccumulated, UpdateAccumulates
    <2>3. Join(<<>>, h) = h
      BY ConcatEmptySeq DEF Join
    <2> QED
      BY <2>2, <2>3
  <1>16. PICK w2 \in Seq(Int) : w2 = Join(h, c) /\ Accumulated(s2, w2)
    BY <1>11, <1>15, Joined, UpdateAccumulates
  <1>17. PICK w3 \in Seq(Int) : w3 = Join(w2, <<l>>) /\ Accumulated(hash_update_single(s2, l), w3)
    <2>1. <<l>> \in Seq(Int)
      OBVIOUS
    <2> QED
      BY <1>16, <2>1, Joined, SingleAccumulates
  <1>18. PICK w4 \in Seq(Int) : w4 = Join(w3, ids) /\ Accumulated(s3, w4)
    BY <1>12, <1>17, Joined, UpdateAccumulates
  <1>19. PICK w5 \in Seq(Int) : w5 = Join(w4, <<q>>) /\ Accumulated(hash_update_single(s3, q), w5)
    <2>1. <<q>> \in Seq(Int)
      OBVIOUS
    <2> QED
      BY <1>18, <2>1, Joined, SingleAccumulates
  <1>20. PICK w6 \in Seq(Int) : w6 = Join(w5, <<k>>) /\ Accumulated(s4, w6)
    <2>1. <<k>> \in Seq(Int)
      OBVIOUS
    <2> QED
      BY <1>13, <1>19, <2>1, Joined, SingleAccumulates
  <1>21. Accumulated(hash_update(s4, signers), Join(w6, signers))
    BY <1>20, UpdateAccumulates
  <1>22. Join(w6, signers) = AssetWords(info)
    BY <1>3, <1>4, <1>5, <1>6, <1>7, <1>8, <1>9, <1>16, <1>17, <1>18, <1>19, <1>20, Zenon
       DEF AssetWords, Join
  <1> QED
    BY <1>14, <1>21, <1>22, FinalDigest

\* What the program hashes of the general fields.
LEMMA GeneralHashIsDigest ==
  ASSUME NEW config \in LoadedGeneral
  PROVE  /\ GeneralWords(config) \in Seq(Int)
         /\ HasDigest(GeneralWords(config), general_config_hash(config))
PROOF
  <1>1. GeneralWords(config) \in Seq(Int)
    BY ConfigsAssumption DEF GeneralWords, LoadedGeneral
  <1>2. <<>> \in Seq(Int)
    OBVIOUS
  <1>3. PICK w \in Seq(Int) : w = GeneralWords(config)
    BY <1>1, Zenon
  <1>4. Accumulated(hash_update(hash_init, w), Join(<<>>, w))
    BY <1>2, NothingAccumulated, UpdateAccumulates
  <1>5. Join(<<>>, w) = w
    BY ConcatEmptySeq DEF Join
  <1>6. general_config_hash(config) = hash_finalize(hash_update(hash_init, w))
    BY <1>3, Zenon DEF general_config_hash, GeneralWords
  <1> QED
    BY <1>1, <1>3, <1>4, <1>5, <1>6, FinalDigest

-----------------------------------------------------------------------------
(* From the YAML values to the words.                                      *)

\* What the script hashes: YAML values, and numbers that it made itself.
Hashed == [type : {"int"}, val : Int] \union [type : {"bool"}, val : BOOLEAN] \union YamlStrings

LEMMA ValuesAreNumbers ==
  /\ \A val \in YamlStrings : convert2int(val) \in Nat
  /\ \A val \in YamlNumbers : convert2int(val) \in Nat
PROOF
  <1>1. ASSUME NEW val \in YamlStrings PROVE convert2int(val) \in Nat
    <2>1. val.type = "str" /\ val.base \in Nat /\ val.digits \in Seq(Nat)
      BY DEF YamlStrings
    <2>2. convert2int(val) = Value(val.base, val.digits)
      BY <2>1 DEF convert2int
    <2> QED
      BY <2>1, <2>2, ValueType
  <1>2. ASSUME NEW val \in [type : {"int"}, val : Nat] PROVE convert2int(val) \in Nat
    BY DEF convert2int
  <1> QED
    BY <1>1, <1>2 DEF YamlNumbers

LEMMA NumbersType ==
  ASSUME NEW values \in Seq(YamlNumbers)
  PROVE  /\ Numbers(values) \in Seq(Nat) /\ Numbers(values) \in Seq(Int)
         /\ Len(Numbers(values)) = Len(values)
PROOF
  <1>1. DOMAIN values = 1 .. Len(values) /\ Len(values) \in Nat
        /\ \A i \in 1 .. Len(values) : values[i] \in YamlNumbers
    OBVIOUS
  <1>2. \A i \in 1 .. Len(values) : convert2int(values[i]) \in Nat
    BY <1>1, ValuesAreNumbers
  <1>3. Numbers(values) \in Seq(Nat) /\ Len(Numbers(values)) = Len(values)
    BY <1>1, <1>2 DEF Numbers
  <1> QED
    BY <1>3

\* The loader gives the program an asset of the right shape.
LEMMA LoadedAssetType ==
  ASSUME NEW info \in AssetFields
  PROVE  LoadAsset(info) \in LoadedFields
PROOF
  <1>1. /\ info.asset_id \in YamlStrings /\ info.resolution \in Nat \ {0}
        /\ info.segments \in Seq(Segments)
        /\ info.oracle_price_signed_asset_ids \in Seq(YamlNumbers)
        /\ info.oracle_price_quorum \in Nat \ {0}
        /\ info.oracle_price_signers \in Seq(YamlNumbers)
    BY DEF AssetFields, Segments
  <1>2. /\ convert2int(info.asset_id) \in Nat
        /\ Numbers(info.oracle_price_signed_asset_ids) \in Seq(Nat)
        /\ Numbers(info.oracle_price_signers) \in Seq(Nat)
    BY <1>1, ValuesAreNumbers, NumbersType
  <1> QED
    BY <1>1, <1>2 DEF LoadAsset, LoadedFields

LEMMA LoadedGeneralType ==
  ASSUME NEW config \in ConfigFields
  PROVE  LoadGeneral(config) \in LoadedGeneral
PROOF
  <1>1. config.collateral_asset_id \in YamlNumbers /\ config.fee_public_key \in YamlNumbers
    BY DEF ConfigFields
  <1>2. /\ convert2int(config.collateral_asset_id) \in Nat
        /\ convert2int(config.fee_public_key) \in Nat
    BY <1>1, ValuesAreNumbers
  <1>3. /\ config.max_funding_rate \in Nat /\ config.collateral_resolution \in Nat \ {0}
        /\ config.fee_position_id \in Nat /\ config.positions_tree_height \in Nat
        /\ config.orders_tree_height \in Nat /\ config.price_validity_period \in Nat
        /\ config.funding_validity_period \in Nat /\ config.data_availability_mode \in Nat
        /\ config.is_risk_by_balance_only \in BOOLEAN
    BY DEF ConfigFields
  <1> QED
    BY <1>2, <1>3 DEF LoadGeneral, LoadedGeneral

LEMMA IntValueIs ==
  \A n \in Int : IntValue(n) \in Hashed /\ convert2int(IntValue(n)) = n
BY DEF IntValue, Hashed, convert2int

LEMMA BoolValueIs ==
  \A b \in BOOLEAN : /\ BoolValue(b) \in Hashed
                     /\ convert2int(BoolValue(b)) = IF b THEN 1 ELSE 0
BY DEF BoolValue, Hashed, convert2int

LEMMA HashedType ==
  ASSUME NEW values \in Seq(Hashed)
  PROVE  /\ Numbers(values) \in Seq(Int) /\ Len(Numbers(values)) = Len(values)
         /\ \A i \in 1 .. Len(values) : Numbers(values)[i] = convert2int(values[i])
PROOF
  <1>1. \A val \in Hashed : convert2int(val) \in Int
    <2>1. \A val \in [type : {"int"}, val : Int] : convert2int(val) \in Int
      BY DEF convert2int
    <2>2. \A val \in [type : {"bool"}, val : BOOLEAN] : convert2int(val) \in Int
      BY DEF convert2int
    <2> QED
      BY <2>1, <2>2, ValuesAreNumbers DEF Hashed
  <1>2. DOMAIN values = 1 .. Len(values) /\ Len(values) \in Nat
        /\ \A i \in 1 .. Len(values) : values[i] \in Hashed
    OBVIOUS
  <1> QED
    BY <1>1, <1>2 DEF Numbers

LEMMA NumbersOfJoin ==
  ASSUME NEW x \in Seq(Hashed), NEW y \in Seq(Hashed)
  PROVE  Numbers(Join(x, y)) = Join(Numbers(x), Numbers(y))
PROOF
  <1> DEFINE both == Join(x, y)
             numbers == Join(Numbers(x), Numbers(y))
             n == Len(x)
             m == Len(y)
  <1>1. /\ both \in Seq(Hashed) /\ Len(both) = n + m /\ n \in Nat /\ m \in Nat
        /\ \A i \in 1 .. n + m : both[i] = IF i <= n THEN x[i] ELSE y[i - n]
    BY ConcatProperties DEF Join
  <1>2. /\ Numbers(x) \in Seq(Int) /\ Numbers(y) \in Seq(Int) /\ Len(Numbers(x)) = n
        /\ Len(Numbers(y)) = m
    BY HashedType
  <1>3. /\ numbers \in Seq(Int) /\ Len(numbers) = n + m
        /\ \A i \in 1 .. n + m : numbers[i] = IF i <= n THEN Numbers(x)[i] ELSE Numbers(y)[i - n]
    <2>1. PICK u \in Seq(Int) : u = Numbers(x)
      BY <1>2
    <2>2. PICK v \in Seq(Int) : v = Numbers(y)
      BY <1>2
    <2>3. PICK w : w = Join(u, v)
      OBVIOUS
    <2>4. /\ w \in Seq(Int) /\ Len(w) = Len(u) + Len(v)
          /\ \A i \in 1 .. Len(u) + Len(v) : w[i] = IF i <= Len(u) THEN u[i] ELSE v[i - Len(u)]
      BY <2>3, ConcatProperties DEF Join
    <2>5. w = numbers /\ Len(u) = n /\ Len(v) = m
      BY <1>2, <2>1, <2>2, <2>3
    <2> HIDE DEF numbers, n, m
    <2> QED
      BY <2>1, <2>2, <2>4, <2>5
  <1> HIDE DEF both, numbers
  <1>4. /\ Numbers(both) \in Seq(Int) /\ Len(Numbers(both)) = n + m
        /\ \A i \in 1 .. n + m : Numbers(both)[i] = convert2int(both[i])
    BY <1>1, HashedType
  <1>5. ASSUME NEW i \in 1 .. n + m PROVE Numbers(both)[i] = numbers[i]
    <2>1. CASE i <= n
      <3>1. i \in 1 .. Len(x)
        BY <1>1, <2>1
      <3>2. Numbers(x)[i] = convert2int(x[i])
        BY <3>1, HashedType
      <3> QED
        BY <1>1, <1>3, <1>4, <2>1, <3>2
    <2>2. CASE ~ (i <= n)
      <3>1. i - n \in 1 .. Len(y)
        BY <1>1, <2>2
      <3>2. Numbers(y)[i - n] = convert2int(y[i - n])
        BY <3>1, HashedType
      <3> QED
        BY <1>1, <1>3, <1>4, <2>2, <3>2
    <2> QED
      BY <2>1, <2>2
  <1>6. Numbers(both) = numbers
    BY <1>3, <1>4, <1>5, SameElements
  <1> QED
    BY <1>6 DEF both, numbers

\* One number that the script made.
LEMMA NumbersOfOne ==
  ASSUME NEW n \in Int
  PROVE  <<IntValue(n)>> \in Seq(Hashed) /\ Numbers(<<IntValue(n)>>) = <<n>>
PROOF
  <1>1. <<IntValue(n)>> \in Seq(Hashed)
    BY IntValueIs
  <1>2. PICK v : v = <<IntValue(n)>>
    OBVIOUS
  <1>3. v \in Seq(Hashed) /\ Len(v) = 1 /\ v[1] = IntValue(n)
    BY <1>1, <1>2
  <1>4. Numbers(v) \in Seq(Int) /\ Len(Numbers(v)) = 1 /\ Numbers(v)[1] = n
    BY <1>3, HashedType, IntValueIs
  <1>5. <<n>> \in Seq(Int) /\ Len(<<n>>) = 1 /\ <<n>>[1] = n
    OBVIOUS
  <1>6. Numbers(v) = <<n>>
    BY <1>4, <1>5, SameElements
  <1> QED
    BY <1>1, <1>2, <1>6

\* The script hashes the words of the loaded asset.
LEMMA AssetFieldsAreWords ==
  ASSUME NEW info \in AssetFields
  PROVE  HasDigest(AssetWords(LoadAsset(info)), calculate_asset_hash(info))
PROOF
  <1> DEFINE loaded == LoadAsset(info)
  <1>1. /\ info.asset_id \in YamlStrings /\ info.resolution \in Int
        /\ info.segments \in Seq(Segments)
        /\ info.oracle_price_signed_asset_ids \in Seq(YamlNumbers)
        /\ info.oracle_price_quorum \in Int
        /\ info.oracle_price_signers \in Seq(YamlNumbers)
    BY DEF AssetFields, Segments
  <1>2. /\ loaded.asset_id = convert2int(info.asset_id) /\ loaded.resolution = info.resolution
        /\ loaded.risk_factor_segments = info.segments
        /\ loaded.oracle_price_signed_asset_ids = Numbers(info.oracle_price_signed_asset_ids)
        /\ loaded.oracle_price_quorum = info.oracle_price_quorum
        /\ loaded.oracle_price_signers = Numbers(info.oracle_price_signers)
    BY DEF LoadAsset
  <1> HIDE DEF loaded
  <1>3. \A val \in YamlNumbers : val \in Hashed
    BY DEF YamlNumbers, Hashed
  <1>4. PICK ids \in Seq(Hashed) : ids = info.oracle_price_signed_asset_ids
    BY <1>1, <1>3
  <1>5. PICK signers \in Seq(Hashed) : signers = info.oracle_price_signers
    BY <1>1, <1>3
  <1>6. /\ Len(info.segments) \in Int /\ Len(ids) \in Int /\ Len(signers) \in Int
        /\ Len(ids) = Len(loaded.oracle_price_signed_asset_ids)
        /\ Len(signers) = Len(loaded.oracle_price_signers)
    BY <1>1, <1>2, <1>4, <1>5, HashedType
  <1>7. PICK h \in Seq(Hashed) :
          /\ h = <<info.asset_id, IntValue(info.resolution), IntValue(Len(info.segments))>>
          /\ Numbers(h) = <<loaded.asset_id, loaded.resolution, Len(loaded.risk_factor_segments)>>
    <2>1. PICK v : v = <<info.asset_id, IntValue(info.resolution), IntValue(Len(info.segments))>>
      OBVIOUS
    <2>2. /\ info.asset_id \in Hashed /\ IntValue(info.resolution) \in Hashed
          /\ IntValue(Len(info.segments)) \in Hashed
      BY <1>1, <1>6, IntValueIs DEF Hashed
    <2>3. /\ v \in Seq(Hashed) /\ Len(v) = 3 /\ v[1] = info.asset_id
          /\ v[2] = IntValue(info.resolution) /\ v[3] = IntValue(Len(info.segments))
      BY <2>1, <2>2
    <2>4. /\ Numbers(v) \in Seq(Int) /\ Len(Numbers(v)) = 3
          /\ Numbers(v)[1] = loaded.asset_id /\ Numbers(v)[2] = loaded.resolution
          /\ Numbers(v)[3] = Len(loaded.risk_factor_segments)
      <3>1. /\ Numbers(v) \in Seq(Int) /\ Len(Numbers(v)) = 3
            /\ \A i \in 1 .. 3 : Numbers(v)[i] = convert2int(v[i])
        BY <2>3, HashedType
      <3>2. /\ convert2int(IntValue(info.resolution)) = info.resolution
            /\ convert2int(IntValue(Len(info.segments))) = Len(info.segments)
        BY <1>1, <1>6, IntValueIs
      <3> QED
        BY <1>2, <2>3, <3>1, <3>2
    <2>5. PICK w : w = <<loaded.asset_id, loaded.resolution, Len(loaded.risk_factor_segments)>>
      OBVIOUS
    <2>6. /\ w \in Seq(Int) /\ Len(w) = 3
          /\ w[1] = loaded.asset_id /\ w[2] = loaded.resolution
          /\ w[3] = Len(loaded.risk_factor_segments)
      <3>1. loaded.asset_id \in Int
        BY <1>1, <1>2, ValuesAreNumbers
      <3> QED
        BY <1>1, <1>2, <1>6, <2>5, <3>1
    <2>7. \A i \in 1 .. 3 : Numbers(v)[i] = w[i]
      BY <2>4, <2>6
    <2>8. Numbers(v) = w
      BY <2>4, <2>6, <2>7, SameElements
    <2> QED
      BY <2>1, <2>3, <2>5, <2>8
  <1>8. PICK c \in Seq(Hashed) :
          /\ c = [i \in DOMAIN info.segments |-> IntValue(combined_segment(info.segments[i]))]
          /\ Numbers(c) = Combined(loaded.risk_factor_segments)
    <2>1. PICK v : v = [i \in DOMAIN info.segments |-> IntValue(combined_segment(info.segments[i]))]
      OBVIOUS
    <2>2. /\ DOMAIN info.segments = 1 .. Len(info.segments) /\ Len(info.segments) \in Nat
          /\ \A i \in 1 .. Len(info.segments) : combined_segment(info.segments[i]) \in Int
      BY <1>1, SegmentsTellApart
    <2>3. /\ v \in Seq(Hashed) /\ Len(v) = Len(info.segments)
          /\ \A i \in 1 .. Len(info.segments) : v[i] = IntValue(combined_segment(info.segments[i]))
      BY <2>1, <2>2, IntValueIs
    <2>4. \A i \in 1 .. Len(info.segments) :
            Numbers(v)[i] = Combined(info.segments)[i]
      BY <2>2, <2>3, HashedType, IntValueIs DEF Combined
    <2>5. /\ Numbers(v) \in Seq(Int) /\ Len(Numbers(v)) = Len(info.segments)
          /\ Combined(info.segments) \in Seq(Int)
          /\ Len(Combined(info.segments)) = Len(info.segments)
      BY <1>1, <2>3, HashedType, CombinedTellsApart
    <2>6. Numbers(v) = Combined(info.segments)
      BY <2>4, <2>5, SameElements
    <2> QED
      BY <1>2, <2>1, <2>3, <2>6
  <1>9. PICK l \in Seq(Hashed) :
          /\ l = <<IntValue(Len(info.oracle_price_signed_asset_ids))>>
          /\ Numbers(l) = <<Len(loaded.oracle_price_signed_asset_ids)>>
    BY <1>4, <1>6, NumbersOfOne
  <1>10. PICK q \in Seq(Hashed) :
           /\ q = <<IntValue(info.oracle_price_quorum)>>
           /\ Numbers(q) = <<loaded.oracle_price_quorum>>
    BY <1>1, <1>2, NumbersOfOne
  <1>11. PICK k \in Seq(Hashed) :
           /\ k = <<IntValue(Len(info.oracle_price_signers))>>
           /\ Numbers(k) = <<Len(loaded.oracle_price_signers)>>
    BY <1>5, <1>6, NumbersOfOne
  <1>12. PICK p1 \in Seq(Hashed) : p1 = Join(h, c) /\ Numbers(p1) = Join(Numbers(h), Numbers(c))
    BY Joined, NumbersOfJoin
  <1>13. PICK p2 \in Seq(Hashed) : p2 = Join(p1, l) /\ Numbers(p2) = Join(Numbers(p1), Numbers(l))
    BY Joined, NumbersOfJoin
  <1>14. PICK p3 \in Seq(Hashed) : p3 = Join(p2, ids) /\ Numbers(p3) = Join(Numbers(p2), Numbers(ids))
    BY Joined, NumbersOfJoin
  <1>15. PICK p4 \in Seq(Hashed) : p4 = Join(p3, q) /\ Numbers(p4) = Join(Numbers(p3), Numbers(q))
    BY Joined, NumbersOfJoin
  <1>16. PICK p5 \in Seq(Hashed) : p5 = Join(p4, k) /\ Numbers(p5) = Join(Numbers(p4), Numbers(k))
    BY Joined, NumbersOfJoin
  <1>17. PICK p6 \in Seq(Hashed) :
           p6 = Join(p5, signers) /\ Numbers(p6) = Join(Numbers(p5), Numbers(signers))
    BY Joined, NumbersOfJoin
  <1>18. calculate_asset_hash(info) = hash_fields(p6)
    BY <1>4, <1>5, <1>7, <1>8, <1>9, <1>10, <1>11, <1>12, <1>13, <1>14, <1>15, <1>16, <1>17, Zenon
       DEF calculate_asset_hash, Join
  <1>19. AssetWords(loaded) = Numbers(p6)
    <2>1. Numbers(ids) = loaded.oracle_price_signed_asset_ids
          /\ Numbers(signers) = loaded.oracle_price_signers
      BY <1>2, <1>4, <1>5
    <2>2. Numbers(p6)
            = Join(Join(Join(Join(Join(Join(Numbers(h), Numbers(c)), Numbers(l)), Numbers(ids)),
                             Numbers(q)), Numbers(k)), Numbers(signers))
      BY <1>12, <1>13, <1>14, <1>15, <1>16, <1>17
    <2>3. Numbers(p6)
            = Join(Join(Join(Join(Join(Join(
                <<loaded.asset_id, loaded.resolution, Len(loaded.risk_factor_segments)>>,
                Combined(loaded.risk_factor_segments)),
                <<Len(loaded.oracle_price_signed_asset_ids)>>),
                loaded.oracle_price_signed_asset_ids),
                <<loaded.oracle_price_quorum>>),
                <<Len(loaded.oracle_price_signers)>>),
                loaded.oracle_price_signers)
      BY <1>7, <1>8, <1>9, <1>10, <1>11, <2>1, <2>2
    <2> QED
      BY <2>3, Zenon DEF AssetWords, Join
  <1>20. HasDigest(Numbers(p6), hash_fields(p6))
    BY FieldsDigest
  <1> QED
    BY <1>18, <1>19, <1>20 DEF loaded

\* And the words of the loaded general fields.
LEMMA GeneralFieldsAreWords ==
  ASSUME NEW config \in ConfigFields
  PROVE  HasDigest(GeneralWords(LoadGeneral(config)), calculate_general_config_hash(config))
PROOF
  <1> DEFINE fields ==
        <<IntValue(GENERAL_CONFIG_HASH_VERSION), IntValue(config.max_funding_rate),
          config.collateral_asset_id, IntValue(config.collateral_resolution),
          IntValue(config.fee_position_id), config.fee_public_key,
          IntValue(config.positions_tree_height), IntValue(config.orders_tree_height),
          IntValue(config.price_validity_period), IntValue(config.funding_validity_period),
          IntValue(config.data_availability_mode), BoolValue(config.is_risk_by_balance_only)>>
             words == GeneralWords(LoadGeneral(config))
  <1>1. /\ GENERAL_CONFIG_HASH_VERSION \in Int /\ config.max_funding_rate \in Int
        /\ config.collateral_resolution \in Int /\ config.fee_position_id \in Int
        /\ config.positions_tree_height \in Int /\ config.orders_tree_height \in Int
        /\ config.price_validity_period \in Int /\ config.funding_validity_period \in Int
        /\ config.data_availability_mode \in Int /\ config.is_risk_by_balance_only \in BOOLEAN
        /\ config.collateral_asset_id \in Hashed /\ config.fee_public_key \in Hashed
    <2>1. config.collateral_asset_id \in YamlNumbers /\ config.fee_public_key \in YamlNumbers
      BY DEF ConfigFields
    <2>2. \A val \in YamlNumbers : val \in Hashed
      BY DEF YamlNumbers, Hashed
    <2>3. config.collateral_asset_id \in Hashed /\ config.fee_public_key \in Hashed
      BY <2>1, <2>2
    <2> QED
      BY <2>3, ConfigsAssumption DEF ConfigFields
  <1>2. PICK v : v = fields
    OBVIOUS
  <1>3. v \in Seq(Hashed) /\ Len(v) = 12
    BY <1>1, <1>2, IntValueIs, BoolValueIs
  <1>4. /\ convert2int(v[1]) = GENERAL_CONFIG_HASH_VERSION
        /\ convert2int(v[2]) = config.max_funding_rate
        /\ convert2int(v[3]) = convert2int(config.collateral_asset_id)
        /\ convert2int(v[4]) = config.collateral_resolution
        /\ convert2int(v[5]) = config.fee_position_id
        /\ convert2int(v[6]) = convert2int(config.fee_public_key)
        /\ convert2int(v[7]) = config.positions_tree_height
        /\ convert2int(v[8]) = config.orders_tree_height
        /\ convert2int(v[9]) = config.price_validity_period
        /\ convert2int(v[10]) = config.funding_validity_period
        /\ convert2int(v[11]) = config.data_availability_mode
        /\ convert2int(v[12]) = IF config.is_risk_by_balance_only THEN 1 ELSE 0
    BY <1>1, <1>2, IntValueIs, BoolValueIs
  <1>5. PICK w : w = words
    OBVIOUS
  <1>6. w \in Seq(Int)
    BY <1>5, LoadedGeneralType, GeneralHashIsDigest
  <1>7. /\ Len(w) = 12
        /\ w[1] = GENERAL_CONFIG_HASH_VERSION
        /\ w[2] = config.max_funding_rate
        /\ w[3] = convert2int(config.collateral_asset_id)
        /\ w[4] = config.collateral_resolution
        /\ w[5] = config.fee_position_id
        /\ w[6] = convert2int(config.fee_public_key)
        /\ w[7] = config.positions_tree_height
        /\ w[8] = config.orders_tree_height
        /\ w[9] = config.price_validity_period
        /\ w[10] = config.funding_validity_period
        /\ w[11] = config.data_availability_mode
        /\ w[12] = IF config.is_risk_by_balance_only THEN 1 ELSE 0
    BY <1>5 DEF GeneralWords, LoadGeneral
  <1> HIDE DEF fields, words
  <1>8. \A i \in 1 .. 12 : convert2int(v[i]) = w[i]
    BY <1>4, <1>7
  <1>9. /\ Numbers(v) \in Seq(Int) /\ Len(Numbers(v)) = 12
        /\ \A i \in 1 .. 12 : Numbers(v)[i] = convert2int(v[i])
    BY <1>3, HashedType
  <1>10. Numbers(v) = w
    <2>1. Len(w) = 12
      BY <1>7
    <2>2. \A i \in 1 .. 12 : Numbers(v)[i] = w[i]
      BY <1>8, <1>9, Zenon
    <2>3. \A i \in 1 .. Len(Numbers(v)) : Numbers(v)[i] = w[i]
      BY <1>9, <2>2, Zenon
    <2>4. Len(Numbers(v)) = Len(w) /\ Numbers(v) \in Seq(Int)
      BY <1>9, <2>1, Zenon
    <2> QED
      BY <1>6, <2>3, <2>4, SameElements, ZenonT(60)
  <1>11. calculate_general_config_hash(config) = hash_fields(v)
    BY <1>2, Zenon DEF calculate_general_config_hash, fields
  <1> QED
    BY <1>3, <1>5, <1>10, <1>11, FieldsDigest DEF words

\* The two hashes of an asset, and of the general fields, are the same,
LEMMA HashesAgree ==
  /\ \A info \in AssetFields :
       calculate_asset_hash(info) = synthetic_asset_info_hash(LoadAsset(info))
  /\ \A config \in ConfigFields :
       calculate_general_config_hash(config) = general_config_hash(LoadGeneral(config))
PROOF
  <1>1. ASSUME NEW info \in AssetFields
        PROVE  calculate_asset_hash(info) = synthetic_asset_info_hash(LoadAsset(info))
    <2>1. LoadAsset(info) \in LoadedFields
      BY LoadedAssetType
    <2>2. Len(AssetWords(LoadAsset(info))) \in Nat
      <3>1. AssetWords(LoadAsset(info)) \in Seq(Int)
        BY <2>1, AssetWordsAre
      <3> QED
        BY <3>1
    <2>3. /\ HasDigest(AssetWords(LoadAsset(info)), calculate_asset_hash(info))
          /\ HasDigest(AssetWords(LoadAsset(info)), synthetic_asset_info_hash(LoadAsset(info)))
      BY <2>1, AssetFieldsAreWords, AssetHashIsDigest
    <2> QED
      BY <2>2, <2>3, DigestIsOne
  <1>2. ASSUME NEW config \in ConfigFields
        PROVE  calculate_general_config_hash(config) = general_config_hash(LoadGeneral(config))
    <2>1. LoadGeneral(config) \in LoadedGeneral
      BY LoadedGeneralType
    <2>2. Len(GeneralWords(LoadGeneral(config))) \in Nat
      <3>1. GeneralWords(LoadGeneral(config)) \in Seq(Int)
        BY <2>1, GeneralHashIsDigest
      <3> QED
        BY <3>1
    <2>3. /\ HasDigest(GeneralWords(LoadGeneral(config)), calculate_general_config_hash(config))
          /\ HasDigest(GeneralWords(LoadGeneral(config)), general_config_hash(LoadGeneral(config)))
      BY <2>1, GeneralFieldsAreWords, GeneralHashIsDigest
    <2> QED
      BY <2>2, <2>3, DigestIsOne
  <1> QED
    BY <1>1, <1>2

\* and no two assets, and no two lists of general fields, have the same.
LEMMA HashesTellApart ==
  /\ \A a, b \in LoadedFields :
       synthetic_asset_info_hash(a) = synthetic_asset_info_hash(b) => a = b
  /\ \A a, b \in LoadedGeneral : general_config_hash(a) = general_config_hash(b) => a = b
PROOF
  <1>1. ASSUME NEW a \in LoadedFields, NEW b \in LoadedFields,
               synthetic_asset_info_hash(a) = synthetic_asset_info_hash(b)
        PROVE  a = b
    <2>1. AssetWords(a) \in Seq(Int) /\ AssetWords(b) \in Seq(Int)
      BY AssetWordsAre
    <2>2. /\ HasDigest(AssetWords(a), synthetic_asset_info_hash(a))
          /\ HasDigest(AssetWords(b), synthetic_asset_info_hash(a))
      BY <1>1, AssetHashIsDigest
    <2> QED
      BY <2>1, <2>2, DigestTellsApart, AssetWordsTellApart
  <1>2. ASSUME NEW a \in LoadedGeneral, NEW b \in LoadedGeneral,
               general_config_hash(a) = general_config_hash(b)
        PROVE  a = b
    <2>1. GeneralWords(a) \in Seq(Int) /\ GeneralWords(b) \in Seq(Int)
      BY GeneralHashIsDigest
    <2>2. /\ HasDigest(GeneralWords(a), general_config_hash(a))
          /\ HasDigest(GeneralWords(b), general_config_hash(a))
      BY <1>2, GeneralHashIsDigest
    <2> QED
      BY <2>1, <2>2, DigestTellsApart, GeneralWordsTellApart
  <1> QED
    BY <1>1, <1>2

-----------------------------------------------------------------------------
(* What is registered is the hashes of what was approved.                   *)

RegistryOfApproved ==
  /\ approved.general \subseteq LoadedGeneral
  /\ registry.general = {general_config_hash(g) : g \in approved.general}
  /\ DOMAIN registry.assets = DOMAIN approved.assets
  /\ \A a \in DOMAIN approved.assets :
       /\ approved.assets[a] \in LoadedFields
       /\ registry.assets[a] = synthetic_asset_info_hash(approved.assets[a])

\* The padded id is the id.
LEMMA PaddedIsId ==
  ASSUME NEW val \in YamlStrings, pad_hex_string(val, ASSET_ID_BYTES) # <<>>
  PROVE  Value(16, pad_hex_string(val, ASSET_ID_BYTES)) = convert2int(val)
PROOF
  <1>1. val.type = "str" /\ val.digits \in Seq(Nat) /\ Len(val.digits) \in Nat
    BY DEF YamlStrings
  <1>2. val.base = 16 /\ ~ (Len(val.digits) > 2 * ASSET_ID_BYTES)
    BY DEF pad_hex_string
  <1>3. PICK k \in Nat : k = 2 * ASSET_ID_BYTES - Len(val.digits)
    <2>1. 2 * ASSET_ID_BYTES - Len(val.digits) \in Nat
      BY <1>1, <1>2, ConfigsAssumption
    <2> QED
      BY <2>1, Zenon
  <1>4. pad_hex_string(val, ASSET_ID_BYTES) = [i \in 1 .. k |-> 0] \o val.digits
    BY <1>2, <1>3 DEF pad_hex_string
  <1>5. Value(16, [i \in 1 .. k |-> 0] \o val.digits) = Value(16, val.digits)
    BY <1>1, ValueOfPadded
  <1>6. convert2int(val) = Value(16, val.digits)
    BY <1>1, <1>2 DEF convert2int
  <1> QED
    BY <1>4, <1>5, <1>6

\* The assets of a configuration.
Infos(config) == ToSet(config.synthetic_assets_info)
IdOf(info) == convert2int(info.asset_id)
IdsOf(config) == {IdOf(info) : info \in Infos(config)}

\* Each id is of one of them.
LEMMA IdIsOfOne ==
  ASSUME NEW config \in Configs
  PROVE  /\ \A info \in Infos(config) : info \in AssetFields
         /\ \A info, info2 \in Infos(config) : IdOf(info) = IdOf(info2) => info = info2
PROOF
  <1>1. config.synthetic_assets_info \in Seq(AssetFields)
    BY ConfigsAssumption DEF ConfigFields
  <1>2. \A info \in Infos(config) : \E i \in DOMAIN config.synthetic_assets_info :
          info = config.synthetic_assets_info[i]
    BY DEF Infos, ToSet
  <1>3. \A info \in Infos(config) : info \in AssetFields
    BY <1>1, <1>2
  <1>4. ASSUME NEW info \in Infos(config), NEW info2 \in Infos(config), IdOf(info) = IdOf(info2)
        PROVE  info = info2
    <2>1. PICK i \in DOMAIN config.synthetic_assets_info : info = config.synthetic_assets_info[i]
      BY <1>2
    <2>2. PICK j \in DOMAIN config.synthetic_assets_info : info2 = config.synthetic_assets_info[j]
      BY <1>2
    <2>3. i = j
      BY <1>4, <2>1, <2>2, ConfigsAssumption DEF IdOf
    <2> QED
      BY <2>1, <2>2, <2>3
  <1> QED
    BY <1>3, <1>4

\* What the governor has approved with a configuration, asset by asset.
LEMMA ApprovedByAsset ==
  ASSUME NEW config \in Configs, NEW new,
         new = ByAsset(ToSet(config.synthetic_assets_info),
                       LAMBDA info : convert2int(info.asset_id), LoadAsset)
  PROVE  /\ DOMAIN new = IdsOf(config)
         /\ \A info \in Infos(config) : new[IdOf(info)] = LoadAsset(info)
PROOF
  <1>1. new = [a \in IdsOf(config) |-> LoadAsset(CHOOSE info \in Infos(config) : IdOf(info) = a)]
    BY DEF ByAsset, IdsOf, Infos, IdOf
  <1>2. ASSUME NEW info \in Infos(config) PROVE new[IdOf(info)] = LoadAsset(info)
    <2>1. IdOf(info) \in IdsOf(config)
      BY DEF IdsOf
    <2>2. PICK info2 : info2 = CHOOSE i \in Infos(config) : IdOf(i) = IdOf(info)
      OBVIOUS
    <2>3. info2 \in Infos(config) /\ IdOf(info2) = IdOf(info)
      BY <2>2
    <2>4. info2 = info
      BY <2>3, IdIsOfOne
    <2> QED
      BY <1>1, <2>1, <2>2, <2>4
  <1> QED
    BY <1>1, <1>2

\* And what is registered with it.
LEMMA RegisteredByAsset ==
  ASSUME NEW config \in Configs, NEW hashes \in generate_config_hashes(config), NEW new,
         new = ByAsset(hashes.assets, LAMBDA e : Value(16, e.asset_id), LAMBDA e : e.config_hash)
  PROVE  /\ hashes.general = calculate_general_config_hash(config)
         /\ DOMAIN new = IdsOf(config)
         /\ \A info \in Infos(config) : new[IdOf(info)] = calculate_asset_hash(info)
PROOF
  <1> DEFINE padded(info) == pad_hex_string(info.asset_id, ASSET_ID_BYTES)
             entry(info) == [asset_id |-> padded(info), config_hash |-> calculate_asset_hash(info)]
  <1>1. /\ hashes.general = calculate_general_config_hash(config)
        /\ hashes.assets = {entry(info) : info \in Infos(config)}
        /\ \A info \in Infos(config) : padded(info) # <<>>
    BY DEF generate_config_hashes, Infos
  <1>2. \A info \in Infos(config) : /\ Value(16, entry(info).asset_id) = IdOf(info)
                                    /\ entry(info).config_hash = calculate_asset_hash(info)
    <2> SUFFICES ASSUME NEW info \in Infos(config)
                 PROVE  Value(16, padded(info)) = IdOf(info)
      OBVIOUS
    <2>1. info.asset_id \in YamlStrings
      BY IdIsOfOne DEF AssetFields
    <2> QED
      BY <1>1, <2>1, PaddedIsId DEF IdOf
  <1> HIDE DEF entry, padded
  <1>3. new = [a \in {Value(16, e.asset_id) : e \in hashes.assets} |->
                 (CHOOSE e \in hashes.assets : Value(16, e.asset_id) = a).config_hash]
    BY DEF ByAsset
  <1>4. {Value(16, e.asset_id) : e \in hashes.assets} = IdsOf(config)
    BY <1>1, <1>2 DEF IdsOf
  <1>5. ASSUME NEW info \in Infos(config) PROVE new[IdOf(info)] = calculate_asset_hash(info)
    <2>1. IdOf(info) \in IdsOf(config)
      BY DEF IdsOf
    <2>2. PICK e : e = CHOOSE f \in hashes.assets : Value(16, f.asset_id) = IdOf(info)
      OBVIOUS
    <2>3. \E f \in hashes.assets : Value(16, f.asset_id) = IdOf(info)
      BY <1>1, <1>2
    <2>4. e \in hashes.assets /\ Value(16, e.asset_id) = IdOf(info)
      BY <2>2, <2>3
    <2>5. PICK info2 \in Infos(config) : e = entry(info2)
      BY <1>1, <2>4
    <2>6. info2 = info
      BY <1>2, <2>4, <2>5, IdIsOfOne
    <2>7. new[IdOf(info)] = e.config_hash
      BY <1>3, <1>4, <2>1, <2>2
    <2> QED
      BY <1>2, <2>5, <2>6, <2>7
  <1> QED
    BY <1>1, <1>3, <1>4, <1>5

LEMMA InitRegistry == Init => RegistryOfApproved
PROOF
  <1> SUFFICES ASSUME Init PROVE RegistryOfApproved
    OBVIOUS
  <1>1. /\ approved.general = {} /\ registry.general = {}
        /\ approved.assets = <<>> /\ registry.assets = <<>>
    BY DEF Init
  <1>2. DOMAIN approved.assets = {}
    BY <1>1
  <1> QED
    BY <1>1, <1>2 DEF RegistryOfApproved

LEMMA RegisterKeepsRegistry ==
  ASSUME RegistryOfApproved, NEW config \in Configs, Register(config)
  PROVE  RegistryOfApproved'
PROOF
  <1> DEFINE newApproved == ByAsset(ToSet(config.synthetic_assets_info),
                                    LAMBDA info : convert2int(info.asset_id), LoadAsset)
             newHashes(hashes) == ByAsset(hashes.assets, LAMBDA e : Value(16, e.asset_id),
                                          LAMBDA e : e.config_hash)
  <1>1. PICK hashes \in generate_config_hashes(config) :
          registry' = [general |-> {hashes.general},
                       assets |-> Updated(registry.assets, newHashes(hashes))]
    BY DEF Register
  <1>2. approved' = [general |-> {LoadGeneral(config)},
                     assets |-> Updated(approved.assets, newApproved)]
    BY DEF Register
  <1>3. PICK na : na = newApproved
    OBVIOUS
  <1>4. PICK nh : nh = newHashes(hashes)
    OBVIOUS
  <1>5. DOMAIN na = IdsOf(config) /\ \A info \in Infos(config) : na[IdOf(info)] = LoadAsset(info)
    BY <1>3, ApprovedByAsset
  <1>6. /\ hashes.general = calculate_general_config_hash(config)
        /\ DOMAIN nh = IdsOf(config)
        /\ \A info \in Infos(config) : nh[IdOf(info)] = calculate_asset_hash(info)
    BY <1>4, RegisteredByAsset
  <1> HIDE DEF newApproved, newHashes
  <1>7. config \in ConfigFields
    BY ConfigsAssumption
  <1>8. /\ approved'.general = {LoadGeneral(config)} /\ LoadGeneral(config) \in LoadedGeneral
        /\ registry'.general = {general_config_hash(LoadGeneral(config))}
    BY <1>1, <1>2, <1>6, <1>7, HashesAgree, LoadedGeneralType
  <1>9. /\ approved'.assets = [a \in DOMAIN approved.assets \union IdsOf(config) |->
                                 IF a \in IdsOf(config) THEN na[a] ELSE approved.assets[a]]
        /\ registry'.assets = [a \in DOMAIN registry.assets \union IdsOf(config) |->
                                 IF a \in IdsOf(config) THEN nh[a] ELSE registry.assets[a]]
    BY <1>1, <1>2, <1>3, <1>4, <1>5, <1>6 DEF Updated
  <1>10. ASSUME NEW a \in IdsOf(config)
         PROVE  na[a] \in LoadedFields /\ nh[a] = synthetic_asset_info_hash(na[a])
    <2>1. PICK info \in Infos(config) : a = IdOf(info)
      BY DEF IdsOf
    <2>2. info \in AssetFields
      BY IdIsOfOne
    <2> QED
      BY <1>5, <1>6, <2>1, <2>2, HashesAgree, LoadedAssetType
  <1>11. DOMAIN registry'.assets = DOMAIN approved'.assets
    BY <1>9 DEF RegistryOfApproved
  <1>12. ASSUME NEW a \in DOMAIN approved'.assets
         PROVE  /\ approved'.assets[a] \in LoadedFields
                /\ registry'.assets[a] = synthetic_asset_info_hash(approved'.assets[a])
    <2>1. CASE a \in IdsOf(config)
      <3>1. approved'.assets[a] = na[a] /\ registry'.assets[a] = nh[a]
        BY <1>9, <2>1
      <3> QED
        BY <1>10, <2>1, <3>1
    <2>2. CASE a \notin IdsOf(config)
      <3>1. a \in DOMAIN approved.assets /\ a \in DOMAIN registry.assets
        BY <1>9, <2>2 DEF RegistryOfApproved
      <3>2. approved'.assets[a] = approved.assets[a] /\ registry'.assets[a] = registry.assets[a]
        BY <1>9, <2>2, <3>1
      <3> QED
        BY <3>1, <3>2 DEF RegistryOfApproved
    <2> QED
      BY <2>1, <2>2
  <1>13. registry'.general = {general_config_hash(g) : g \in approved'.general}
    BY <1>8
  <1> QED
    BY <1>8, <1>11, <1>12, <1>13 DEF RegistryOfApproved

\* The contract compares hashes, and so what was approved.
LEMMA AcceptedIsApproved ==
  ASSUME RegistryOfApproved, NEW config \in Configs
  PROVE  ContractAccepts(config) <=> IsApproved(config)
PROOF
  <1>1. config \in ConfigFields /\ LoadGeneral(config) \in LoadedGeneral
    BY ConfigsAssumption, LoadedGeneralType
  <1> DEFINE general == LoadGeneral(config)
             infos == ToSet(LoadedAssets(config))
             hash(info) == synthetic_asset_info_hash(info)
  <1>2. \A info \in infos : info \in LoadedFields
    <2>1. \A i \in DOMAIN config.synthetic_assets_info :
            config.synthetic_assets_info[i] \in AssetFields
      BY <1>1 DEF ConfigFields
    <2>2. \A i \in DOMAIN LoadedAssets(config) : LoadedAssets(config)[i] \in LoadedFields
      BY <2>1, LoadedAssetType DEF LoadedAssets
    <2> QED
      BY <2>2 DEF ToSet
  <1>3. /\ ConfigHashes[config].general = general_config_hash(general)
        /\ ConfigHashes[config].assets
             = {[asset_id |-> info.asset_id, config_hash |-> hash(info)] : info \in infos}
    BY DEF ConfigHashes
  <1>4. general_config_hash(general) \in registry.general <=> general \in approved.general
    <2> HIDE DEF general
    <2>1. ASSUME general_config_hash(general) \in registry.general
          PROVE  general \in approved.general
      <3>1. PICK g \in approved.general : general_config_hash(general) = general_config_hash(g)
        BY <2>1 DEF RegistryOfApproved
      <3>2. g \in LoadedGeneral /\ general \in LoadedGeneral
        BY <1>1 DEF RegistryOfApproved, general
      <3> QED
        BY <3>1, <3>2, HashesTellApart
    <2> QED
      BY <2>1 DEF RegistryOfApproved
  <1> HIDE DEF general, infos
  <1>5. ASSUME NEW info \in infos
        PROVE  (info.asset_id \in DOMAIN registry.assets
                  /\ registry.assets[info.asset_id] = hash(info))
               <=> (info.asset_id \in DOMAIN approved.assets
                      /\ approved.assets[info.asset_id] = info)
    <2>1. DOMAIN registry.assets = DOMAIN approved.assets
      BY DEF RegistryOfApproved
    <2>2. ASSUME info.asset_id \in DOMAIN approved.assets
          PROVE  registry.assets[info.asset_id] = hash(info)
                   <=> approved.assets[info.asset_id] = info
      <3>1. /\ approved.assets[info.asset_id] \in LoadedFields
            /\ registry.assets[info.asset_id] = hash(approved.assets[info.asset_id])
        BY <2>2 DEF RegistryOfApproved
      <3> QED
        BY <1>2, <3>1, HashesTellApart
    <2> QED
      BY <2>1, <2>2
  <1> HIDE DEF hash
  <1>6. ContractAccepts(config)
          <=> /\ general_config_hash(general) \in registry.general
              /\ \A info \in infos : /\ info.asset_id \in DOMAIN registry.assets
                                     /\ registry.assets[info.asset_id] = hash(info)
    <2>1. \A e \in ConfigHashes[config].assets : \E info \in infos :
            e.asset_id = info.asset_id /\ e.config_hash = hash(info)
      BY <1>3
    <2>2. \A info \in infos : \E e \in ConfigHashes[config].assets :
            e.asset_id = info.asset_id /\ e.config_hash = hash(info)
      <3> SUFFICES ASSUME NEW info \in infos
                   PROVE  \E e \in ConfigHashes[config].assets :
                            e.asset_id = info.asset_id /\ e.config_hash = hash(info)
        OBVIOUS
      <3>1. PICK e : e = [asset_id |-> info.asset_id, config_hash |-> hash(info)]
        OBVIOUS
      <3>2. e \in ConfigHashes[config].assets
        BY <1>3, <3>1
      <3> QED
        BY <3>1, <3>2
    <2>3. ConfigHashes[config].general = general_config_hash(general)
      BY <1>3
    <2> QED
      BY <2>1, <2>2, <2>3 DEF ContractAccepts
  <1>7. IsApproved(config)
          <=> /\ general \in approved.general
              /\ \A info \in infos : /\ info.asset_id \in DOMAIN approved.assets
                                     /\ approved.assets[info.asset_id] = info
    BY DEF IsApproved, general, infos
  <1> QED
    BY <1>4, <1>5, <1>6, <1>7

LEMMA NextKeepsRegistry ==
  ASSUME RegistryOfApproved, [Next]_vars
  PROVE  RegistryOfApproved'
PROOF
  <1>1. CASE \E config \in Configs : Register(config)
    BY <1>1, RegisterKeepsRegistry
  <1>2. ASSUME approved' = approved, registry' = registry
        PROVE  RegistryOfApproved'
    BY <1>2 DEF RegistryOfApproved
  <1>3. CASE \E price \in SignablePrices : SignPrice(price)
    BY <1>2, <1>3 DEF SignPrice
  <1>4. CASE \E config \in Configs, end \in 0 .. MaxTime : ExecuteBatchWithoutPrices(config, end)
    BY <1>2, <1>4 DEF ExecuteBatchWithoutPrices
  <1>5. CASE \E config \in Configs, end \in 0 .. MaxTime :
               \E i \in DOMAIN config.synthetic_assets_info : ExecuteBatch(config, i, end)
    BY <1>2, <1>5 DEF ExecuteBatch
  <1>6. CASE UNCHANGED vars
    BY <1>2, <1>6 DEF vars
  <1> QED
    BY <1>1, <1>3, <1>4, <1>5, <1>6 DEF Next

\* generate_perpetual_config_hash.py and general_config_hash.cairo compute the same of
\* the same configuration and not of another: whatever was registered, the contract
\* accepts a batch under the configuration that the governor hashed and no other.
THEOREM ApprovedIsAccepted == Spec => []OnlyTheApprovedIsAccepted
PROOF
  <1>1. Init => RegistryOfApproved
    BY InitRegistry
  <1>2. RegistryOfApproved /\ [Next]_vars => RegistryOfApproved'
    BY NextKeepsRegistry
  <1>3. RegistryOfApproved => OnlyTheApprovedIsAccepted
    BY AcceptedIsApproved DEF OnlyTheApprovedIsAccepted
  <1> QED
    BY <1>1, <1>2, <1>3, PTL DEF Spec

-----------------------------------------------------------------------------
(* Signatures and quorums.                                                 *)

Signables == [signer_key : Nat \ {0}, signed_asset_id : Nat, external_price : Nat, timestamp : Nat]

\* What the command line lets oracles sign, and how many configurations are in force.
SignedInRange ==
  /\ signed \subseteq Signables /\ IsFiniteSet(signed) /\ Cardinality(signed) <= MaxSignatures
  /\ \A s \in signed : s.external_price < EXTERNAL_PRICE_UPPER_BOUND /\ s.timestamp < TIMESTAMP_BOUND
  /\ \A g, h \in approved.general : g = h
  /\ system_time \in Nat

LEMMA InitSigned == Init => SignedInRange
PROOF
  <1> SUFFICES ASSUME Init PROVE SignedInRange
    OBVIOUS
  <1>1. signed = {} /\ approved.general = {} /\ system_time = 0
    BY DEF Init
  <1>2. IsFiniteSet({}) /\ Cardinality({}) = 0
    BY FS_EmptySet
  <1>3. 0 <= MaxSignatures
    BY PricesAssumption
  <1> QED
    BY <1>1, <1>2, <1>3 DEF SignedInRange

LEMMA NextKeepsSigned ==
  ASSUME SignedInRange, [Next]_vars
  PROVE  SignedInRange'
PROOF
  <1>1. ASSUME NEW config \in Configs, Register(config) PROVE SignedInRange'
    BY <1>1 DEF Register, SignedInRange
  <1>2. ASSUME NEW price \in SignablePrices, SignPrice(price) PROVE SignedInRange'
    <2>1. signed' = signed \union {price} /\ approved' = approved /\ system_time' = system_time
      BY <1>2 DEF SignPrice
    <2>2. /\ price \in Signables /\ price.external_price < EXTERNAL_PRICE_UPPER_BOUND
          /\ price.timestamp < TIMESTAMP_BOUND /\ Cardinality(signed) < MaxSignatures
      BY <1>2, PricesAssumption DEF SignPrice, Signables
    <2>3. /\ IsFiniteSet(signed') /\ Cardinality(signed) \in Nat
          /\ Cardinality(signed') <= Cardinality(signed) + 1
      <3>1. IsFiniteSet(signed) /\ Cardinality(signed) \in Nat
        BY FS_CardinalityType DEF SignedInRange
      <3>2. /\ IsFiniteSet(signed \union {price})
            /\ Cardinality(signed \union {price})
                 = IF price \in signed THEN Cardinality(signed) ELSE Cardinality(signed) + 1
        BY <3>1, FS_AddElement
      <3> QED
        BY <2>1, <3>1, <3>2
    <2>4. IsFiniteSet(signed') /\ Cardinality(signed') <= MaxSignatures
      <3>1. Cardinality(signed') \in Nat
        BY <2>3, FS_CardinalityType
      <3> QED
        BY <2>2, <2>3, <3>1, PricesAssumption
    <2> QED
      BY <2>1, <2>2, <2>4 DEF SignedInRange
  <1>3. ASSUME NEW end \in 0 .. MaxTime, system_time' = end, UNCHANGED <<approved, registry, signed>>
        PROVE  SignedInRange'
    BY <1>3 DEF SignedInRange
  <1>4. ASSUME NEW config \in Configs, NEW end \in 0 .. MaxTime,
               ExecuteBatchWithoutPrices(config, end)
        PROVE  SignedInRange'
    BY <1>3, <1>4 DEF ExecuteBatchWithoutPrices
  <1>5. ASSUME NEW config \in Configs, NEW end \in 0 .. MaxTime,
               NEW i \in DOMAIN config.synthetic_assets_info, ExecuteBatch(config, i, end)
        PROVE  SignedInRange'
    BY <1>3, <1>5 DEF ExecuteBatch
  <1>6. CASE UNCHANGED vars
    BY <1>6 DEF vars, SignedInRange
  <1> QED
    BY <1>1, <1>2, <1>4, <1>5, <1>6 DEF Next

\* A signature that is in time is one that was made: the other reading of a price
\* message has a time that no batch has reached.
LEMMA AcceptedIsSigned ==
  ASSUME SignedInRange, NEW bounds, NEW info, bounds.max_time \in 0 .. MaxTime,
         bounds.min_time \in Int,
         NEW sig \in VerifiableSignatures, check_price_signature(bounds, info, sig)
  PROVE  sig \in signed
PROOF
  <1>1. PICK s \in signed :
          /\ sig \in [signer_key : {s.signer_key}, signed_asset_id : {s.signed_asset_id},
                      external_price : 0 .. EXTERNAL_PRICE_UPPER_BOUND - 1,
                      timestamp : 0 .. TIMESTAMP_BOUND]
          /\ price_message(sig) = price_message(s)
    BY DEF VerifiableSignatures
  <1>2. /\ s \in Signables /\ s.timestamp \in 0 .. TIMESTAMP_BOUND - 1 /\ s.external_price \in Int
        /\ TIMESTAMP_BOUND \in Nat \ {0} /\ MaxTime \in Nat
    BY PricesAssumption DEF SignedInRange, Signables
  <1>3. /\ sig.external_price \in Int /\ sig.timestamp \in 0 .. TIMESTAMP_BOUND
        /\ sig.signer_key = s.signer_key /\ sig.signed_asset_id = s.signed_asset_id
    BY <1>1
  <1>4. sig.timestamp \in 0 .. TIMESTAMP_BOUND - 1
    <2>1. sig.timestamp \in bounds.min_time .. bounds.max_time
      BY DEF check_price_signature
    <2>2. sig.timestamp <= MaxTime /\ MaxTime < TIMESTAMP_BOUND
      BY <1>2, <1>3, <2>1, FixedPointAssumption
    <2> QED
      BY <1>2, <1>3, <2>2
  <1>5. sig.external_price * TIMESTAMP_BOUND + sig.timestamp
          = s.external_price * TIMESTAMP_BOUND + s.timestamp
    <2>1. \A a, b, c, d : <<a, b>> = <<c, d>> => b = d
      OBVIOUS
    <2> QED
      BY <1>1, <2>1 DEF price_message
  <1>6. sig.timestamp = s.timestamp
    BY <1>2, <1>3, <1>4, <1>5, LowPart
  <1>7. sig.external_price = s.external_price
    <2>1. (sig.external_price * TIMESTAMP_BOUND + sig.timestamp) \div TIMESTAMP_BOUND
            = sig.external_price
      BY <1>2, <1>3, <1>4, HighPart
    <2>2. (s.external_price * TIMESTAMP_BOUND + s.timestamp) \div TIMESTAMP_BOUND
            = s.external_price
      BY <1>2, HighPart
    <2> QED
      BY <1>5, <2>1, <2>2
  <1>8. sig = s
    <2>1. sig = [signer_key |-> sig.signer_key, signed_asset_id |-> sig.signed_asset_id,
                 external_price |-> sig.external_price, timestamp |-> sig.timestamp]
      BY <1>1
    <2>2. s = [signer_key |-> s.signer_key, signed_asset_id |-> s.signed_asset_id,
               external_price |-> s.external_price, timestamp |-> s.timestamp]
      BY <1>2 DEF Signables
    <2> QED
      BY <1>3, <1>6, <1>7, <2>1, <2>2, Zenon
  <1> QED
    BY <1>8

\* And what was made verifies.
LEMMA SignedVerifies ==
  ASSUME SignedInRange
  PROVE  \A s \in signed : s \in VerifiableSignatures
PROOF
  <1> SUFFICES ASSUME NEW s \in signed PROVE s \in VerifiableSignatures
    OBVIOUS
  <1> DEFINE read(t) == [signer_key : {t.signer_key}, signed_asset_id : {t.signed_asset_id},
                         external_price : 0 .. EXTERNAL_PRICE_UPPER_BOUND - 1,
                         timestamp : 0 .. TIMESTAMP_BOUND]
  <1>1. s \in read(s)
    BY PricesAssumption DEF SignedInRange, Signables
  <1> HIDE DEF read
  <1>2. s \in {sig \in read(s) : price_message(sig) = price_message(s)}
    BY <1>1
  <1> QED
    BY <1>2 DEF VerifiableSignatures, read

Keys(sigs) == {sig.signer_key : sig \in sigs}

LEMMA KeysAreFinite ==
  ASSUME NEW F, IsFiniteSet(F)
  PROVE  IsFiniteSet(Keys(F)) /\ Cardinality(Keys(F)) <= Cardinality(F)
PROOF
  <1> DEFINE f == [sig \in F |-> sig.signer_key]
  <1>1. f \in Surjection(F, Keys(F))
    BY DEF Surjection, Keys
  <1> QED
    BY <1>1, FS_Surjection

\* Signers that increase from one to the next are all different.
LEMMA SignersAscend ==
  ASSUME NEW n \in Nat, NEW sigs, \A i \in 1 .. n : sigs[i].signer_key \in Int,
         \A i \in 1 .. n - 1 : sigs[i].signer_key < sigs[i + 1].signer_key
  PROVE  \A i, j \in 1 .. n : i < j => sigs[i].signer_key < sigs[j].signer_key
PROOF
  <1> DEFINE Good == {m \in Nat : m <= n =>
                        \A i, j \in 1 .. m : i < j => sigs[i].signer_key < sigs[j].signer_key}
  <1>1. 0 \in Good
    OBVIOUS
  <1>2. ASSUME NEW m \in Nat, m \in Good PROVE m + 1 \in Good
    <2> SUFFICES ASSUME m + 1 <= n, NEW i \in 1 .. m + 1, NEW j \in 1 .. m + 1, i < j
                 PROVE  sigs[i].signer_key < sigs[j].signer_key
      OBVIOUS
    <2>1. \A x, y \in 1 .. m : x < y => sigs[x].signer_key < sigs[y].signer_key
      BY <1>2
    <2> HIDE DEF Good
    <2>2. i \in 1 .. m /\ i \in 1 .. n /\ j \in 1 .. n
      OBVIOUS
    <2>3. CASE j \in 1 .. m
      BY <2>1, <2>2, <2>3
    <2>4. CASE j = m + 1
      <3>1. m \in 1 .. n - 1 /\ m \in 1 .. n /\ m \in 1 .. m
        BY <2>2
      <3>2. sigs[m].signer_key < sigs[j].signer_key
        BY <2>4, <3>1
      <3>3. i = m \/ sigs[i].signer_key < sigs[m].signer_key
        BY <2>1, <2>2, <3>1
      <3> QED
        BY <2>2, <3>1, <3>2, <3>3
    <2> QED
      BY <2>3, <2>4
  <1> HIDE DEF Good
  <1>3. n \in Good
    BY <1>1, <1>2, NaturalInduction
  <1> QED
    BY <1>3 DEF Good

\* As many signatures of a list, as many signers.
LEMMA SignersCounted ==
  ASSUME NEW n \in Nat, NEW sigs, \A i \in 1 .. n : sigs[i].signer_key \in Int,
         \A i, j \in 1 .. n : i < j => sigs[i].signer_key < sigs[j].signer_key,
         NEW F, IsFiniteSet(F), NEW I \in SUBSET (1 .. n), \A i \in I : sigs[i] \in F
  PROVE  Cardinality(I) <= Cardinality(Keys(F))
PROOF
  <1> DEFINE g == [i \in I |-> sigs[i].signer_key]
  <1>1. g \in [I -> Keys(F)]
    BY DEF Keys
  <1>2. ASSUME NEW i \in I, NEW j \in I, sigs[i].signer_key = sigs[j].signer_key PROVE i = j
    <2>1. i \in 1 .. n /\ j \in 1 .. n
      OBVIOUS
    <2>2. ~ (i < j) /\ ~ (j < i)
      BY <1>2, <2>1
    <2> QED
      BY <2>1, <2>2
  <1>3. g \in Injection(I, Keys(F))
    BY <1>1, <1>2 DEF Injection, IsInjective
  <1> HIDE DEF g
  <1> QED
    BY <1>3, KeysAreFinite, FS_Injection

\* A set is as large as its two parts.
LEMMA PartsAddUp ==
  ASSUME NEW S, IsFiniteSet(S), NEW T \in SUBSET S
  PROVE  Cardinality(T) + Cardinality(S \ T) = Cardinality(S)
PROOF
  <1> DEFINE Good == {U \in SUBSET S : Cardinality(U \cap T) + Cardinality(U \ T) = Cardinality(U)}
  <1>1. \A U \in SUBSET S : IsFiniteSet(U) /\ Cardinality(U) \in Nat
    BY FS_Subset, FS_CardinalityType
  <1>2. {} \in Good
    <2>1. {} \cap T = {} /\ {} \ T = {} /\ Cardinality({}) = 0
      BY FS_EmptySet
    <2> QED
      BY <2>1
  <1>3. ASSUME NEW U \in SUBSET S, NEW x \in S \ U, U \in Good PROVE U \cup {x} \in Good
    <2> SUFFICES Cardinality((U \cup {x}) \cap T) + Cardinality((U \cup {x}) \ T)
                   = Cardinality(U \cup {x})
      OBVIOUS
    <2>1. Cardinality(U \cap T) + Cardinality(U \ T) = Cardinality(U)
      BY <1>3
    <2>2. /\ Cardinality(U) \in Nat /\ Cardinality(U \cap T) \in Nat /\ Cardinality(U \ T) \in Nat
          /\ IsFiniteSet(U) /\ IsFiniteSet(U \cap T) /\ IsFiniteSet(U \ T)
      BY <1>1
    <2> HIDE DEF Good
    <2>3. Cardinality(U \cup {x}) = Cardinality(U) + 1
      BY <2>2, FS_AddElement
    <2>4. CASE x \in T
      <3>1. (U \cup {x}) \cap T = (U \cap T) \cup {x} /\ (U \cup {x}) \ T = U \ T
        BY <2>4
      <3>2. Cardinality((U \cap T) \cup {x}) = Cardinality(U \cap T) + 1
        BY <2>2, FS_AddElement
      <3>3. \A a, b, c \in Nat : a + b = c => (a + 1) + b = c + 1 /\ a + (b + 1) = c + 1
        OBVIOUS
      <3> QED
        BY <2>1, <2>2, <2>3, <3>1, <3>2, <3>3
    <2>5. CASE x \notin T
      <3>1. (U \cup {x}) \cap T = U \cap T /\ (U \cup {x}) \ T = (U \ T) \cup {x}
        BY <2>5
      <3>2. Cardinality((U \ T) \cup {x}) = Cardinality(U \ T) + 1
        BY <2>2, FS_AddElement
      <3>3. \A a, b, c \in Nat : a + b = c => (a + 1) + b = c + 1 /\ a + (b + 1) = c + 1
        OBVIOUS
      <3>4. Cardinality(U \cap T) + (Cardinality(U \ T) + 1) = Cardinality(U) + 1
        BY <2>1, <2>2, <3>3
      <3> QED
        BY <2>3, <3>1, <3>2, <3>4
    <2> QED
      BY <2>4, <2>5
  <1>4. S \in Good
    <2> HIDE DEF Good
    <2> QED
      BY <1>2, <1>3, SubsetInduction
  <1>5. S \cap T = T
    OBVIOUS
  <1> QED
    BY <1>4, <1>5

\* A list of prices has a median: the least price that half of them do not exceed.
LEMMA MedianExists ==
  ASSUME NEW n \in Nat \ {0}, NEW b \in Nat, NEW prices \in [1 .. n -> 1 .. b]
  PROVE  \E price \in 1 .. b : IsMedian(price, prices)
PROOF
  <1> DEFINE low(v) == {i \in 1 .. n : v >= prices[i]}
             high(v) == {i \in 1 .. n : v <= prices[i]}
             Enough == {v \in 1 .. b : n <= 2 * Cardinality(low(v))}
  <1>1. IsFiniteSet(1 .. n) /\ Cardinality(1 .. n) = n
    BY FS_Interval
  <1>2. \A T \in SUBSET (1 .. n) : IsFiniteSet(T) /\ Cardinality(T) \in Nat
    BY <1>1, FS_Subset, FS_CardinalityType
  <1>3. b \in Enough
    <2>1. \A i \in 1 .. n : prices[i] \in 1 .. b
      OBVIOUS
    <2>2. low(b) = 1 .. n
      BY <2>1
    <2>3. 1 \in 1 .. n
      OBVIOUS
    <2>4. b \in 1 .. b
      BY <2>1, <2>3
    <2>5. n <= 2 * Cardinality(low(b))
      <3>1. Cardinality(low(b)) = n
        BY <1>1, <2>2, Zenon
      <3> HIDE DEF low
      <3> QED
        BY <3>1
    <2> QED
      BY <2>4, <2>5
  <1>4. PICK v \in Enough : \A u \in Enough : v <= u
    <2> HIDE DEF Enough
    <2>1. Enough \in SUBSET Nat
      <3>1. \A u \in Enough : u \in Nat
        BY DEF Enough
      <3> QED
        BY <3>1
    <2>2. Enough # {}
      BY <1>3
    <2> QED
      BY <2>1, <2>2, LeastNatural
  <1>5. v \in 1 .. b /\ n <= 2 * Cardinality(low(v))
    BY <1>4
  <1>6. 2 * Cardinality((1 .. n) \ high(v)) < n
    <2>1. (1 .. n) \ high(v) = low(v - 1)
      BY <1>5
    <2>2. CASE v = 1
      <3>1. low(v - 1) = {}
        BY <2>2
      <3>2. Cardinality(low(v - 1)) = 0
        BY <3>1, FS_EmptySet
      <3> HIDE DEF low, high
      <3>3. Cardinality((1 .. n) \ high(v)) = 0
        BY <2>1, <3>2
      <3> QED
        BY <3>3
    <2>3. CASE v # 1
      <3>1. v - 1 \in 1 .. b /\ v - 1 \in Int
        BY <1>5, <2>3
      <3>2. v - 1 \notin Enough
        BY <1>4, <1>5
      <3>3. ~ (n <= 2 * Cardinality(low(v - 1)))
        BY <3>1, <3>2
      <3>4. Cardinality(low(v - 1)) \in Nat
        BY <1>2
      <3> HIDE DEF low, high
      <3>5. \A k \in Nat : ~ (n <= 2 * k) => 2 * k < n
        OBVIOUS
      <3> QED
        BY <2>1, <3>3, <3>4, <3>5
    <2> QED
      BY <2>2, <2>3
  <1>7. Cardinality(high(v)) + Cardinality((1 .. n) \ high(v)) = n
    <2>1. high(v) \in SUBSET (1 .. n)
      OBVIOUS
    <2> HIDE DEF high
    <2> QED
      BY <1>1, <2>1, PartsAddUp
  <1>8. n <= 2 * Cardinality(high(v))
    <2>1. Cardinality(high(v)) \in Nat /\ Cardinality((1 .. n) \ high(v)) \in Nat
      BY <1>2
    <2> HIDE DEF high
    <2> QED
      BY <1>6, <1>7, <2>1
  <1>9. Len(prices) = n /\ DOMAIN prices = 1 .. n
    OBVIOUS
  <1>10. IsMedian(v, prices)
    BY <1>5, <1>8, <1>9 DEF IsMedian
  <1> QED
    BY <1>5, <1>10

\* The rounded price is a number.
LEMMA InternalPriceType ==
  ASSUME NEW info \in LoadedFields, NEW resolution \in Nat, NEW price \in Nat
  PROVE  internal_price(info, resolution, price) \in Int
PROOF
  <1> DEFINE numerator == price * resolution * FXP_32_ONE
             denominator == info.resolution * EXTERNAL_PRICE_FIXED_POINT_UNIT
  <1>1. numerator \in Int
    <2>1. \A x, y, z \in Int : x * y * z \in Int
      OBVIOUS
    <2>2. FXP_32_ONE \in Int
      BY FixedPointAssumption
    <2> QED
      BY <2>1, <2>2
  <1>2. denominator \in Nat \ {0}
    <2>1. \A x, y \in Nat \ {0} : x * y \in Nat \ {0}
      OBVIOUS
    <2>2. info.resolution \in Nat \ {0} /\ EXTERNAL_PRICE_FIXED_POINT_UNIT \in Nat \ {0}
      BY FixedPointAssumption DEF LoadedFields
    <2> QED
      BY <2>1, <2>2
  <1> HIDE DEF numerator, denominator
  <1>3. (numerator + denominator \div 2) \div denominator \in Int
    <2>1. \A x \in Int : \A y \in Nat \ {0} : x \div y \in Int
      BY SMT
    <2>2. denominator \div 2 \in Int
      BY <1>2, <2>1
    <2>3. numerator + denominator \div 2 \in Int
      BY <1>1, <2>2
    <2> QED
      BY <1>2, <2>1, <2>3
  <1> QED
    BY <1>3 DEF internal_price, numerator, denominator

FreshAt(info, validity, start, end) == {sig \in signed : Fresh(sig, info, validity, start, end)}

\* A provable price is the median of a list of fresh signatures of a quorum: enough of
\* them, and half of them on either side.
LEMMA ProvableIsBacked ==
  ASSUME SignedInRange, NEW info \in LoadedFields, NEW resolution \in Nat, NEW validity \in Nat,
         NEW end \in 0 .. MaxTime, NEW bounds,
         bounds = [min_time |-> system_time - validity, max_time |-> end],
         NEW price \in ProvablePrices(bounds, info, resolution), NEW fresh,
         fresh = FreshAt(info, validity, system_time, end)
  PROVE  /\ price \in 1 .. PRICE_UPPER_BOUND - 1
         /\ Cardinality(Keys(fresh)) \in Nat /\ Cardinality(Keys(fresh)) >= info.oracle_price_quorum
         /\ \A p \in Int : p >= price =>
              LET below == Keys({sig \in fresh : internal_price(info, resolution, sig.external_price) <= p})
              IN  2 * Cardinality(below) >= info.oracle_price_quorum
         /\ \A p \in Int : p <= price =>
              LET above == Keys({sig \in fresh : internal_price(info, resolution, sig.external_price) >= p})
              IN  2 * Cardinality(above) >= info.oracle_price_quorum
PROOF
  <1> DEFINE accepted == {sig \in VerifiableSignatures : check_price_signature(bounds, info, sig)}
             prices(sigs) == [i \in DOMAIN sigs |->
                                internal_price(info, resolution, sigs[i].external_price)]
             quorum == info.oracle_price_quorum
  <1>1. PICK sigs \in BoundedSeq(accepted, MaxSignatures) :
          /\ check_oracle_price_inner(bounds, info, sigs)
          /\ IsMedian(price, prices(sigs))
    BY DEF ProvablePrices
  <1>2. price \in 1 .. PRICE_UPPER_BOUND - 1 /\ price \in Int
    BY DEF ProvablePrices
  <1>3. PICK n \in 0 .. MaxSignatures : sigs \in [1 .. n -> accepted]
    BY <1>1 DEF BoundedSeq, SeqOf
  <1>4. n \in Nat /\ Len(sigs) = n /\ DOMAIN sigs = 1 .. n
    <2> HIDE DEF accepted
    <2> QED
      BY <1>3, PricesAssumption
  <1>5. \A sig \in accepted : sig \in fresh
    <2> SUFFICES ASSUME NEW sig \in accepted PROVE sig \in fresh
      OBVIOUS
    <2>1. /\ bounds.max_time = end /\ bounds.min_time = system_time - validity
          /\ bounds.min_time \in Int
      BY DEF SignedInRange
    <2>2. sig \in signed
      BY <2>1, AcceptedIsSigned
    <2>3. check_price_signature(bounds, info, sig)
      OBVIOUS
    <2> QED
      BY <2>1, <2>2, <2>3 DEF FreshAt, Fresh, check_price_signature
  <1>6. \A i \in 1 .. n : sigs[i] \in fresh
    <2> HIDE DEF accepted
    <2> QED
      BY <1>3, <1>5
  <1> HIDE DEF accepted
  <1>7. fresh \subseteq signed /\ IsFiniteSet(fresh)
    <2>1. fresh \subseteq signed
      BY DEF FreshAt
    <2> QED
      BY <2>1, FS_Subset DEF SignedInRange
  <1>8. \A sig \in fresh : sig.signer_key \in Int /\ sig.external_price \in Nat
    BY <1>7 DEF SignedInRange, Signables
  <1>9. \A i \in 1 .. n : sigs[i].signer_key \in Int
    BY <1>6, <1>8
  <1>10. \A i, j \in 1 .. n : i < j => sigs[i].signer_key < sigs[j].signer_key
    <2>1. \A i \in 1 .. n - 1 : sigs[i].signer_key < sigs[i + 1].signer_key
      BY <1>1, <1>4 DEF check_oracle_price_inner, SignersIncrease
    <2> QED
      BY <1>4, <1>9, <2>1, SignersAscend
  <1>11. quorum \in Nat /\ quorum <= n
    BY <1>1, <1>4 DEF check_oracle_price_inner, LoadedFields
  <1>12. ASSUME NEW F \in SUBSET fresh, NEW I \in SUBSET (1 .. n), \A i \in I : sigs[i] \in F
         PROVE  /\ Cardinality(I) \in Nat /\ Cardinality(Keys(F)) \in Nat
                /\ Cardinality(I) <= Cardinality(Keys(F))
    <2>1. IsFiniteSet(F) /\ IsFiniteSet(Keys(F))
      BY <1>7, FS_Subset, KeysAreFinite
    <2>2. Cardinality(I) <= Cardinality(Keys(F))
      BY <1>4, <1>9, <1>10, <1>12, <2>1, SignersCounted
    <2>3. IsFiniteSet(1 .. n)
      BY <1>4, FS_Interval
    <2>4. IsFiniteSet(I)
      BY <2>3, FS_Subset
    <2> QED
      BY <2>1, <2>2, <2>4, FS_CardinalityType
  <1>13. Cardinality(Keys(fresh)) \in Nat /\ Cardinality(Keys(fresh)) >= quorum
    <2>1. Cardinality(1 .. n) = n
      BY <1>4, FS_Interval
    <2>2. /\ Cardinality(Keys(fresh)) \in Nat
          /\ Cardinality(1 .. n) <= Cardinality(Keys(fresh))
      BY <1>6, <1>12
    <2> QED
      BY <1>4, <1>11, <2>1, <2>2
  <1> DEFINE p(i) == internal_price(info, resolution, sigs[i].external_price)
             low == {i \in 1 .. n : price >= p(i)}
             high == {i \in 1 .. n : price <= p(i)}
  <1>14. \A i \in 1 .. n : p(i) \in Int
    BY <1>6, <1>8, InternalPriceType
  <1>15. n <= 2 * Cardinality(low) /\ n <= 2 * Cardinality(high)
    <2>1. PICK ps : ps = prices(sigs)
      OBVIOUS
    <2>2. ps = [i \in 1 .. n |-> p(i)]
      BY <1>4, <2>1
    <2>3. Len(ps) = n /\ DOMAIN ps = 1 .. n /\ \A i \in 1 .. n : ps[i] = p(i)
      <3> HIDE DEF p
      <3> QED
        BY <1>4, <2>2
    <2>4. IsMedian(price, ps)
      BY <1>1, <2>1
    <2>5. /\ {i \in DOMAIN ps : price <= ps[i]} = high
          /\ {i \in DOMAIN ps : price >= ps[i]} = low
      <3> HIDE DEF p
      <3> QED
        BY <2>3
    <2> HIDE DEF low, high
    <2> QED
      BY <2>3, <2>4, <2>5 DEF IsMedian
  <1>16. ASSUME NEW q \in Int, q >= price
         PROVE  2 * Cardinality(Keys({sig \in fresh :
                  internal_price(info, resolution, sig.external_price) <= q})) >= quorum
    <2> DEFINE F == {sig \in fresh : internal_price(info, resolution, sig.external_price) <= q}
    <2>1. \A i \in low : sigs[i] \in F
      <3> SUFFICES ASSUME NEW i \in low PROVE sigs[i] \in F
        OBVIOUS
      <3>1. i \in 1 .. n /\ price >= p(i)
        OBVIOUS
      <3>2. p(i) \in Int /\ sigs[i] \in fresh
        BY <1>6, <1>14, <3>1
      <3>3. p(i) <= q
        <4> HIDE DEF p
        <4> QED
          BY <1>2, <1>16, <3>1, <3>2
      <3> QED
        BY <3>2, <3>3
    <2>2. F \in SUBSET fresh /\ low \in SUBSET (1 .. n)
      OBVIOUS
    <2> HIDE DEF F, low
    <2>3. /\ Cardinality(low) \in Nat /\ Cardinality(Keys(F)) \in Nat
          /\ Cardinality(low) <= Cardinality(Keys(F))
      BY <1>12, <2>1, <2>2
    <2>4. 2 * Cardinality(Keys(F)) >= quorum
      BY <1>4, <1>11, <1>15, <2>3
    <2> QED
      BY <2>4 DEF F
  <1>17. ASSUME NEW q \in Int, q <= price
         PROVE  2 * Cardinality(Keys({sig \in fresh :
                  internal_price(info, resolution, sig.external_price) >= q})) >= quorum
    <2> DEFINE F == {sig \in fresh : internal_price(info, resolution, sig.external_price) >= q}
    <2>1. \A i \in high : sigs[i] \in F
      <3> SUFFICES ASSUME NEW i \in high PROVE sigs[i] \in F
        OBVIOUS
      <3>1. i \in 1 .. n /\ price <= p(i)
        OBVIOUS
      <3>2. p(i) \in Int /\ sigs[i] \in fresh
        BY <1>6, <1>14, <3>1
      <3>3. p(i) >= q
        <4> HIDE DEF p
        <4> QED
          BY <1>2, <1>17, <3>1, <3>2
      <3> QED
        BY <3>2, <3>3
    <2>2. F \in SUBSET fresh /\ high \in SUBSET (1 .. n)
      OBVIOUS
    <2> HIDE DEF F, high
    <2>3. /\ Cardinality(high) \in Nat /\ Cardinality(Keys(F)) \in Nat
          /\ Cardinality(high) <= Cardinality(Keys(F))
      BY <1>12, <2>1, <2>2
    <2>4. 2 * Cardinality(Keys(F)) >= quorum
      BY <1>4, <1>11, <1>15, <2>3
    <2> QED
      BY <2>4 DEF F
  <1> HIDE DEF p, low, high, prices
  <1> QED
    BY <1>2, <1>13, <1>16, <1>17

\* The step of the property.
PriceIsBacked ==
  \A general \in approved.general :
    Backed(batch'.price, batch'.system_time, batch'.end_system_time,
           approved.assets[batch'.asset_id], general)

LEMMA ExecuteIsBacked ==
  ASSUME SignedInRange, RegistryOfApproved, NEW config \in Configs, NEW end \in 0 .. MaxTime,
         NEW i \in DOMAIN config.synthetic_assets_info, ExecuteBatch(config, i, end)
  PROVE  PriceIsBacked
PROOF
  <1> DEFINE info == LoadedAssets(config)[i]
             bounds == BatchTimes(config, end)
             provable == ProvablePrices(bounds, info, config.collateral_resolution)
             validity == config.price_validity_period
             resolution == config.collateral_resolution
  <1>1. CanExecute(config, end)
    BY DEF ExecuteBatch
  <1>2. PICK min \in provable, max \in provable : \E price \in min .. max :
          batch' = [system_time |-> system_time, end_system_time |-> end,
                    asset_id |-> info.asset_id, price |-> price]
    BY DEF ExecuteBatch
  <1>3. PICK price \in min .. max :
          batch' = [system_time |-> system_time, end_system_time |-> end,
                    asset_id |-> info.asset_id, price |-> price]
    BY <1>2
  <1>4. /\ LoadGeneral(config) \in approved.general
        /\ info \in LoadedFields /\ approved.assets[info.asset_id] = info
    <2>1. IsApproved(config)
      BY <1>1, AcceptedIsApproved DEF CanExecute
    <2>2. config \in ConfigFields
      BY ConfigsAssumption
    <2>3. config.synthetic_assets_info[i] \in AssetFields
      BY <2>2 DEF ConfigFields
    <2>4. info = LoadAsset(config.synthetic_assets_info[i]) /\ info \in ToSet(LoadedAssets(config))
      BY DEF LoadedAssets, ToSet
    <2> HIDE DEF info
    <2> QED
      BY <2>1, <2>3, <2>4, LoadedAssetType DEF IsApproved
  <1>5. /\ validity \in Nat /\ resolution \in Nat
        /\ \A general \in approved.general :
             general.price_validity_period = validity /\ general.collateral_resolution = resolution
    <2>1. config.price_validity_period \in Nat /\ config.collateral_resolution \in Nat
      BY ConfigsAssumption DEF ConfigFields
    <2>2. \A general \in approved.general : general = LoadGeneral(config)
      BY <1>4 DEF SignedInRange
    <2>3. /\ LoadGeneral(config).price_validity_period = config.price_validity_period
          /\ LoadGeneral(config).collateral_resolution = config.collateral_resolution
      BY DEF LoadGeneral
    <2> QED
      BY <2>1, <2>2, <2>3
  <1>6. bounds = [min_time |-> system_time - validity, max_time |-> end]
    BY DEF BatchTimes
  <1>7. PICK fresh : fresh = FreshAt(info, validity, system_time, end)
    OBVIOUS
  <1> HIDE DEF info, bounds, validity, resolution
  <1>8. ASSUME NEW v \in provable
        PROVE  /\ v \in 1 .. PRICE_UPPER_BOUND - 1
               /\ Cardinality(Keys(fresh)) \in Nat
               /\ Cardinality(Keys(fresh)) >= info.oracle_price_quorum
               /\ \A p \in Int : p >= v =>
                    2 * Cardinality(Keys({sig \in fresh :
                      internal_price(info, resolution, sig.external_price) <= p}))
                      >= info.oracle_price_quorum
               /\ \A p \in Int : p <= v =>
                    2 * Cardinality(Keys({sig \in fresh :
                      internal_price(info, resolution, sig.external_price) >= p}))
                      >= info.oracle_price_quorum
    <2>1. v \in ProvablePrices(bounds, info, resolution)
      BY DEF resolution
    <2> HIDE DEF provable
    <2> QED
      BY <1>4, <1>5, <1>6, <1>7, <2>1, ProvableIsBacked
  <1> HIDE DEF provable
  <1>9. price \in Int /\ price >= min /\ price <= max
    <2>1. min \in Int /\ max \in Int
      BY <1>8
    <2> QED
      BY <2>1
  <1>10. /\ batch'.price = price /\ batch'.system_time = system_time
         /\ batch'.end_system_time = end /\ batch'.asset_id = info.asset_id
    BY <1>3
  <1>11. ASSUME NEW general \in approved.general
         PROVE  Backed(price, system_time, end, info, general)
    <2>1. {sig \in signed : Fresh(sig, info, general.price_validity_period, system_time, end)} = fresh
      BY <1>5, <1>7 DEF FreshAt
    <2>2. Cardinality({sig.signer_key : sig \in fresh}) >= info.oracle_price_quorum
      BY <1>8 DEF Keys
    <2>3. \A sig : Price(sig, info, general) = internal_price(info, resolution, sig.external_price)
      BY <1>5 DEF Price
    <2>4. 2 * Cardinality({sig.signer_key : sig \in {sig \in fresh : Price(sig, info, general) <= price}})
            >= info.oracle_price_quorum
      <3>1. {sig \in fresh : Price(sig, info, general) <= price}
              = {sig \in fresh : internal_price(info, resolution, sig.external_price) <= price}
        BY <2>3
      <3>2. 2 * Cardinality(Keys({sig \in fresh :
                internal_price(info, resolution, sig.external_price) <= price}))
              >= info.oracle_price_quorum
        BY <1>8, <1>9
      <3> QED
        BY <3>1, <3>2 DEF Keys
    <2>5. 2 * Cardinality({sig.signer_key : sig \in {sig \in fresh : Price(sig, info, general) >= price}})
            >= info.oracle_price_quorum
      <3>1. {sig \in fresh : Price(sig, info, general) >= price}
              = {sig \in fresh : internal_price(info, resolution, sig.external_price) >= price}
        BY <2>3
      <3>2. 2 * Cardinality(Keys({sig \in fresh :
                internal_price(info, resolution, sig.external_price) >= price}))
              >= info.oracle_price_quorum
        BY <1>8, <1>9
      <3> QED
        BY <3>1, <3>2 DEF Keys
    <2> QED
      BY <2>1, <2>2, <2>4, <2>5, Zenon DEF Backed
  <1> QED
    BY <1>4, <1>10, <1>11 DEF PriceIsBacked

LEMMA NextIsBacked ==
  ASSUME SignedInRange, RegistryOfApproved, [Next]_vars
  PROVE  [batch' # batch /\ batch' # NoBatch => PriceIsBacked]_vars
PROOF
  <1> SUFFICES ASSUME batch' # batch, batch' # NoBatch PROVE PriceIsBacked
    OBVIOUS
  <1>1. ~ (\E config \in Configs : Register(config))
    BY DEF Register
  <1>2. ~ (\E price \in SignablePrices : SignPrice(price))
    BY DEF SignPrice
  <1>3. ~ (\E config \in Configs, end \in 0 .. MaxTime : ExecuteBatchWithoutPrices(config, end))
    BY DEF ExecuteBatchWithoutPrices
  <1>4. ~ UNCHANGED vars
    BY DEF vars
  <1>5. PICK config \in Configs, end \in 0 .. MaxTime :
          \E i \in DOMAIN config.synthetic_assets_info : ExecuteBatch(config, i, end)
    BY <1>1, <1>2, <1>3, <1>4 DEF Next
  <1> QED
    BY <1>5, ExecuteIsBacked

\* check_oracle_price, oracle_prices_tick.cairo: whatever was signed, a batch
\* uses a price only when a quorum of approved signers stands behind it, half of it
\* on either side: a signature cannot be read as of another time or price.
THEOREM PricesAreBacked == Spec => AcceptedPricesAreBacked
PROOF
  <1>1. Init => SignedInRange /\ RegistryOfApproved
    BY InitSigned, InitRegistry
  <1>2. SignedInRange /\ RegistryOfApproved /\ [Next]_vars => (SignedInRange /\ RegistryOfApproved)'
    BY NextKeepsSigned, NextKeepsRegistry
  <1>3. SignedInRange /\ RegistryOfApproved /\ [Next]_vars
          => [batch' # batch /\ batch' # NoBatch => PriceIsBacked]_vars
    BY NextIsBacked
  <1> QED
    BY <1>1, <1>2, <1>3, PTL DEF Spec, AcceptedPricesAreBacked, PriceIsBacked

\* The signatures of distinct signers, put in the order of their keys, pass
\* check_oracle_price with one of their prices in the middle.
LEMMA FreshGivePrice ==
  ASSUME SignedInRange, NEW info \in LoadedFields, NEW resolution \in Nat, NEW validity \in Nat,
         NEW end \in 0 .. MaxTime, NEW bounds,
         bounds = [min_time |-> system_time - validity, max_time |-> end],
         NEW fresh, fresh = FreshAt(info, validity, system_time, end),
         Cardinality(Keys(fresh)) >= info.oracle_price_quorum,
         \A sig \in fresh :
           internal_price(info, resolution, sig.external_price) \in 1 .. PRICE_UPPER_BOUND - 1
  PROVE  ProvablePrices(bounds, info, resolution) # {}
PROOF
  <1> DEFINE accepted == {sig \in VerifiableSignatures : check_price_signature(bounds, info, sig)}
             prices(sigs) == [i \in DOMAIN sigs |->
                                internal_price(info, resolution, sigs[i].external_price)]
  <1>1. PICK n : n = Cardinality(Keys(fresh))
    OBVIOUS
  <1>2. fresh \subseteq signed /\ IsFiniteSet(fresh) /\ Cardinality(fresh) <= MaxSignatures
    <2>1. fresh \subseteq signed
      BY DEF FreshAt
    <2>2. /\ IsFiniteSet(signed) /\ IsFiniteSet(fresh)
          /\ Cardinality(fresh) <= Cardinality(signed) /\ Cardinality(signed) <= MaxSignatures
      BY <2>1, FS_Subset DEF SignedInRange
    <2>3. Cardinality(fresh) \in Nat /\ Cardinality(signed) \in Nat /\ MaxSignatures \in Nat
      BY <2>2, FS_CardinalityType, PricesAssumption
    <2> QED
      BY <2>1, <2>2, <2>3
  <1>3. IsFiniteSet(Keys(fresh)) /\ n \in Nat /\ n <= MaxSignatures
    <2>1. IsFiniteSet(Keys(fresh)) /\ Cardinality(Keys(fresh)) <= Cardinality(fresh)
      BY <1>2, KeysAreFinite
    <2>2. Cardinality(fresh) \in Nat /\ Cardinality(Keys(fresh)) \in Nat /\ MaxSignatures \in Nat
      BY <1>2, <2>1, FS_CardinalityType, PricesAssumption
    <2> QED
      BY <1>1, <1>2, <2>1, <2>2
  <1>4. n \in Nat \ {0} /\ info.oracle_price_quorum <= n
    <2>1. info.oracle_price_quorum \in Nat \ {0}
      BY DEF LoadedFields
    <2> QED
      BY <1>1, <1>3, <2>1
  <1>5. \A sig \in fresh : sig.signer_key \in Nat \ {0}
    BY <1>2 DEF SignedInRange, Signables
  <1>6. PICK seq : Ascends(seq, Keys(fresh), n)
    <2>1. Keys(fresh) \in SUBSET Nat
      BY <1>5 DEF Keys
    <2> QED
      BY <1>1, <1>3, <2>1, SetsCanBeSorted
  <1>7. \A i \in 1 .. n : seq[i] \in Keys(fresh)
    BY <1>6 DEF Ascends
  <1> DEFINE signer(i) == CHOOSE sig \in fresh : sig.signer_key = seq[i]
             sigs == [i \in 1 .. n |-> signer(i)]
  <1>8. \A i \in 1 .. n : signer(i) \in fresh /\ signer(i).signer_key = seq[i]
    <2> SUFFICES ASSUME NEW i \in 1 .. n PROVE signer(i) \in fresh /\ signer(i).signer_key = seq[i]
      OBVIOUS
    <2>1. \E sig \in fresh : sig.signer_key = seq[i]
      BY <1>7 DEF Keys
    <2> QED
      BY <2>1
  <1> HIDE DEF signer
  <1>9. \A i \in 1 .. n : sigs[i] \in fresh /\ sigs[i].signer_key = seq[i]
    BY <1>8
  <1>10. Len(sigs) = n /\ DOMAIN sigs = 1 .. n
    BY <1>3
  <1>11. fresh \subseteq accepted
    <2> SUFFICES ASSUME NEW sig \in fresh PROVE sig \in accepted
      OBVIOUS
    <2>1. sig \in signed /\ Fresh(sig, info, validity, system_time, end)
      BY DEF FreshAt
    <2>2. sig \in VerifiableSignatures
      BY <2>1, SignedVerifies
    <2>3. check_price_signature(bounds, info, sig)
      BY <2>1 DEF Fresh, check_price_signature
    <2> QED
      BY <2>2, <2>3
  <1>12. sigs \in BoundedSeq(accepted, MaxSignatures)
    <2> HIDE DEF accepted
    <2>1. sigs \in [1 .. n -> accepted]
      BY <1>8, <1>11
    <2>2. n \in 0 .. MaxSignatures
      BY <1>3, PricesAssumption
    <2> HIDE DEF sigs
    <2> QED
      BY <2>1, <2>2 DEF BoundedSeq, SeqOf
  <1>13. check_oracle_price_inner(bounds, info, sigs)
    <2> HIDE DEF sigs
    <2>1. \A i \in 1 .. n : sigs[i].signer_key \in Nat \ {0}
      BY <1>5, <1>9
    <2>2. \A i \in 1 .. n - 1 : sigs[i].signer_key < sigs[i + 1].signer_key
      <3> SUFFICES ASSUME NEW i \in 1 .. n - 1 PROVE sigs[i].signer_key < sigs[i + 1].signer_key
        OBVIOUS
      <3>1. i \in 1 .. n /\ i + 1 \in 1 .. n /\ i < i + 1
        BY <1>4
      <3>2. seq[i] < seq[i + 1]
        BY <1>6, <3>1 DEF Ascends
      <3> QED
        BY <1>9, <3>1, <3>2
    <2>3. SignersIncrease(sigs)
      <3>1. \A k \in Nat \ {0} : k > 0
        OBVIOUS
      <3> QED
        BY <1>10, <2>1, <2>2, <3>1 DEF SignersIncrease
    <2>4. \A i \in DOMAIN sigs : check_price_signature(bounds, info, sigs[i])
      BY <1>9, <1>10, <1>11
    <2> QED
      BY <1>4, <1>10, <2>3, <2>4 DEF check_oracle_price_inner
  <1>14. \E price \in 1 .. PRICE_UPPER_BOUND - 1 : IsMedian(price, prices(sigs))
    <2> DEFINE p(i) == internal_price(info, resolution, sigs[i].external_price)
    <2>1. \A i \in 1 .. n : p(i) \in 1 .. PRICE_UPPER_BOUND - 1
      <3> HIDE DEF sigs
      <3> QED
        BY <1>9
    <2>2. prices(sigs) = [i \in 1 .. n |-> p(i)]
      <3> HIDE DEF sigs
      <3> QED
        BY <1>10
    <2> HIDE DEF p
    <2>3. prices(sigs) \in [1 .. n -> 1 .. PRICE_UPPER_BOUND - 1]
      <3>1. [i \in 1 .. n |-> p(i)] \in [1 .. n -> 1 .. PRICE_UPPER_BOUND - 1]
        BY <2>1
      <3> QED
        BY <2>2, <3>1, Zenon
    <2>4. PRICE_UPPER_BOUND - 1 \in Nat
      <3>1. 1 \in 1 .. n
        BY <1>4
      <3>2. p(1) \in 1 .. PRICE_UPPER_BOUND - 1
        BY <2>1, <3>1
      <3> QED
        BY <3>2, PricesAssumption
    <2> HIDE DEF prices, sigs
    <2> QED
      BY <1>4, <2>3, <2>4, MedianExists
  <1>15. PICK list : list = sigs
    OBVIOUS
  <1> HIDE DEF sigs
  <1>16. PICK price \in 1 .. PRICE_UPPER_BOUND - 1 : IsMedian(price, prices(list))
    BY <1>14, <1>15
  <1>17. price \in ProvablePrices(bounds, info, resolution)
    BY <1>12, <1>13, <1>15, <1>16 DEF ProvablePrices
  <1> QED
    BY <1>17

LEMMA QuorumGives ==
  ASSUME SignedInRange, RegistryOfApproved
  PROVE  QuorumGivesPrice
PROOF
  <1> SUFFICES ASSUME NEW general \in approved.general, NEW end \in system_time .. MaxTime,
                      NEW a \in DOMAIN approved.assets, NEW info, info = approved.assets[a],
                      NEW fresh,
                      fresh = {sig \in signed : Fresh(sig, info, general.price_validity_period,
                                                      system_time, end)},
                      Cardinality({sig.signer_key : sig \in fresh}) >= info.oracle_price_quorum,
                      \A sig \in fresh : Price(sig, info, general) \in 1 .. PRICE_UPPER_BOUND - 1
               PROVE  ProvablePrices(BatchTimes(general, end), info,
                                     general.collateral_resolution) # {}
    BY DEF QuorumGivesPrice
  <1>1. info \in LoadedFields
    BY DEF RegistryOfApproved
  <1>2. general.price_validity_period \in Nat /\ general.collateral_resolution \in Nat
    BY DEF RegistryOfApproved, LoadedGeneral
  <1>3. end \in 0 .. MaxTime
    <2>1. system_time \in Nat /\ MaxTime \in Nat
      BY PricesAssumption DEF SignedInRange
    <2> QED
      BY <2>1
  <1>4. fresh = FreshAt(info, general.price_validity_period, system_time, end)
    BY DEF FreshAt
  <1>5. Cardinality(Keys(fresh)) >= info.oracle_price_quorum
    BY DEF Keys
  <1>6. \A sig \in fresh :
          internal_price(info, general.collateral_resolution, sig.external_price)
            \in 1 .. PRICE_UPPER_BOUND - 1
    BY DEF Price
  <1>7. PICK bounds : bounds = [min_time |-> system_time - general.price_validity_period,
                                max_time |-> end]
    OBVIOUS
  <1>8. ProvablePrices(bounds, info, general.collateral_resolution) # {}
    BY <1>1, <1>2, <1>3, <1>4, <1>5, <1>6, <1>7, FreshGivePrice
  <1> QED
    BY <1>7, <1>8 DEF BatchTimes

\* check_oracle_price: whenever a quorum of approved signers signed within the
\* period, at prices the system can hold, there is a list of their signatures and a
\* price that the program accepts, whatever the other signatures are.
THEOREM QuorumHasPrice == Spec => []QuorumGivesPrice
PROOF
  <1>1. Init => SignedInRange /\ RegistryOfApproved
    BY InitSigned, InitRegistry
  <1>2. SignedInRange /\ RegistryOfApproved /\ [Next]_vars => (SignedInRange /\ RegistryOfApproved)'
    BY NextKeepsSigned, NextKeepsRegistry
  <1>3. SignedInRange /\ RegistryOfApproved => QuorumGivesPrice
    BY QuorumGives
  <1> QED
    BY <1>1, <1>2, <1>3, PTL DEF Spec

=============================================================================
